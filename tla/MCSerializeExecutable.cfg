CONSTANTS
  Variants <- MCVariants
  Contents <- MCContents
  Calls <- MCCalls
  PassCalls <- MCPassCalls
  CodegenCalls <- MCCodegenCalls
  Cmdline <- MCCmdline
  Libdevice <- MCLibdevice
  Musl <- MCMusl
  Ukernel <- MCUkernel
SPECIFICATION Spec
INVARIANTS TypeOK SymbolsRight SelfContained
CHECK_DEADLOCK FALSE
