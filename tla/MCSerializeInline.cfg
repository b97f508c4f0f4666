CONSTANTS
  Variants <- MCInline
  Contents <- MCContents
  Calls <- MCCalls
  PassCalls <- MCPassCalls
  CodegenCalls <- MCCodegenCalls
  Cmdline <- MCCmdline
  Libdevice <- MCLibdevice
  Musl <- MCMusl
  Ukernel <- MCUkernel
SPECIFICATION Spec
INVARIANT CustomObjectsLinked
CHECK_DEADLOCK FALSE
