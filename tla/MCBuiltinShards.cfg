CONSTANTS
  Names <- NamesValue
  Shards <- ShardsValue
  NumTargetShards = 4
  First <- FirstValue
  NoBuiltinFuncs <- NoBuiltinFuncsValue
SPECIFICATION Spec
INVARIANTS
  TypeOK
  LookupCorrect
  ScanEnds
  NamesAgree
  NoBuiltinHonoured
