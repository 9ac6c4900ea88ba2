CONSTANTS
  Names <- MCNames
  Providers <- MCProviders
  Model <- MCModel
  Local <- MCLocal
  NoProvider = none
  MayFail = TRUE
  Exclusive = FALSE
  MaxCalls = 1
SPECIFICATION Spec
CHECK_DEADLOCK FALSE
INVARIANTS
  IInv
  TreeIsUnion
  
  CompactCopyIsTree
  MembersFit
  ValuesKeepTheirMemory
  NamesResolve

  
