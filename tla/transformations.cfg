SPECIFICATION TSpec
CONSTANTS
  Components = {"functions", "classes", "globals", "lowering", "linking"}
  EnumPrograms <- MCEnumPrograms
  Inputs <- MCInputs
  Keys = {k1, k2}
  Null = Null
  CallPrograms <- MCCallPrograms
  MaxDepth = 4
  GlobalPrograms <- MCGlobalPrograms
  InitialValue = 0
  Same = Same
  MaxFrames = 5
  Typings <- MCTypings
  Vals = {7}
  Zero = 0
  Undef = Undef
  End = End
  EndOps = {"read", "write", "size", "remove", "insert", "insert_value"}
  CopyNested = FALSE
  MaxSize <- MCMaxSize
  MaxLen <- MCMaxLen
  KeyNames <- MCKeysOf
  Modules <- MCModules
  Registered <- MCRegistered
  DefaultOf <- MCDefaultOf
  NoSelection = NoSelection
  k1 = k1
  k2 = k2
INVARIANTS
  MappingsAreInverse
  TranslatedValues
  KeptOutputs
  FollowedObjects
  LoadsSeeTheGlobal
  LoweredAgrees
  LinkedIsEnough
CHECK_DEADLOCK FALSE
