SPECIFICATION USpec
CONSTANTS
  Programs <- MCPrograms
  Absent = Absent
  MaxSteps = 14
  LiveOutPrograms <- MCLiveOutPrograms
  VersionAt <- MCVersionAt
  Graphs <- MCGraphs
  Root = "r"
  Element <- MCElement
  Referenced <- MCReferenced
  MaxDepth = 10
  Modules <- MCModules
  MainFunction = "main"
  Passes = 2
  MaxCalls = 7
  Accesses <- MCAccesses
  SizeType <- MCSizeType
  Functions <- MCDeadFunctions
  Mutations <- MCMutations
  Size <- MCSizeOfIds
  LLVMOf <- MCLLVMType
  NullType = "nil"
  CheckedFunctions <- MCCheckedFunctions
  KeyNames = {1, 2}
  KeyValues = {1, 2}
  MaxBlocks = 4
  Primitives <- MCPrimitives
  SelectionNames = {"none", "s1"}
  NoName = "none"
  Lengths = {1, 2}
  FieldTypes <- MCFieldTypes
  MaxMade = 2
  MaxFields = 6
  ReifiedModules <- MCReified
  InitialArg = "v0"
  Own = "own"
  ClosedKeyword = "closed"
  MaxActive = 4
  Calls <- MCCalls
  TypeOfObject <- MCTypeOfObject
  Places = {1, 2}
  MaxAdded = 2
INVARIANTS
  LivenessIsExact
  InPlaceIsSafe
  CallersFindLatest
  TypesAreExact
  InferredFromCallers
  OuterIndicesAreCoerced
  DemandedIsKept
  RewritesAreFaithful
  KnownKeysAreThere
  TypesHold
PROPERTIES
  EverythingEnds
