SPECIFICATION CSpec
CONSTANTS
  Keys = {0, 1, 4}
  Vals = {0, 7}
  Zero = 0
  ChunkSize = 2
  SetKeys = {0, 2}
  Sets = {s1, s2}
  MaxLen = 3
  IndexWord = 8
  LibraryKeys = {0, 3}
  RoaringKeys = 4
  Items = {a, b, c}
  None = None
  Word = 4
INVARIANTS
  RepresentationsAreOK
PROPERTIES
  IsAMap
  TwinedIsAMap
  SparseIsAMapButFolds
  BitSetIsASet
  LibraryContainersAgree
  VectorSeesElementsOnce
  IsAPartition
