SPECIFICATION RSpec
CONSTANTS
  Names <- MCNames
  Absent = Absent
  UsePhis = TRUE
  Programs <- MCPrograms
  MaxRun = 12
  Suite = "round trip"
INVARIANTS
  LowerTypeOK
  LowKeepsNames
  NothingDangles
  NoVersionIsLeft
  RoundTrip
PROPERTIES
  LoweringEnds
