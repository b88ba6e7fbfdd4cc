SPECIFICATION RSpec
CONSTANTS
  Names <- MCNames
  Absent = Absent
  UsePhis = FALSE
  Programs <- MCPrograms
  MaxRun = 12
  Suite = "both sides"
INVARIANTS
  RetPhisAreTold
