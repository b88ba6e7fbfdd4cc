SPECIFICATION XSpec
CONSTANTS
  Names <- MCNames
  Absent = Absent
  UsePhis = FALSE
  Programs <- MCPrograms
  MaxSteps = 12
  Suite = "loop mutation"
INVARIANTS
  MutatedArgumentsStayMutated
