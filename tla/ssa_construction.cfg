SPECIFICATION XSpec
CONSTANTS
  Names <- MCNames
  Absent = Absent
  UsePhis = FALSE
  Programs <- MCPrograms
  MaxSteps = 12
  Suite = "construction"
INVARIANTS
  TypeOK
  OperandsKeepTheirNames
  OperandsAreDefined
  LiveOutsNameTheirArgument
  ReadsSeeLatest
  CallersSeeLatest
PROPERTIES
  RenamedOnce
  Terminates
