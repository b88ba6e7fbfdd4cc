SPECIFICATION Spec
CONSTANTS
  Vals = {0, 1}
  MaxLen = 3
  Word = 8
PROPERTIES
  BooleansAreFolded
