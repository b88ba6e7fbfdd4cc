SPECIFICATION Spec
CONSTANTS
  Keys = {0, 1, 2, 5}
  Vals = {0, 7}
  Zero = 0
  ChunkSize = 2
PROPERTIES
  FoldsSeeKeys
