SPECIFICATION Spec
CONSTANTS
  Blocks = {b1, b2, b3}
  None = None
  Configs <- AllConfigurations
SYMMETRY Interchangeable
INVARIANTS
  DataSurvives
  LevelsRelated
  LinesStay
PROPERTIES
  FlushWritesAll
