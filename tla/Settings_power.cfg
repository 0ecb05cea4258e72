CONSTANTS
  Langs = {"en", "fr"}
  English = "en"
  Translations = {"tr"}
  Sets = {"set"}
  EngineKeys = {"Bias"}
  Bias = "Bias"
  Floor = "0.10"
  Other = "1.00"
  MemoN = 1
  MaxStarts = 1
SPECIFICATION Spec
CHECK_DEADLOCK FALSE
PROPERTIES
  InterruptedWriteKeepsFile
