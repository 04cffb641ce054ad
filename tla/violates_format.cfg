SPECIFICATION Spec
CONSTANTS
  Configs <- MCConfigs
  Lines = {}
  MaxLines = 0
  ToolCalls <- BadCalls
  MaxCalls = 1
PROPERTIES
  FormatNeverRaises
