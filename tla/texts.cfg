CONSTANTS
  MaxPages = 3
  MaxItems = 2
  MimeMaxDepth = 2
  MimeMaxParts = 4
  BodyInlineBytes = 3
  NormalizedTextLimit = 5
  MaxExpansion = 8
  SelectionDepth = 3
  SelectionWidth = 2
  InputDepth = 8
  MessageDepth = 8
  MaxArrayIndex = 1
INIT TextsInit
NEXT TextsNext
CHECK_DEADLOCK FALSE
INVARIANTS
  McpTexts
  AccessTexts
  AdapterTexts
