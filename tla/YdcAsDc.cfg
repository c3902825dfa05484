CONSTANTS
  Numbers <- ThreeNumbers
  MaxTokens = 3
  MaxDigits = 3
SPECIFICATION Spec
CHECK_DEADLOCK FALSE
PROPERTIES
  SameAsDc
