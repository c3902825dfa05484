CONSTANTS
  Numbers <- SomeNumbers
  MaxTokens = 5
  MaxDigits = 3
SPECIFICATION FairSpec
CHECK_DEADLOCK FALSE
INVARIANTS
  TypeOK
  DigitsAddUp
  ProductKept
  NeverRefused
PROPERTIES
  Arithmetic
  LoopsEnd
