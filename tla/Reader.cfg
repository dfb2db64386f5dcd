\* All short texts.  The eighth part of the number of words is no power of two, so
\* that the edge of the fixnums, -111 to 110, lies at a numeral of ones.
SPECIFICATION Spec
CONSTANTS
  Eighth = 111
  CodePoints <- MCCodePoints
  Texts <- MCTexts
INVARIANTS
  TypeOK
  TokensCoverText
  FormsAreTheTokens
  BalancedIsParsed
  WrittenIsRead
PROPERTY Ends
CHECK_DEADLOCK FALSE
