SPECIFICATION Spec
CONSTANTS
  YYMAXDEPTH = 17
  Texts <- SomeTexts
  Limits <- SmallLimits
INVARIANT TypeOK
INVARIANT ParsesTheGrammar
INVARIANT SaysWhatWasTyped
CHECK_DEADLOCK FALSE
