\* Texts to nine characters in parts of three; carts of two lines; three products.
SPECIFICATION MCSpec
CONSTANTS
  Text <- Texts
  Limit = 3
  Fraction = 10
  Whole = 20
  Value <- MCValue
  Words <- MCWords
  Within <- MCWithin
  MaxResults = 2
CHECK_DEADLOCK FALSE
INVARIANTS
  TypeOK
  PartsWhole
  VerdictsTrue
  RoundingBounded
  NoneOvertaken
PROPERTIES
  MoreNeverCostsLess
