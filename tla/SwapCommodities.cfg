SPECIFICATION LegsSpec
CONSTANTS
  RawLegs <- SomeLegs
  Quote <- FourQuotes
  BaseLike = {1, 2}
  NoQuote = 0
  MaxLegs = 4
  Scale = 5040
INVARIANTS SwapsAreOfTwoCommodities
CHECK_DEADLOCK FALSE
