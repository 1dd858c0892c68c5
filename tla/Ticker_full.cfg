CONSTANTS
  NumDev = 1
  FirstToken = 42
  Tickers = {t1, t2, t3, t4, t5}
  CbTickers = {}
  CbModes = {}
  Intervals = {"ok"}
  RawSurvives = {FALSE}
  None = None
SPECIFICATION Spec
SYMMETRY TickerSymmetry
INVARIANTS TableMatchesOwners
