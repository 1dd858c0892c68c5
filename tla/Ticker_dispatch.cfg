CONSTANTS
  NumDev = 1
  FirstToken = 42
  Tickers = {t1, t2, t3}
  CbTickers = {t3}
  CbModes = {"repeat"}
  Intervals = {"ok"}
  RawSurvives = {FALSE}
  None = None
SPECIFICATION Spec
INVARIANT ArmedIsDispatched
