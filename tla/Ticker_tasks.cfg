CONSTANTS
  NumDev = 1
  FirstToken = 42
  Tickers = {t1, t2, t3}
  CbTickers = {t3}
  CbModes = {"repeat"}
  Intervals = {"zero", "ok", "long"}
  RawSurvives = {TRUE, FALSE}
  None = None
SPECIFICATION FairSpec
INVARIANTS NoStaleCallback ArmedUntilFired
PROPERTIES OnceFiresOnce FiresWhenDue RepeatKeepsFiring
CHECK_DEADLOCK FALSE
