CONSTANTS
  NumDev = 1
  FirstToken = 42
  Pins = {7, 8}
  Tickers = {t1}
  QueueLen = 2
  MaxCalls = 4
  None = None
SPECIFICATION ToneSpec
INVARIANTS HolderSounds TickerKeepsChannel
PROPERTY LastCallWins
CHECK_DEADLOCK FALSE
