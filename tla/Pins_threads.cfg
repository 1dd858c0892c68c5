CONSTANTS
  Pins = {p1, p2, p3}
  IrqPins = {p1}
  NumFuncs = 2
  Threads = {t1, t2}
  NoPin = NoPin
  NoThread = NoThread
  Resv0 = Resv0
SPECIFICATION Spec
SYMMETRY PinSymmetry
INVARIANTS TableMatchesMux CallsReachPin InterruptsStayWithPin
PROPERTIES LastUsedKeepsFunc
