SPECIFICATION Spec
CONSTANTS
  NChn = 2
  Users <- MCUsers
  Tasks = {t1, t2}
  Ai = t1
  Ui = t2
  Blocks = {b1, b2}
  FlashChn <- MCFlashChn
  Kinds <- MCKinds
INVARIANTS ChannelsMatchHolders DeliveredFrame HeapAccounted PanelWidth
PROPERTY WaitsEnd
CHECK_DEADLOCK FALSE
