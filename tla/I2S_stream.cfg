CONSTANTS
  CapacityWords = 2
  Sizes = {1, 3, 6, 8}
  MaxBytes = 36
SPECIFICATION FairSpec
INVARIANTS TypeOK DmaHasItsSlot TxInOrder RxInOrder
PROPERTIES FlushDrains WholeWordsLeave
