CONSTANTS
  Tasks = {t1, t2, t3}
  Objects = {w1, w2}
  Addresses = {a1, a2}
  BadAddress = BadAddress
  BuffLen = 2
  Sizes = {0, 1, 2}
  MaxAsked = 3
  None = None
SPECIFICATION Spec
INVARIANTS SendsWhatWasAsked ReadsCarryOwnCommand
