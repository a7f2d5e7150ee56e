CONSTANTS
  main = main
  worker = worker
  i1 = i1
  i2 = i2
  Nothing = Nothing
  Torn = Torn
  Threads = {main, worker}
  Legacy = {main}
  Slots = {i1, i2}
  MaxRev = 1
SPECIFICATION Spec
SYMMETRY SlotSymmetry
INVARIANT TxTypeOK
INVARIANT ResultIsOwn
PROPERTY CallsAreAtomic
