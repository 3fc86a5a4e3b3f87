SPECIFICATION Spec
CONSTANTS
  Threads = {t1, t2, t3}
  Values = {v1, v2}
  t1 = t1
  t2 = t2
  t3 = t3
  v1 = v1
  v2 = v2
  nullptr = nullptr
  Sizes = {0, 1, 2, 3, 4}
  MaxLength = 3
  MaxServices = 2
SYMMETRY Symmetry
INVARIANTS TypeOK LocksHeld RaceFree ReadIsFresh
PROPERTY ImplementsAtomic
