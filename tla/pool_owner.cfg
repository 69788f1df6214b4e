SPECIFICATION Spec
CONSTANTS
  Threads = {t1, t2, t3}
  Addrs = {a1, a2, a3, a4}
  Sizes = {2, 3, 4}
  Ratios = {0, 192, 256}
  NoAddr = NoAddr
SYMMETRY Symmetry
INVARIANTS TypeOK OneOwner LargeEnough CleanExit FootprintIsPeakUse
PROPERTIES ImplementsStore
CHECK_DEADLOCK FALSE
