SPECIFICATION Spec
CONSTANTS
  Delegates = {d1, d2}
  Tokens = {k1, k2}
  Threads = {t1}
  MaxCallables = 2
  MaxListeners = 4
  MaxObservers = 3
  None = None
SYMMETRY Symmetry
INVARIANTS TypeOK TokenReachesLivingDelegate PublishedIsCurrent TokenOwnsListener
PROPERTIES ImplementsListenerList
CHECK_DEADLOCK FALSE
