SPECIFICATION FairSpec
CONSTANTS
  Threads = {t1, t2}
  Addrs = {a1, a2}
  MaxGen = 2
  ClientRule = "quiescent"
  NoThread = NoThread
  NoInst = NoInst
INVARIANTS ExecutesOwnInstance
PROPERTIES EveryCallReturns
