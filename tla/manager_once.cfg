SPECIFICATION Spec
CONSTANTS
  Threads = {t1, t2, t3}
  Addrs = {a1}
  MaxGen = 2
  ClientRule = "once"
  NoThread = NoThread
  NoInst = NoInst
SYMMETRY Symmetry
INVARIANTS UnreleasedIsRegistered
