SPECIFICATION Spec
CONSTANTS
  Threads = {t1, t2}
  Addrs = {a1, a2}
  MaxGen = 2
  ClientRule = "any"
  NoThread = NoThread
  NoInst = NoInst
SYMMETRY Symmetry
INVARIANTS TypeOK NoDanglingReference RefCountExact
PROPERTIES NoOverwrite ImplementsRegistry
