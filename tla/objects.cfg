SPECIFICATION FairSpec
CONSTANTS
  Threads = {t1, t2}
  Variables = {v1, v2}
  Addrs = {a1, a2, a3}
  Parsers = {p1}
  Null = Null
INVARIANTS TypeOK CountsExact NoDanglingPointer AssignmentKeepsItsSource NothingIsLost
PROPERTIES DestructionEnds
