SPECIFICATION FairSpec
CONSTANTS
  Threads = {t1, t2, t3}
  Items = {x1}
  Capacity = 1
  Operations = {"enqueue", "enqueue_for", "enqueue_nowait", "dequeue", "dequeue_for"}
  MaxOverruns = 1
  NoItem = NoItem
INVARIANTS NoStandoff
PROPERTIES ConsumersAreServed ProducersAreServed
