SPECIFICATION Spec
CONSTANTS
  Threads = {t1, t2, t3}
  Items = {x1, x2}
  Capacity = 2
  Operations = {"enqueue", "enqueue_for", "enqueue_nowait", "dequeue", "dequeue_for"}
  MaxOverruns = 1
  NoItem = NoItem
SYMMETRY Symmetry
INVARIANTS TypeOK NoLostItemWakeup NoLostRoomWakeup
PROPERTIES ImplementsFifo OnlyNowaitOverruns
