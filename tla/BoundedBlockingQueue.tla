------------------------ MODULE BoundedBlockingQueue ------------------------
(***************************************************************************)
(* bounded_blocking_queue<T>: threads enqueue and dequeue through one      *)
(* mutex and two condition variables, push_cv_ for the consumers and       *)
(* pop_cv_ for the producers.  A critical section never blocks while it    *)
(* holds the mutex (a wait gives it up), so it is one action; notify_one   *)
(* comes after the mutex is released, so it is an action of its own.       *)
(***************************************************************************)
EXTENDS CircularQueue, FiniteSets

CONSTANTS Threads,      (* callers; each may produce and consume            *)
          Items,        (* what is enqueued                                 *)
          Capacity,     (* max_size                                         *)
          Operations,   (* the member functions the callers use             *)
          MaxOverruns,  (* bound: items displaced by enqueue_nowait         *)
          NoItem        (* a default-constructed T                          *)

Blocking == {"enqueue", "enqueue_for"}
Enqueues == Blocking \cup {"enqueue_nowait"}
Dequeues == {"dequeue", "dequeue_for"}
Timed    == {"enqueue_for", "dequeue_for"}

ASSUME BlockingQueueAssumption ==
  /\ IsFiniteSet(Threads)
  /\ Capacity \in Nat
  /\ MaxOverruns \in Nat
  /\ Operations \subseteq Enqueues \cup Dequeues
  /\ NoItem \notin Items

VARIABLES queue,     (* queue_                                              *)
          op,        (* the member function each thread is in               *)
          state,     (* how far the call is                                 *)
          item       (* what the caller hands over, or what it popped       *)

vars == <<queue, op, state, item>>

(* "lock": about to take the mutex; "woken": the same after a notify_one;  *)
(* "late": the same after the wait timed out; "waiting": on the condition  *)
(* variable of its operation; "notify": done, the mutex released.          *)
States == {"idle", "lock", "waiting", "woken", "late", "notify"}

TypeOK ==
  /\ queue \in Rings(Capacity, Items \cup {NoItem})
  /\ op \in [Threads -> Enqueues \cup Dequeues \cup {"none"}]
  /\ state \in [Threads -> States]
  /\ item \in [Threads -> Items \cup {NoItem}]

Init ==
  /\ queue = NewQueue(Capacity, NoItem)
  /\ op = [t \in Threads |-> "none"]
  /\ state = [t \in Threads |-> "idle"]
  /\ item = [t \in Threads |-> NoItem]
-----------------------------------------------------------------------------
Goto(t, s) == state' = [state EXCEPT ![t] = s]

Finish(t) == /\ op' = [op EXCEPT ![t] = "none"]
             /\ item' = [item EXCEPT ![t] = NoItem]

(* Inside the mutex, wherever the thread comes from.                       *)
Locked(t, ops) == op[t] \in ops /\ state[t] \in {"lock", "woken", "late"}

Waiters(ops) == {t \in Threads : op[t] \in ops /\ state[t] = "waiting"}

(* A caller enters a member function; the bound on the overruns counts the *)
(* calls under way.                                                        *)
Call(t, o, x) ==
  /\ state[t] = "idle"
  /\ o = "enqueue_nowait" =>
       queue.overruns + Cardinality({u \in Threads : op[u] = o /\ state[u] = "lock"})
         < MaxOverruns
  /\ op' = [op EXCEPT ![t] = o]
  /\ item' = [item EXCEPT ![t] = x]
  /\ Goto(t, "lock")
  /\ UNCHANGED queue

(* The argument is moved into the ring.                                    *)
Push(t) == /\ queue' = PushBack(queue, item[t])
           /\ item' = [item EXCEPT ![t] = NoItem]

(* The front is moved out of the ring, then its slot is given up.          *)
Pop(t) == /\ item' = [item EXCEPT ![t] = Front(queue)]
          /\ queue' = PopFront([queue EXCEPT !.vec[queue.head] = NoItem])

(* Fault: notifies on the change from empty only.                          *)
EnqueueNotifiesOnce(t) ==
  /\ Locked(t, Blocking)
  /\ ~Full(queue)
  /\ queue' = PushBack(queue, item[t])
  /\ \/ /\ Empty(queue)
        /\ Goto(t, "notify")
        /\ item' = [item EXCEPT ![t] = NoItem]
        /\ UNCHANGED op
     \/ /\ ~Empty(queue)
        /\ Goto(t, "idle")
        /\ Finish(t)

(* Fault: the predicate is not tested again after a notification.          *)
EnqueueWithoutRecheck(t) ==
  /\ Locked(t, Blocking)
  /\ Full(queue) => state[t] = "woken"
  /\ Push(t)
  /\ Goto(t, "notify")
  /\ UNCHANGED op

(* enqueue, enqueue_for: there is room.                                    *)
Enqueue(t) ==
  /\ Locked(t, Blocking)
  /\ ~Full(queue)
  /\ Push(t)
  /\ Goto(t, "notify")
  /\ UNCHANGED op

EnqueueWaits(t) ==
  /\ Locked(t, Blocking)
  /\ Full(queue)
  /\ state[t] # "late"
  /\ Goto(t, "waiting")
  /\ UNCHANGED <<queue, op, item>>

(* enqueue_for answers false: still no room when the time is up.           *)
EnqueueGivesUp(t) ==
  /\ Locked(t, Blocking)
  /\ Full(queue)
  /\ state[t] = "late"
  /\ Goto(t, "idle")
  /\ Finish(t)
  /\ UNCHANGED queue

EnqueueNowait(t) ==
  /\ Locked(t, {"enqueue_nowait"})
  /\ Push(t)
  /\ Goto(t, "notify")
  /\ UNCHANGED op

(* Fault: dequeue_for does not notify the producers.                       *)
DequeueForIsSilent(t) ==
  /\ Locked(t, Dequeues)
  /\ ~Empty(queue)
  /\ \/ /\ op[t] = "dequeue"
        /\ Pop(t)
        /\ Goto(t, "notify")
        /\ UNCHANGED op
     \/ /\ op[t] = "dequeue_for"
        /\ queue' = PopFront(queue)
        /\ Goto(t, "idle")
        /\ Finish(t)

(* dequeue, dequeue_for: there is an item.                                 *)
Dequeue(t) ==
  /\ Locked(t, Dequeues)
  /\ ~Empty(queue)
  /\ Pop(t)
  /\ Goto(t, "notify")
  /\ UNCHANGED op

DequeueWaits(t) ==
  /\ Locked(t, Dequeues)
  /\ Empty(queue)
  /\ state[t] # "late"
  /\ Goto(t, "waiting")
  /\ UNCHANGED <<queue, op, item>>

(* dequeue_for answers false: still no item when the time is up.           *)
DequeueGivesUp(t) ==
  /\ Locked(t, Dequeues)
  /\ Empty(queue)
  /\ state[t] = "late"
  /\ Goto(t, "idle")
  /\ Finish(t)
  /\ UNCHANGED queue

(* The waiters on the condition variable that a finished call notifies.    *)
Listeners(t) == IF op[t] \in Enqueues THEN Waiters(Dequeues) ELSE Waiters(Blocking)

(* Fault: producers and consumers share one condition variable.            *)
NotifySharedCv(t) ==
  LET Anyone == Waiters(Dequeues \cup Blocking)
  IN /\ state[t] = "notify"
     /\ \/ /\ Anyone = {}
           /\ Goto(t, "idle")
        \/ \E w \in Anyone : state' = [state EXCEPT ![t] = "idle", ![w] = "woken"]
     /\ Finish(t)
     /\ UNCHANGED queue

(* Fault: the notification is forgotten.                                   *)
NotifyNobody(t) ==
  /\ state[t] = "notify"
  /\ Goto(t, "idle")
  /\ Finish(t)
  /\ UNCHANGED queue

(* notify_one wakes any one waiter, none if nobody waits; the call returns.*)
NotifyOne(t) ==
  /\ state[t] = "notify"
  /\ \/ /\ Listeners(t) = {}
        /\ Goto(t, "idle")
     \/ \E w \in Listeners(t) :
          state' = [state EXCEPT ![t] = "idle", ![w] = "woken"]
  /\ Finish(t)
  /\ UNCHANGED queue

(* wait_for returns on the clock; the predicate is tested once more.       *)
Timeout(t) ==
  /\ state[t] = "waiting"
  /\ op[t] \in Timed
  /\ Goto(t, "late")
  /\ UNCHANGED <<queue, op, item>>

(* A condition variable may return without any notification.               *)
SpuriousWakeup(t) ==
  /\ state[t] = "waiting"
  /\ Goto(t, "lock")
  /\ UNCHANGED <<queue, op, item>>
-----------------------------------------------------------------------------
Step(t) ==
  \/ Enqueue(t) \/ EnqueueWaits(t) \/ EnqueueGivesUp(t) \/ EnqueueNowait(t)
  \/ Dequeue(t) \/ DequeueWaits(t) \/ DequeueGivesUp(t)
  \/ NotifyOne(t)

Environment(t) ==
  \/ \E o \in Operations \cap Enqueues, x \in Items : Call(t, o, x)
  \/ \E o \in Operations \cap Dequeues : Call(t, o, NoItem)
  \/ Timeout(t)
  \/ SpuriousWakeup(t)

Next == \E t \in Threads : Step(t) \/ Environment(t)

Spec == Init /\ [][Next]_vars

(* Threads that can run do run; nobody has to call, no clock to expire and *)
(* no wait to return by itself.                                            *)
FairSpec == Spec /\ \A t \in Threads : WF_vars(Step(t))
-----------------------------------------------------------------------------
(* Properties.                                                             *)

(* A wake-up is under way: a finished call of the other side that has yet  *)
(* to notify, or a notified thread that has yet to look at the queue.      *)
WakingConsumers ==
  {t \in Threads : \/ op[t] \in Enqueues /\ state[t] = "notify"
                   \/ op[t] \in Dequeues /\ state[t] = "woken"}
WakingProducers ==
  {t \in Threads : \/ op[t] \in Dequeues /\ state[t] = "notify"
                   \/ op[t] \in Blocking /\ state[t] = "woken"}

(* While a consumer waits, every stored item has its own wake-up under     *)
(* way, whatever times out, overruns or wakes spuriously meanwhile.        *)
NoLostItemWakeup ==
  Waiters(Dequeues) # {} => Size(queue) <= Cardinality(WakingConsumers)

(* While a producer waits, so has every free slot.                         *)
NoLostRoomWakeup ==
  Waiters(Blocking) # {} => Capacity - Size(queue) <= Cardinality(WakingProducers)

(* With room for an item at least, whenever a producer and a consumer both *)
(* sleep some other thread in a call is awake.                             *)
NoStandoff ==
  Capacity > 0 /\ Waiters(Blocking) # {} /\ Waiters(Dequeues) # {} =>
    \E t \in Threads : state[t] \notin {"idle", "waiting"}

(* Only enqueue_nowait makes room by discarding: what a blocking producer  *)
(* hands over never displaces an item.                                     *)
OnlyNowaitOverruns ==
  [][queue'.overruns # queue.overruns =>
       \E t \in Threads : op[t] = "enqueue_nowait" /\ state[t] = "lock" /\ state'[t] = "notify"]_vars

(* A consumer does not sleep for ever while the queue has items: it wakes, *)
(* or others empty the queue.  (It may be overtaken any number of times.)  *)
ConsumersAreServed ==
  \A t \in Threads :
    t \in Waiters(Dequeues) /\ ~Empty(queue) ~> t \notin Waiters(Dequeues) \/ Empty(queue)

(* A producer does not sleep for ever while the queue has room: it wakes,  *)
(* or others fill the queue.                                               *)
ProducersAreServed ==
  \A t \in Threads :
    t \in Waiters(Blocking) /\ ~Full(queue) ~> t \notin Waiters(Blocking) \/ Full(queue)

(* The queue implements the bounded FIFO: order, capacity, no loss and no  *)
(* duplication, every overrun counted.                                     *)
Fifo == INSTANCE BoundedFifo WITH
  Readers  <- Threads,
  fifo     <- Contents(queue),
  lost     <- queue.overruns,
  received <- [t \in Threads |->
                IF op[t] \in Dequeues /\ state[t] = "notify" THEN item[t] ELSE NoItem]

ImplementsFifo == Fifo!Spec
=============================================================================
