--------------------- MODULE BoundedBlockingQueueProofs ---------------------
(***************************************************************************)
(* The blocking queue for any threads, items and capacity.  The inductive  *)
(* invariant counts: while a consumer waits, the wake-ups under way cover  *)
(* the stored items, and while a producer waits they cover the free slots. *)
(* Each action is shown to keep each of the two inequalities by following  *)
(* what it adds to and takes from the queue and from the set of wake-ups.  *)
(***************************************************************************)
EXTENDS BoundedBlockingQueue, CircularQueueProofs, FiniteSetTheorems

(* What a thread carries at each point of its call.                        *)
FramesOK ==
  \A t \in Threads :
    /\ state[t] = "idle" <=> op[t] = "none"
    /\ op[t] = "enqueue_nowait" => state[t] \in {"lock", "notify"}
    /\ op[t] \in Enqueues /\ state[t] # "notify" => item[t] \in Items
    /\ op[t] \in Dequeues /\ state[t] # "notify" => item[t] = NoItem

IInv == TypeOK /\ FramesOK /\ NoLostItemWakeup /\ NoLostRoomWakeup

Values == Items \cup {NoItem}
-----------------------------------------------------------------------------
(* Cardinalities of sets of threads.                                       *)

LEMMA ThreadSets ==
  ASSUME NEW S, S \subseteq Threads
  PROVE  IsFiniteSet(S) /\ Cardinality(S) \in Nat
  BY BlockingQueueAssumption, FS_Subset, FS_CardinalityType

LEMMA OneMore ==
  ASSUME NEW S, S \subseteq Threads, NEW t \in Threads, t \notin S
  PROVE  Cardinality(S \cup {t}) = Cardinality(S) + 1
  BY ThreadSets, FS_AddElement

LEMMA OneLess ==
  ASSUME NEW S, S \subseteq Threads, NEW t \in Threads
  PROVE  Cardinality(S \ {t}) >= Cardinality(S) - 1
  <1>1. IsFiniteSet(S) /\ Cardinality(S) \in Nat
    BY ThreadSets
  <1>2. CASE t \in S
    <2>1. Cardinality(S \ {t}) = Cardinality(S) - 1
      BY <1>1, <1>2, FS_RemoveElement
    <2> QED BY <1>1, <2>1
  <1>3. CASE t \notin S
    <2>1. S \ {t} = S
      BY <1>3
    <2> QED BY <1>1, <2>1
  <1> QED BY <1>2, <1>3

LEMMA Exchange ==
  ASSUME NEW S, S \subseteq Threads, NEW t \in S, NEW w \in Threads, w \notin S
  PROVE  Cardinality((S \ {t}) \cup {w}) = Cardinality(S)
  <1>1. IsFiniteSet(S) /\ Cardinality(S) \in Nat
    BY ThreadSets
  <1>2. IsFiniteSet(S \ {t}) /\ Cardinality(S \ {t}) = Cardinality(S) - 1
    BY <1>1, FS_RemoveElement
  <1>3. Cardinality((S \ {t}) \cup {w}) = Cardinality(S \ {t}) + 1
    BY <1>2, FS_AddElement
  <1> QED BY <1>1, <1>2, <1>3

LEMMA WakingSets ==
  /\ Cardinality(WakingConsumers) \in Nat
  /\ Cardinality(WakingProducers) \in Nat
  /\ WakingConsumers \subseteq Threads
  /\ WakingProducers \subseteq Threads
  <1>1. WakingConsumers \subseteq Threads /\ WakingProducers \subseteq Threads
    BY DEF WakingConsumers, WakingProducers
  <1> QED BY <1>1, ThreadSets

LEMMA QueueFacts ==
  ASSUME TypeOK
  PROVE  /\ queue \in Rings(Capacity, Values)
         /\ Capacity \in Nat
         /\ Size(queue) \in 0..Capacity
         /\ Empty(queue) <=> Size(queue) = 0
         /\ Full(queue) <=> Size(queue) = Capacity
  BY BlockingQueueAssumption, SizeBounds DEF TypeOK, Values
-----------------------------------------------------------------------------
(* The initial state.                                                      *)

LEMMA InitInvariant == Init => IInv
  <1> SUFFICES ASSUME Init PROVE IInv
    OBVIOUS
  <1>1. queue \in Rings(Capacity, Values)
    BY BlockingQueueAssumption, NewQueueIsRing DEF Init, Values
  <1>2. TypeOK
    BY <1>1 DEF Init, TypeOK, States, Values
  <1>3. FramesOK
    BY DEF Init, FramesOK, Enqueues, Blocking, Dequeues
  <1>4. Waiters(Dequeues) = {} /\ Waiters(Blocking) = {}
    BY DEF Init, Waiters
  <1>5. NoLostItemWakeup /\ NoLostRoomWakeup
    BY <1>4 DEF NoLostItemWakeup, NoLostRoomWakeup
  <1> QED BY <1>2, <1>3, <1>5 DEF IInv
-----------------------------------------------------------------------------
(* A thread that neither waits, nor notifies, nor was woken moves on       *)
(* without touching the queue, or stops waiting: both counts stay.         *)
LEMMA QuietStep ==
  ASSUME NoLostItemWakeup, NoLostRoomWakeup, UNCHANGED queue,
         WakingConsumers' = WakingConsumers, WakingProducers' = WakingProducers,
         Waiters(Dequeues)' \subseteq Waiters(Dequeues),
         Waiters(Blocking)' \subseteq Waiters(Blocking)
  PROVE  NoLostItemWakeup' /\ NoLostRoomWakeup'
  <1>1. Size(queue)' = Size(queue)
    BY DEF Size
  <1>2. Waiters(Dequeues)' # {} => Waiters(Dequeues) # {}
    OBVIOUS
  <1>3. Waiters(Blocking)' # {} => Waiters(Blocking) # {}
    OBVIOUS
  <1>4. NoLostItemWakeup'
    BY <1>1, <1>2 DEF NoLostItemWakeup
  <1>5. NoLostRoomWakeup'
    BY <1>1, <1>3 DEF NoLostRoomWakeup
  <1> QED BY <1>4, <1>5

LEMMA QuietActions ==
  ASSUME IInv, NEW t \in Threads,
         \/ \E o \in Operations \cap Enqueues, x \in Items : Call(t, o, x)
         \/ \E o \in Operations \cap Dequeues : Call(t, o, NoItem)
         \/ EnqueueGivesUp(t) \/ DequeueGivesUp(t)
         \/ Timeout(t) \/ SpuriousWakeup(t)
  PROVE  IInv'
  <1>1. TypeOK /\ FramesOK /\ NoLostItemWakeup /\ NoLostRoomWakeup
    BY DEF IInv
  <1>2. /\ op \in [Threads -> Enqueues \cup Dequeues \cup {"none"}]
        /\ state \in [Threads -> States]
        /\ item \in [Threads -> Items \cup {NoItem}]
    BY <1>1 DEF TypeOK
  <1>3. /\ UNCHANGED queue
        /\ \/ /\ state[t] = "idle"
              /\ state' = [state EXCEPT ![t] = "lock"]
              /\ \E o \in Enqueues \cup Dequeues, x \in Items \cup {NoItem} :
                   /\ op' = [op EXCEPT ![t] = o]
                   /\ item' = [item EXCEPT ![t] = x]
                   /\ o \in Enqueues => x \in Items
                   /\ o \in Dequeues => x = NoItem
           \/ /\ state[t] = "late"
              /\ state' = [state EXCEPT ![t] = "idle"]
              /\ op' = [op EXCEPT ![t] = "none"]
              /\ item' = [item EXCEPT ![t] = NoItem]
           \/ /\ state[t] = "waiting"
              /\ \/ state' = [state EXCEPT ![t] = "late"]
                 \/ state' = [state EXCEPT ![t] = "lock"]
              /\ UNCHANGED <<op, item>>
    BY DEF Call, EnqueueGivesUp, DequeueGivesUp, Timeout, SpuriousWakeup, Goto, Finish,
           Enqueues, Dequeues, Blocking
  <1>4. TypeOK'
    BY <1>1, <1>2, <1>3 DEF TypeOK, States
  <1>5. FramesOK'
    BY <1>1, <1>2, <1>3 DEF FramesOK, Enqueues, Dequeues, Blocking, States
  <1>6. /\ WakingConsumers' = WakingConsumers
        /\ WakingProducers' = WakingProducers
    BY <1>2, <1>3 DEF WakingConsumers, WakingProducers
  <1>7. /\ Waiters(Dequeues)' \subseteq Waiters(Dequeues)
        /\ Waiters(Blocking)' \subseteq Waiters(Blocking)
    BY <1>2, <1>3 DEF Waiters
  <1>8. NoLostItemWakeup' /\ NoLostRoomWakeup'
    BY <1>1, <1>3, <1>6, <1>7, QuietStep
  <1> QED BY <1>4, <1>5, <1>8 DEF IInv
-----------------------------------------------------------------------------
(* Storing an item brings a wake-up for a consumer and uses up at most one *)
(* wake-up of a producer.                                                  *)
LEMMA PushInvariant ==
  ASSUME IInv, NEW t \in Threads, Enqueue(t) \/ EnqueueNowait(t)
  PROVE  IInv'
  <1>1. TypeOK /\ FramesOK /\ NoLostItemWakeup /\ NoLostRoomWakeup
    BY DEF IInv
  <1>2. /\ op \in [Threads -> Enqueues \cup Dequeues \cup {"none"}]
        /\ state \in [Threads -> States]
        /\ item \in [Threads -> Items \cup {NoItem}]
    BY <1>1 DEF TypeOK
  <1>3. /\ op[t] \in Enqueues
        /\ state[t] \in {"lock", "woken", "late"}
        /\ op[t] = "enqueue_nowait" => state[t] = "lock"
        /\ queue' = PushBack(queue, item[t])
        /\ item' = [item EXCEPT ![t] = NoItem]
        /\ state' = [state EXCEPT ![t] = "notify"]
        /\ UNCHANGED op
        /\ op[t] \in Blocking => ~Full(queue)
    BY <1>1 DEF Enqueue, EnqueueNowait, Push, Goto, Locked, Enqueues, Blocking, FramesOK
  <1>4. item[t] \in Items
    BY <1>1, <1>3 DEF FramesOK
  <1>5. /\ queue' \in Rings(Capacity, Values)
        /\ Size(queue') = IF Full(queue) THEN Size(queue) ELSE Size(queue) + 1
        /\ Size(queue) \in 0..Capacity
        /\ Full(queue) <=> Size(queue) = Capacity
    BY <1>1, <1>3, <1>4, QueueFacts, PushIsRing DEF Values
  <1>6. TypeOK'
    BY <1>1, <1>2, <1>3, <1>5 DEF TypeOK, Values, States
  <1>7. FramesOK'
    BY <1>1, <1>2, <1>3 DEF FramesOK, Enqueues, Dequeues, Blocking
  <1>8. /\ Waiters(Dequeues)' = Waiters(Dequeues)
        /\ Waiters(Blocking)' = Waiters(Blocking)
    BY <1>2, <1>3 DEF Waiters
  <1>9. t \notin WakingConsumers /\ WakingConsumers' = WakingConsumers \cup {t}
    BY <1>2, <1>3 DEF WakingConsumers, Enqueues, Blocking, Dequeues
  <1>10. \/ op[t] = "enqueue_nowait" /\ WakingProducers' = WakingProducers
         \/ op[t] \in Blocking /\ WakingProducers' = WakingProducers \ {t}
    BY <1>2, <1>3 DEF WakingProducers, Enqueues, Blocking, Dequeues
  <1>11. /\ Cardinality(WakingConsumers)' = Cardinality(WakingConsumers) + 1
         /\ \/ Cardinality(WakingProducers)' = Cardinality(WakingProducers)
            \/ /\ Cardinality(WakingProducers)' >= Cardinality(WakingProducers) - 1
               /\ ~Full(queue)
    BY <1>3, <1>9, <1>10, WakingSets, OneMore, OneLess
  <1>12. /\ Cardinality(WakingConsumers) \in Nat /\ Cardinality(WakingProducers) \in Nat
         /\ Cardinality(WakingProducers)' \in Nat
    BY <1>10, WakingSets, ThreadSets
  <1>13. Capacity \in Nat
    BY BlockingQueueAssumption
  <1>14. NoLostItemWakeup'
    BY <1>1, <1>5, <1>8, <1>11, <1>12 DEF NoLostItemWakeup
  <1>15. NoLostRoomWakeup'
    BY <1>1, <1>5, <1>8, <1>11, <1>12, <1>13 DEF NoLostRoomWakeup
  <1> QED BY <1>6, <1>7, <1>14, <1>15 DEF IInv

(* Taking an item brings a wake-up for a producer and uses up at most one  *)
(* wake-up of a consumer.                                                  *)
LEMMA PopInvariant ==
  ASSUME IInv, NEW t \in Threads, Dequeue(t)
  PROVE  IInv'
  <1>1. TypeOK /\ FramesOK /\ NoLostItemWakeup /\ NoLostRoomWakeup
    BY DEF IInv
  <1>2. /\ op \in [Threads -> Enqueues \cup Dequeues \cup {"none"}]
        /\ state \in [Threads -> States]
        /\ item \in [Threads -> Items \cup {NoItem}]
    BY <1>1 DEF TypeOK
  <1> DEFINE moved == [queue EXCEPT !.vec[queue.head] = NoItem]
  <1>3. /\ op[t] \in Dequeues
        /\ state[t] \in {"lock", "woken", "late"}
        /\ ~Empty(queue)
        /\ item' = [item EXCEPT ![t] = Front(queue)]
        /\ queue' = PopFront(moved)
        /\ state' = [state EXCEPT ![t] = "notify"]
        /\ UNCHANGED op
    BY DEF Dequeue, Pop, Goto, Locked
  <1>4. /\ queue \in Rings(Capacity, Values) /\ Capacity \in Nat
        /\ Size(queue) \in 0..Capacity
        /\ Empty(queue) <=> Size(queue) = 0
    BY <1>1, QueueFacts
  <1>5. moved \in Rings(Capacity, Values) /\ Size(moved) = Size(queue) /\ ~Empty(moved)
    BY <1>3, <1>4, MovedFrontIsRing DEF Values
  <1> HIDE DEF moved
  <1>6. queue' \in Rings(Capacity, Values) /\ Size(queue') = Size(queue) - 1
    BY <1>3, <1>4, <1>5, PopIsRing
  <1>7. Front(queue) \in Values
    BY <1>3, <1>4, PopIsRing
  <1>8. TypeOK'
    BY <1>1, <1>2, <1>3, <1>6, <1>7 DEF TypeOK, Values, States
  <1>9. FramesOK'
    BY <1>1, <1>2, <1>3 DEF FramesOK, Enqueues, Dequeues, Blocking
  <1>10. /\ Waiters(Dequeues)' = Waiters(Dequeues)
         /\ Waiters(Blocking)' = Waiters(Blocking)
    BY <1>2, <1>3 DEF Waiters
  <1>11. t \notin WakingProducers /\ WakingProducers' = WakingProducers \cup {t}
    BY <1>2, <1>3 DEF WakingProducers, Blocking, Dequeues
  <1>12. WakingConsumers' = WakingConsumers \ {t}
    BY <1>2, <1>3 DEF WakingConsumers, Enqueues, Blocking, Dequeues
  <1>13. /\ Cardinality(WakingProducers)' = Cardinality(WakingProducers) + 1
         /\ Cardinality(WakingConsumers)' >= Cardinality(WakingConsumers) - 1
    BY <1>11, <1>12, WakingSets, OneMore, OneLess
  <1>14. /\ Cardinality(WakingConsumers) \in Nat /\ Cardinality(WakingProducers) \in Nat
         /\ Cardinality(WakingConsumers)' \in Nat
    BY <1>12, WakingSets, ThreadSets
  <1>15. NoLostItemWakeup'
    BY <1>1, <1>3, <1>4, <1>6, <1>10, <1>13, <1>14 DEF NoLostItemWakeup
  <1>16. NoLostRoomWakeup'
    BY <1>1, <1>4, <1>6, <1>10, <1>13, <1>14 DEF NoLostRoomWakeup
  <1> QED BY <1>8, <1>9, <1>15, <1>16 DEF IInv
-----------------------------------------------------------------------------
(* A thread goes to wait only when there is nothing to cover.              *)
LEMMA WaitInvariant ==
  ASSUME IInv, NEW t \in Threads, EnqueueWaits(t) \/ DequeueWaits(t)
  PROVE  IInv'
  <1>1. TypeOK /\ FramesOK /\ NoLostItemWakeup /\ NoLostRoomWakeup
    BY DEF IInv
  <1>2. /\ op \in [Threads -> Enqueues \cup Dequeues \cup {"none"}]
        /\ state \in [Threads -> States]
    BY <1>1 DEF TypeOK
  <1>3. /\ state[t] \in {"lock", "woken"}
        /\ state' = [state EXCEPT ![t] = "waiting"]
        /\ UNCHANGED <<queue, op, item>>
        /\ \/ op[t] \in Blocking /\ Full(queue)
           \/ op[t] \in Dequeues /\ Empty(queue)
    BY DEF EnqueueWaits, DequeueWaits, Locked, Goto
  <1>4. TypeOK'
    BY <1>1, <1>2, <1>3 DEF TypeOK, States
  <1>5. FramesOK'
    BY <1>1, <1>2, <1>3 DEF FramesOK, Enqueues, Dequeues, Blocking
  <1>6. /\ Size(queue)' = Size(queue)
        /\ Size(queue) \in 0..Capacity
        /\ Capacity \in Nat
        /\ Empty(queue) <=> Size(queue) = 0
        /\ Full(queue) <=> Size(queue) = Capacity
    BY <1>1, <1>3, QueueFacts DEF Size
  <1>7. /\ Cardinality(WakingConsumers)' \in Nat
        /\ Cardinality(WakingProducers)' \in Nat
    <2>1. /\ WakingConsumers' \subseteq Threads
          /\ WakingProducers' \subseteq Threads
      BY DEF WakingConsumers, WakingProducers
    <2> QED BY <2>1, ThreadSets
  <1>8. CASE op[t] \in Blocking /\ Full(queue)
    <2>1. NoLostRoomWakeup'
      BY <1>6, <1>7, <1>8 DEF NoLostRoomWakeup
    <2>2. /\ Waiters(Dequeues)' = Waiters(Dequeues)
          /\ WakingConsumers' = WakingConsumers
      BY <1>2, <1>3, <1>8 DEF Waiters, WakingConsumers, Blocking, Enqueues, Dequeues
    <2>3. NoLostItemWakeup'
      BY <1>1, <1>6, <2>2 DEF NoLostItemWakeup
    <2> QED BY <1>4, <1>5, <2>1, <2>3 DEF IInv
  <1>9. CASE op[t] \in Dequeues /\ Empty(queue)
    <2>1. NoLostItemWakeup'
      BY <1>6, <1>7, <1>9 DEF NoLostItemWakeup
    <2>2. /\ Waiters(Blocking)' = Waiters(Blocking)
          /\ WakingProducers' = WakingProducers
      BY <1>2, <1>3, <1>9 DEF Waiters, WakingProducers, Blocking, Enqueues, Dequeues
    <2>3. NoLostRoomWakeup'
      BY <1>1, <1>6, <2>2 DEF NoLostRoomWakeup
    <2> QED BY <1>4, <1>5, <2>1, <2>3 DEF IInv
  <1> QED BY <1>3, <1>8, <1>9
-----------------------------------------------------------------------------
(* A notification hands its wake-up to a waiter, or finds none: then       *)
(* nobody is left whose wake-ups have to be counted.                       *)
LEMMA NotifyInvariant ==
  ASSUME IInv, NEW t \in Threads, NotifyOne(t)
  PROVE  IInv'
  <1>1. TypeOK /\ FramesOK /\ NoLostItemWakeup /\ NoLostRoomWakeup
    BY DEF IInv
  <1>2. /\ op \in [Threads -> Enqueues \cup Dequeues \cup {"none"}]
        /\ state \in [Threads -> States]
        /\ item \in [Threads -> Items \cup {NoItem}]
    BY <1>1 DEF TypeOK
  <1>3. /\ state[t] = "notify"
        /\ op' = [op EXCEPT ![t] = "none"]
        /\ item' = [item EXCEPT ![t] = NoItem]
        /\ UNCHANGED queue
        /\ \/ Listeners(t) = {} /\ state' = [state EXCEPT ![t] = "idle"]
           \/ \E w \in Listeners(t) : state' = [state EXCEPT ![t] = "idle", ![w] = "woken"]
    BY DEF NotifyOne, Finish, Goto
  <1>4. /\ op[t] \in Enqueues \cup Dequeues
        /\ Listeners(t) = Waiters(IF op[t] \in Enqueues THEN Dequeues ELSE Blocking)
    BY <1>1, <1>2, <1>3 DEF FramesOK, Listeners, Waiters
  <1>5. \A w \in Listeners(t) : /\ w \in Threads /\ w # t /\ state[w] = "waiting"
                                /\ op[w] \in Blocking \cup Dequeues
    BY <1>3, <1>4 DEF Waiters
  <1>6. TypeOK'
    BY <1>1, <1>2, <1>3, <1>5 DEF TypeOK, States
  <1>7. FramesOK'
    BY <1>1, <1>2, <1>3, <1>5 DEF FramesOK, Enqueues, Dequeues, Blocking
  <1>8. Size(queue)' = Size(queue)
    BY <1>3 DEF Size
  <1>9. CASE op[t] \in Enqueues
    <2>1. Listeners(t) = Waiters(Dequeues)
      BY <1>4, <1>9
    <2>2. /\ Waiters(Blocking)' = Waiters(Blocking)
          /\ WakingProducers' = WakingProducers
      BY <1>2, <1>3, <1>5, <1>9, <2>1
         DEF Waiters, WakingProducers, Enqueues, Blocking, Dequeues
    <2>3. NoLostRoomWakeup'
      BY <1>1, <1>8, <2>2 DEF NoLostRoomWakeup
    <2>4. CASE Listeners(t) = {} /\ state' = [state EXCEPT ![t] = "idle"]
      <3>1. Waiters(Dequeues)' = {}
        BY <1>2, <1>3, <2>1, <2>4 DEF Waiters
      <3> QED BY <1>6, <1>7, <2>3, <3>1 DEF IInv, NoLostItemWakeup
    <2>5. ASSUME NEW w \in Listeners(t),
                 state' = [state EXCEPT ![t] = "idle", ![w] = "woken"]
          PROVE  IInv'
      <3>1. Waiters(Dequeues) # {} /\ w \in Waiters(Dequeues)
        BY <2>1, <2>5
      <3>2. /\ t \in WakingConsumers /\ w \in Threads /\ w \notin WakingConsumers
            /\ WakingConsumers' = (WakingConsumers \ {t}) \cup {w}
        BY <1>2, <1>3, <1>5, <1>9, <2>5, <3>1
           DEF Waiters, WakingConsumers, Enqueues, Blocking, Dequeues
      <3>3. Cardinality(WakingConsumers)' = Cardinality(WakingConsumers)
        BY <3>2, WakingSets, Exchange
      <3>4. NoLostItemWakeup'
        BY <1>1, <1>8, <3>1, <3>3 DEF NoLostItemWakeup
      <3> QED BY <1>6, <1>7, <2>3, <3>4 DEF IInv
    <2> QED BY <1>3, <2>4, <2>5
  <1>10. CASE op[t] \in Dequeues
    <2>1. Listeners(t) = Waiters(Blocking)
      BY <1>4, <1>10 DEF Enqueues, Blocking, Dequeues
    <2>2. /\ Waiters(Dequeues)' = Waiters(Dequeues)
          /\ WakingConsumers' = WakingConsumers
      BY <1>2, <1>3, <1>5, <1>10, <2>1
         DEF Waiters, WakingConsumers, Enqueues, Blocking, Dequeues
    <2>3. NoLostItemWakeup'
      BY <1>1, <1>8, <2>2 DEF NoLostItemWakeup
    <2>4. CASE Listeners(t) = {} /\ state' = [state EXCEPT ![t] = "idle"]
      <3>1. Waiters(Blocking)' = {}
        BY <1>2, <1>3, <2>1, <2>4 DEF Waiters
      <3> QED BY <1>6, <1>7, <2>3, <3>1 DEF IInv, NoLostRoomWakeup
    <2>5. ASSUME NEW w \in Listeners(t),
                 state' = [state EXCEPT ![t] = "idle", ![w] = "woken"]
          PROVE  IInv'
      <3>1. Waiters(Blocking) # {} /\ w \in Waiters(Blocking)
        BY <2>1, <2>5
      <3>2. /\ t \in WakingProducers /\ w \in Threads /\ w \notin WakingProducers
            /\ WakingProducers' = (WakingProducers \ {t}) \cup {w}
        BY <1>2, <1>3, <1>5, <1>10, <2>5, <3>1
           DEF Waiters, WakingProducers, Enqueues, Blocking, Dequeues
      <3>3. Cardinality(WakingProducers)' = Cardinality(WakingProducers)
        BY <3>2, WakingSets, Exchange
      <3>4. NoLostRoomWakeup'
        BY <1>1, <1>8, <3>1, <3>3 DEF NoLostRoomWakeup
      <3> QED BY <1>6, <1>7, <2>3, <3>4 DEF IInv
    <2> QED BY <1>3, <2>4, <2>5
  <1> QED BY <1>4, <1>9, <1>10
-----------------------------------------------------------------------------
LEMMA NextInvariant == IInv /\ [Next]_vars => IInv'
  <1> SUFFICES ASSUME IInv, [Next]_vars PROVE IInv'
    OBVIOUS
  <1>1. CASE UNCHANGED vars
    BY <1>1 DEF vars, IInv, TypeOK, FramesOK, NoLostItemWakeup, NoLostRoomWakeup, Waiters,
                WakingConsumers, WakingProducers, Size
  <1>2. ASSUME NEW t \in Threads, Step(t) PROVE IInv'
    <2>1. CASE Enqueue(t) \/ EnqueueNowait(t)
      BY <2>1, PushInvariant
    <2>2. CASE EnqueueWaits(t) \/ DequeueWaits(t)
      BY <2>2, WaitInvariant
    <2>3. CASE EnqueueGivesUp(t) \/ DequeueGivesUp(t)
      BY <2>3, QuietActions
    <2>4. CASE Dequeue(t)
      BY <2>4, PopInvariant
    <2>5. CASE NotifyOne(t)
      BY <2>5, NotifyInvariant
    <2> QED BY <1>2, <2>1, <2>2, <2>3, <2>4, <2>5 DEF Step
  <1>3. ASSUME NEW t \in Threads, Environment(t) PROVE IInv'
    BY <1>3, QuietActions DEF Environment
  <1> QED BY <1>1, <1>2, <1>3 DEF Next

THEOREM InductiveInvariant == Spec => []IInv
  BY InitInvariant, NextInvariant, PTL DEF Spec

(* Type correctness; in particular both ring indices stay inside vec_.     *)
THEOREM TypeCorrect == Spec => []TypeOK
  <1>1. IInv => TypeOK
    BY DEF IInv
  <1> QED BY <1>1, InductiveInvariant, PTL

(* bounded_blocking_queue loses no wake-up of a consumer: beside a waiting *)
(* consumer every stored item has a wake-up of its own under way.          *)
THEOREM ItemWakeupsAreKept == Spec => []NoLostItemWakeup
  <1>1. IInv => NoLostItemWakeup
    BY DEF IInv
  <1> QED BY <1>1, InductiveInvariant, PTL

(* Nor one of a producer: beside a waiting producer every free slot has.   *)
THEOREM RoomWakeupsAreKept == Spec => []NoLostRoomWakeup
  <1>1. IInv => NoLostRoomWakeup
    BY DEF IInv
  <1> QED BY <1>1, InductiveInvariant, PTL

(* With room for one item at least: while both a producer and a consumer   *)
(* wait in enqueue and dequeue, some other thread that is in a call is     *)
(* awake.  (Both may sleep as long as there is such a thread.)             *)
THEOREM NobodyStandsOff == Spec => []NoStandoff
  <1>1. ASSUME IInv PROVE NoStandoff
    <2> SUFFICES ASSUME Capacity > 0, Waiters(Blocking) # {}, Waiters(Dequeues) # {},
                        ~ \E t \in Threads : state[t] \notin {"idle", "waiting"}
                 PROVE  FALSE
      BY DEF NoStandoff
    <2>1. WakingConsumers = {} /\ WakingProducers = {}
      BY DEF WakingConsumers, WakingProducers
    <2>2. Cardinality(WakingConsumers) = 0 /\ Cardinality(WakingProducers) = 0
      BY <2>1, FS_EmptySet
    <2>3. Size(queue) <= 0 /\ Capacity - Size(queue) <= 0
      BY <1>1, <2>2 DEF IInv, NoLostItemWakeup, NoLostRoomWakeup
    <2>4. Size(queue) \in 0..Capacity /\ Capacity \in Nat
      BY <1>1, QueueFacts DEF IInv
    <2> QED BY <2>3, <2>4
  <1> QED BY <1>1, InductiveInvariant, PTL
-----------------------------------------------------------------------------
(* The counter moves when an item is pushed into a full ring, and only     *)
(* enqueue_nowait does that.                                               *)
LEMMA OverrunStep ==
  ASSUME IInv, [Next]_vars, queue'.overruns # queue.overruns
  PROVE  \E t \in Threads : op[t] = "enqueue_nowait" /\ state[t] = "lock" /\ state'[t] = "notify"
  <1>1. TypeOK /\ FramesOK
    BY DEF IInv
  <1>2. queue' # queue
    OBVIOUS
  <1>3. PICK t \in Threads : Step(t) \/ Environment(t)
    BY <1>2 DEF Next, vars
  <1>4. CASE Enqueue(t)
    <2>1. /\ ~Full(queue) /\ op[t] \in Blocking /\ state[t] # "notify"
          /\ queue' = PushBack(queue, item[t])
      BY <1>4 DEF Enqueue, Push, Locked
    <2>2. item[t] \in Values
      BY <1>1, <2>1 DEF FramesOK, Enqueues, Values
    <2>3. queue'.overruns = queue.overruns
      BY <1>1, <2>1, <2>2, QueueFacts, PushIsRing
    <2> QED BY <2>3
  <1>5. CASE Dequeue(t)
    <2>1. /\ ~Empty(queue)
          /\ queue' = PopFront([queue EXCEPT !.vec[queue.head] = NoItem])
      BY <1>5 DEF Dequeue, Pop
    <2> DEFINE moved == [queue EXCEPT !.vec[queue.head] = NoItem]
    <2>2. /\ moved \in Rings(Capacity, Values) /\ ~Empty(moved)
          /\ moved.overruns = queue.overruns
      BY <1>1, <2>1, QueueFacts, MovedFrontIsRing DEF Values
    <2> HIDE DEF moved
    <2>3. PopFront(moved).overruns = moved.overruns
      BY <1>1, <2>2, QueueFacts, PopIsRing
    <2> QED BY <2>1, <2>2, <2>3 DEF moved
  <1>6. CASE EnqueueNowait(t)
    BY <1>1, <1>6 DEF EnqueueNowait, Locked, Goto, FramesOK, TypeOK
  <1>7. QED
    BY <1>2, <1>3, <1>4, <1>5, <1>6
       DEF Step, Environment, EnqueueWaits, EnqueueGivesUp, DequeueWaits, DequeueGivesUp,
           NotifyOne, Call, Timeout, SpuriousWakeup

(* What a blocking producer hands over never displaces a stored item.      *)
THEOREM BlockingProducersDiscardNothing == Spec => OnlyNowaitOverruns
  <1>1. IInv /\ [Next]_vars =>
          [queue'.overruns # queue.overruns =>
             \E t \in Threads :
               op[t] = "enqueue_nowait" /\ state[t] = "lock" /\ state'[t] = "notify"]_vars
    BY OverrunStep
  <1> QED BY <1>1, InductiveInvariant, PTL DEF Spec, OnlyNowaitOverruns
-----------------------------------------------------------------------------
(* Refinement: under the mapping each critical section is one step of the  *)
(* bounded FIFO and everything else leaves the FIFO alone.                 *)

Delivering == [t \in Threads |->
                IF op[t] \in Dequeues /\ state[t] = "notify" THEN item[t] ELSE NoItem]

LEMMA FifoInit == Init => Fifo!Init
  <1> SUFFICES ASSUME Init PROVE Fifo!Init
    OBVIOUS
  <1>1. queue \in Rings(Capacity, Values) /\ Empty(queue) /\ queue.overruns = 0
    BY BlockingQueueAssumption, NewQueueIsRing DEF Init, Values
  <1>2. Size(queue) = 0
    BY <1>1, BlockingQueueAssumption, SizeBounds
  <1>3. Contents(queue) = << >>
    <2>1. Contents(queue) \in Seq(Values) /\ Len(Contents(queue)) = 0
      BY <1>1, <1>2, BlockingQueueAssumption, ContentsIsSequence
    <2> QED BY <2>1, EmptySeq
  <1>4. Delivering = [t \in Threads |-> NoItem]
    BY DEF Init, Delivering, Dequeues
  <1> QED BY <1>1, <1>3, <1>4 DEF Fifo!Init, Delivering

LEMMA SilentSteps ==
  ASSUME IInv, NEW t \in Threads,
         \/ EnqueueWaits(t) \/ EnqueueGivesUp(t) \/ DequeueWaits(t) \/ DequeueGivesUp(t)
         \/ Environment(t)
  PROVE  UNCHANGED Fifo!vars
  <1>1. /\ op \in [Threads -> Enqueues \cup Dequeues \cup {"none"}]
        /\ state \in [Threads -> States]
        /\ item \in [Threads -> Items \cup {NoItem}]
    BY DEF IInv, TypeOK
  <1>2. /\ UNCHANGED queue
        /\ state[t] # "notify"
        /\ \E s \in {"lock", "waiting", "late", "idle"} : state' = [state EXCEPT ![t] = s]
        /\ \/ UNCHANGED <<op, item>>
           \/ \E o \in Enqueues \cup Dequeues \cup {"none"}, x \in Items \cup {NoItem} :
                op' = [op EXCEPT ![t] = o] /\ item' = [item EXCEPT ![t] = x]
    BY DEF EnqueueWaits, EnqueueGivesUp, DequeueWaits, DequeueGivesUp, Environment, Call,
           Timeout, SpuriousWakeup, Goto, Finish, Locked
  <1>3. Delivering' = Delivering
    BY <1>1, <1>2 DEF Delivering
  <1>4. Contents(queue)' = Contents(queue) /\ queue'.overruns = queue.overruns
    BY <1>2 DEF Contents, Size, At
  <1> QED BY <1>3, <1>4 DEF Fifo!vars, Delivering

LEMMA PushStep ==
  ASSUME IInv, NEW t \in Threads, Enqueue(t) \/ EnqueueNowait(t)
  PROVE  \E x \in Items : Fifo!Put(x) \/ Fifo!Displace(x)
  <1>1. /\ op \in [Threads -> Enqueues \cup Dequeues \cup {"none"}]
        /\ state \in [Threads -> States]
        /\ item \in [Threads -> Items \cup {NoItem}]
        /\ FramesOK /\ TypeOK
    BY DEF IInv, TypeOK
  <1>2. /\ op[t] \in Enqueues /\ state[t] # "notify"
        /\ queue' = PushBack(queue, item[t])
        /\ item' = [item EXCEPT ![t] = NoItem]
        /\ state' = [state EXCEPT ![t] = "notify"]
        /\ UNCHANGED op
    BY DEF Enqueue, EnqueueNowait, Push, Goto, Locked, Enqueues
  <1>3. PICK x \in Items : x = item[t]
    BY <1>1, <1>2 DEF FramesOK
  <1>4. /\ queue \in Rings(Capacity, Values) /\ Capacity \in Nat /\ x \in Values
        /\ Size(queue) \in 0..Capacity
        /\ Full(queue) <=> Size(queue) = Capacity
    BY <1>1, QueueFacts DEF Values
  <1>5. Delivering' = Delivering
    BY <1>1, <1>2 DEF Delivering, Enqueues, Blocking, Dequeues
  <1>6. Contents(queue)' = Contents(PushBack(queue, x))
    BY <1>2, <1>3 DEF Contents, Size, At
  <1>7. queue'.overruns = IF Full(queue) THEN queue.overruns + 1 ELSE queue.overruns
    BY <1>2, <1>3, <1>4, PushIsRing
  <1>8. Len(Contents(queue)) = Size(queue)
    BY <1>4, ContentsIsSequence
  <1>9. CASE Full(queue)
    <2>1. Contents(PushBack(queue, x)) = Tail(Append(Contents(queue), x))
      BY <1>4, <1>9, OverrunDropsHead
    <2>2. Fifo!Displace(x)
      BY <1>4, <1>5, <1>6, <1>7, <1>8, <1>9, <2>1 DEF Fifo!Displace, Delivering
    <2> QED BY <2>2
  <1>10. CASE ~Full(queue)
    <2>1. Contents(PushBack(queue, x)) = Append(Contents(queue), x)
      BY <1>4, <1>10, PushAppends
    <2>2. Len(Contents(queue)) < Capacity
      BY <1>4, <1>8, <1>10
    <2>3. Fifo!Put(x)
      BY <1>5, <1>6, <1>7, <1>10, <2>1, <2>2 DEF Fifo!Put, Delivering
    <2> QED BY <2>3
  <1> QED BY <1>9, <1>10

LEMMA PopStep ==
  ASSUME IInv, NEW t \in Threads, Dequeue(t)
  PROVE  Fifo!Take(t)
  <1>1. /\ op \in [Threads -> Enqueues \cup Dequeues \cup {"none"}]
        /\ state \in [Threads -> States]
        /\ item \in [Threads -> Items \cup {NoItem}]
        /\ TypeOK
    BY DEF IInv, TypeOK
  <1> DEFINE moved == [queue EXCEPT !.vec[queue.head] = NoItem]
  <1>2. /\ op[t] \in Dequeues /\ state[t] # "notify"
        /\ ~Empty(queue)
        /\ item' = [item EXCEPT ![t] = Front(queue)]
        /\ queue' = PopFront(moved)
        /\ state' = [state EXCEPT ![t] = "notify"]
        /\ UNCHANGED op
    BY DEF Dequeue, Pop, Goto, Locked
  <1>3. queue \in Rings(Capacity, Values) /\ Capacity \in Nat /\ NoItem \in Values
    BY <1>1, QueueFacts DEF Values
  <1>4. /\ Contents(queue) # << >>
        /\ Front(queue) = Head(Contents(queue))
        /\ Contents(PopFront(moved)) = Tail(Contents(queue))
    BY <1>2, <1>3, PopTakesHead
  <1>5. /\ moved \in Rings(Capacity, Values) /\ ~Empty(moved)
        /\ moved.overruns = queue.overruns
    BY <1>2, <1>3, MovedFrontIsRing
  <1> HIDE DEF moved
  <1>6. queue'.overruns = queue.overruns
    BY <1>2, <1>3, <1>5, PopIsRing
  <1>7. Contents(queue)' = Contents(PopFront(moved))
    BY <1>2 DEF Contents, Size, At
  <1>8. Delivering' = [Delivering EXCEPT ![t] = Front(queue)] /\ Delivering[t] = NoItem
    BY <1>1, <1>2 DEF Delivering
  <1> QED BY <1>4, <1>6, <1>7, <1>8 DEF Fifo!Take, Delivering

LEMMA NotifyStep ==
  ASSUME IInv, NEW t \in Threads, NotifyOne(t)
  PROVE  Fifo!Deliver(t)
  <1>1. /\ op \in [Threads -> Enqueues \cup Dequeues \cup {"none"}]
        /\ state \in [Threads -> States]
        /\ item \in [Threads -> Items \cup {NoItem}]
    BY DEF IInv, TypeOK
  <1>2. /\ state[t] = "notify"
        /\ op' = [op EXCEPT ![t] = "none"]
        /\ item' = [item EXCEPT ![t] = NoItem]
        /\ UNCHANGED queue
        /\ \/ state' = [state EXCEPT ![t] = "idle"]
           \/ \E w \in Listeners(t) : state' = [state EXCEPT ![t] = "idle", ![w] = "woken"]
    BY DEF NotifyOne, Finish, Goto
  <1>3. \A w \in Listeners(t) : w \in Threads /\ state[w] = "waiting"
    BY DEF Listeners, Waiters
  <1>4. Delivering' = [Delivering EXCEPT ![t] = NoItem]
    BY <1>1, <1>2, <1>3 DEF Delivering, Dequeues
  <1>5. Contents(queue)' = Contents(queue) /\ queue'.overruns = queue.overruns
    BY <1>2 DEF Contents, Size, At
  <1> QED BY <1>4, <1>5 DEF Fifo!Deliver, Delivering

LEMMA FifoStep == IInv /\ [Next]_vars => [Fifo!Next]_(Fifo!vars)
  <1> SUFFICES ASSUME IInv, [Next]_vars PROVE [Fifo!Next]_(Fifo!vars)
    OBVIOUS
  <1>1. CASE UNCHANGED vars
    BY <1>1 DEF vars, Fifo!vars, Contents, Size, At
  <1>2. ASSUME NEW t \in Threads, Step(t) \/ Environment(t) PROVE [Fifo!Next]_(Fifo!vars)
    <2>1. CASE Enqueue(t) \/ EnqueueNowait(t)
      BY <2>1, PushStep DEF Fifo!Next
    <2>2. CASE Dequeue(t)
      BY <2>2, PopStep DEF Fifo!Next
    <2>3. CASE NotifyOne(t)
      BY <2>3, NotifyStep DEF Fifo!Next
    <2>4. CASE \/ EnqueueWaits(t) \/ EnqueueGivesUp(t) \/ DequeueWaits(t) \/ DequeueGivesUp(t)
               \/ Environment(t)
      BY <2>4, SilentSteps
    <2> QED BY <1>2, <2>1, <2>2, <2>3, <2>4 DEF Step
  <1> QED BY <1>1, <1>2 DEF Next

(* bounded_blocking_queue implements the bounded FIFO, for any number of   *)
(* threads and any capacity: order, no loss, no duplication, counted       *)
(* overruns.                                                               *)
THEOREM QueueImplementsFifo == Spec => ImplementsFifo
  BY FifoInit, FifoStep, InductiveInvariant, PTL DEF Spec, ImplementsFifo, Fifo!Spec
=============================================================================
