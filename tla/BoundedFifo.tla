----------------------------- MODULE BoundedFifo -----------------------------
(***************************************************************************)
(* What a bounded queue promises its users: items come out in the order    *)
(* they went in, each one once, to one reader; an item is lost only when   *)
(* it is the oldest of a full queue and a newer one displaces it, and      *)
(* every such loss is counted.                                             *)
(***************************************************************************)
EXTENDS Naturals, Sequences

CONSTANTS Readers, Items, Capacity, NoItem

VARIABLES fifo,      (* the items stored, oldest first                      *)
          lost,      (* how many were displaced                             *)
          received   (* the item each reader got and has not returned with  *)

vars == <<fifo, lost, received>>

Init == /\ fifo = << >>
        /\ lost = 0
        /\ received = [r \in Readers |-> NoItem]

Put(x) ==
  /\ Len(fifo) < Capacity
  /\ fifo' = Append(fifo, x)
  /\ UNCHANGED <<lost, received>>

(* With capacity zero the new item displaces itself.                       *)
Displace(x) ==
  /\ Len(fifo) = Capacity
  /\ fifo' = Tail(Append(fifo, x))
  /\ lost' = lost + 1
  /\ UNCHANGED received

Take(r) ==
  /\ fifo # << >>
  /\ received[r] = NoItem
  /\ received' = [received EXCEPT ![r] = Head(fifo)]
  /\ fifo' = Tail(fifo)
  /\ UNCHANGED lost

(* The reader's call returns with its item.                                *)
Deliver(r) ==
  /\ received' = [received EXCEPT ![r] = NoItem]
  /\ UNCHANGED <<fifo, lost>>

Next == \/ \E x \in Items : Put(x) \/ Displace(x)
        \/ \E r \in Readers : Take(r) \/ Deliver(r)

Spec == Init /\ [][Next]_vars
=============================================================================
