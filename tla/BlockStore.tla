----------------------------- MODULE BlockStore -----------------------------
(***************************************************************************)
(* What an allocator promises to those who ask it for memory, whatever it  *)
(* keeps and however its calls interleave.  A block is handed out only     *)
(* while nobody has it, and only if it is as large as was asked for; while *)
(* somebody has it, its memory stays what it is.                           *)
(***************************************************************************)
EXTENDS Integers

CONSTANTS Addrs, Sizes

VARIABLES room,   (* the bytes behind each address, 0 if there are none     *)
          used    (* <<size asked for, address>> of the blocks in use       *)

InUse == {u[2] : u \in used}

Init == room = [a \in Addrs |-> 0] /\ used = {}

(* The store gets memory.                                                  *)
Grow(a) ==
  /\ room[a] = 0
  /\ \E n \in Sizes : room' = [room EXCEPT ![a] = n]
  /\ UNCHANGED used

HandOut(n, a) ==
  /\ a \notin InUse
  /\ room[a] >= n
  /\ used' = used \cup {<<n, a>>}
  /\ UNCHANGED room

(* Memory that is in use as soon as it is there.                           *)
GrowInUse(n, a) ==
  /\ a \notin InUse /\ room[a] = 0
  /\ room' = [room EXCEPT ![a] = n]
  /\ used' = used \cup {<<n, a>>}

TakeBack(a) ==
  /\ a \in InUse
  /\ used' = {u \in used : u[2] # a}
  /\ UNCHANGED room

(* Memory nobody uses goes back to where it came from.                     *)
Shrink(S) ==
  /\ S \cap InUse = {}
  /\ room' = [a \in Addrs |-> IF a \in S THEN 0 ELSE room[a]]
  /\ UNCHANGED used

Next ==
  \/ \E a \in Addrs : Grow(a) \/ TakeBack(a)
  \/ \E a \in Addrs, n \in Sizes : HandOut(n, a) \/ GrowInUse(n, a)
  \/ \E S \in SUBSET Addrs : Shrink(S)

Spec == Init /\ [][Next]_<<room, used>>
=============================================================================
