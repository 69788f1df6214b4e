---------------------------- MODULE CircularQueue ----------------------------
(***************************************************************************)
(* The ring buffer circular_queue<T>, as operators on a record with the    *)
(* fields of the class.  One slot of vec_ always stays unused: it tells a  *)
(* full ring from an empty one, so max_items_ is the capacity plus one.    *)
(* A queue that was moved from is disabled: its max_items_ is zero.        *)
(***************************************************************************)
EXTENDS Integers, Sequences

(* circular_queue(capacity); the vector holds default-constructed items.   *)
NewQueue(capacity, blank) ==
  [max_items |-> capacity + 1, head |-> 0, tail |-> 0, overruns |-> 0,
   vec |-> [i \in 0..capacity |-> blank]]

Disabled == [max_items |-> 0, head |-> 0, tail |-> 0, overruns |-> 0, vec |-> << >>]

SuccessorPastEnd(q, i) == (i + 1) % (q.max_items + 1)   \* fault: off by one

Successor(q, i) == (i + 1) % q.max_items

Empty(q) == q.tail = q.head

Full(q) == q.max_items > 0 /\ Successor(q, q.tail) = q.head

Size(q) == IF q.tail >= q.head THEN q.tail - q.head
                               ELSE q.max_items - (q.head - q.tail)

(* at(i), for i < Size(q).                                                 *)
At(q, i) == q.vec[(q.head + i) % q.max_items]

Front(q) == q.vec[q.head]

PopFront(q) == [q EXCEPT !.head = Successor(q, @)]

(* Fault: at the overrun only the counter moves, the oldest item stays.    *)
PushBackKeepsHead(q, x) ==
  LET tail == Successor(q, q.tail)
  IN IF q.max_items = 0 THEN q
     ELSE [q EXCEPT !.vec[q.tail] = x, !.tail = tail,
                    !.overruns = IF tail = q.head THEN @ + 1 ELSE @]

(* push_back: a full ring loses its oldest item, a disabled one the new.   *)
PushBack(q, x) ==
  LET tail == Successor(q, q.tail)
  IN IF q.max_items = 0 THEN q
     ELSE [q EXCEPT !.vec[q.tail] = x,
                    !.tail = tail,
                    !.head = IF tail = q.head THEN Successor(q, @) ELSE @,
                    !.overruns = IF tail = q.head THEN @ + 1 ELSE @]

(* The items a ring holds, oldest first.                                   *)
Contents(q) == [i \in 1..Size(q) |-> At(q, i - 1)]

(* A ring of the given capacity whose slots hold values of Values.         *)
Rings(capacity, Values) ==
  [max_items : {capacity + 1}, head : 0..capacity, tail : 0..capacity,
   overruns : Nat, vec : [0..capacity -> Values]]
=============================================================================
