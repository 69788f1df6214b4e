------------------------- MODULE CircularQueueProofs -------------------------
(***************************************************************************)
(* What the operations of the ring do to the items it holds, for a ring of *)
(* any capacity: with the indices wrapping around, push_back appends,      *)
(* pop_front removes the oldest item, and a push on a full ring drops it.  *)
(***************************************************************************)
EXTENDS CircularQueue, SequenceTheorems, TLAPS

LEMMA ModBelow == ASSUME NEW m \in Nat \ {0}, NEW a \in 0..(m - 1) PROVE a % m = a
  OBVIOUS

LEMMA ModOnce == ASSUME NEW m \in Nat \ {0}, NEW a \in m..(2 * m - 1) PROVE a % m = a - m
  OBVIOUS

LEMMA SuccessorWraps ==
  ASSUME NEW c \in Nat, NEW V, NEW q \in Rings(c, V), NEW i \in 0..c
  PROVE  /\ Successor(q, i) = IF i = c THEN 0 ELSE i + 1
         /\ Successor(q, i) \in 0..c
  <1>1. q.max_items = c + 1
    BY DEF Rings
  <1>2. CASE i = c
    <2>1. (c + 1) % (c + 1) = 0
      BY ModOnce
    <2> QED BY <1>1, <1>2, <2>1 DEF Successor
  <1>3. CASE i # c
    <2>1. (i + 1) % (c + 1) = i + 1
      BY <1>3, ModBelow
    <2> QED BY <1>1, <1>3, <2>1 DEF Successor
  <1> QED BY <1>2, <1>3

(* The slot of the i-th item.                                              *)
LEMMA SlotWraps ==
  ASSUME NEW c \in Nat, NEW V, NEW q \in Rings(c, V), NEW i \in 0..c
  PROVE  /\ (q.head + i) % q.max_items
              = IF q.head + i <= c THEN q.head + i ELSE q.head + i - (c + 1)
         /\ (q.head + i) % q.max_items \in 0..c
  <1>1. q.max_items = c + 1 /\ q.head \in 0..c
    BY DEF Rings
  <1>2. CASE q.head + i <= c
    <2>1. q.head + i \in 0..((c + 1) - 1) /\ c + 1 \in Nat \ {0}
      BY <1>1, <1>2
    <2>2. (q.head + i) % (c + 1) = q.head + i
      BY <2>1, ModBelow
    <2> QED BY <1>1, <1>2, <2>2
  <1>3. CASE ~(q.head + i <= c)
    <2>1. (q.head + i) % (c + 1) = q.head + i - (c + 1)
      BY <1>1, <1>3, ModOnce
    <2> QED BY <1>1, <1>3, <2>1
  <1> QED BY <1>2, <1>3

LEMMA NewQueueIsRing ==
  ASSUME NEW c \in Nat, NEW V, NEW b \in V
  PROVE  /\ NewQueue(c, b) \in Rings(c, V)
         /\ Empty(NewQueue(c, b))
         /\ NewQueue(c, b).overruns = 0
  BY DEF NewQueue, Rings, Empty

LEMMA SizeBounds ==
  ASSUME NEW c \in Nat, NEW V, NEW q \in Rings(c, V)
  PROVE  /\ Size(q) \in 0..c
         /\ Empty(q) <=> Size(q) = 0
         /\ Full(q) <=> Size(q) = c
  <1>1. q.max_items = c + 1 /\ q.head \in 0..c /\ q.tail \in 0..c
    BY DEF Rings
  <1>2. Successor(q, q.tail) = IF q.tail = c THEN 0 ELSE q.tail + 1
    BY <1>1, SuccessorWraps
  <1> QED BY <1>1, <1>2 DEF Size, Empty, Full

LEMMA PushIsRing ==
  ASSUME NEW c \in Nat, NEW V, NEW q \in Rings(c, V), NEW x \in V
  PROVE  /\ PushBack(q, x) \in Rings(c, V)
         /\ PushBack(q, x).overruns = IF Full(q) THEN q.overruns + 1 ELSE q.overruns
         /\ Size(PushBack(q, x)) = IF Full(q) THEN Size(q) ELSE Size(q) + 1
  <1>1. /\ q.max_items = c + 1 /\ q.head \in 0..c /\ q.tail \in 0..c
        /\ q.overruns \in Nat /\ q.vec \in [0..c -> V]
    BY DEF Rings
  <1>2. /\ Successor(q, q.tail) = IF q.tail = c THEN 0 ELSE q.tail + 1
        /\ Successor(q, q.head) = IF q.head = c THEN 0 ELSE q.head + 1
    BY <1>1, SuccessorWraps
  <1> DEFINE p == PushBack(q, x)
  <1>3. Full(q) <=> Successor(q, q.tail) = q.head
    BY <1>1 DEF Full
  <1>4. /\ p.max_items = c + 1
        /\ p.tail = Successor(q, q.tail)
        /\ p.head = IF Full(q) THEN Successor(q, q.head) ELSE q.head
        /\ p.overruns = IF Full(q) THEN q.overruns + 1 ELSE q.overruns
        /\ p.vec = [q.vec EXCEPT ![q.tail] = x]
    BY <1>1, <1>3 DEF PushBack, Rings
  <1>5. p \in Rings(c, V)
    <2>1. [q.vec EXCEPT ![q.tail] = x] \in [0..c -> V]
      BY <1>1
    <2>2. Successor(q, q.tail) \in 0..c /\ Successor(q, q.head) \in 0..c
      BY <1>1, <1>2
    <2>3. p = [max_items |-> c + 1, head |-> p.head, tail |-> p.tail,
               overruns |-> p.overruns, vec |-> p.vec]
      BY <1>1, <1>4 DEF PushBack, Rings
    <2>4. /\ p.head \in 0..c /\ p.tail \in 0..c /\ p.overruns \in Nat
          /\ p.vec \in [0..c -> V]
      BY <1>1, <1>4, <2>1, <2>2
    <2> HIDE DEF p
    <2> QED BY <2>3, <2>4 DEF Rings
  <1>6. Size(p) = IF Full(q) THEN Size(q) ELSE Size(q) + 1
    <2> HIDE DEF p
    <2>1. CASE Full(q)
      <3>1. p.head = (IF q.head = c THEN 0 ELSE q.head + 1) /\ p.tail = q.head
        BY <1>2, <1>3, <1>4, <2>1
      <3>2. Size(q) = c
        BY <2>1, SizeBounds
      <3>3. Size(p) = c
        BY <1>1, <1>4, <3>1 DEF Size
      <3> QED BY <2>1, <3>2, <3>3
    <2>2. CASE ~Full(q)
      <3>1. p.head = q.head /\ p.tail = (IF q.tail = c THEN 0 ELSE q.tail + 1)
        BY <1>2, <1>4, <2>2
      <3>2. p.tail # q.head
        BY <1>3, <1>4, <2>2
      <3>3. Size(p) = Size(q) + 1
        BY <1>1, <1>4, <3>1, <3>2 DEF Size
      <3> QED BY <2>2, <3>3
    <2> QED BY <2>1, <2>2
  <1> QED BY <1>4, <1>5, <1>6

LEMMA PopIsRing ==
  ASSUME NEW c \in Nat, NEW V, NEW q \in Rings(c, V), ~Empty(q)
  PROVE  /\ PopFront(q) \in Rings(c, V)
         /\ PopFront(q).overruns = q.overruns
         /\ Size(PopFront(q)) = Size(q) - 1
         /\ Front(q) \in V
  <1>1. /\ q.max_items = c + 1 /\ q.head \in 0..c /\ q.tail \in 0..c
        /\ q.overruns \in Nat /\ q.vec \in [0..c -> V]
    BY DEF Rings
  <1>2. Successor(q, q.head) = IF q.head = c THEN 0 ELSE q.head + 1
    BY <1>1, SuccessorWraps
  <1> DEFINE p == PopFront(q)
  <1>3. /\ p.max_items = c + 1
        /\ p.tail = q.tail
        /\ p.head = Successor(q, q.head)
        /\ p.overruns = q.overruns
    BY <1>1 DEF PopFront, Rings
  <1>4. p \in Rings(c, V)
    BY <1>1, <1>2 DEF PopFront, Rings
  <1>5. Size(p) = Size(q) - 1
    BY <1>1, <1>2, <1>3 DEF Size, Empty
  <1> QED BY <1>1, <1>3, <1>4, <1>5 DEF Front

(* Moving the front out leaves a ring that differs in that slot only.      *)
LEMMA MovedFrontIsRing ==
  ASSUME NEW c \in Nat, NEW V, NEW q \in Rings(c, V), NEW b \in V
  PROVE  LET r == [q EXCEPT !.vec[q.head] = b]
         IN /\ r \in Rings(c, V)
            /\ r.max_items = q.max_items /\ r.head = q.head /\ r.tail = q.tail
            /\ r.overruns = q.overruns
            /\ r.vec = [q.vec EXCEPT ![q.head] = b]
            /\ Size(r) = Size(q)
            /\ Empty(r) <=> Empty(q)
  BY DEF Rings, Size, Empty


LEMMA ContentsIsSequence ==
  ASSUME NEW c \in Nat, NEW V, NEW q \in Rings(c, V)
  PROVE  /\ Contents(q) \in Seq(V)
         /\ Len(Contents(q)) = Size(q)
         /\ \A i \in 1..Size(q) : Contents(q)[i] = At(q, i - 1)
  <1>1. Size(q) \in 0..c
    BY SizeBounds
  <1>2. \A i \in 1..Size(q) : At(q, i - 1) \in V
    <2> TAKE i \in 1..Size(q)
    <2>1. i - 1 \in 0..c
      BY <1>1
    <2>2. (q.head + (i - 1)) % q.max_items \in 0..c
      BY <2>1, SlotWraps
    <2> QED BY <2>2 DEF At, Rings
  <1> QED BY <1>1, <1>2 DEF Contents

(* push_back with room appends.                                            *)
LEMMA PushAppends ==
  ASSUME NEW c \in Nat, NEW V, NEW q \in Rings(c, V), NEW x \in V, ~Full(q)
  PROVE  Contents(PushBack(q, x)) = Append(Contents(q), x)
  <1> DEFINE p == PushBack(q, x)
  <1>1. /\ q.max_items = c + 1 /\ q.head \in 0..c /\ q.tail \in 0..c
        /\ q.vec \in [0..c -> V]
    BY DEF Rings
  <1>2. /\ p.max_items = c + 1 /\ p.head = q.head
        /\ p.vec = [q.vec EXCEPT ![q.tail] = x]
    BY <1>1 DEF PushBack, Full, Rings
  <1>3. /\ p \in Rings(c, V)
        /\ Size(p) = Size(q) + 1
        /\ Size(q) \in 0..c /\ Size(p) \in 0..c
    BY PushIsRing, SizeBounds
  <1> HIDE DEF p
  <1>4. Size(q) = IF q.tail >= q.head THEN q.tail - q.head ELSE c + 1 - (q.head - q.tail)
    BY <1>1 DEF Size
  <1>5. \A i \in 1..Size(q) : At(p, i - 1) = At(q, i - 1)
    <2> TAKE i \in 1..Size(q)
    <2>1. i - 1 \in 0..c /\ q.head + (i - 1) \in Nat
      BY <1>1, <1>3
    <2>2. PICK k \in 0..c : /\ k = (q.head + (i - 1)) % q.max_items
                            /\ k = IF q.head + (i - 1) <= c THEN q.head + (i - 1)
                                   ELSE q.head + (i - 1) - (c + 1)
      BY <2>1, SlotWraps
    <2> k = IF q.head + (i - 1) <= c THEN q.head + (i - 1)
            ELSE q.head + (i - 1) - (c + 1)
      BY <2>2
    <2>3. k # q.tail
      <3>1. /\ Size(q) \in Int /\ q.head \in Int /\ q.tail \in Int /\ i \in Int
            /\ 0 <= q.tail /\ q.head <= c /\ 1 <= i /\ i <= Size(q)
        BY <1>1, <1>3
      <3>2. CASE q.tail >= q.head
        BY <1>1, <1>3, <1>4, <3>1, <3>2
      <3>3. CASE ~(q.tail >= q.head)
        BY <1>1, <1>3, <1>4, <3>1, <3>3
      <3> QED BY <3>2, <3>3
    <2>4. (p.head + (i - 1)) % p.max_items = k
      BY <1>1, <1>2, <2>2
    <2> QED BY <1>1, <1>2, <2>2, <2>3, <2>4 DEF At
  <1>6. At(p, Size(q)) = x
    <2>1. PICK k \in 0..c : /\ k = (q.head + Size(q)) % q.max_items
                            /\ k = IF q.head + Size(q) <= c THEN q.head + Size(q)
                                   ELSE q.head + Size(q) - (c + 1)
      BY <1>3, SlotWraps
    <2>2. k = q.tail
      BY <1>1, <1>3, <1>4, <2>1
    <2>3. (p.head + Size(q)) % p.max_items = k
      BY <1>1, <1>2, <2>1
    <2> QED BY <1>1, <1>2, <2>2, <2>3 DEF At
  <1>7. /\ Contents(q) \in Seq(V) /\ Len(Contents(q)) = Size(q)
        /\ \A i \in 1..Size(q) : Contents(q)[i] = At(q, i - 1)
    BY ContentsIsSequence
  <1>8. \A i \in 1..Size(q) + 1 : At(p, i - 1) = Append(Contents(q), x)[i]
    <2> TAKE i \in 1..Size(q) + 1
    <2>1. CASE i = Size(q) + 1
      BY <1>3, <1>6, <1>7, <2>1
    <2>2. CASE i # Size(q) + 1
      <3>1. i \in 1..Size(q)
        BY <1>3, <2>2
      <3> QED BY <1>3, <1>5, <1>7, <3>1
    <2> QED BY <2>1, <2>2
  <1>9. /\ Append(Contents(q), x) \in Seq(V)
        /\ Len(Append(Contents(q), x)) = Size(q) + 1
    BY <1>7, AppendProperties
  <1>10. /\ Contents(p) \in Seq(V) /\ Len(Contents(p)) = Size(q) + 1
         /\ \A i \in 1..Size(q) + 1 : Contents(p)[i] = At(p, i - 1)
    BY <1>3, ContentsIsSequence
  <1>11. \A i \in 1..Len(Contents(p)) : Contents(p)[i] = Append(Contents(q), x)[i]
    BY <1>8, <1>10
  <1>12. Contents(p) = Append(Contents(q), x)
    BY <1>9, <1>10, <1>11, SeqEqual
  <1> QED BY <1>12 DEF p

(* Whatever is written to the slot of the front, pop_front leaves the rest.*)
LEMMA PopTakesHead ==
  ASSUME NEW c \in Nat, NEW V, NEW q \in Rings(c, V), NEW b \in V, ~Empty(q)
  PROVE  /\ Contents(q) # << >>
         /\ Front(q) = Head(Contents(q))
         /\ Contents(PopFront([q EXCEPT !.vec[q.head] = b])) = Tail(Contents(q))
  <1> DEFINE r == [q EXCEPT !.vec[q.head] = b]
             p == PopFront(r)
  <1>1. /\ q.max_items = c + 1 /\ q.head \in 0..c /\ q.tail \in 0..c
        /\ q.vec \in [0..c -> V]
    BY DEF Rings
  <1>2. /\ r \in Rings(c, V) /\ r.max_items = c + 1 /\ r.head = q.head
        /\ r.vec = [q.vec EXCEPT ![q.head] = b]
        /\ Size(r) = Size(q) /\ ~Empty(r)
    BY <1>1, MovedFrontIsRing
  <1>3. Size(q) \in 1..c
    BY SizeBounds
  <1> HIDE DEF r
  <1>4. p \in Rings(c, V) /\ Size(p) = Size(q) - 1
    BY <1>2, PopIsRing
  <1>5. /\ p.max_items = c + 1 /\ p.vec = r.vec
        /\ p.head = IF q.head = c THEN 0 ELSE q.head + 1
    <2>1. Successor(r, r.head) = IF q.head = c THEN 0 ELSE q.head + 1
      BY <1>1, <1>2, SuccessorWraps
    <2> QED BY <1>1, <1>2, <2>1 DEF PopFront, Rings
  <1> HIDE DEF p
  <1>6. \A i \in 1..Size(q) - 1 : At(p, i - 1) = At(q, i)
    <2> TAKE i \in 1..Size(q) - 1
    <2>1. i \in 0..c /\ i - 1 \in 0..c
      BY <1>3
    <2>2. PICK k \in 0..c : /\ k = (q.head + i) % q.max_items
                            /\ k = IF q.head + i <= c THEN q.head + i
                                   ELSE q.head + i - (c + 1)
      BY <2>1, SlotWraps
    <2>3. PICK j \in 0..c : /\ j = (p.head + (i - 1)) % p.max_items
                            /\ j = IF p.head + (i - 1) <= c THEN p.head + (i - 1)
                                   ELSE p.head + (i - 1) - (c + 1)
      BY <1>4, <2>1, SlotWraps
    <2> /\ k = IF q.head + i <= c THEN q.head + i ELSE q.head + i - (c + 1)
        /\ j = IF p.head + (i - 1) <= c THEN p.head + (i - 1)
               ELSE p.head + (i - 1) - (c + 1)
      BY <2>2, <2>3
    <2>4. j = k
      BY <1>1, <1>3, <1>5, <2>1
    <2>5. k # q.head
      BY <1>1, <1>3, <2>1
    <2> QED BY <1>1, <1>2, <1>5, <2>2, <2>3, <2>4, <2>5 DEF At
  <1>7. /\ Contents(q) \in Seq(V) /\ Len(Contents(q)) = Size(q)
        /\ \A i \in 1..Size(q) : Contents(q)[i] = At(q, i - 1)
    BY ContentsIsSequence
  <1>8. Contents(q) # << >>
    BY <1>3, <1>7
  <1>9. Front(q) = Head(Contents(q))
    <2>1. At(q, 0) = Front(q)
      <3>1. (q.head + 0) % q.max_items = q.head
        BY <1>1, SlotWraps
      <3> QED BY <3>1 DEF At, Front
    <2>2. Contents(q)[1] = At(q, 0)
      BY <1>3, <1>7
    <2> QED BY <1>7, <1>8, <2>1, <2>2
  <1>10. /\ Tail(Contents(q)) \in Seq(V) /\ Len(Tail(Contents(q))) = Size(q) - 1
         /\ \A i \in 1..Size(q) - 1 : Tail(Contents(q))[i] = Contents(q)[i + 1]
    BY <1>7, <1>8, HeadTailProperties
  <1>11. \A i \in 1..Size(q) - 1 : Contents(q)[i + 1] = At(q, i)
    BY <1>3, <1>7
  <1>12. /\ Contents(p) \in Seq(V) /\ Len(Contents(p)) = Size(q) - 1
         /\ \A i \in 1..Size(q) - 1 : Contents(p)[i] = At(p, i - 1)
    BY <1>4, ContentsIsSequence
  <1>13. \A i \in 1..Len(Contents(p)) : Contents(p)[i] = Tail(Contents(q))[i]
    BY <1>6, <1>10, <1>11, <1>12
  <1>14. Contents(p) = Tail(Contents(q))
    BY <1>10, <1>12, <1>13, SeqEqual
  <1> QED BY <1>8, <1>9, <1>14 DEF p, r

(* push_back on a full ring appends and drops the oldest item.             *)
LEMMA OverrunDropsHead ==
  ASSUME NEW c \in Nat, NEW V, NEW q \in Rings(c, V), NEW x \in V, Full(q)
  PROVE  /\ Contents(PushBack(q, x)) = Tail(Append(Contents(q), x))
         /\ Len(Contents(q)) = c
  <1> DEFINE p == PushBack(q, x)
             s == Append(Contents(q), x)
  <1>1. /\ q.max_items = c + 1 /\ q.head \in 0..c /\ q.tail \in 0..c
        /\ q.vec \in [0..c -> V]
    BY DEF Rings
  <1>2. /\ Successor(q, q.tail) = IF q.tail = c THEN 0 ELSE q.tail + 1
        /\ Successor(q, q.head) = IF q.head = c THEN 0 ELSE q.head + 1
    BY <1>1, SuccessorWraps
  <1>3. q.head = IF q.tail = c THEN 0 ELSE q.tail + 1
    BY <1>2 DEF Full
  <1>4. /\ p.max_items = c + 1
        /\ p.head = Successor(q, q.head)
        /\ p.vec = [q.vec EXCEPT ![q.tail] = x]
    BY <1>1 DEF PushBack, Full, Rings
  <1>5. Size(q) = c
    BY SizeBounds
  <1>6. p \in Rings(c, V) /\ Size(p) = c
    BY <1>5, PushIsRing
  <1> HIDE DEF p
  <1>7. /\ Contents(q) \in Seq(V) /\ Len(Contents(q)) = c
        /\ \A i \in 1..c : Contents(q)[i] = At(q, i - 1)
    BY <1>5, ContentsIsSequence
  <1>8. /\ s \in Seq(V) /\ s # << >> /\ Len(s) = c + 1
        /\ \A i \in 1..c : s[i] = Contents(q)[i]
        /\ s[c + 1] = x
    BY <1>7, AppendProperties
  <1> HIDE DEF s
  <1>9. /\ Tail(s) \in Seq(V) /\ Len(Tail(s)) = c
        /\ \A i \in 1..c : Tail(s)[i] = s[i + 1]
    BY <1>8, HeadTailProperties
  <1>10. /\ Contents(p) \in Seq(V) /\ Len(Contents(p)) = c
         /\ \A i \in 1..c : Contents(p)[i] = At(p, i - 1)
    BY <1>6, ContentsIsSequence
  <1>11. \A i \in 1..c : At(p, i - 1) = s[i + 1]
    <2> TAKE i \in 1..c
    <2>1. i \in 0..c /\ i - 1 \in 0..c
      OBVIOUS
    <2>2. PICK k \in 0..c : /\ k = (q.head + i) % q.max_items
                            /\ k = IF q.head + i <= c THEN q.head + i
                                   ELSE q.head + i - (c + 1)
      BY <2>1, SlotWraps
    <2>3. PICK j \in 0..c : /\ j = (p.head + (i - 1)) % p.max_items
                            /\ j = IF p.head + (i - 1) <= c THEN p.head + (i - 1)
                                   ELSE p.head + (i - 1) - (c + 1)
      BY <1>6, <2>1, SlotWraps
    <2> /\ k = IF q.head + i <= c THEN q.head + i ELSE q.head + i - (c + 1)
        /\ j = IF p.head + (i - 1) <= c THEN p.head + (i - 1)
               ELSE p.head + (i - 1) - (c + 1)
      BY <2>2, <2>3
    <2>4. j = k
      BY <1>1, <1>2, <1>4, <2>1
    <2>5. k = q.tail <=> i = c
      BY <1>1, <1>3, <2>1
    <2>6. At(p, i - 1) = p.vec[k]
      BY <2>3, <2>4 DEF At
    <2>7. CASE i = c
      BY <1>1, <1>4, <1>8, <2>5, <2>6, <2>7
    <2>8. CASE i # c
      <3>1. i + 1 \in 1..c /\ (i + 1) - 1 = i
        BY <2>8
      <3>2. s[i + 1] = At(q, i)
        BY <1>7, <1>8, <3>1
      <3>3. At(q, i) = q.vec[k]
        BY <2>2 DEF At
      <3> QED BY <1>1, <1>4, <2>5, <2>6, <2>8, <3>2, <3>3
    <2> QED BY <2>7, <2>8
  <1>12. \A i \in 1..Len(Contents(p)) : Contents(p)[i] = Tail(s)[i]
    BY <1>9, <1>10, <1>11
  <1>13. Contents(p) = Tail(s)
    BY <1>9, <1>10, <1>12, SeqEqual
  <1> QED BY <1>7, <1>13 DEF p, s
=============================================================================
