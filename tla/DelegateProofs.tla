---------------------------- MODULE DelegateProofs ----------------------------
(***************************************************************************)
(* The delegate for any delegates, tokens and threads.  The inductive      *)
(* invariant follows a listener from the list it is added to over the      *)
(* change in progress to the buffer, and from the set of listeners that    *)
(* are owned to the one token that names it: such a token is bound to the  *)
(* address of the delegate that has the listener and carries its observer, *)
(* so that it is never empty-handed and never reaches another delegate.    *)
(***************************************************************************)
EXTENDS Delegate, SequenceTheorems, TLAPS

(* The parts of TypeOK.                                                    *)
Numbers ==
  /\ global_counter \in 0..MaxListeners
  /\ observers \in 0..MaxObservers
  /\ alive \subseteq Delegates
  /\ lifetime_observer \in [Delegates -> 0..observers]
  /\ copied \subseteq 1..observers

Lists ==
  /\ listeners \in [Delegates -> Seq(Listener)]
  /\ readable_buffer \in [Delegates -> Seq(Listener)]
  /\ \A d \in Delegates :
       /\ Distinct(listeners[d])
       /\ \A i \in Ids(listeners[d]) : i < global_counter
       /\ d \notin alive => lifetime_observer[d] = 0 /\ listeners[d] = <<>>

Holders ==
  /\ token \in [Tokens -> Token \cup {None}]
  /\ change \in Change \cup {None}
  /\ automatic \subseteq Delegates \X (0..MaxListeners)
  /\ owned \subseteq automatic

Calls == call \in [Threads -> Seq(Listener) \cup {None}]

(* A token that can be locked is bound to an address that is in use.       *)
TokensBound ==
  \A k \in Tokens : token[k] # None =>
    /\ token[k].id < global_counter
    /\ token[k].observer <= observers
    /\ Locks(k) => token[k].this \in alive

(* A change reaches a living delegate; only that one is behind its list,   *)
(* and a token that is about to be made has an id of its own.              *)
ChangeSound ==
  /\ change # None =>
       /\ change.this \in alive
       /\ change.token # None =>
            /\ change.step = "publish"
            /\ lifetime_observer[change.this] # 0
            /\ change.id < global_counter
            /\ change.id \in Ids(listeners[change.this])
            /\ \A k \in Tokens : token[k] # None => token[k].id # change.id
            /\ \A p \in automatic : p[2] # change.id
  /\ \A d \in Delegates :
       ~(change # None /\ change.step = "publish" /\ change.this = d)
         => readable_buffer[d] = listeners[d]

(* Pairs of a delegate and a listener added with a token.                  *)
PairsKnown ==
  \A p \in automatic :
    /\ p[1] \in alive /\ p[2] < global_counter
    /\ \A q \in automatic : p[2] = q[2] => p = q

(* What a token may still give up is where the token looks for it.         *)
OwnersHold ==
  \A k \in Tokens : token[k] # None =>
    \A p \in owned : p[2] = token[k].id =>
      token[k].this = p[1] /\ token[k].observer = lifetime_observer[p[1]]

(* The pair that a removal is taking out.                                  *)
Taken(p) == change # None /\ change.step = "remove" /\ p = <<change.this, change.id>>

ListedOrTaken ==
  \A p \in automatic :
    IF Taken(p) THEN p \notin owned
    ELSE p \in owned <=> p[2] \in Ids(listeners[p[1]])

IInv ==
  /\ Numbers /\ Lists /\ Holders /\ Calls
  /\ TokensBound /\ ChangeSound
  /\ PairsKnown /\ OwnersHold /\ ListedOrTaken

LEMMA TypeParts == IInv => TypeOK
  BY DEF IInv, TypeOK, Numbers, Lists, Holders, Calls
-----------------------------------------------------------------------------
(* Lists of listeners.                                                     *)

Join(l, funcs, g) == l \o [i \in DOMAIN funcs |-> [id |-> g + i - 1, func |-> funcs[i]]]

LEMMA Joining ==
  ASSUME NEW l \in Seq(Listener), NEW funcs \in Seq(0..MaxListeners), NEW g \in Nat,
         g + Len(funcs) <= MaxListeners,
         Distinct(l), \A i \in Ids(l) : i < g,
         NEW m, m = Join(l, funcs, g)
  PROVE  /\ m \in Seq(Listener)
         /\ Distinct(m)
         /\ \A i \in Ids(m) : i < g + Len(funcs)
         /\ Len(funcs) # 0 => g \in Ids(m)
         /\ \A i \in Nat : i < g => (i \in Ids(m) <=> i \in Ids(l))
  <1> DEFINE new == [i \in DOMAIN funcs |-> [id |-> g + i - 1, func |-> funcs[i]]]
  <1>1. /\ DOMAIN funcs = 1..Len(funcs) /\ Len(funcs) \in Nat
        /\ \A i \in 1..Len(funcs) : funcs[i] \in 0..MaxListeners
    BY LenProperties, ElementOfSeq
  <1>2. \A i \in 1..Len(funcs) : new[i] \in Listener /\ new[i].id = g + i - 1
    BY <1>1, DelegateAssumption DEF Listener
  <1>3. new \in Seq(Listener) /\ Len(new) = Len(funcs)
    BY <1>1, <1>2, IsASeq
  <1> HIDE DEF new
  <1>4. /\ m \in Seq(Listener)
        /\ Len(m) = Len(l) + Len(funcs) /\ Len(l) \in Nat
        /\ \A i \in 1..Len(l) : m[i] = l[i]
        /\ \A i \in Len(l) + 1 .. Len(m) : m[i] = new[i - Len(l)]
    <2>1. Len(l) \in Nat
      BY LenProperties
    <2>2. /\ l \o new \in Seq(Listener)
          /\ Len(l \o new) = Len(l) + Len(new)
          /\ \A i \in 1 .. Len(l) + Len(new) :
               (l \o new)[i] = IF i <= Len(l) THEN l[i] ELSE new[i - Len(l)]
      BY <1>3, ConcatProperties
    <2>3. m = l \o new
      BY DEF new, Join
    <2>4. Len(m) = Len(l) + Len(funcs)
      BY <1>3, <2>2, <2>3
    <2>5. ASSUME NEW i \in 1..Len(l) PROVE m[i] = l[i]
      BY <1>1, <1>3, <2>1, <2>2, <2>3
    <2>6. ASSUME NEW i \in Len(l) + 1 .. Len(m) PROVE m[i] = new[i - Len(l)]
      <3>1. i \in 1 .. Len(l) + Len(new) /\ ~(i <= Len(l))
        BY <1>1, <1>3, <2>1, <2>4
      <3> QED BY <2>2, <2>3, <3>1
    <2> QED BY <2>1, <2>2, <2>3, <2>4, <2>5, <2>6
  <1>5. \A i \in 1..Len(l) : l[i].id \in Nat /\ l[i].id < g
    <2> TAKE i \in 1..Len(l)
    <2>1. l[i] \in Listener /\ i \in DOMAIN l
      BY LenProperties, ElementOfSeq
    <2>2. l[i].id \in Ids(l)
      BY <2>1 DEF Ids
    <2> QED BY <2>1, <2>2, DelegateAssumption DEF Listener
  <1>6. \A i \in Len(l) + 1 .. Len(m) : m[i].id = g + (i - Len(l)) - 1
    <2> TAKE i \in Len(l) + 1 .. Len(m)
    <2>1. i - Len(l) \in 1..Len(funcs) /\ m[i] = new[i - Len(l)]
      BY <1>1, <1>4
    <2> QED BY <1>2, <2>1
  <1>7. \A i \in 1..Len(m) :
          \/ i \in 1..Len(l) /\ m[i].id = l[i].id /\ m[i].id < g
          \/ i \in Len(l) + 1 .. Len(m) /\ m[i].id = g + (i - Len(l)) - 1
    BY <1>4, <1>5, <1>6
  <1>8. DOMAIN m = 1..Len(m) /\ DOMAIN l = 1..Len(l) /\ Len(m) \in Nat
    BY <1>4, LenProperties
  <1>9. Distinct(m)
    <2> SUFFICES ASSUME NEW i \in 1..Len(m), NEW j \in 1..Len(m), m[i].id = m[j].id
                 PROVE  i = j
      BY <1>8 DEF Distinct
    <2>1. CASE i \in 1..Len(l) /\ j \in 1..Len(l)
      BY <1>4, <1>8, <2>1 DEF Distinct
    <2>2. CASE i \notin 1..Len(l) \/ j \notin 1..Len(l)
      BY <1>1, <1>4, <1>7, <2>2
    <2> QED BY <2>1, <2>2
  <1>10. \A i \in Ids(m) : i < g + Len(funcs)
    <2> TAKE i \in Ids(m)
    <2>1. PICK j \in 1..Len(m) : i = m[j].id
      BY <1>8 DEF Ids
    <2> QED BY <1>1, <1>4, <1>5, <1>7, <2>1
  <1>11. Len(funcs) # 0 => g \in Ids(m)
    <2> HAVE Len(funcs) # 0
    <2>1. Len(l) + 1 \in DOMAIN m /\ m[Len(l) + 1].id = g
      BY <1>1, <1>4, <1>6, <1>8
    <2> QED BY <2>1 DEF Ids
  <1>12. \A i \in Nat : i < g => (i \in Ids(m) <=> i \in Ids(l))
    <2> TAKE i \in Nat
    <2> HAVE i < g
    <2>1. i \in Ids(l) => i \in Ids(m)
      BY <1>4, <1>8 DEF Ids
    <2>2. ASSUME i \in Ids(m) PROVE i \in Ids(l)
      <3>1. PICK j \in 1..Len(m) : i = m[j].id
        BY <1>8, <2>2 DEF Ids
      <3>2. j \in 1..Len(l) /\ m[j].id = l[j].id
        BY <1>4, <1>7, <3>1
      <3> QED BY <1>8, <3>1, <3>2 DEF Ids
    <2> QED BY <2>1, <2>2
  <1> QED BY <1>4, <1>9, <1>10, <1>11, <1>12

LEMMA EmptyList ==
  /\ <<>> \in Seq(Listener)
  /\ Distinct(<<>>) /\ Ids(<<>>) = {}
  BY DEF Distinct, Ids

LEMMA Leaving ==
  ASSUME NEW l \in Seq(Listener), Distinct(l), NEW i \in DOMAIN l,
         NEW m, m = RemoveAt(l, i)
  PROVE  m \in Seq(Listener) /\ Distinct(m) /\ Ids(m) = Ids(l) \ {l[i].id}
  <1>1. /\ i \in 1..Len(l) /\ Len(l) \in Nat /\ DOMAIN l = 1..Len(l)
        /\ \A j \in 1..Len(l) : l[j] \in Listener
    BY LenProperties, ElementOfSeq
  <1> DEFINE front == SubSeq(l, 1, i - 1)
             back == SubSeq(l, i + 1, Len(l))
  <1>2. /\ front \in Seq(Listener) /\ Len(front) = i - 1
        /\ \A j \in 1 .. i - 1 : front[j] = l[j]
    <2>1. \A j \in 1 .. i - 1 : l[j] \in Listener
      BY <1>1
    <2>2. /\ front \in Seq(Listener)
          /\ Len(front) = IF 1 <= i - 1 THEN (i - 1) - 1 + 1 ELSE 0
          /\ \A j \in 1 .. (i - 1) - 1 + 1 : front[j] = l[1 + j - 1]
      BY <1>1, <2>1, SubSeqProperties
    <2> QED BY <1>1, <2>2
  <1>3. /\ back \in Seq(Listener) /\ Len(back) = Len(l) - i
        /\ \A j \in 1 .. Len(l) - i : back[j] = l[i + j]
    <2>1. \A j \in i + 1 .. Len(l) : l[j] \in Listener
      BY <1>1
    <2>2. /\ back \in Seq(Listener)
          /\ Len(back) = IF i + 1 <= Len(l) THEN Len(l) - (i + 1) + 1 ELSE 0
          /\ \A j \in 1 .. Len(l) - (i + 1) + 1 : back[j] = l[(i + 1) + j - 1]
      BY <1>1, <2>1, SubSeqProperties
    <2>3. Len(back) = Len(l) - i
      BY <1>1, <2>2
    <2>4. ASSUME NEW j \in 1 .. Len(l) - i PROVE back[j] = l[i + j]
      <3>1. j \in 1 .. Len(l) - (i + 1) + 1 /\ (i + 1) + j - 1 = i + j
        BY <1>1
      <3> QED BY <2>2, <3>1
    <2> QED BY <2>2, <2>3, <2>4
  <1>4. m = front \o back
    BY DEF RemoveAt
  <1> HIDE DEF front, back
  <1>5. /\ m \in Seq(Listener) /\ Len(m) = Len(l) - 1
        /\ \A j \in 1 .. i - 1 : m[j] = l[j]
        /\ \A j \in i .. Len(l) - 1 : m[j] = l[j + 1]
    <2> front \in Seq(Listener) /\ back \in Seq(Listener)
      BY <1>2, <1>3
    <2>1. /\ m \in Seq(Listener)
          /\ Len(m) = Len(front) + Len(back)
          /\ \A j \in 1 .. Len(front) + Len(back) :
               m[j] = IF j <= Len(front) THEN front[j] ELSE back[j - Len(front)]
      BY <1>4, ConcatProperties
    <2>2. Len(m) = Len(l) - 1 /\ Len(front) + Len(back) = Len(l) - 1
      BY <1>1, <1>2, <1>3, <2>1
    <2>3. ASSUME NEW j \in 1 .. i - 1 PROVE m[j] = l[j]
      <3>1. j \in 1 .. Len(front) + Len(back) /\ j <= Len(front)
        BY <1>1, <1>2, <1>3, <2>2
      <3> QED BY <1>2, <2>1, <3>1
    <2>4. ASSUME NEW j \in i .. Len(l) - 1 PROVE m[j] = l[j + 1]
      <3>1. /\ j \in 1 .. Len(front) + Len(back) /\ ~(j <= Len(front))
            /\ j - Len(front) \in 1 .. Len(l) - i
            /\ i + (j - Len(front)) = j + 1
        BY <1>1, <1>2, <1>3, <2>2
      <3>2. m[j] = back[j - Len(front)]
        BY <2>1, <3>1
      <3>3. back[j - Len(front)] = l[i + (j - Len(front))]
        BY <1>3, <3>1
      <3> QED BY <3>1, <3>2, <3>3
    <2> QED BY <2>1, <2>2, <2>3, <2>4
  <1>6. DOMAIN m = 1 .. Len(l) - 1
    BY <1>5, LenProperties
  <1> DEFINE at(j) == IF j < i THEN j ELSE j + 1
  <1>7. \A j \in DOMAIN m : at(j) \in 1..Len(l) /\ at(j) # i /\ m[j] = l[at(j)]
    BY <1>1, <1>5, <1>6
  <1>8. \A j, k \in DOMAIN m : at(j) = at(k) => j = k
    BY <1>1, <1>6
  <1>9. \A k \in 1..Len(l) : k # i => \E j \in DOMAIN m : at(j) = k
    <2> TAKE k \in 1..Len(l)
    <2> HAVE k # i
    <2>1. CASE k < i
      <3>1. k \in DOMAIN m /\ at(k) = k
        BY <1>1, <1>6, <2>1
      <3> QED BY <3>1
    <2>2. CASE k > i
      <3>1. k - 1 \in DOMAIN m /\ at(k - 1) = k
        BY <1>1, <1>6, <2>2
      <3> QED BY <3>1
    <2> QED BY <1>1, <2>1, <2>2
  <1> HIDE DEF at
  <1>10. Distinct(m)
    BY <1>1, <1>7, <1>8 DEF Distinct
  <1>11. Ids(m) = Ids(l) \ {l[i].id}
    <2>1. ASSUME NEW x \in Ids(m) PROVE x \in Ids(l) \ {l[i].id}
      <3>1. PICK j \in DOMAIN m : x = m[j].id
        BY DEF Ids
      <3>2. at(j) \in DOMAIN l /\ x = l[at(j)].id /\ at(j) # i
        BY <1>1, <1>7, <3>1
      <3> QED BY <1>1, <3>2 DEF Ids, Distinct
    <2>2. ASSUME NEW x \in Ids(l), x # l[i].id PROVE x \in Ids(m)
      <3>1. PICK k \in DOMAIN l : x = l[k].id
        BY DEF Ids
      <3>2. PICK j \in DOMAIN m : at(j) = k
        BY <1>1, <1>9, <2>2, <3>1
      <3> QED BY <1>7, <3>1, <3>2 DEF Ids
    <2> QED BY <2>1, <2>2
  <1> QED BY <1>5, <1>10, <1>11

LEMMA ConstructStep ==
  ASSUME IInv, NEW d \in Delegates, Construct(d)
  PROVE  IInv'
  <1>1. Numbers'
    BY DelegateAssumption DEF IInv, Numbers, Construct
  <1>2. Lists'
    BY DEF IInv, Lists, Construct, lists
  <1>3. Holders'
    BY DEF IInv, Holders, Construct, history
  <1>4. Calls'
    BY DEF IInv, Calls, Construct
  <1>5. TokensBound'
    BY DEF IInv, TokensBound, Construct, Numbers, Holders, Locks, Token
  <1>6. ChangeSound'
    BY DEF IInv, ChangeSound, Construct, lists
  <1>7. PairsKnown'
    BY DEF IInv, PairsKnown, Construct, history
  <1>8. OwnersHold'
    BY DEF IInv, OwnersHold, PairsKnown, Construct, history, Holders
  <1>9. ListedOrTaken'
    BY DEF IInv, ListedOrTaken, Construct, lists, history, Taken
  <1> QED BY <1>1, <1>2, <1>3, <1>4, <1>5, <1>6, <1>7, <1>8, <1>9 DEF IInv

LEMMA CopyToStep ==
  ASSUME IInv, NEW d \in Delegates, NEW e \in Delegates, CopyTo(d, e)
  PROVE  IInv'
  <1>1. Numbers'
    BY DEF IInv, Numbers, CopyTo
  <1>2. Lists'
    <2>1. \A x \in Delegates :
            /\ listeners'[x] = IF x = e THEN listeners[d] ELSE listeners[x]
            /\ readable_buffer'[x] = IF x = e THEN readable_buffer[d] ELSE readable_buffer[x]
            /\ x # e => lifetime_observer'[x] = lifetime_observer[x]
            /\ x \notin alive' => x # e /\ x \notin alive
      BY DEF IInv, Numbers, Lists, CopyTo
    <2>2. listeners' \in [Delegates -> Seq(Listener)] /\ readable_buffer' \in [Delegates -> Seq(Listener)]
      BY EmptyList DEF IInv, Lists, CopyTo
    <2>3. ASSUME NEW x \in Delegates
          PROVE  /\ Distinct(listeners'[x])
                 /\ \A i \in Ids(listeners'[x]) : i < global_counter'
                 /\ x \notin alive' => lifetime_observer'[x] = 0 /\ listeners'[x] = <<>>
      BY <2>1, EmptyList DEF IInv, Lists, CopyTo
    <2> QED BY <2>2, <2>3 DEF Lists
  <1>3. Holders'
    BY DEF IInv, Holders, CopyTo, Forget, Except
  <1>4. Calls'
    BY DEF IInv, Calls, CopyTo
  <1>5. TokensBound'
    BY DEF IInv, TokensBound, CopyTo, Usable, Numbers, Locks
  <1>6. ChangeSound'
    BY DEF IInv, ChangeSound, CopyTo, Lists
  <1>7. PairsKnown'
    BY DEF IInv, PairsKnown, CopyTo, Forget, Except
  <1>8. OwnersHold'
    BY DEF IInv, OwnersHold, CopyTo, Forget, Except
  <1>9. ListedOrTaken'
    BY DEF IInv, ListedOrTaken, CopyTo, Forget, Except, Taken
  <1> QED BY <1>1, <1>2, <1>3, <1>4, <1>5, <1>6, <1>7, <1>8, <1>9 DEF IInv

LEMMA MoveToStep ==
  ASSUME IInv, NEW d \in Delegates, NEW e \in Delegates, MoveTo(d, e)
  PROVE  IInv'
  <1>1. Numbers'
    BY DEF IInv, Numbers, MoveTo
  <1>2. Lists'
    <2>1. \A x \in Delegates :
            /\ listeners'[x] = IF x = d THEN <<>>
                               ELSE IF x = e THEN listeners[d] ELSE listeners[x]
            /\ readable_buffer'[x] = IF x = d THEN <<>>
                                     ELSE IF x = e THEN readable_buffer[d] ELSE readable_buffer[x]
            /\ lifetime_observer'[x] = IF x = d THEN 0
                                       ELSE IF x = e THEN lifetime_observer[d] ELSE lifetime_observer[x]
            /\ x \notin alive' => x # e /\ x \notin alive
      BY DEF IInv, Numbers, Lists, MoveTo
    <2>2. listeners' \in [Delegates -> Seq(Listener)] /\ readable_buffer' \in [Delegates -> Seq(Listener)]
      BY EmptyList DEF IInv, Lists, MoveTo
    <2>3. ASSUME NEW x \in Delegates
          PROVE  /\ Distinct(listeners'[x])
                 /\ \A i \in Ids(listeners'[x]) : i < global_counter'
                 /\ x \notin alive' => lifetime_observer'[x] = 0 /\ listeners'[x] = <<>>
      BY <2>1, EmptyList DEF IInv, Lists, MoveTo
    <2> QED BY <2>2, <2>3 DEF Lists
  <1>3. Holders'
    BY DEF IInv, Holders, MoveTo, Moved, Except
  <1>4. Calls'
    BY DEF IInv, Calls, MoveTo
  <1>5. TokensBound'
    BY DEF IInv, TokensBound, MoveTo, Usable, Numbers, Holders, Locks, Token
  <1>6. ChangeSound'
    BY DEF IInv, ChangeSound, MoveTo, Lists
  <1>7. PairsKnown'
    <2>1. ASSUME NEW p \in automatic'
          PROVE  \E a \in automatic :
                   a[2] = p[2] /\ p = IF a[1] = d THEN <<e, a[2]>> ELSE a
      <3>1. PICK a \in Except(e, automatic) : p = IF a[1] = d THEN <<e, a[2]>> ELSE a
        BY DEF MoveTo, Moved
      <3>2. a \in automatic
        BY DEF Except
      <3> QED BY <3>1, <3>2
    <2>2. alive' = alive \cup {e} /\ global_counter' = global_counter
      BY DEF MoveTo
    <2>3. ASSUME NEW p \in automatic'
          PROVE  p[1] \in alive' /\ p[2] < global_counter'
      BY <2>1, <2>2 DEF IInv, PairsKnown
    <2>4. ASSUME NEW p \in automatic', NEW q \in automatic', p[2] = q[2]
          PROVE  p = q
      BY <2>1, <2>4 DEF IInv, PairsKnown
    <2> QED BY <2>3, <2>4 DEF PairsKnown
  <1>8. OwnersHold'
    BY DEF IInv, OwnersHold, MoveTo, Moved, Except, MayMove, Holds, Numbers, Holders
  <1>9. ListedOrTaken'
    BY DEF IInv, ListedOrTaken, MoveTo, Moved, Except, Lists, Holders, Taken
  <1> QED BY <1>1, <1>2, <1>3, <1>4, <1>5, <1>6, <1>7, <1>8, <1>9 DEF IInv

LEMMA DestroyStep ==
  ASSUME IInv, NEW d \in Delegates, Destroy(d)
  PROVE  IInv'
  <1>1. Numbers'
    BY DEF IInv, Numbers, Destroy
  <1>2. Lists'
    <2>1. \A x \in Delegates :
            /\ listeners'[x] = IF x = d THEN <<>> ELSE listeners[x]
            /\ readable_buffer'[x] = IF x = d THEN <<>> ELSE readable_buffer[x]
            /\ lifetime_observer'[x] = IF x = d THEN 0 ELSE lifetime_observer[x]
            /\ x # d /\ x \notin alive' => x \notin alive
      BY DEF IInv, Numbers, Lists, Destroy
    <2>2. listeners' \in [Delegates -> Seq(Listener)] /\ readable_buffer' \in [Delegates -> Seq(Listener)]
      BY EmptyList DEF IInv, Lists, Destroy
    <2>3. ASSUME NEW x \in Delegates
          PROVE  /\ Distinct(listeners'[x])
                 /\ \A i \in Ids(listeners'[x]) : i < global_counter'
                 /\ x \notin alive' => lifetime_observer'[x] = 0 /\ listeners'[x] = <<>>
      BY <2>1, EmptyList DEF IInv, Lists, Destroy
    <2> QED BY <2>2, <2>3 DEF Lists
  <1>3. Holders'
    BY DEF IInv, Holders, Destroy, Forget, Except
  <1>4. Calls'
    BY DEF IInv, Calls, Destroy
  <1>5. TokensBound'
    BY DEF IInv, TokensBound, Destroy, MayDestroy, Holds, Locks
  <1>6. ChangeSound'
    BY DEF IInv, ChangeSound, Destroy, Lists
  <1>7. PairsKnown'
    BY DEF IInv, PairsKnown, Destroy, Forget, Except
  <1>8. OwnersHold'
    BY DEF IInv, OwnersHold, Destroy, Forget, Except
  <1>9. ListedOrTaken'
    BY DEF IInv, ListedOrTaken, Destroy, Forget, Except, Taken
  <1> QED BY <1>1, <1>2, <1>3, <1>4, <1>5, <1>6, <1>7, <1>8, <1>9 DEF IInv

LEMMA Records ==
  /\ \A x \in Change : x # None
  /\ \A x \in Token : x # None
  /\ \A d \in Delegates, i \in 0..MaxListeners, k \in Tokens \cup {None} :
       /\ Publishing(d, i, k) \in Change
       /\ Publishing(d, i, k).step = "publish" /\ Publishing(d, i, k).this = d
       /\ Publishing(d, i, k).id = i /\ Publishing(d, i, k).token = k
  /\ \A k \in Tokens : token[k] \in Token =>
       /\ Removing(k) \in Change
       /\ Removing(k).step = "remove" /\ Removing(k).this = token[k].this
       /\ Removing(k).id = token[k].id /\ Removing(k).token = None
  BY DelegateAssumption DEF Change, Token, Publishing, Removing

(* What joining listeners does to the lists.                               *)
LEMMA AppendsStep ==
  ASSUME IInv, NEW d \in Delegates, d \in alive, NEW funcs \in Seq(0..MaxListeners),
         Appends(d, funcs), UNCHANGED <<alive, lifetime_observer, readable_buffer>>
  PROVE  /\ global_counter \in Nat /\ Len(funcs) \in Nat
         /\ global_counter' = global_counter + Len(funcs)
         /\ global_counter' \in 0..MaxListeners
         /\ Lists'
         /\ \A x \in Delegates : x # d => listeners'[x] = listeners[x]
         /\ Len(funcs) # 0 => global_counter \in Ids(listeners'[d])
         /\ \A x \in Delegates, i \in Nat :
              i < global_counter => (i \in Ids(listeners'[x]) <=> i \in Ids(listeners[x]))
  <1>1. Len(funcs) \in Nat /\ global_counter \in Nat
    BY LenProperties, DelegateAssumption DEF IInv, Numbers
  <1>2. /\ global_counter' = global_counter + Len(funcs)
        /\ global_counter' \in 0..MaxListeners
    BY <1>1, DelegateAssumption DEF Appends
  <1>3. PICK l \in Seq(Listener) : l = listeners[d]
    BY DEF IInv, Lists
  <1>4. PICK g \in Nat : g = global_counter
    BY <1>1
  <1>5. PICK m : m = Join(l, funcs, g)
    OBVIOUS
  <1>6. listeners' = [listeners EXCEPT ![d] = m]
    BY <1>3, <1>4, <1>5 DEF Appends, Join
  <1>7. g + Len(funcs) <= MaxListeners /\ Distinct(l) /\ \A i \in Ids(l) : i < g
    BY <1>3, <1>4 DEF Appends, IInv, Lists
  <1>8. /\ m \in Seq(Listener)
        /\ Distinct(m)
        /\ \A i \in Ids(m) : i < g + Len(funcs)
        /\ Len(funcs) # 0 => g \in Ids(m)
        /\ \A i \in Nat : i < g => (i \in Ids(m) <=> i \in Ids(l))
    BY <1>5, <1>7, Joining
  <1>9. /\ listeners \in [Delegates -> Seq(Listener)]
        /\ \A x \in Delegates : listeners'[x] = IF x = d THEN m ELSE listeners[x]
    BY <1>6 DEF IInv, Lists
  <1>10. \A x \in Delegates : \A i \in Ids(listeners[x]) : i \in Nat /\ i < global_counter
    <2> TAKE x \in Delegates
    <2> TAKE i \in Ids(listeners[x])
    <2>1. listeners[x] \in Seq(Listener) /\ i < global_counter
      BY DEF IInv, Lists
    <2>2. PICK j \in DOMAIN listeners[x] : i = listeners[x][j].id
      BY DEF Ids
    <2>3. listeners[x][j] \in Listener
      BY <2>1, LenProperties, ElementOfSeq
    <2> QED BY <2>1, <2>2, <2>3 DEF Listener
  <1>11. Lists'
    <2>1. listeners' \in [Delegates -> Seq(Listener)]
      BY <1>6, <1>8, <1>9
    <2>2. ASSUME NEW x \in Delegates, x # d, NEW i \in Ids(listeners'[x])
          PROVE  i < global_counter'
      BY <1>1, <1>2, <1>9, <1>10, <2>2
    <2>3. ASSUME NEW i \in Ids(listeners'[d])
          PROVE  i < global_counter'
      BY <1>2, <1>4, <1>8, <1>9
    <2>4. ASSUME NEW x \in Delegates
          PROVE  /\ Distinct(listeners'[x])
                 /\ x \notin alive' => lifetime_observer'[x] = 0 /\ listeners'[x] = <<>>
      BY <1>8, <1>9 DEF IInv, Lists
    <2> QED BY <2>1, <2>2, <2>3, <2>4 DEF IInv, Lists
  <1> QED BY <1>1, <1>2, <1>3, <1>4, <1>8, <1>9, <1>11

LEMMA JoinsStep ==
  ASSUME IInv, NEW d \in Delegates, NEW k \in Tokens \cup {None}, Joins(d, k),
         UNCHANGED <<observers, alive, lifetime_observer>>,
         \/ copied' = copied
         \/ \E e \in alive : lifetime_observer[e] # 0 /\ copied' = copied \cup {lifetime_observer[e]}
  PROVE  IInv'
  <1>0. /\ global_counter \in Nat /\ global_counter' = global_counter + 1
        /\ global_counter' \in 0..MaxListeners
        /\ Lists'
        /\ \A x \in Delegates : x # d => listeners'[x] = listeners[x]
        /\ global_counter \in Ids(listeners'[d])
        /\ \A x \in Delegates, i \in Nat :
             i < global_counter => (i \in Ids(listeners'[x]) <=> i \in Ids(listeners[x]))
    <2>1. PICK g \in 0..MaxListeners : g = global_counter
      BY DEF IInv, Numbers
    <2>2. <<g>> \in Seq(0..MaxListeners) /\ Len(<<g>>) = 1
      OBVIOUS
    <2>3. Appends(d, <<g>>) /\ d \in alive /\ UNCHANGED <<alive, lifetime_observer, readable_buffer>>
      BY <2>1 DEF Joins, Usable
    <2>4. PICK funcs \in Seq(0..MaxListeners) : funcs = <<g>>
      BY <2>2
    <2>5. /\ global_counter' = global_counter + Len(funcs)
          /\ global_counter \in Nat /\ global_counter' \in 0..MaxListeners
          /\ Lists'
          /\ \A x \in Delegates : x # d => listeners'[x] = listeners[x]
          /\ Len(funcs) # 0 => global_counter \in Ids(listeners'[d])
          /\ \A x \in Delegates, i \in Nat :
               i < global_counter => (i \in Ids(listeners'[x]) <=> i \in Ids(listeners[x]))
      BY <2>3, <2>4, AppendsStep
    <2>6. Len(funcs) = 1
      BY <2>2, <2>4
    <2> QED BY <2>5, <2>6
  <1>1. Numbers'
    <2>1. observers \in Nat
      BY DelegateAssumption DEF IInv, Numbers
    <2>2. ASSUME NEW e \in alive, lifetime_observer[e] # 0
          PROVE  lifetime_observer[e] \in 1..observers
      <3>1. lifetime_observer[e] \in 0..observers
        BY DEF IInv, Numbers
      <3> QED BY <2>1, <2>2, <3>1
    <2>3. copied' \subseteq 1..observers
      <3>1. copied \subseteq 1..observers
        BY DEF IInv, Numbers
      <3>2. ASSUME NEW o \in copied' PROVE o \in 1..observers
        <4>1. o \in copied \/ \E e \in alive : lifetime_observer[e] # 0 /\ o = lifetime_observer[e]
          OBVIOUS
        <4> QED BY <2>2, <3>1, <4>1
      <3> QED BY <3>2
    <2>4. observers' = observers /\ alive' = alive /\ lifetime_observer' = lifetime_observer
      OBVIOUS
    <2> QED BY <1>0, <2>3, <2>4 DEF IInv, Numbers
  <1>2. Lists'
    BY <1>0
  <1>3. Holders'
    BY DEF IInv, Holders, Joins, Publishing, history, Numbers, Change
  <1>4. Calls'
    BY DEF IInv, Calls, Joins
  <1>5. TokensBound'
    <2>1. token' = token
      BY DEF Joins
    <2>2. \A j \in Tokens : Locks(j)' <=> Locks(j)
      BY <2>1 DEF Locks
    <2> QED
      BY <1>0, <2>1, <2>2, DelegateAssumption DEF IInv, TokensBound, Holders, Token
  <1>6. ChangeSound'
    <2>1. change' = Publishing(d, global_counter, k) /\ d \in alive' /\ lifetime_observer'[d] # 0
      BY DEF Joins, Usable
    <2>2. \A j \in Tokens : token'[j] # None => token'[j].id # global_counter
      BY <1>0 DEF IInv, TokensBound, Joins, Holders, Token
    <2>3. \A p \in automatic' : p[2] # global_counter
      BY <1>0 DEF IInv, PairsKnown, Joins, history
    <2>4. \A x \in Delegates : x # d => readable_buffer'[x] = listeners'[x]
      BY <1>0 DEF IInv, ChangeSound, Joins
    <2>5. global_counter \in 0..MaxListeners
      BY DEF IInv, Numbers
    <2> QED BY <1>0, <2>1, <2>2, <2>3, <2>4, <2>5, Records DEF ChangeSound
  <1>7. PairsKnown'
    BY <1>0, DelegateAssumption DEF IInv, Numbers, Holders, PairsKnown, Joins, history
  <1>8. OwnersHold'
    BY DEF IInv, OwnersHold, Joins, history
  <1>9. ListedOrTaken'
    <2>1. change = None /\ change'.step = "publish" /\ automatic' = automatic /\ owned' = owned
      BY DEF Joins, Publishing, history
    <2>2. \A p \in automatic :
            p[1] \in Delegates /\ p[2] \in Nat /\ p[2] < global_counter
      BY DEF IInv, Holders, PairsKnown
    <2>3. \A p \in automatic : p[2] \in Ids(listeners'[p[1]]) <=> p[2] \in Ids(listeners[p[1]])
      BY <1>0, <2>2
    <2> QED BY <2>1, <2>3 DEF IInv, ListedOrTaken, Taken
  <1> QED BY <1>1, <1>2, <1>3, <1>4, <1>5, <1>6, <1>7, <1>8, <1>9 DEF IInv

LEMMA AddListenerStep ==
  ASSUME IInv, NEW d \in Delegates, NEW k \in Tokens \cup {None}, AddListener(d, k)
  PROVE  IInv'
  BY JoinsStep DEF AddListener, objects

LEMMA AddDelegateStep ==
  ASSUME IInv, NEW d \in Delegates, NEW e \in Delegates, AddDelegate(d, e)
  PROVE  IInv'
  BY JoinsStep DEF AddDelegate, Usable

LEMMA MergeStep ==
  ASSUME IInv, NEW d \in Delegates, NEW e \in Delegates, Merge(d, e)
  PROVE  IInv'
  <1>0. /\ global_counter \in Nat /\ global_counter' \in Nat /\ global_counter <= global_counter'
        /\ global_counter' \in 0..MaxListeners
        /\ Lists'
        /\ \A x \in Delegates : x # d => listeners'[x] = listeners[x]
        /\ \A x \in Delegates, i \in Nat :
             i < global_counter => (i \in Ids(listeners'[x]) <=> i \in Ids(listeners[x]))
    <2>1. PICK l \in Seq(Listener) : l = listeners[e]
      BY DEF IInv, Lists
    <2>2. PICK funcs : funcs = [i \in DOMAIN l |-> l[i].func]
      OBVIOUS
    <2>3. ASSUME NEW i \in 1..Len(l) PROVE l[i].func \in 0..MaxListeners
      <3>1. l[i] \in Listener
        BY ElementOfSeq
      <3> QED BY <3>1 DEF Listener
    <2>4. DOMAIN l = 1..Len(l) /\ Len(l) \in Nat
      BY LenProperties
    <2>5. funcs \in Seq(0..MaxListeners)
      BY <2>2, <2>3, <2>4, IsASeq
    <2>6. Appends(d, funcs) /\ d \in alive /\ UNCHANGED <<alive, lifetime_observer, readable_buffer>>
      BY <2>1, <2>2 DEF Merge, Usable, objects
    <2>7. /\ global_counter \in Nat /\ Len(funcs) \in Nat
          /\ global_counter' = global_counter + Len(funcs)
          /\ global_counter' \in 0..MaxListeners
          /\ Lists'
          /\ \A x \in Delegates : x # d => listeners'[x] = listeners[x]
          /\ \A x \in Delegates, i \in Nat :
               i < global_counter => (i \in Ids(listeners'[x]) <=> i \in Ids(listeners[x]))
      BY <2>5, <2>6, AppendsStep
    <2> QED BY <2>7
  <1>1. Numbers'
    BY <1>0 DEF IInv, Numbers, Merge, objects
  <1>2. Lists'
    BY <1>0
  <1>3. Holders'
    BY DEF IInv, Holders, Merge, Publishing, history, Numbers, Change
  <1>4. Calls'
    BY DEF IInv, Calls, Merge
  <1>5. TokensBound'
    BY <1>0, DelegateAssumption DEF IInv, TokensBound, Holders, Token, Merge, Locks, objects
  <1>6. ChangeSound'
    <2>1. /\ change' = Publishing(d, global_counter, None) /\ d \in alive'
          /\ change = None
      BY DEF Merge, Usable, objects
    <2>2. \A x \in Delegates : x # d => readable_buffer'[x] = listeners'[x]
      BY <1>0 DEF IInv, ChangeSound, Merge
    <2>3. global_counter \in 0..MaxListeners
      BY DEF IInv, Numbers
    <2> QED BY <2>1, <2>2, <2>3, Records DEF ChangeSound
  <1>7. PairsKnown'
    BY <1>0, DelegateAssumption DEF IInv, Numbers, Holders, PairsKnown, Merge, objects, history
  <1>8. OwnersHold'
    BY DEF IInv, OwnersHold, Merge, objects, history
  <1>9. ListedOrTaken'
    <2>1. change = None /\ change'.step = "publish" /\ automatic' = automatic /\ owned' = owned
      BY DEF Merge, Publishing, history
    <2>2. \A p \in automatic :
            p[1] \in Delegates /\ p[2] \in Nat /\ p[2] < global_counter
      BY DEF IInv, Holders, PairsKnown
    <2>3. \A p \in automatic : p[2] \in Ids(listeners'[p[1]]) <=> p[2] \in Ids(listeners[p[1]])
      BY <1>0, <2>2
    <2> QED BY <2>1, <2>3 DEF IInv, ListedOrTaken, Taken
  <1> QED BY <1>1, <1>2, <1>3, <1>4, <1>5, <1>6, <1>7, <1>8, <1>9 DEF IInv

LEMMA UpdateReadableBufferStep ==
  ASSUME IInv, UpdateReadableBuffer
  PROVE  IInv'
  <1> DEFINE d == change.this
             k == change.token
             pair == <<d, change.id>>
             made == [id |-> change.id, observer |-> lifetime_observer[d], this |-> d]
  <1>0. /\ d \in alive /\ d \in Delegates /\ change.id \in 0..MaxListeners
        /\ k \in Tokens \cup {None} /\ change # None /\ change.step = "publish"
        /\ change' = None /\ listeners' = listeners /\ global_counter' = global_counter
        /\ observers' = observers /\ alive' = alive /\ lifetime_observer' = lifetime_observer
        /\ copied' = copied
        /\ IF k = None
           THEN token' = token /\ automatic' = automatic /\ owned' = owned
           ELSE /\ k \in Tokens /\ made \in Token
                /\ token' = [token EXCEPT ![k] = made]
                /\ automatic' = automatic \cup {pair}
                /\ owned' = owned \cup {pair}
                /\ pair \in Delegates \X (0..MaxListeners)
    <2>1. change # None /\ change \in Change /\ change.step = "publish"
      BY DEF IInv, Holders, UpdateReadableBuffer
    <2>2. /\ d \in alive /\ d \in Delegates /\ change.id \in 0..MaxListeners
          /\ k \in Tokens \cup {None}
      BY <2>1 DEF IInv, ChangeSound, Numbers, Change
    <2>3. ASSUME k # None PROVE k \in Tokens /\ made \in Token
      <3>1. lifetime_observer[d] # 0 /\ lifetime_observer[d] \in 0..observers
        BY <2>1, <2>2, <2>3 DEF IInv, ChangeSound, Numbers
      <3>2. lifetime_observer[d] \in 1..MaxObservers
        BY <3>1, DelegateAssumption DEF IInv, Numbers
      <3> QED BY <2>2, <2>3, <3>2 DEF Token
    <2> QED BY <2>1, <2>2, <2>3 DEF UpdateReadableBuffer, objects, history
  <1>1. Numbers'
    BY DEF IInv, Numbers, UpdateReadableBuffer, objects
  <1>2. Lists'
    BY DEF IInv, Lists, UpdateReadableBuffer, objects
  <1>3. Holders'
    BY <1>0 DEF IInv, Holders, Token
  <1>4. Calls'
    BY DEF IInv, Calls, UpdateReadableBuffer
  <1>5. TokensBound'
    <2>1. CASE k = None
      BY <1>0, <2>1 DEF IInv, TokensBound, Locks
    <2>2. CASE k # None
      <3>1. made.id < global_counter /\ made.observer <= observers /\ made.this \in alive
        BY <1>0, <2>2, DelegateAssumption DEF IInv, ChangeSound, Numbers
      <3>2. \A j \in Tokens : token'[j] = IF j = k THEN made ELSE token[j]
        BY <1>0, <2>2 DEF IInv, Holders
      <3> HIDE DEF made
      <3> QED BY <1>0, <3>1, <3>2 DEF IInv, TokensBound, Locks
    <2> QED BY <2>1, <2>2
  <1>6. ChangeSound'
    BY DEF IInv, ChangeSound, UpdateReadableBuffer, Lists
  <1>7. PairsKnown'
    <2>1. CASE k = None
      BY <1>0, <2>1 DEF IInv, PairsKnown
    <2>2. CASE k # None
      <3>1. change.id < global_counter /\ \A p \in automatic : p[2] # change.id
        BY <1>0, <2>2 DEF IInv, ChangeSound
      <3>2. pair[1] = d /\ pair[2] = change.id
        OBVIOUS
      <3>3. automatic' = automatic \cup {pair}
        BY <1>0, <2>2
      <3> HIDE DEF pair
      <3> QED BY <1>0, <3>1, <3>2, <3>3 DEF IInv, PairsKnown
    <2> QED BY <2>1, <2>2
  <1>8. OwnersHold'
    <2>1. CASE k = None
      BY <1>0, <2>1 DEF IInv, OwnersHold
    <2>2. CASE k # None
      <3>1. /\ \A p \in automatic : p[2] # change.id
            /\ \A j \in Tokens : token[j] # None => token[j].id # change.id
        BY <1>0, <2>2 DEF IInv, ChangeSound
      <3>2. /\ pair[1] = d /\ pair[2] = change.id
            /\ made.id = change.id /\ made.observer = lifetime_observer[d] /\ made.this = d
        OBVIOUS
      <3>3. \A j \in Tokens : token'[j] = IF j = k THEN made ELSE token[j]
        BY <1>0, <2>2 DEF IInv, Holders
      <3>4. owned' = owned \cup {pair} /\ owned \subseteq automatic
        BY <1>0, <2>2 DEF IInv, Holders
      <3> HIDE DEF pair, made
      <3> QED BY <1>0, <3>1, <3>2, <3>3, <3>4 DEF IInv, OwnersHold
    <2> QED BY <2>1, <2>2
  <1>9. ListedOrTaken'
    <2>1. CASE k = None
      BY <1>0, <2>1 DEF IInv, ListedOrTaken, Taken
    <2>2. CASE k # None
      <3>1. /\ change.id \in Ids(listeners[d])
            /\ \A p \in automatic : p[2] # change.id
        BY <1>0, <2>2 DEF IInv, ChangeSound
      <3>2. pair[1] = d /\ pair[2] = change.id
        OBVIOUS
      <3>3. automatic' = automatic \cup {pair} /\ owned' = owned \cup {pair}
        BY <1>0, <2>2
      <3>4. \A p \in automatic : p \in owned <=> p[2] \in Ids(listeners[p[1]])
        BY <1>0 DEF IInv, ListedOrTaken, Taken
      <3> HIDE DEF pair
      <3>5. \A p \in automatic' : p \in owned' <=> p[2] \in Ids(listeners'[p[1]])
        BY <1>0, <3>1, <3>2, <3>3, <3>4
      <3> QED BY <1>0, <3>5 DEF ListedOrTaken, Taken
    <2> QED BY <2>1, <2>2
  <1> QED BY <1>1, <1>2, <1>3, <1>4, <1>5, <1>6, <1>7, <1>8, <1>9 DEF IInv

(* What clearing a token does to the listener that it owns.                *)
LEMMA ClearsFacts ==
  ASSUME IInv, NEW k \in Tokens, change = None, Clears(k),
         UNCHANGED <<alive, lifetime_observer, listeners, readable_buffer, automatic>>
  PROVE  /\ change' \in Change \cup {None}
         /\ change' # None =>
              change'.step = "remove" /\ change'.this \in alive /\ change'.token = None
         /\ owned' \subseteq owned
         /\ ChangeSound'
         /\ ListedOrTaken'
  <1>1. CASE token[k] = None
    BY <1>1 DEF Clears, IInv, Holders, ChangeSound, ListedOrTaken, Taken
  <1>2. CASE token[k] # None
    <2>1. token[k] \in Token
      BY <1>2 DEF IInv, Holders
    <2>2. /\ Removing(k) \in Change /\ Removing(k) # None
          /\ Removing(k).step = "remove" /\ Removing(k).this = token[k].this
          /\ Removing(k).id = token[k].id /\ Removing(k).token = None
      BY <2>1, Records
    <2>3. /\ change' = IF Locks(k) THEN Removing(k) ELSE None
          /\ owned' = {p \in owned : p[2] # token[k].id}
      BY <1>2 DEF Clears
    <2>4. Locks(k) => token[k].this \in alive
      BY <1>2 DEF IInv, TokensBound
    <2>5. /\ change' \in Change \cup {None} /\ owned' \subseteq owned
          /\ change' # None =>
               change'.step = "remove" /\ change'.this \in alive /\ change'.token = None
      BY <2>2, <2>3, <2>4
    <2>6. ChangeSound'
      <3>1. readable_buffer' = listeners' \/ \A d \in Delegates : readable_buffer'[d] = listeners'[d]
        BY DEF IInv, ChangeSound
      <3> QED BY <2>5, <3>1 DEF ChangeSound
    <2>7. \A p \in automatic : p \in owned <=> p[2] \in Ids(listeners[p[1]])
      BY DEF IInv, ListedOrTaken, Taken
    <2>8. ASSUME NEW p \in owned, p[2] = token[k].id
          PROVE  Locks(k) /\ p = <<token[k].this, token[k].id>>
      <3>1. token[k].this = p[1] /\ token[k].observer = lifetime_observer[p[1]]
        BY <1>2, <2>8 DEF IInv, OwnersHold
      <3>2. p[1] \in alive /\ p \in Delegates \X (0..MaxListeners)
        BY DEF IInv, PairsKnown, Holders
      <3> QED BY <2>8, <3>1, <3>2 DEF Locks
    <2>9. ListedOrTaken'
      <3>1. CASE Locks(k)
        <4>1. \A p : Taken(p)' <=> p = <<token[k].this, token[k].id>>
          BY <2>2, <2>3, <3>1 DEF Taken
        <4>2. \A p \in automatic : p # <<token[k].this, token[k].id>> => (p \in owned' <=> p \in owned)
          BY <2>3, <2>8
        <4>3. <<token[k].this, token[k].id>> \notin owned'
          BY <2>3
        <4> QED BY <2>7, <4>1, <4>2, <4>3 DEF ListedOrTaken
      <3>2. CASE ~Locks(k)
        <4>1. owned' = owned /\ change' = None
          BY <2>3, <2>8, <3>2
        <4> QED BY <2>7, <4>1 DEF ListedOrTaken, Taken
      <3> QED BY <3>1, <3>2
    <2> QED BY <2>5, <2>6, <2>9
  <1> QED BY <1>1, <1>2

LEMMA ClearTokenStep ==
  ASSUME IInv, NEW k \in Tokens, ClearToken(k)
  PROVE  IInv'
  <1>0. /\ change' \in Change \cup {None}
        /\ change' # None =>
             change'.step = "remove" /\ change'.this \in alive /\ change'.token = None
        /\ owned' \subseteq owned
        /\ ChangeSound'
        /\ ListedOrTaken'
    BY ClearsFacts DEF ClearToken, objects, lists
  <1>1. Numbers'
    BY DEF IInv, Numbers, ClearToken, objects
  <1>2. Lists'
    BY DEF IInv, Lists, ClearToken, objects, lists
  <1>3. Holders'
    BY <1>0 DEF IInv, Holders, ClearToken
  <1>4. Calls'
    BY DEF IInv, Calls, ClearToken
  <1>5. TokensBound'
    BY DEF IInv, TokensBound, Holders, Locks, ClearToken, objects
  <1>6. ChangeSound'
    BY <1>0
  <1>7. PairsKnown'
    BY <1>0 DEF IInv, PairsKnown, ClearToken, objects
  <1>8. OwnersHold'
    BY <1>0 DEF IInv, Holders, OwnersHold, ClearToken, objects
  <1>9. ListedOrTaken'
    BY <1>0
  <1> QED BY <1>1, <1>2, <1>3, <1>4, <1>5, <1>6, <1>7, <1>8, <1>9 DEF IInv

LEMMA DestroyTokenStep ==
  ASSUME IInv, NEW k \in Tokens, DestroyToken(k)
  PROVE  IInv'
  <1>0. /\ change' \in Change \cup {None}
        /\ change' # None =>
             change'.step = "remove" /\ change'.this \in alive /\ change'.token = None
        /\ owned' \subseteq owned
        /\ ChangeSound'
        /\ ListedOrTaken'
    BY ClearsFacts DEF DestroyToken, objects, lists
  <1>1. Numbers'
    BY DEF IInv, Numbers, DestroyToken, objects
  <1>2. Lists'
    BY DEF IInv, Lists, DestroyToken, objects, lists
  <1>3. Holders'
    BY <1>0 DEF IInv, Holders, DestroyToken
  <1>4. Calls'
    BY DEF IInv, Calls, DestroyToken
  <1>5. TokensBound'
    BY DEF IInv, TokensBound, Holders, Locks, DestroyToken, objects
  <1>6. ChangeSound'
    BY <1>0
  <1>7. PairsKnown'
    BY <1>0 DEF IInv, PairsKnown, DestroyToken, objects
  <1>8. OwnersHold'
    BY <1>0 DEF IInv, Holders, OwnersHold, DestroyToken, objects
  <1>9. ListedOrTaken'
    BY <1>0
  <1> QED BY <1>1, <1>2, <1>3, <1>4, <1>5, <1>6, <1>7, <1>8, <1>9 DEF IInv

LEMMA MoveTokenStep ==
  ASSUME IInv, NEW k \in Tokens, NEW r \in Tokens, MoveToken(k, r)
  PROVE  IInv'
  <1>0. /\ change' \in Change \cup {None}
        /\ change' # None =>
             change'.step = "remove" /\ change'.this \in alive /\ change'.token = None
        /\ owned' \subseteq owned
        /\ ChangeSound'
        /\ ListedOrTaken'
    BY ClearsFacts DEF MoveToken, objects, lists
  <1>1. Numbers'
    BY DEF IInv, Numbers, MoveToken, objects
  <1>2. Lists'
    BY DEF IInv, Lists, MoveToken, objects, lists
  <1>3. Holders'
    BY <1>0 DEF IInv, Holders, MoveToken
  <1>4. Calls'
    BY DEF IInv, Calls, MoveToken
  <1>5. TokensBound'
    BY DEF IInv, TokensBound, Holders, Locks, MoveToken, objects
  <1>6. ChangeSound'
    BY <1>0
  <1>7. PairsKnown'
    BY <1>0 DEF IInv, PairsKnown, MoveToken, objects
  <1>8. OwnersHold'
    BY <1>0 DEF IInv, Holders, OwnersHold, MoveToken, objects
  <1>9. ListedOrTaken'
    BY <1>0
  <1> QED BY <1>1, <1>2, <1>3, <1>4, <1>5, <1>6, <1>7, <1>8, <1>9 DEF IInv

LEMMA RemoveListenerStep ==
  ASSUME IInv, RemoveListener
  PROVE  IInv'
  <1> DEFINE d == change.this
  <1>0. /\ change # None /\ change.step = "remove" /\ change.token = None
        /\ d \in Delegates /\ d \in alive /\ change.id \in 0..MaxListeners
        /\ \A x \in Delegates : readable_buffer[x] = listeners[x]
        /\ readable_buffer' = readable_buffer /\ token' = token /\ automatic' = automatic
        /\ owned' = owned /\ alive' = alive /\ lifetime_observer' = lifetime_observer
        /\ observers' = observers /\ global_counter' = global_counter /\ call' = call
        /\ copied' = copied
    <2>1. change # None /\ change \in Change /\ change.step = "remove"
      BY DEF IInv, Holders, RemoveListener
    <2>2. "remove" # "publish"
      OBVIOUS
    <2> QED BY <2>1, <2>2 DEF IInv, ChangeSound, Numbers, Change, RemoveListener, objects, history
  <1>a. /\ \A x \in Delegates : x # d => listeners'[x] = listeners[x]
        /\ listeners' \in [Delegates -> Seq(Listener)]
        /\ Distinct(listeners'[d]) /\ Ids(listeners'[d]) = Ids(listeners[d]) \ {change.id}
        /\ \/ change' = None /\ listeners' = listeners
           \/ change' = Publishing(d, change.id, None)
    <2>1. CASE change.id \notin Ids(listeners[d])
      <3>1. change' = None /\ listeners' = listeners
        BY <2>1 DEF RemoveListener
      <3> QED BY <1>0, <2>1, <3>1 DEF IInv, Lists
    <2>2. CASE change.id \in Ids(listeners[d])
      <3>1. PICK i \in DOMAIN listeners[d] :
              /\ listeners[d][i].id = change.id
              /\ listeners' = [listeners EXCEPT ![d] = RemoveAt(@, i)]
              /\ change' = Publishing(d, change.id, None)
        BY <2>2 DEF RemoveListener
      <3>2. PICK l \in Seq(Listener) : l = listeners[d]
        BY <1>0 DEF IInv, Lists
      <3>3. PICK m : m = RemoveAt(l, i)
        OBVIOUS
      <3>4. m \in Seq(Listener) /\ Distinct(m) /\ Ids(m) = Ids(l) \ {l[i].id}
        <4>1. Distinct(l) /\ i \in DOMAIN l
          BY <1>0, <3>2 DEF IInv, Lists
        <4> QED BY <3>3, <4>1, Leaving
      <3>5. listeners \in [Delegates -> Seq(Listener)] /\ listeners' = [listeners EXCEPT ![d] = m]
        BY <3>1, <3>2, <3>3 DEF IInv, Lists
      <3> QED BY <1>0, <3>1, <3>2, <3>4, <3>5
    <2> QED BY <2>1, <2>2
  <1>b. /\ Publishing(d, change.id, None) \in Change /\ Publishing(d, change.id, None) # None
        /\ Publishing(d, change.id, None).step = "publish"
        /\ Publishing(d, change.id, None).this = d
        /\ Publishing(d, change.id, None).token = None
    BY <1>0, Records
  <1>1. Numbers'
    BY <1>0 DEF IInv, Numbers
  <1>2. Lists'
    <2>1. ASSUME NEW x \in Delegates
          PROVE  /\ Distinct(listeners'[x])
                 /\ \A i \in Ids(listeners'[x]) : i < global_counter'
                 /\ x \notin alive' => lifetime_observer'[x] = 0 /\ listeners'[x] = <<>>
      BY <1>0, <1>a DEF IInv, Lists
    <2> QED BY <1>0, <1>a, <2>1 DEF IInv, Lists
  <1>3. Holders'
    BY <1>0, <1>a, <1>b DEF IInv, Holders
  <1>4. Calls'
    BY <1>0 DEF IInv, Calls
  <1>5. TokensBound'
    BY <1>0 DEF IInv, TokensBound, Locks
  <1>6. ChangeSound'
    BY <1>0, <1>a, <1>b DEF ChangeSound
  <1>7. PairsKnown'
    BY <1>0 DEF IInv, PairsKnown
  <1>8. OwnersHold'
    BY <1>0 DEF IInv, OwnersHold
  <1>9. ListedOrTaken'
    <2>1. \A p \in automatic : p = <<d, change.id>> \/ (p[2] # change.id \/ p[1] # d)
      BY DEF IInv, Holders
    <2>2. \A p \in automatic : p \in Delegates \X (0..MaxListeners)
      BY DEF IInv, Holders
    <2>3. ASSUME NEW p \in automatic
          PROVE  p \in owned <=> p[2] \in Ids(listeners'[p[1]])
      <3>1. CASE p = <<d, change.id>>
        <4>1. p \notin owned
          BY <1>0, <3>1 DEF IInv, ListedOrTaken, Taken
        <4> QED BY <1>a, <3>1, <4>1
      <3>2. CASE p # <<d, change.id>>
        <4>1. p \in owned <=> p[2] \in Ids(listeners[p[1]])
          BY <1>0, <3>2 DEF IInv, ListedOrTaken, Taken
        <4> QED BY <1>a, <2>1, <2>2, <3>2, <4>1
      <3> QED BY <3>1, <3>2
    <2>4. \A p : ~Taken(p)'
      BY <1>a, <1>b DEF Taken
    <2> QED BY <1>0, <2>3, <2>4 DEF ListedOrTaken
  <1> QED BY <1>1, <1>2, <1>3, <1>4, <1>5, <1>6, <1>7, <1>8, <1>9 DEF IInv

LEMMA CallSteps ==
  ASSUME IInv, NEW t \in Threads,
         CallRuns(t) \/ CallEnds(t) \/ \E d \in Delegates : CallBegins(t, d)
  PROVE  IInv'
  <1>1. Calls'
    <2>1. CASE CallRuns(t)
      <3>1. call[t] \in Seq(Listener) /\ call[t] # <<>>
        BY <2>1 DEF IInv, Calls, CallRuns
      <3>2. Tail(call[t]) \in Seq(Listener)
        BY <3>1, HeadTailProperties
      <3> QED BY <2>1, <3>2 DEF IInv, Calls, CallRuns
    <2>2. CASE CallEnds(t)
      BY <2>2 DEF IInv, Calls, CallEnds
    <2>3. ASSUME NEW d \in Delegates, CallBegins(t, d) PROVE Calls'
      BY <2>3 DEF IInv, Calls, Lists, CallBegins
    <2> QED BY <2>1, <2>2, <2>3
  <1>2. UNCHANGED <<global_counter, objects, lists, token, change, history>>
    BY DEF CallRuns, CallEnds, CallBegins
  <1> QED
    BY <1>1, <1>2 DEF IInv, Numbers, Lists, Holders, TokensBound, ChangeSound, PairsKnown,
      OwnersHold, ListedOrTaken, Taken, Locks, objects, lists, history
-----------------------------------------------------------------------------
LEMMA InvInit == Init => IInv
  <1> SUFFICES ASSUME Init PROVE IInv
    OBVIOUS
  <1>1. Numbers /\ Holders /\ Calls
    BY EmptyList, DelegateAssumption DEF Init, Numbers, Holders, Calls
  <1>2. Lists
    BY EmptyList DEF Init, Lists
  <1>3. TokensBound /\ ChangeSound /\ PairsKnown /\ OwnersHold /\ ListedOrTaken
    BY DEF Init, TokensBound, ChangeSound, PairsKnown, OwnersHold, ListedOrTaken
  <1> QED BY <1>1, <1>2, <1>3 DEF IInv

LEMMA InvNext == IInv /\ [Next]_vars => IInv'
  <1> SUFFICES ASSUME IInv, [Next]_vars PROVE IInv'
    OBVIOUS
  <1>1. ASSUME NEW d \in Delegates,
               \/ Construct(d) \/ Destroy(d)
               \/ \E k \in Tokens \cup {None} : AddListener(d, k)
               \/ \E e \in Delegates :
                    CopyTo(d, e) \/ MoveTo(d, e) \/ Merge(d, e) \/ AddDelegate(d, e)
        PROVE  IInv'
    BY <1>1, ConstructStep, DestroyStep, AddListenerStep, CopyToStep, MoveToStep, MergeStep,
       AddDelegateStep
  <1>2. ASSUME NEW k \in Tokens,
               ClearToken(k) \/ DestroyToken(k) \/ \E r \in Tokens : MoveToken(k, r)
        PROVE  IInv'
    BY <1>2, ClearTokenStep, DestroyTokenStep, MoveTokenStep
  <1>3. CASE UNCHANGED vars
    BY <1>3 DEF IInv, Numbers, Lists, Holders, Calls, TokensBound, ChangeSound, PairsKnown,
      OwnersHold, ListedOrTaken, Taken, Locks, vars, objects, lists, history
  <1> QED
    BY <1>1, <1>2, <1>3, UpdateReadableBufferStep, RemoveListenerStep, CallSteps DEF Next

LEMMA InvHolds == Spec => []IInv
  BY InvInit, InvNext, PTL DEF Spec

(* Type correctness of delegates and their tokens.                         *)
THEOREM DelegateTypeCorrect == Spec => []TypeOK
  BY InvHolds, TypeParts, PTL

(* The address a remove handler is bound to is that of a delegate that     *)
(* lives whenever the handler runs, for any order of the copies, moves and *)
(* destructions that the clients' rules allow.                             *)
THEOREM HandlersFindTheirDelegate == Spec => []TokenReachesLivingDelegate
  <1>1. IInv => TokenReachesLivingDelegate
    BY DEF IInv, ChangeSound, TokenReachesLivingDelegate
  <1> QED BY <1>1, InvHolds, PTL

(* Outside a change every call would see exactly the list of listeners.    *)
THEOREM BuffersAreCurrent == Spec => []PublishedIsCurrent
  <1>1. IInv => PublishedIsCurrent
    BY DEF IInv, ChangeSound, Lists, PublishedIsCurrent
  <1> QED BY <1>1, InvHolds, PTL

(* A listener added with a token is called exactly as long as its token    *)
(* has not given it up, from whichever token to whichever it was moved, of *)
(* delegates that stay where they are while they have tokens.              *)
THEOREM TokensOwnTheirListeners == Spec => []TokenOwnsListener
  <1>1. IInv => TokenOwnsListener
    <2> SUFFICES ASSUME IInv, change = None, NEW p \in automatic
                 PROVE  p[2] \in Ids(readable_buffer[p[1]]) <=> p \in owned
      BY DEF TokenOwnsListener
    <2>1. p[1] \in Delegates
      BY DEF IInv, Holders
    <2>2. readable_buffer[p[1]] = listeners[p[1]]
      BY <2>1 DEF IInv, ChangeSound
    <2> QED BY <2>2 DEF IInv, ListedOrTaken, Taken
  <1> QED BY <1>1, InvHolds, PTL
-----------------------------------------------------------------------------
(* The refinement.  While a change is published, what the buffer is about  *)
(* to become is one step of ListenerList away from what it is.             *)

Grown(d, funcs) ==
  /\ readable_buffer[d] \in Prefixes(listeners[d])
  /\ List!Funcs(listeners[d]) = List!Funcs(readable_buffer[d]) \o funcs

OneStepBehind(d) ==
  \/ listeners[d] # <<>> /\ Grown(d, <<Last(listeners[d]).id>>)
  \/ \E e \in Delegates \ {d} : Grown(d, List!Funcs(readable_buffer[e]))
  \/ \E i \in DOMAIN readable_buffer[d] : listeners[d] = RemoveAt(readable_buffer[d], i)

Behind == change # None /\ change.step = "publish" => OneStepBehind(change.this)

LEMMA FuncsAreSeq ==
  ASSUME NEW l \in Seq(Listener)
  PROVE  /\ List!Funcs(l) \in Seq(0..MaxListeners) /\ Len(List!Funcs(l)) = Len(l)
         /\ \A i \in 1..Len(l) : List!Funcs(l)[i] = l[i].func
  <1>1. ASSUME NEW i \in 1..Len(l) PROVE l[i].func \in 0..MaxListeners
    <2>1. l[i] \in Listener
      BY ElementOfSeq
    <2> QED BY <2>1 DEF Listener
  <1>2. Len(l) \in Nat /\ DOMAIN l = 1..Len(l)
    BY LenProperties
  <1>3. List!Funcs(l) = [i \in 1..Len(l) |-> l[i].func]
    BY <1>2 DEF List!Funcs
  <1>4. List!Funcs(l) \in Seq(0..MaxListeners)
    BY <1>1, <1>2, <1>3, IsASeq
  <1>5. DOMAIN List!Funcs(l) = 1..Len(List!Funcs(l)) /\ Len(List!Funcs(l)) \in Nat
    BY <1>4, LenProperties
  <1> QED BY <1>2, <1>3, <1>4, <1>5

LEMMA JoiningExtends ==
  ASSUME NEW l \in Seq(Listener), NEW funcs \in Seq(0..MaxListeners), NEW g \in Nat,
         g + Len(funcs) <= MaxListeners, NEW m, m = Join(l, funcs, g)
  PROVE  l \in Prefixes(m) /\ List!Funcs(m) = List!Funcs(l) \o funcs
  <1> DEFINE new == [i \in 1..Len(funcs) |-> [id |-> g + i - 1, func |-> funcs[i]]]
  <1>1. /\ DOMAIN funcs = 1..Len(funcs) /\ Len(funcs) \in Nat /\ Len(l) \in Nat
        /\ \A i \in 1..Len(funcs) : funcs[i] \in 0..MaxListeners
    BY LenProperties, ElementOfSeq
  <1>2. m = l \o new
    BY <1>1 DEF Join
  <1>3. \A i \in 1..Len(funcs) : new[i] \in Listener /\ new[i].func = funcs[i]
    BY <1>1, DelegateAssumption DEF Listener
  <1>4. new \in Seq(Listener)
    BY <1>1, <1>3, IsASeq
  <1>5. Len(new) = Len(funcs)
    BY <1>1
  <1> HIDE DEF new
  <1>6. /\ m \in Seq(Listener) /\ Len(m) = Len(l) + Len(new)
        /\ \A i \in 1 .. Len(l) + Len(new) : m[i] = IF i <= Len(l) THEN l[i] ELSE new[i - Len(l)]
    BY <1>2, <1>4, ConcatProperties
  <1>7. l \in Prefixes(m)
    <2>1. SubSeq(m, 1, Len(l)) = l
      BY <1>2, <1>4, SubSeqOfConcat1
    <2>2. Len(l) \in 0..Len(m)
      BY <1>1, <1>5, <1>6
    <2> QED BY <2>1, <2>2 DEF Prefixes
  <1>8. List!Funcs(m) = List!Funcs(l) \o funcs
    <2>1. /\ List!Funcs(m) \in Seq(0..MaxListeners) /\ Len(List!Funcs(m)) = Len(m)
          /\ \A i \in 1..Len(m) : List!Funcs(m)[i] = m[i].func
      BY <1>6, FuncsAreSeq
    <2>2. /\ List!Funcs(l) \in Seq(0..MaxListeners) /\ Len(List!Funcs(l)) = Len(l)
          /\ \A i \in 1..Len(l) : List!Funcs(l)[i] = l[i].func
      BY FuncsAreSeq
    <2> DEFINE both == List!Funcs(l) \o funcs
    <2>3. /\ both \in Seq(0..MaxListeners) /\ Len(both) = Len(List!Funcs(l)) + Len(funcs)
          /\ \A i \in 1 .. Len(List!Funcs(l)) + Len(funcs) :
               both[i] = IF i <= Len(List!Funcs(l)) THEN List!Funcs(l)[i]
                         ELSE funcs[i - Len(List!Funcs(l))]
      BY <2>2, ConcatProperties
    <2> HIDE DEF both
    <2>4. ASSUME NEW i \in 1..Len(m) PROVE List!Funcs(m)[i] = both[i]
      <3>1. CASE i <= Len(l)
        <4>1. i \in 1..Len(l) /\ m[i] = l[i]
          BY <1>1, <1>5, <1>6, <3>1
        <4>2. both[i] = List!Funcs(l)[i]
          BY <1>1, <1>5, <1>6, <2>2, <2>3, <3>1
        <4> QED BY <2>1, <2>2, <4>1, <4>2
      <3>2. CASE ~(i <= Len(l))
        <4>1. i - Len(l) \in 1..Len(funcs)
          BY <1>1, <1>5, <1>6, <3>2
        <4>2. m[i] = new[i - Len(l)] /\ both[i] = funcs[i - Len(l)]
          BY <1>1, <1>5, <1>6, <2>2, <2>3, <3>2
        <4> QED BY <1>3, <2>1, <4>1, <4>2
      <3> QED BY <3>1, <3>2
    <2>5. Len(List!Funcs(m)) = Len(both)
      BY <1>5, <1>6, <2>1, <2>2, <2>3
    <2>6. List!Funcs(m) = both
      BY <2>1, <2>3, <2>4, <2>5, SeqEqual
    <2> QED BY <2>6 DEF both
  <1> QED BY <1>7, <1>8

LEMMA AppendsGrow ==
  ASSUME IInv, NEW d \in Delegates, NEW funcs \in Seq(0..MaxListeners),
         Appends(d, funcs), readable_buffer' = readable_buffer, readable_buffer[d] = listeners[d]
  PROVE  Grown(d, funcs)'
  <1>1. PICK l \in Seq(Listener) : l = listeners[d]
    BY DEF IInv, Lists
  <1>2. PICK g \in Nat : g = global_counter
    BY DEF IInv, Numbers
  <1>3. PICK m : m = Join(l, funcs, g)
    OBVIOUS
  <1>4. listeners'[d] = m
    BY <1>1, <1>2, <1>3 DEF Appends, Join, IInv, Lists
  <1>5. g + Len(funcs) <= MaxListeners
    BY <1>2 DEF Appends
  <1>6. l \in Prefixes(m) /\ List!Funcs(m) = List!Funcs(l) \o funcs
    BY <1>3, <1>5, JoiningExtends
  <1> QED BY <1>1, <1>4, <1>6 DEF Grown

LEMMA BehindInit == Init => Behind
  BY DEF Init, Behind

LEMMA BehindNext ==
  ASSUME IInv, Behind, [Next]_vars
  PROVE  Behind'
  <1>1. ASSUME NEW d \in Delegates, NEW k \in Tokens \cup {None}, Joins(d, k)
        PROVE  Behind'
    <2>1. PICK g \in 0..MaxListeners : g = global_counter
      BY DEF IInv, Numbers
    <2>2. PICK funcs \in Seq(0..MaxListeners) : funcs = <<g>>
      <3>1. <<g>> \in Seq(0..MaxListeners)
        OBVIOUS
      <3> QED BY <3>1
    <2>3. Appends(d, funcs) /\ readable_buffer' = readable_buffer /\ readable_buffer[d] = listeners[d]
      BY <1>1, <2>1, <2>2 DEF Joins, IInv, ChangeSound
    <2>4. Grown(d, funcs)'
      BY <2>3, AppendsGrow
    <2>5. PICK l \in Seq(Listener) : l = listeners[d]
      BY DEF IInv, Lists
    <2>6. listeners'[d] = Join(l, funcs, g)
      BY <2>1, <2>3, <2>5 DEF Appends, Join, IInv, Lists
    <2>7. Join(l, funcs, g) = l \o <<[id |-> g, func |-> g]>>
      <3>1. [i \in DOMAIN funcs |-> [id |-> g + i - 1, func |-> funcs[i]]]
              = <<[id |-> g, func |-> g]>>
        BY <2>1, <2>2, DelegateAssumption
      <3> QED BY <3>1 DEF Join
    <2>8. [id |-> g, func |-> g] \in Listener
      BY <2>1 DEF Listener
    <2>9. listeners'[d] = Append(l, [id |-> g, func |-> g])
      BY <2>6, <2>7, <2>8, AppendIsConcat
    <2>10. listeners'[d] # <<>> /\ Last(listeners'[d]).id = g
      BY <2>8, <2>9, AppendProperties DEF Last
    <2>11. change'.this = d
      BY <1>1 DEF Joins, Publishing
    <2> QED BY <2>2, <2>4, <2>10, <2>11 DEF Behind, OneStepBehind
  <1>2. ASSUME NEW d \in Delegates, NEW e \in Delegates, Merge(d, e)
        PROVE  Behind'
    <2>1. PICK l \in Seq(Listener) : l = listeners[e]
      BY DEF IInv, Lists
    <2>2. PICK funcs \in Seq(0..MaxListeners) : funcs = List!Funcs(l)
      BY FuncsAreSeq
    <2>3. /\ Appends(d, funcs) /\ readable_buffer' = readable_buffer
          /\ readable_buffer[d] = listeners[d] /\ readable_buffer[e] = listeners[e] /\ d # e
      BY <1>2, <2>1, <2>2 DEF Merge, IInv, ChangeSound, List!Funcs
    <2>4. Grown(d, funcs)'
      BY <2>3, AppendsGrow
    <2>5. funcs = List!Funcs(readable_buffer'[e]) /\ change'.this = d
      BY <1>2, <2>1, <2>2, <2>3 DEF Merge, Publishing
    <2> QED BY <2>3, <2>4, <2>5 DEF Behind, OneStepBehind
  <1>3. ASSUME RemoveListener PROVE Behind'
    <2>1. change # None /\ change.step = "remove" /\ change \in Change
      BY <1>3 DEF RemoveListener, IInv, Holders
    <2>2. /\ readable_buffer' = readable_buffer /\ change.this \in Delegates
          /\ readable_buffer[change.this] = listeners[change.this]
      BY <1>3, <2>1 DEF RemoveListener, IInv, ChangeSound, Change
    <2>3. CASE change.id \notin Ids(listeners[change.this])
      BY <1>3, <2>3 DEF RemoveListener, Behind
    <2>4. CASE change.id \in Ids(listeners[change.this])
      <3>1. PICK i \in DOMAIN listeners[change.this] :
              /\ listeners' = [listeners EXCEPT ![change.this] = RemoveAt(@, i)]
              /\ change' = Publishing(change.this, change.id, None)
        BY <1>3, <2>4 DEF RemoveListener
      <3>2. change'.this = change.this
        BY <3>1 DEF Publishing
      <3>3. listeners'[change.this] = RemoveAt(readable_buffer'[change.this], i)
        BY <2>2, <3>1 DEF IInv, Lists
      <3> QED BY <2>2, <3>1, <3>2, <3>3 DEF Behind, OneStepBehind
    <2> QED BY <2>3, <2>4
  <1>4. ASSUME NEW d \in Delegates, Construct(d) \/ Destroy(d) PROVE Behind'
    BY <1>4 DEF Construct, Destroy, Behind
  <1>5. ASSUME NEW d \in Delegates, NEW e \in Delegates, CopyTo(d, e) \/ MoveTo(d, e)
        PROVE  Behind'
    BY <1>5 DEF CopyTo, MoveTo, Behind
  <1>6. ASSUME NEW k \in Tokens, change = None, Clears(k) PROVE Behind'
    <2>1. token[k] # None => token[k] \in Token
      BY DEF IInv, Holders
    <2>2. change' = None \/ change'.step = "remove"
      BY <1>6, <2>1, Records DEF Clears
    <2> QED BY <2>2 DEF Behind
  <1>7. ASSUME NEW k \in Tokens,
               ClearToken(k) \/ DestroyToken(k) \/ \E r \in Tokens : MoveToken(k, r)
        PROVE  Behind'
    BY <1>6, <1>7 DEF ClearToken, DestroyToken, MoveToken
  <1>8. ASSUME UpdateReadableBuffer PROVE Behind'
    BY <1>8 DEF UpdateReadableBuffer, Behind
  <1>9. ASSUME UNCHANGED <<lists, change>> PROVE Behind'
    BY <1>9 DEF Behind, OneStepBehind, Grown, lists
  <1>10. ASSUME NEW t \in Threads,
                CallRuns(t) \/ CallEnds(t) \/ \E d \in Delegates : CallBegins(t, d)
         PROVE  Behind'
    BY <1>9, <1>10 DEF CallRuns, CallEnds, CallBegins
  <1>11. CASE UNCHANGED vars
    BY <1>9, <1>11 DEF vars
  <1>12. ASSUME NEW d \in Delegates,
                \/ \E k \in Tokens \cup {None} : AddListener(d, k)
                \/ \E e \in Delegates : AddDelegate(d, e)
         PROVE  Behind'
    BY <1>1, <1>12 DEF AddListener, AddDelegate
  <1> QED BY <1>2, <1>3, <1>4, <1>5, <1>7, <1>8, <1>10, <1>11, <1>12 DEF Next

LEMMA StepMaps ==
  ASSUME IInv, Behind, [Next]_vars
  PROVE  [List!Next]_<<readable_buffer, call>>
  <1>0. readable_buffer \in [Delegates -> Seq(Listener)]
    BY DEF IInv, Lists
  <1>1. ASSUME NEW d \in Delegates,
               \/ Construct(d)
               \/ \E k \in Tokens \cup {None} : AddListener(d, k)
               \/ \E e \in Delegates : AddDelegate(d, e)
        PROVE  UNCHANGED <<readable_buffer, call>>
    BY <1>1 DEF Construct, AddListener, AddDelegate, Joins, lists
  <1>2. ASSUME NEW d \in Delegates, NEW e \in Delegates, Merge(d, e)
        PROVE  UNCHANGED <<readable_buffer, call>>
    BY <1>2 DEF Merge
  <1>3. ASSUME NEW d \in Delegates, Destroy(d) PROVE List!Next
    BY <1>3 DEF Destroy, List!Next, List!Clear
  <1>4. ASSUME NEW d \in Delegates, NEW e \in Delegates, CopyTo(d, e) \/ MoveTo(d, e)
        PROVE  List!Next
    <2>1. CASE CopyTo(d, e)
      BY <2>1 DEF CopyTo, List!Next, List!Copy
    <2>2. CASE MoveTo(d, e)
      BY <2>2 DEF MoveTo, List!Next, List!Move
    <2> QED BY <1>4, <2>1, <2>2
  <1>5. ASSUME NEW k \in Tokens,
               ClearToken(k) \/ DestroyToken(k) \/ \E r \in Tokens : MoveToken(k, r)
        PROVE  UNCHANGED <<readable_buffer, call>>
    BY <1>5 DEF ClearToken, DestroyToken, MoveToken, lists
  <1>6. ASSUME UpdateReadableBuffer PROVE List!Next
    <2> DEFINE d == change.this
    <2>1. /\ change # None /\ change \in Change /\ change.step = "publish" /\ call' = call
          /\ readable_buffer' = [readable_buffer EXCEPT ![d] = listeners[d]]
      BY <1>6 DEF UpdateReadableBuffer, IInv, Holders
    <2>2. d \in Delegates /\ OneStepBehind(d)
      BY <2>1 DEF Behind, Change
    <2>3. /\ readable_buffer'[d] = listeners[d]
          /\ readable_buffer' = [readable_buffer EXCEPT ![d] = readable_buffer'[d]]
      BY <1>0, <2>1, <2>2
    <2>4. UNCHANGED call
      BY <2>1
    <2> HIDE DEF d
    <2>5. CASE listeners[d] # <<>> /\ Grown(d, <<Last(listeners[d]).id>>)
      <3>1. /\ readable_buffer'[d] # <<>>
            /\ readable_buffer[d] \in Prefixes(readable_buffer'[d])
            /\ List!Funcs(readable_buffer'[d])
                 = List!Funcs(readable_buffer[d]) \o <<Last(readable_buffer'[d]).id>>
        BY <2>3, <2>5 DEF Grown
      <3>2. List!Add(d)
        BY <2>3, <2>4, <3>1 DEF List!Add, List!Extend, List!Prefixes, Prefixes, List!Last, Last
      <3> QED BY <2>2, <3>2 DEF List!Next
    <2>6. ASSUME NEW e \in Delegates \ {d}, Grown(d, List!Funcs(readable_buffer[e]))
          PROVE  List!Next
      <3>1. /\ readable_buffer[d] \in Prefixes(readable_buffer'[d])
            /\ List!Funcs(readable_buffer'[d])
                 = List!Funcs(readable_buffer[d]) \o List!Funcs(readable_buffer[e])
        BY <2>3, <2>6 DEF Grown
      <3>2. List!Merge(d, e)
        BY <2>3, <2>4, <3>1 DEF List!Merge, List!Extend, List!Prefixes, Prefixes
      <3> QED BY <2>2, <3>2 DEF List!Next
    <2>7. ASSUME NEW i \in DOMAIN readable_buffer[d], listeners[d] = RemoveAt(readable_buffer[d], i)
          PROVE  List!Next
      <3>1. readable_buffer' = [readable_buffer EXCEPT ![d] = RemoveAt(readable_buffer[d], i)]
        BY <2>3, <2>7
      <3>2. List!Leave(d, i)
        BY <2>4, <3>1 DEF List!Leave, List!RemoveAt, RemoveAt
      <3> QED BY <2>2, <3>2 DEF List!Next
    <2> QED BY <2>2, <2>5, <2>6, <2>7 DEF OneStepBehind
  <1>7. ASSUME RemoveListener PROVE UNCHANGED <<readable_buffer, call>>
    BY <1>7 DEF RemoveListener
  <1>8. ASSUME NEW t \in Threads,
               CallRuns(t) \/ CallEnds(t) \/ \E d \in Delegates : CallBegins(t, d)
        PROVE  List!Next
    <2>1. CASE CallRuns(t)
      BY <2>1 DEF CallRuns, lists, List!Next, List!Run
    <2>2. CASE CallEnds(t)
      BY <2>2 DEF CallEnds, lists, List!Next, List!End
    <2>3. ASSUME NEW d \in Delegates, CallBegins(t, d) PROVE List!Next
      BY <2>3 DEF CallBegins, lists, List!Next, List!Begin
    <2> QED BY <1>8, <2>1, <2>2, <2>3
  <1>9. CASE UNCHANGED vars
    BY <1>9 DEF vars, lists
  <1> QED BY <1>1, <1>2, <1>3, <1>4, <1>5, <1>6, <1>7, <1>8, <1>9 DEF Next

(* Delegates with their tokens and buffers implement lists of listeners    *)
(* that change as a whole, to callers that run what they loaded.           *)
THEOREM DelegateImplementsLists == Spec => ImplementsListenerList
  <1>1. Init => List!Init
    BY DEF Init, List!Init
  <1>2. Init => IInv /\ Behind
    BY InvInit, BehindInit
  <1>3. IInv /\ Behind /\ [Next]_vars => (IInv /\ Behind)'
    BY InvNext, BehindNext
  <1>4. IInv /\ Behind /\ [Next]_vars => [List!Next]_<<readable_buffer, call>>
    BY StepMaps
  <1> QED BY <1>1, <1>2, <1>3, <1>4, PTL DEF Spec, ImplementsListenerList, List!Spec
=============================================================================
