------------------------- MODULE ObjectLifetimeProofs -------------------------
(***************************************************************************)
(* The lifetime of objects for any threads, variables, addresses and Java  *)
(* objects.  Counters are exact because every step moves references        *)
(* between slots one slot at a time (the first lemmas); what a slot owns   *)
(* is therefore alive, and an assignment under way keeps, by what its      *)
(* thread still holds, the source it has not read yet.                     *)
(***************************************************************************)
EXTENDS ObjectLifetime, FiniteSetTheorems, SequenceTheorems, TLAPS

Exists(h) == {a \in Addrs : h[a] # "free"}

(* A field whose reference a release has taken over owns nothing.          *)
Kept == [p \in Parsers |-> IF Releasing(p) THEN Null ELSE mObject[p]]

(* The slots that own a, by the values of variables, members and fields.   *)
Holders(l, m, f, a) ==
  {s \in Slot :
     a = IF s[1] = "local" THEN l[s[2][1]][s[2][2]]
         ELSE IF s[1] = "member" THEN m[s[2]] ELSE f[s[2]]}

One(condition) == IF condition THEN 1 ELSE 0
Same(x, y) == IF x = y THEN 1 ELSE 0
Number(l, m, f, a) == Cardinality(Holders(l, m, f, a))

(* k is l but for what is written at t, v (at t).                          *)
Writes2(l, t, v, b, k) ==
  /\ k[t][v] = b
  /\ \A u \in Threads, w \in Variables : (u = t /\ w = v) \/ k[u][w] = l[u][w]
Writes(l, D, t, b, k) == k[t] = b /\ \A u \in D : u = t \/ k[u] = l[u]

(* The parts of TypeOK.                                                    *)
ObjectTypes ==
  /\ heap \in [Addrs -> {"free", "live", "dying"}]
  /\ ref_count \in [Addrs -> Nat]
  /\ module_ref_count \in Nat
  /\ dying \in [Threads -> Seq(Addrs)]

HolderTypes ==
  /\ member \in [Addrs -> Addrs \cup {Null}]
  /\ local \in [Threads -> [Variables -> Addrs \cup {Null}]]
  /\ mObject \in [Parsers -> Addrs \cup {Null}]
  /\ doing \in [Threads -> Assignment \cup {Null}]

(* An object lives exactly while it is counted, and what a thread is       *)
(* destroying no other thread is.                                          *)
Bookkeeping ==
  /\ \A a \in Addrs : heap[a] = "live" <=> ref_count[a] > 0
  /\ \A t \in Threads : \A i \in DOMAIN dying[t] : heap[dying[t][i]] = "dying"
  /\ \A t, u \in Threads : \A i \in DOMAIN dying[t], j \in DOMAIN dying[u] :
       dying[t][i] = dying[u][j] => t = u /\ i = j
  /\ module_ref_count = Cardinality(Exists(heap))
  /\ status = "running"

MembersExist == \A a \in Addrs : member[a] # Null => heap[a] # "free"

Counted == \A a \in Addrs : ref_count[a] = Cardinality(Owners(a))

(* What an assignment is about to read still has the value it had at its   *)
(* start, and the thread holds what it needs to read it.                   *)
SourceKept(t) ==
  LET d == doing[t] IN
  /\ d.from[1] = "local" => local[t][d.from[2]] = d.meant
  /\ d.from[1] = "member" =>
       (\E w \in Variables : local[t][w] = d.from[2]) /\ member[d.from[2]] = d.meant
  /\ d.from[1] = "field" => mObject[d.from[2]] = d.meant

Halfway(t) ==
  doing[t] # Null =>
    LET d == doing[t] IN
    IF d.step = "clear"
    THEN d.from[1] = "field" /\ local[t][d.into] = mObject[d.from[2]]
    ELSE /\ local[t][d.into] = Null
         /\ SourceKept(t)
         /\ d.step = "add_ref" => d.abi = d.meant

(* A release has its Java object for itself.                               *)
Alone ==
  \A t, u \in Threads :
    At(t, "clear") /\ doing[u] # Null /\ doing[u].from = doing[t].from => u = t

Assignments == (\A t \in Threads : Halfway(t)) /\ Alone

IInv == ObjectTypes /\ HolderTypes /\ Bookkeeping /\ MembersExist /\ Counted /\ Assignments
-----------------------------------------------------------------------------
(* Cardinalities.                                                          *)

(* Two sets that differ in at most one element.                            *)
LEMMA OneApart ==
  ASSUME NEW A, NEW B, IsFiniteSet(A), IsFiniteSet(B), NEW s, A \ {s} = B \ {s}
  PROVE  /\ Cardinality(A) \in Nat /\ Cardinality(B) \in Nat
         /\ Cardinality(B) = Cardinality(A) - One(s \in A) + One(s \in B)
  <1>1. Cardinality(A) \in Nat /\ Cardinality(B) \in Nat
    BY FS_CardinalityType
  <1>2. Cardinality(A \ {s}) = IF s \in A THEN Cardinality(A) - 1 ELSE Cardinality(A)
    BY FS_RemoveElement
  <1>3. Cardinality(B \ {s}) = IF s \in B THEN Cardinality(B) - 1 ELSE Cardinality(B)
    BY FS_RemoveElement
  <1> QED
    BY <1>1, <1>2, <1>3 DEF One

LEMMA SlotsFinite == IsFiniteSet(Slot)
  <1>1. IsFiniteSet({"local"}) /\ IsFiniteSet({"member"}) /\ IsFiniteSet({"field"})
    BY FS_Singleton
  <1>2. IsFiniteSet(Threads \X Variables)
    BY FS_Product, ObjectLifetimeAssumption
  <1>3. IsFiniteSet({"local"} \X (Threads \X Variables))
    BY <1>1, <1>2, FS_Product
  <1>4. IsFiniteSet({"member"} \X Addrs) /\ IsFiniteSet({"field"} \X Parsers)
    BY <1>1, FS_Product, ObjectLifetimeAssumption
  <1>5. IsFiniteSet(({"local"} \X (Threads \X Variables)) \cup ({"member"} \X Addrs))
    BY <1>3, <1>4, FS_Union
  <1> QED
    BY <1>4, <1>5, FS_Union DEF Slot

LEMMA HoldersFinite ==
  ASSUME NEW l, NEW m, NEW f, NEW a
  PROVE  IsFiniteSet(Holders(l, m, f, a))
  <1>1. Holders(l, m, f, a) \in SUBSET Slot
    BY DEF Holders
  <1> QED
    BY <1>1, SlotsFinite, FS_Subset

(* A reference written into one variable, member or field changes the      *)
(* number of owners of what was there and of what is there now.            *)
LEMMA LocalWritten ==
  ASSUME NEW l, NEW m, NEW f,
         NEW t \in Threads, NEW v \in Variables, NEW b, NEW a,
         NEW k, Writes2(l, t, v, b, k)
  PROVE  /\ Number(l, m, f, a) \in Nat
         /\ Number(k, m, f, a)
              = Number(l, m, f, a) - Same(l[t][v], a) + Same(b, a)
  <1> DEFINE s == <<"local", <<t, v>>>>
  <1>1. s \in Slot
    BY DEF Slot
  <1>2. s \in Holders(l, m, f, a) <=> l[t][v] = a
    BY <1>1 DEF Holders
  <1>3. s \in Holders(k, m, f, a) <=> b = a
    BY <1>1 DEF Holders, Writes2
  <1>4. ASSUME NEW x \in Slot, x # s
        PROVE  x \in Holders(l, m, f, a) <=> x \in Holders(k, m, f, a)
    <2>1. CASE x[1] = "local"
      <3>1. PICK u \in Threads, w \in Variables : x = <<"local", <<u, w>>>>
        BY <2>1 DEF Slot
      <3>2. k[u][w] = l[u][w]
        BY <1>4, <3>1 DEF Writes2
      <3> QED
        BY <3>1, <3>2 DEF Holders
    <2>2. CASE x[1] # "local"
      BY <2>2 DEF Holders
    <2> QED
      BY <2>1, <2>2
  <1>5. Holders(l, m, f, a) \ {s} = Holders(k, m, f, a) \ {s}
    <2>1. Holders(l, m, f, a) \subseteq Slot /\ Holders(k, m, f, a) \subseteq Slot
      BY DEF Holders
    <2> HIDE DEF s
    <2> QED
      BY <1>4, <2>1
  <1>6. IsFiniteSet(Holders(l, m, f, a)) /\ IsFiniteSet(Holders(k, m, f, a))
    BY HoldersFinite
  <1>7. /\ Cardinality(Holders(l, m, f, a)) \in Nat
        /\ Cardinality(Holders(k, m, f, a))
             = Cardinality(Holders(l, m, f, a))
               - One(s \in Holders(l, m, f, a)) + One(s \in Holders(k, m, f, a))
    BY <1>5, <1>6, OneApart
  <1>8. /\ One(s \in Holders(l, m, f, a)) = Same(l[t][v], a)
        /\ One(s \in Holders(k, m, f, a)) = Same(b, a)
    BY <1>2, <1>3 DEF One, Same
  <1> QED
    BY <1>7, <1>8 DEF Number

LEMMA MemberWritten ==
  ASSUME NEW l, NEW m, NEW f,
         NEW c \in Addrs, NEW b, NEW a,
         NEW k, Writes(m, Addrs, c, b, k)
  PROVE  /\ Number(l, m, f, a) \in Nat
         /\ Number(l, k, f, a)
              = Number(l, m, f, a) - Same(m[c], a) + Same(b, a)
  <1> DEFINE s == <<"member", c>>
  <1>1. s \in Slot
    BY DEF Slot
  <1>2. s \in Holders(l, m, f, a) <=> m[c] = a
    BY <1>1 DEF Holders
  <1>3. s \in Holders(l, k, f, a) <=> b = a
    BY <1>1 DEF Holders, Writes
  <1>4. ASSUME NEW x \in Slot, x # s
        PROVE  x \in Holders(l, m, f, a) <=> x \in Holders(l, k, f, a)
    <2>1. CASE x[1] = "member"
      <3>1. PICK d \in Addrs : x = <<"member", d>>
        BY <2>1 DEF Slot
      <3>2. k[d] = m[d]
        BY <1>4, <3>1 DEF Writes
      <3> QED
        BY <3>1, <3>2 DEF Holders
    <2>2. CASE x[1] # "member"
      BY <2>2 DEF Holders
    <2> QED
      BY <2>1, <2>2
  <1>5. Holders(l, m, f, a) \ {s} = Holders(l, k, f, a) \ {s}
    <2>1. Holders(l, m, f, a) \subseteq Slot /\ Holders(l, k, f, a) \subseteq Slot
      BY DEF Holders
    <2> HIDE DEF s
    <2> QED
      BY <1>4, <2>1
  <1>6. IsFiniteSet(Holders(l, m, f, a)) /\ IsFiniteSet(Holders(l, k, f, a))
    BY HoldersFinite
  <1>7. /\ Cardinality(Holders(l, m, f, a)) \in Nat
        /\ Cardinality(Holders(l, k, f, a))
             = Cardinality(Holders(l, m, f, a))
               - One(s \in Holders(l, m, f, a)) + One(s \in Holders(l, k, f, a))
    BY <1>5, <1>6, OneApart
  <1>8. /\ One(s \in Holders(l, m, f, a)) = Same(m[c], a)
        /\ One(s \in Holders(l, k, f, a)) = Same(b, a)
    BY <1>2, <1>3 DEF One, Same
  <1> QED
    BY <1>7, <1>8 DEF Number

LEMMA FieldWritten ==
  ASSUME NEW l, NEW m, NEW f,
         NEW p \in Parsers, NEW b, NEW a,
         NEW k, Writes(f, Parsers, p, b, k)
  PROVE  /\ Number(l, m, f, a) \in Nat
         /\ Number(l, m, k, a)
              = Number(l, m, f, a) - Same(f[p], a) + Same(b, a)
  <1> DEFINE s == <<"field", p>>
  <1>1. s \in Slot
    BY DEF Slot
  <1>2. s \in Holders(l, m, f, a) <=> f[p] = a
    BY <1>1 DEF Holders
  <1>3. s \in Holders(l, m, k, a) <=> b = a
    BY <1>1 DEF Holders, Writes
  <1>4. ASSUME NEW x \in Slot, x # s
        PROVE  x \in Holders(l, m, f, a) <=> x \in Holders(l, m, k, a)
    <2>1. CASE x[1] = "field"
      <3>1. PICK q \in Parsers : x = <<"field", q>>
        BY <2>1 DEF Slot
      <3>2. k[q] = f[q]
        BY <1>4, <3>1 DEF Writes
      <3> QED
        BY <3>1, <3>2 DEF Holders
    <2>2. CASE x[1] # "field"
      <3>1. x[1] = "local" \/ x[1] = "member"
        BY <2>2 DEF Slot
      <3> QED
        BY <3>1 DEF Holders
    <2> QED
      BY <2>1, <2>2
  <1>5. Holders(l, m, f, a) \ {s} = Holders(l, m, k, a) \ {s}
    <2>1. Holders(l, m, f, a) \subseteq Slot /\ Holders(l, m, k, a) \subseteq Slot
      BY DEF Holders
    <2> HIDE DEF s
    <2> QED
      BY <1>4, <2>1
  <1>6. IsFiniteSet(Holders(l, m, f, a)) /\ IsFiniteSet(Holders(l, m, k, a))
    BY HoldersFinite
  <1>7. /\ Cardinality(Holders(l, m, f, a)) \in Nat
        /\ Cardinality(Holders(l, m, k, a))
             = Cardinality(Holders(l, m, f, a))
               - One(s \in Holders(l, m, f, a)) + One(s \in Holders(l, m, k, a))
    BY <1>5, <1>6, OneApart
  <1>8. /\ One(s \in Holders(l, m, f, a)) = Same(f[p], a)
        /\ One(s \in Holders(l, m, k, a)) = Same(b, a)
    BY <1>2, <1>3 DEF One, Same
  <1> QED
    BY <1>7, <1>8 DEF Number
-----------------------------------------------------------------------------
(* What is being destroyed: a sequence that grows and shrinks at its end.  *)

LEMMA Appended ==
  ASSUME NEW s \in Seq(Addrs), NEW a \in Addrs, NEW r, r = Append(s, a)
  PROVE  /\ r \in Seq(Addrs)
         /\ Len(s) \in Nat /\ DOMAIN s = 1..Len(s) /\ DOMAIN r = 1..(Len(s) + 1)
         /\ \A i \in DOMAIN s : r[i] = s[i]
         /\ r[Len(s) + 1] = a
  OBVIOUS

LEMMA Shortened ==
  ASSUME NEW s \in Seq(Addrs), s # <<>>, NEW r, r = Front(s)
  PROVE  /\ r \in Seq(Addrs)
         /\ Len(s) \in Nat \ {0} /\ DOMAIN s = 1..Len(s) /\ DOMAIN r = 1..(Len(s) - 1)
         /\ \A i \in DOMAIN r : r[i] = s[i]
         /\ Last(s) = s[Len(s)] /\ Last(s) \in Addrs
  <1>1. Len(s) \in Nat \ {0} /\ DOMAIN s = 1..Len(s)
    BY LenProperties, EmptySeq
  <1>2. \A i \in 1..Len(s) : s[i] \in Addrs
    BY ElementOfSeq
  <1>3. r = SubSeq(s, 1, Len(s) - 1)
    BY DEF Front
  <1>4. /\ r \in Seq(Addrs)
        /\ Len(r) = IF 1 <= Len(s) - 1 THEN Len(s) - 1 - 1 + 1 ELSE 0
        /\ \A i \in 1 .. Len(s) - 1 - 1 + 1 : r[i] = s[1 + i - 1]
    <2>1. \A i \in 1 .. Len(s) - 1 : s[i] \in Addrs
      BY <1>1, <1>2
    <2> QED
      BY <1>1, <1>3, <2>1, SubSeqProperties
  <1>5. DOMAIN r = 1..Len(r)
    BY <1>4, LenProperties
  <1>6. Last(s) = s[Len(s)]
    BY DEF Last
  <1>7. Len(r) = Len(s) - 1
    <2>1. PICK n \in Nat \ {0} : n = Len(s)
      BY <1>1
    <2>2. (IF 1 <= n - 1 THEN n - 1 - 1 + 1 ELSE 0) = n - 1
      OBVIOUS
    <2> QED
      BY <1>4, <2>1, <2>2
  <1>8. \A i \in 1..(Len(s) - 1) : r[i] = s[i]
    <2> TAKE i \in 1..(Len(s) - 1)
    <2>1. i \in 1 .. Len(s) - 1 - 1 + 1 /\ 1 + i - 1 = i
      BY <1>1
    <2> QED
      BY <1>4, <2>1
  <1>9. Last(s) \in Addrs
    BY <1>1, <1>2, <1>6
  <1> QED
    BY <1>1, <1>4, <1>5, <1>6, <1>7, <1>8, <1>9
-----------------------------------------------------------------------------
(* The effect of each operation on the objects.                            *)

LEMMA ReleaseStep ==
  ASSUME ObjectTypes, Bookkeeping, NEW t \in Threads, NEW a \in Addrs, heap[a] = "live",
         Release(t, a), UNCHANGED module_ref_count
  PROVE  /\ ObjectTypes' /\ Bookkeeping'
         /\ \A x \in Addrs : ref_count'[x] = ref_count[x] - Same(a, x)
         /\ \A x \in Addrs : heap'[x] = "free" <=> heap[x] = "free"
  <1>1. ref_count[a] \in Nat /\ ref_count[a] > 0
    BY DEF ObjectTypes, Bookkeeping
  <1>2. ref_count' = [ref_count EXCEPT ![a] = @ - 1] /\ status' = "running"
    BY <1>1 DEF Release, Bookkeeping
  <1>3. \A x \in Addrs : ref_count'[x] = ref_count[x] - Same(a, x)
    BY <1>2 DEF ObjectTypes, Same
  <1>4. ref_count' \in [Addrs -> Nat]
    BY <1>1, <1>2 DEF ObjectTypes
  <1>5. CASE ref_count[a] = 1
    <2>1. heap' = [heap EXCEPT ![a] = "dying"] /\ dying' = [dying EXCEPT ![t] = Append(@, a)]
      BY <1>1, <1>5 DEF Release
    <2>2. \A x \in Addrs : heap'[x] = IF x = a THEN "dying" ELSE heap[x]
      BY <2>1 DEF ObjectTypes
    <2>3. PICK s \in Seq(Addrs) : s = dying[t]
      BY DEF ObjectTypes
    <2>4. PICK r : r = Append(s, a)
      OBVIOUS
    <2>5. \A u \in Threads : dying'[u] = IF u = t THEN r ELSE dying[u]
      BY <2>1, <2>3, <2>4 DEF ObjectTypes
    <2>6. /\ r \in Seq(Addrs)
          /\ Len(s) \in Nat /\ DOMAIN s = 1..Len(s) /\ DOMAIN r = 1..(Len(s) + 1)
          /\ \A i \in DOMAIN s : r[i] = s[i]
          /\ r[Len(s) + 1] = a
      BY <2>4, Appended
    <2>7. ObjectTypes'
      BY <1>4, <2>1, <2>3, <2>4, <2>6 DEF ObjectTypes
    <2>8. \A u \in Threads : \A i \in DOMAIN dying'[u] :
            IF u = t /\ i = Len(s) + 1 THEN dying'[u][i] = a
            ELSE i \in DOMAIN dying[u] /\ dying'[u][i] = dying[u][i]
      BY <2>3, <2>5, <2>6
    <2>9. \A u \in Threads : \A i \in DOMAIN dying[u] : heap[dying[u][i]] = "dying"
      BY DEF Bookkeeping
    <2>10. \A u \in Threads : \A i \in DOMAIN dying[u] : dying[u][i] \in Addrs
      BY LenProperties, ElementOfSeq DEF ObjectTypes
    <2>11. \A u \in Threads : \A i \in DOMAIN dying'[u] : heap'[dying'[u][i]] = "dying"
      BY <2>2, <2>8, <2>9, <2>10
    <2>12. \A u, w \in Threads : \A i \in DOMAIN dying'[u], j \in DOMAIN dying'[w] :
             dying'[u][i] = dying'[w][j] => u = w /\ i = j
      <3>1. \A u \in Threads : \A i \in DOMAIN dying[u] : dying[u][i] # a
        BY <2>9
      <3> QED
        BY <2>8, <3>1 DEF Bookkeeping
    <2>13. \A x \in Addrs : heap'[x] = "live" <=> ref_count'[x] > 0
      BY <1>3, <1>5, <2>2 DEF Bookkeeping, Same, ObjectTypes
    <2>14. Exists(heap') = Exists(heap)
      BY <2>2 DEF Exists
    <2>15. Bookkeeping'
      BY <1>2, <2>11, <2>12, <2>13, <2>14 DEF Bookkeeping
    <2> QED
      BY <1>3, <2>2, <2>7, <2>15
  <1>6. CASE ref_count[a] # 1
    <2>1. UNCHANGED <<heap, dying>>
      BY <1>1, <1>6 DEF Release
    <2>2. ObjectTypes'
      BY <1>4, <2>1 DEF ObjectTypes
    <2>3. \A x \in Addrs : heap'[x] = "live" <=> ref_count'[x] > 0
      BY <1>1, <1>3, <1>6, <2>1 DEF Bookkeeping, Same, ObjectTypes
    <2>4. Bookkeeping'
      BY <1>2, <2>1, <2>3 DEF Bookkeeping
    <2> QED
      BY <1>3, <2>1, <2>2, <2>4
  <1> QED
    BY <1>5, <1>6

LEMMA LetGoStep ==
  ASSUME ObjectTypes, Bookkeeping, MembersExist, NEW t \in Threads,
         NEW b \in Addrs \cup {Null}, b # Null => heap[b] = "live", LetGo(t, b)
  PROVE  /\ ObjectTypes' /\ Bookkeeping' /\ MembersExist'
         /\ \A x \in Addrs : ref_count'[x] = ref_count[x] - Same(b, x)
         /\ member' = member
  <1>1. CASE b = Null
    <2>1. UNCHANGED <<heap, ref_count, dying, status, member, module_ref_count>>
      BY <1>1 DEF LetGo
    <2>2. \A x \in Addrs : ref_count'[x] = ref_count[x] - Same(b, x)
      BY <1>1, <2>1, ObjectLifetimeAssumption DEF ObjectTypes, Same
    <2> QED
      BY <2>1, <2>2 DEF ObjectTypes, Bookkeeping, MembersExist
  <1>2. CASE b # Null
    <2>1. Release(t, b) /\ UNCHANGED <<member, module_ref_count>>
      BY <1>2 DEF LetGo
    <2> QED
      BY <1>2, <2>1, ReleaseStep DEF MembersExist
  <1> QED
    BY <1>1, <1>2

LEMMA ConstructStep ==
  ASSUME ObjectTypes, Bookkeeping, MembersExist, member \in [Addrs -> Addrs \cup {Null}],
         NEW a \in Addrs, NEW m, Construct(a, m)
  PROVE  /\ ObjectTypes' /\ Bookkeeping' /\ MembersExist'
         /\ \A x \in Addrs : ref_count'[x] = ref_count[x] + Same(a, x)
         /\ member[a] = Null /\ member' = [member EXCEPT ![a] = m]
  <1>1. heap[a] = "free" /\ ref_count[a] = 0 /\ member[a] = Null
    BY DEF Construct, Bookkeeping, MembersExist, ObjectTypes
  <1>2. \A x \in Addrs : heap'[x] = IF x = a THEN "live" ELSE heap[x]
    BY DEF Construct, ObjectTypes
  <1>3. \A x \in Addrs : ref_count'[x] = ref_count[x] + Same(a, x)
    BY <1>1 DEF Construct, ObjectTypes, Same
  <1>4. Exists(heap') = Exists(heap) \cup {a} /\ a \notin Exists(heap)
    BY <1>1, <1>2 DEF Exists
  <1>5. IsFiniteSet(Exists(heap))
    BY FS_Subset, ObjectLifetimeAssumption DEF Exists
  <1>6. module_ref_count' = Cardinality(Exists(heap'))
    <2>1. Cardinality(Exists(heap) \cup {a}) = Cardinality(Exists(heap)) + 1
      BY <1>4, <1>5, FS_AddElement
    <2> QED
      BY <1>4, <2>1 DEF Construct, Bookkeeping
  <1>7. ObjectTypes'
    BY DEF Construct, ObjectTypes
  <1>8. \A x \in Addrs : heap'[x] = "live" <=> ref_count'[x] > 0
    BY <1>1, <1>2, <1>3 DEF Bookkeeping, ObjectTypes, Same
  <1>9. \A u \in Threads : \A i \in DOMAIN dying[u] :
          dying[u][i] \in Addrs /\ heap[dying[u][i]] = "dying"
    BY LenProperties, ElementOfSeq DEF ObjectTypes, Bookkeeping
  <1>10. dying' = dying /\ status' = status
    BY DEF Construct
  <1>11. Bookkeeping'
    BY <1>1, <1>2, <1>6, <1>8, <1>9, <1>10 DEF Bookkeeping
  <1>12. MembersExist'
    BY <1>1, <1>2 DEF MembersExist, Construct
  <1> QED
    BY <1>1, <1>3, <1>7, <1>11, <1>12 DEF Construct

LEMMA AddRefStep ==
  ASSUME ObjectTypes, Bookkeeping, MembersExist, NEW b \in Addrs \cup {Null},
         b # Null => heap[b] = "live",
         IF b = Null THEN UNCHANGED <<ref_count, status>> ELSE AddRef(b),
         UNCHANGED <<heap, member, module_ref_count, dying>>
  PROVE  /\ ObjectTypes' /\ Bookkeeping' /\ MembersExist'
         /\ \A x \in Addrs : ref_count'[x] = ref_count[x] + Same(b, x)
  <1>1. \A x \in Addrs : ref_count'[x] = ref_count[x] + Same(b, x)
    BY ObjectLifetimeAssumption DEF AddRef, ObjectTypes, Same
  <1>2. status' = status
    BY DEF AddRef
  <1>3. ref_count' \in [Addrs -> Nat]
    BY DEF AddRef, ObjectTypes
  <1>4. \A x \in Addrs : heap[x] = "live" <=> ref_count'[x] > 0
    BY <1>1 DEF Bookkeeping, ObjectTypes, Same
  <1> QED
    BY <1>1, <1>2, <1>3, <1>4 DEF ObjectTypes, Bookkeeping, MembersExist
LEMMA DestroyObjectStep ==
  ASSUME ObjectTypes, HolderTypes, Bookkeeping, MembersExist,
         NEW t \in Threads, DestroyObject(t)
  PROVE  ObjectTypes' /\ Bookkeeping' /\ MembersExist'
  <1>1. PICK s \in Seq(Addrs) : s = dying[t] /\ s # <<>>
    BY DEF DestroyObject, ObjectTypes
  <1>2. PICK r : r = Front(s)
    OBVIOUS
  <1>3. PICK a : a = Last(s)
    OBVIOUS
  <1>4. /\ r \in Seq(Addrs)
        /\ Len(s) \in Nat \ {0} /\ DOMAIN s = 1..Len(s) /\ DOMAIN r = 1..(Len(s) - 1)
        /\ \A i \in DOMAIN r : r[i] = s[i]
        /\ a = s[Len(s)] /\ a \in Addrs
    BY <1>1, <1>2, <1>3, Shortened
  <1>5. /\ member[a] = Null
        /\ heap' = [heap EXCEPT ![a] = "free"]
        /\ dying' = [dying EXCEPT ![t] = r]
        /\ module_ref_count' = module_ref_count - 1
        /\ UNCHANGED <<ref_count, member, local, mObject, doing, status>>
    BY <1>1, <1>2, <1>3 DEF DestroyObject
  <1>6. heap[a] = "dying"
    BY <1>1, <1>4 DEF Bookkeeping
  <1>7. \A x \in Addrs : heap'[x] = IF x = a THEN "free" ELSE heap[x]
    BY <1>5 DEF ObjectTypes
  <1>8. /\ module_ref_count' \in Nat
        /\ module_ref_count' = Cardinality(Exists(heap'))
    <2>1. Exists(heap') = Exists(heap) \ {a} /\ a \in Exists(heap)
      BY <1>4, <1>6, <1>7 DEF Exists
    <2>2. IsFiniteSet(Exists(heap))
      BY FS_Subset, ObjectLifetimeAssumption DEF Exists
    <2>3. /\ Cardinality(Exists(heap) \ {a}) = Cardinality(Exists(heap)) - 1
          /\ IsFiniteSet(Exists(heap) \ {a})
      BY <2>1, <2>2, FS_RemoveElement
    <2>4. Cardinality(Exists(heap) \ {a}) \in Nat
      BY <2>3, FS_CardinalityType
    <2> QED
      BY <1>5, <2>1, <2>3, <2>4 DEF Bookkeeping
  <1>9. ObjectTypes'
    BY <1>4, <1>5, <1>8 DEF ObjectTypes
  <1>10. \A u \in Threads : \A i \in DOMAIN dying'[u] :
           /\ i \in DOMAIN dying[u] /\ dying'[u][i] = dying[u][i]
           /\ dying'[u][i] # a
    <2> TAKE u \in Threads
    <2>1. CASE u = t
      <3>1. dying'[u] = r
        BY <1>5, <2>1 DEF ObjectTypes
      <3>2. \A i \in DOMAIN r : i \in DOMAIN s /\ i # Len(s) /\ Len(s) \in DOMAIN s
        BY <1>4
      <3>3. \A i, j \in DOMAIN s : s[i] = s[j] => i = j
        BY <1>1 DEF Bookkeeping
      <3> QED
        BY <1>1, <1>4, <2>1, <3>1, <3>2, <3>3
    <2>2. CASE u # t
      <3>1. dying'[u] = dying[u]
        BY <1>5, <2>2 DEF ObjectTypes
      <3>2. Len(s) \in DOMAIN dying[t] /\ dying[t][Len(s)] = a
        BY <1>1, <1>4
      <3> QED
        BY <2>2, <3>1, <3>2 DEF Bookkeeping
    <2> QED
      BY <2>1, <2>2
  <1>11. \A u \in Threads : \A i \in DOMAIN dying[u] : dying[u][i] \in Addrs
    BY LenProperties, ElementOfSeq DEF ObjectTypes
  <1>12. \A x \in Addrs : heap'[x] = "live" <=> ref_count'[x] > 0
    BY <1>5, <1>6, <1>7 DEF Bookkeeping
  <1>13. \A u \in Threads : \A i \in DOMAIN dying'[u] : heap'[dying'[u][i]] = "dying"
    BY <1>7, <1>10, <1>11 DEF Bookkeeping
  <1>14. \A u, w \in Threads : \A i \in DOMAIN dying'[u], j \in DOMAIN dying'[w] :
           dying'[u][i] = dying'[w][j] => u = w /\ i = j
    BY <1>10 DEF Bookkeeping
  <1>15. Bookkeeping'
    BY <1>5, <1>8, <1>12, <1>13, <1>14 DEF Bookkeeping
  <1>16. MembersExist'
    BY <1>5, <1>7 DEF MembersExist
  <1> QED
    BY <1>9, <1>15, <1>16
-----------------------------------------------------------------------------
(* Owners.                                                                 *)

LEMMA OwnersAreHolders ==
  ASSUME NEW a \in Addrs
  PROVE  /\ Owners(a) = Holders(local, member, Kept, a)
         /\ Owners(a)' = Holders(local', member', Kept', a)
  <1>1. \A s \in Slot : s[1] = "local" \/ s[1] = "member" \/ s[2] \in Parsers
    BY DEF Slot
  <1>2. Owners(a) = Holders(local, member, Kept, a)
    BY <1>1 DEF Owners, Holders, Owned, Kept
  <1>3. Owners(a)' = Holders(local', member', Kept', a)
    BY <1>1 DEF Owners, Holders, Owned, Kept
  <1> QED
    BY <1>2, <1>3

LEMMA OwnersCounted ==
  ASSUME NEW a \in Addrs
  PROVE  Cardinality(Owners(a)) \in Nat /\ IsFiniteSet(Owners(a))
  <1>1. Owners(a) \in SUBSET Slot
    BY DEF Owners
  <1> QED
    BY <1>1, SlotsFinite, FS_Subset, FS_CardinalityType

(* What something owns is alive.                                           *)
LEMMA OwnedLives ==
  ASSUME IInv
  PROVE  /\ \A t \in Threads, v \in Variables :
              local[t][v] # Null => heap[local[t][v]] = "live"
         /\ \A a \in Addrs : member[a] # Null => heap[member[a]] = "live"
         /\ \A p \in Parsers : InUse(p) => heap[mObject[p]] = "live"
  <1>1. ASSUME NEW s \in Slot, Owned(s) \in Addrs
        PROVE  heap[Owned(s)] = "live"
    <2>1. PICK a \in Addrs : a = Owned(s)
      BY <1>1
    <2>2. s \in Owners(a)
      BY <2>1 DEF Owners
    <2>3. ref_count[a] > 0
      BY <2>2, OwnersCounted, FS_EmptySet DEF IInv, Counted
    <2> QED
      BY <2>1, <2>3 DEF IInv, Bookkeeping
  <1>2. ASSUME NEW t \in Threads, NEW v \in Variables, local[t][v] # Null
        PROVE  heap[local[t][v]] = "live"
    <2>1. PICK s : s = <<"local", <<t, v>>>>
      OBVIOUS
    <2>2. s \in Slot /\ Owned(s) = local[t][v] /\ local[t][v] \in Addrs
      BY <1>2, <2>1 DEF Slot, Owned, IInv, HolderTypes
    <2> QED
      BY <1>1, <2>2
  <1>3. ASSUME NEW a \in Addrs, member[a] # Null
        PROVE  heap[member[a]] = "live"
    <2>1. PICK s : s = <<"member", a>>
      OBVIOUS
    <2>2. s \in Slot /\ Owned(s) = member[a] /\ member[a] \in Addrs
      BY <1>3, <2>1 DEF Slot, Owned, IInv, HolderTypes
    <2> QED
      BY <1>1, <2>2
  <1>4. ASSUME NEW p \in Parsers, InUse(p)
        PROVE  heap[mObject[p]] = "live"
    <2>1. PICK s : s = <<"field", p>>
      OBVIOUS
    <2>2. s \in Slot /\ Owned(s) = mObject[p] /\ mObject[p] \in Addrs
      BY <1>4, <2>1 DEF Slot, Owned, IInv, HolderTypes, InUse
    <2> QED
      BY <1>1, <2>2
  <1> QED
    BY <1>2, <1>3, <1>4

LEMMA SourceShape ==
  ASSUME NEW t \in Threads, HolderTypes, doing[t] # Null
  PROVE  /\ doing[t] \in Assignment
         /\ doing[t].into \in Variables
         /\ doing[t].from[1] \in {"local", "member", "field"}
         /\ doing[t].from[1] = "local" => doing[t].from[2] \in Variables
         /\ doing[t].from[1] = "member" => doing[t].from[2] \in Addrs
         /\ doing[t].from[1] = "field" =>
              doing[t].from[2] \in Parsers /\ doing[t].from = <<"field", doing[t].from[2]>>
  <1>1. doing[t] \in Assignment
    BY DEF HolderTypes
  <1>2. doing[t].from \in Source /\ doing[t].into \in Variables
    BY <1>1 DEF Assignment
  <1> QED
    BY <1>1, <1>2 DEF Source

LEMMA NothingDangles == IInv => NoDanglingPointer
  <1> SUFFICES ASSUME IInv PROVE NoDanglingPointer
    OBVIOUS
  <1>1. ASSUME NEW p \in Parsers, mObject[p] # Null
        PROVE  heap[mObject[p]] = "live"
    <2>1. CASE Releasing(p)
      <3>1. PICK t \in Threads : At(t, "clear") /\ doing[t].from = <<"field", p>>
        BY <2>1 DEF Releasing
      <3>2. doing[t].into \in Variables
        BY <3>1, SourceShape DEF At, IInv
      <3>3. local[t][doing[t].into] = mObject[p]
        BY <3>1 DEF At, IInv, Assignments, Halfway
      <3> QED
        BY <1>1, <3>2, <3>3, OwnedLives
    <2>2. CASE ~Releasing(p)
      BY <1>1, <2>2, OwnedLives DEF InUse
    <2> QED
      BY <2>1, <2>2
  <1>2. ASSUME NEW t \in Threads, At(t, "add_ref"), doing[t].abi # Null
        PROVE  heap[doing[t].abi] = "live"
    <2>1. doing[t] # Null /\ SourceKept(t) /\ doing[t].abi = doing[t].meant
      BY <1>2 DEF At, IInv, Assignments, Halfway
    <2>2. /\ doing[t].from[1] \in {"local", "member", "field"}
          /\ doing[t].from[1] = "local" => doing[t].from[2] \in Variables
          /\ doing[t].from[1] = "member" => doing[t].from[2] \in Addrs
          /\ doing[t].from[1] = "field" => doing[t].from[2] \in Parsers
      BY <2>1, SourceShape DEF IInv
    <2> QED
      BY <1>1, <1>2, <2>1, <2>2, OwnedLives DEF SourceKept
  <1>3. status = "running" /\ \A a \in Addrs : member[a] # Null => heap[a] # "free"
    BY DEF IInv, Bookkeeping, MembersExist
  <1> QED
    BY <1>1, <1>2, <1>3, OwnedLives DEF NoDanglingPointer

LEMMA PartsHold == IInv => TypeOK /\ CountsExact /\ AssignmentKeepsItsSource
  <1>1. IInv => TypeOK
    BY DEF IInv, TypeOK, ObjectTypes, HolderTypes, Bookkeeping
  <1>2. IInv => CountsExact
    BY DEF IInv, CountsExact, Counted, Bookkeeping, Exists
  <1>3. IInv => AssignmentKeepsItsSource
    BY DEF IInv, AssignmentKeepsItsSource, Assignments, Halfway, At
  <1> QED
    BY <1>1, <1>2, <1>3
-----------------------------------------------------------------------------
(* What a step leaves alone.                                               *)

(* A thread's assignment is not disturbed by a step that leaves alone its  *)
(* variables, the members of living objects and the field it reads.        *)
LEMMA HalfwayKept ==
  ASSUME IInv, NEW u \in Threads, doing'[u] = doing[u], local'[u] = local[u],
         \A a \in Addrs : heap[a] = "live" => member'[a] = member[a],
         \A p \in Parsers :
           doing[u] # Null /\ doing[u].from = <<"field", p>> => mObject'[p] = mObject[p]
  PROVE  Halfway(u)'
  <1> SUFFICES ASSUME doing[u] # Null PROVE Halfway(u)'
    BY DEF Halfway
  <1>1. PICK d : d = doing[u]
    OBVIOUS
  <1>2. /\ d.from[1] \in {"local", "member", "field"}
        /\ d.from[1] = "local" => d.from[2] \in Variables
        /\ d.from[1] = "member" => d.from[2] \in Addrs
        /\ d.from[1] = "field" => d.from[2] \in Parsers /\ d.from = <<"field", d.from[2]>>
    BY <1>1, SourceShape DEF IInv
  <1>3. Halfway(u)
    BY DEF IInv, Assignments
  <1>4. d.from[1] = "field" => mObject'[d.from[2]] = mObject[d.from[2]]
    BY <1>1, <1>2
  <1>5. CASE d.step = "clear"
    BY <1>1, <1>3, <1>4, <1>5 DEF Halfway
  <1>6. CASE d.step # "clear"
    <2>1. /\ local[u][d.into] = Null
          /\ SourceKept(u)
          /\ d.step = "add_ref" => d.abi = d.meant
      BY <1>1, <1>3, <1>6 DEF Halfway
    <2>2. d.from[1] = "member" =>
            (\E w \in Variables : local'[u][w] = d.from[2]) /\ member'[d.from[2]] = d.meant
      <3> SUFFICES ASSUME d.from[1] = "member"
                   PROVE  /\ \E w \in Variables : local'[u][w] = d.from[2]
                          /\ member'[d.from[2]] = d.meant
        OBVIOUS
      <3>1. PICK w \in Variables : local[u][w] = d.from[2]
        BY <1>1, <2>1 DEF SourceKept
      <3>2. heap[d.from[2]] = "live"
        BY <1>2, <3>1, OwnedLives, ObjectLifetimeAssumption
      <3> QED
        BY <1>1, <1>2, <2>1, <3>1, <3>2 DEF SourceKept
    <2>3. SourceKept(u)'
      BY <1>1, <1>4, <2>1, <2>2 DEF SourceKept
    <2> QED
      BY <1>1, <1>6, <2>1, <2>3 DEF Halfway
  <1> QED
    BY <1>5, <1>6

(* The fields own what they did while no release begins or ends.           *)
LEMMA KeptKept ==
  ASSUME NEW t \in Threads, \A u \in Threads : u # t => doing'[u] = doing[u],
         ~At(t, "clear"), ~At(t, "clear")', mObject' = mObject
  PROVE  Kept' = Kept
  <1>1. \A u \in Threads : At(u, "clear")' <=> At(u, "clear")
    BY DEF At
  <1>2. \A p \in Parsers : Releasing(p)' <=> Releasing(p)
    BY <1>1 DEF Releasing
  <1> QED
    BY <1>2 DEF Kept

(* An assignment other than a release may begin: a field it reads is in    *)
(* use; what begins or ends nothing disturbs no release either.            *)
LEMMA AloneKept ==
  ASSUME IInv, NEW t \in Threads, \A u \in Threads : u # t => doing'[u] = doing[u],
         ~At(t, "clear")',
         doing'[t] # Null =>
           \A u \in Threads :
             u # t /\ At(u, "clear") => doing'[t].from # doing[u].from
  PROVE  Alone'
  <1>1. \A u \in Threads : u # t => (At(u, "clear")' <=> At(u, "clear"))
    BY DEF At
  <1> QED
    BY <1>1 DEF Alone, IInv, Assignments

LEMMA AllHalfway ==
  ASSUME IInv, NEW t \in Threads, Halfway(t)',
         \A u \in Threads : u # t => doing'[u] = doing[u] /\ local'[u] = local[u],
         \A a \in Addrs : heap[a] = "live" => member'[a] = member[a],
         mObject' = mObject
  PROVE  \A u \in Threads : Halfway(u)'
  <1> SUFFICES ASSUME NEW u \in Threads, u # t PROVE Halfway(u)'
    OBVIOUS
  <1> QED
    BY HalfwayKept

(* A variable that lets go of what it holds.                               *)
LEMMA VariableLetsGo ==
  ASSUME IInv, NEW t \in Threads, NEW v \in Variables,
         LetGo(t, local[t][v]), local' = [local EXCEPT ![t][v] = Null], Kept' = Kept
  PROVE  /\ ObjectTypes' /\ Bookkeeping' /\ MembersExist' /\ Counted'
         /\ local' \in [Threads -> [Variables -> Addrs \cup {Null}]]
         /\ member' = member
  <1>1. PICK b \in Addrs \cup {Null} : b = local[t][v]
    BY DEF IInv, HolderTypes
  <1>2. b # Null => heap[b] = "live"
    BY <1>1, OwnedLives
  <1>3. LetGo(t, b)
    BY <1>1 DEF LetGo, Release
  <1>4. /\ ObjectTypes' /\ Bookkeeping' /\ MembersExist'
        /\ \A x \in Addrs : ref_count'[x] = ref_count[x] - Same(b, x)
        /\ member' = member
    BY <1>2, <1>3, LetGoStep DEF IInv
  <1>5. local' \in [Threads -> [Variables -> Addrs \cup {Null}]]
    BY DEF IInv, HolderTypes
  <1>6. ASSUME NEW x \in Addrs
        PROVE  ref_count'[x] = Cardinality(Owners(x)')
    <2>1. PICK l \in [Threads -> [Variables -> Addrs \cup {Null}]] : l = local
      BY DEF IInv, HolderTypes
    <2> PICK m : m = member
      OBVIOUS
    <2> PICK f : f = Kept
      OBVIOUS
    <2> PICK k : k = [l EXCEPT ![t][v] = Null]
      OBVIOUS
    <2>2. Writes2(l, t, v, Null, k)
      BY DEF Writes2
    <2>3. /\ Number(l, m, f, x) \in Nat
          /\ Number(k, m, f, x) = Number(l, m, f, x) - Same(l[t][v], x) + Same(Null, x)
      BY <2>2, LocalWritten
    <2>4. /\ Cardinality(Owners(x)) = Number(l, m, f, x)
          /\ Cardinality(Owners(x)') = Number(k, m, f, x)
      BY <1>4, <2>1, OwnersAreHolders DEF Number
    <2>5. Same(Null, x) = 0 /\ Same(l[t][v], x) \in {0, 1} /\ Same(l[t][v], x) = Same(b, x)
      BY <1>1, <2>1, ObjectLifetimeAssumption DEF Same
    <2>6. ref_count[x] = Number(l, m, f, x)
      BY <2>4 DEF IInv, Counted
    <2> QED
      BY <1>4, <2>3, <2>4, <2>5, <2>6
  <1>7. Counted'
    BY <1>6 DEF Counted
  <1> QED
    BY <1>4, <1>5, <1>7
-----------------------------------------------------------------------------
(* The steps.                                                              *)

LEMMA ResetKeeps ==
  ASSUME IInv, NEW t \in Threads, NEW v \in Variables, Reset(t, v)
  PROVE  IInv'
  <1>1. Kept' = Kept
    BY DEF Reset, Kept, Releasing, At
  <1>2. /\ ObjectTypes' /\ Bookkeeping' /\ MembersExist' /\ Counted'
        /\ local' \in [Threads -> [Variables -> Addrs \cup {Null}]]
        /\ member' = member
    BY <1>1, VariableLetsGo DEF Reset
  <1>3. HolderTypes'
    BY <1>2 DEF Reset, HolderTypes, IInv
  <1>4. Alone'
    BY DEF Reset, Alone, At, IInv, Assignments
  <1>5. Halfway(t)'
    BY DEF Reset, Idle, Halfway
  <1>6. \A u \in Threads : u # t => doing'[u] = doing[u] /\ local'[u] = local[u]
    BY DEF Reset, IInv, HolderTypes
  <1>7. \A u \in Threads : Halfway(u)'
    BY <1>2, <1>5, <1>6, AllHalfway DEF Reset
  <1> QED
    BY <1>2, <1>3, <1>4, <1>7 DEF IInv, Assignments

(* v lets go, and an assignment of a, found at s, begins.                  *)
Begins(t, v, s, a) ==
  /\ Idle(t)
  /\ LetGo(t, local[t][v])
  /\ local' = [local EXCEPT ![t][v] = Null]
  /\ doing' = [doing EXCEPT ![t] = Taking(v, s, a)]
  /\ UNCHANGED mObject
  /\ s[1] = "local" => s[2] # v /\ local[t][s[2]] = a
  /\ s[1] = "member" =>
       member[s[2]] = a /\ \E w \in Variables : w # v /\ local[t][w] = s[2]

LEMMA AssigningKeeps ==
  ASSUME IInv, NEW t \in Threads, NEW v \in Variables,
         NEW s \in Source, s[1] # "field", NEW a \in Addrs \cup {Null},
         Begins(t, v, s, a)
  PROVE  IInv'
  <1> USE DEF Begins
  <1>1. PICK d : d = Taking(v, s, a)
    OBVIOUS
  <1>2. /\ d \in Assignment /\ d # Null
        /\ d.step = "take" /\ d.into = v /\ d.from = s /\ d.meant = a
    BY <1>1, ObjectLifetimeAssumption DEF Taking, Assignment
  <1>3. /\ doing'[t] = d
        /\ \A u \in Threads : u # t => doing'[u] = doing[u] /\ local'[u] = local[u]
        /\ \A w \in Variables : local'[t][w] = IF w = v THEN Null ELSE local[t][w]
    BY <1>1 DEF IInv, HolderTypes
  <1>4. doing[t] = Null /\ ~At(t, "clear") /\ ~At(t, "clear")'
    BY <1>2, <1>3 DEF Idle, At
  <1>5. Kept' = Kept
    BY <1>3, <1>4, KeptKept
  <1>6. /\ ObjectTypes' /\ Bookkeeping' /\ MembersExist' /\ Counted'
        /\ local' \in [Threads -> [Variables -> Addrs \cup {Null}]]
        /\ member' = member
    BY <1>5, VariableLetsGo
  <1>7. HolderTypes'
    BY <1>1, <1>2, <1>6 DEF HolderTypes, IInv
  <1>8. Alone'
    <2>1. \A u \in Threads : At(u, "clear") => doing[u].from[1] = "field"
      BY DEF At, IInv, Assignments, Halfway
    <2>2. \A u \in Threads : u # t /\ At(u, "clear") => doing'[t].from # doing[u].from
      BY <1>2, <1>3, <2>1
    <2> QED
      BY <1>3, <1>4, <2>2, AloneKept
  <1>9. Halfway(t)'
    <2>1. s[1] = "local" => s[2] \in Variables
      BY DEF Source
    <2>2. SourceKept(t)'
      BY <1>2, <1>3, <1>6, <2>1 DEF SourceKept
    <2> QED
      BY <1>2, <1>3, <2>2 DEF Halfway
  <1>10. \A u \in Threads : Halfway(u)'
    BY <1>3, <1>6, <1>9, AllHalfway
  <1> QED
    BY <1>6, <1>7, <1>8, <1>10 DEF IInv, Assignments

LEMMA CopyAssignKeeps ==
  ASSUME IInv, NEW t \in Threads, NEW v \in Variables, NEW w \in Variables,
         CopyAssign(t, v, w)
  PROVE  IInv'
  <1>1. PICK s \in Source : s = <<"local", w>>
    BY DEF Source
  <1>2. PICK a \in Addrs \cup {Null} : a = local[t][w]
    BY DEF IInv, HolderTypes
  <1>3. s[1] = "local" /\ s[2] = w
    BY <1>1
  <1>4. doing' = [doing EXCEPT ![t] = Taking(v, s, a)]
    BY <1>1, <1>2 DEF CopyAssign
  <1>5. Begins(t, v, s, a)
    BY <1>2, <1>3, <1>4 DEF CopyAssign, Begins
  <1> QED
    BY <1>3, <1>5, AssigningKeeps

LEMMA AssignMemberKeeps ==
  ASSUME IInv, NEW t \in Threads, NEW v \in Variables, NEW w \in Variables,
         AssignMember(t, v, w)
  PROVE  IInv'
  <1>1. PICK c \in Addrs : c = local[t][w]
    BY DEF IInv, HolderTypes, AssignMember
  <1>2. PICK s \in Source : s = <<"member", c>>
    BY DEF Source
  <1>3. PICK a \in Addrs \cup {Null} : a = member[c]
    BY DEF IInv, HolderTypes
  <1>4. /\ s[1] = "member" /\ s[2] = c
        /\ member[s[2]] = a /\ w # v /\ local[t][w] = s[2]
    BY <1>1, <1>2, <1>3 DEF AssignMember, NotItsOwn
  <1>5. doing' = [doing EXCEPT ![t] = Taking(v, s, a)]
    BY <1>1, <1>2, <1>3 DEF AssignMember
  <1>6. Begins(t, v, s, a)
    BY <1>4, <1>5 DEF AssignMember, Begins
  <1> QED
    BY <1>4, <1>6, AssigningKeeps

LEMMA JavaClearsKeeps ==
  ASSUME IInv, NEW t \in Threads, JavaClears(t)
  PROVE  IInv'
  <1>1. /\ doing[t] # Null /\ doing[t].step = "clear"
        /\ doing[t].from[1] = "field" /\ doing[t].into \in Variables
        /\ doing[t].from[2] \in Parsers /\ doing[t].from = <<"field", doing[t].from[2]>>
    BY SourceShape DEF JavaClears, At, IInv, Assignments, Halfway
  <1>2. PICK p \in Parsers : p = doing[t].from[2]
    BY <1>1
  <1>3. PICK v \in Variables : v = doing[t].into
    BY <1>1
  <1>4. /\ mObject' = [mObject EXCEPT ![p] = Null]
        /\ LetGo(t, local[t][v])
        /\ local' = [local EXCEPT ![t][v] = Null]
        /\ doing' = [doing EXCEPT ![t] = Null]
    BY <1>2, <1>3 DEF JavaClears, LetGo, Release
  <1>5. /\ doing'[t] = Null
        /\ \A u \in Threads : u # t => doing'[u] = doing[u] /\ local'[u] = local[u]
        /\ \A q \in Parsers : mObject'[q] = IF q = p THEN Null ELSE mObject[q]
    BY <1>4 DEF IInv, HolderTypes
  <1>6. Kept' = Kept
    <2>1. Releasing(p)
      BY <1>1, <1>2 DEF Releasing, At
    <2>2. \A q \in Parsers : q # p => (Releasing(q)' <=> Releasing(q))
      <3>1. \A u \in Threads : u # t => (At(u, "clear")' <=> At(u, "clear"))
        BY <1>5 DEF At
      <3>2. ~At(t, "clear")'
        BY <1>5 DEF At
      <3>3. \A q \in Parsers : q # p => doing[t].from # <<"field", q>>
        BY <1>1, <1>2
      <3> QED
        BY <1>5, <3>1, <3>2, <3>3 DEF Releasing
    <2> QED
      BY <1>5, <2>1, <2>2 DEF Kept
  <1>7. /\ ObjectTypes' /\ Bookkeeping' /\ MembersExist' /\ Counted'
        /\ local' \in [Threads -> [Variables -> Addrs \cup {Null}]]
        /\ member' = member
    BY <1>4, <1>6, VariableLetsGo
  <1>8. HolderTypes'
    BY <1>4, <1>7 DEF HolderTypes, IInv
  <1>9. Alone'
    BY <1>5, AloneKept DEF At
  <1>10. ASSUME NEW u \in Threads, u # t
         PROVE  Halfway(u)'
    <2>1. \A q \in Parsers :
            doing[u] # Null /\ doing[u].from = <<"field", q>> => mObject'[q] = mObject[q]
      BY <1>1, <1>2, <1>5, <1>10 DEF IInv, Assignments, Alone, At
    <2> QED
      BY <1>5, <1>7, <1>10, <2>1, HalfwayKept
  <1>11. Halfway(t)'
    BY <1>5 DEF Halfway
  <1> QED
    BY <1>7, <1>8, <1>9, <1>10, <1>11 DEF IInv, Assignments
LEMMA SameValues ==
  ASSUME NEW x \in Addrs, NEW b
  PROVE  Same(b, x) \in {0, 1} /\ Same(Null, x) = 0
  BY ObjectLifetimeAssumption DEF Same

LEMMA NumberIsNat ==
  ASSUME NEW l, NEW m, NEW f, NEW a
  PROVE  Number(l, m, f, a) \in Nat
  BY HoldersFinite, FS_CardinalityType DEF Number

LEMMA CountedKept ==
  ASSUME IInv, ref_count' = ref_count, local' = local, member' = member, Kept' = Kept
  PROVE  Counted'
  <1> SUFFICES ASSUME NEW x \in Addrs PROVE ref_count'[x] = Cardinality(Owners(x)')
    BY DEF Counted
  <1>1. Owners(x)' = Owners(x)
    BY OwnersAreHolders
  <1> QED
    BY <1>1 DEF IInv, Counted

LEMMA JavaCallKeeps ==
  ASSUME IInv, NEW t \in Threads, NEW p \in Parsers, NEW v \in Variables, JavaCall(t, p, v)
  PROVE  IInv'
  <1>1. PICK d : d = Taking(v, <<"field", p>>, mObject[p])
    OBVIOUS
  <1>2. /\ d \in Assignment /\ d # Null
        /\ d.step = "take" /\ d.into = v /\ d.from = <<"field", p>> /\ d.meant = mObject[p]
    BY <1>1, ObjectLifetimeAssumption DEF Taking, Assignment, Source, IInv, HolderTypes
  <1>3. /\ doing' = [doing EXCEPT ![t] = d] /\ local[t][v] = Null
        /\ UNCHANGED <<heap, ref_count, member, module_ref_count, local, mObject, dying, status>>
    BY <1>1 DEF JavaCall, objects
  <1>4. doing'[t] = d /\ \A u \in Threads : u # t => doing'[u] = doing[u]
    BY <1>3 DEF IInv, HolderTypes
  <1>5. ~At(t, "clear") /\ ~At(t, "clear")'
    BY <1>2, <1>4 DEF JavaCall, Idle, At
  <1>6. Kept' = Kept
    BY <1>3, <1>4, <1>5, KeptKept
  <1>7. ObjectTypes' /\ HolderTypes' /\ Bookkeeping' /\ MembersExist'
    BY <1>2, <1>3 DEF IInv, ObjectTypes, HolderTypes, Bookkeeping, MembersExist
  <1>8. Counted'
    BY <1>3, <1>6, CountedKept
  <1>9. Alone'
    <2>1. \A u \in Threads : At(u, "clear") => doing[u].from # <<"field", p>>
      BY DEF JavaCall, InUse, Releasing
    <2> QED
      BY <1>2, <1>4, <1>5, <2>1, AloneKept
  <1>10. Halfway(t)'
    BY <1>2, <1>3, <1>4 DEF Halfway, SourceKept
  <1>11. \A u \in Threads : Halfway(u)'
    BY <1>3, <1>4, <1>10, AllHalfway
  <1> QED
    BY <1>7, <1>8, <1>9, <1>11 DEF IInv, Assignments

LEMMA TakeKeeps ==
  ASSUME IInv, NEW t \in Threads, Take(t)
  PROVE  IInv'
  <1>1. PICK d \in Assignment : d = doing[t]
    BY DEF Take, At, IInv, HolderTypes
  <1>2. d # Null /\ d.step = "take" /\ local[t][d.into] = Null /\ SourceKept(t)
    BY <1>1 DEF Take, At, IInv, Assignments, Halfway
  <1>3. /\ d.from[1] \in {"local", "member", "field"}
        /\ d.from[1] = "member" => d.from[2] \in Addrs
    BY <1>1, <1>2, SourceShape DEF IInv
  <1>4. ValueOf(t, d.from) = d.meant
    BY <1>1, <1>2, <1>3 DEF ValueOf, SourceKept
  <1>5. ~Gone(d.from)
    <2> SUFFICES ASSUME d.from[1] = "member" PROVE heap[d.from[2]] # "free"
      BY DEF Gone
    <2>1. PICK w \in Variables : local[t][w] = d.from[2]
      BY <1>1, <1>2 DEF SourceKept
    <2> QED
      BY <1>3, <2>1, OwnedLives, ObjectLifetimeAssumption
  <1>6. PICK e : e = [d EXCEPT !.step = "add_ref", !.abi = d.meant]
    OBVIOUS
  <1>7. /\ e \in Assignment /\ e # Null
        /\ e.step = "add_ref" /\ e.into = d.into /\ e.from = d.from
        /\ e.abi = d.meant /\ e.meant = d.meant
    BY <1>6, ObjectLifetimeAssumption DEF Assignment
  <1>8. /\ doing' = [doing EXCEPT ![t] = e]
        /\ UNCHANGED <<heap, ref_count, member, module_ref_count, local, mObject, dying, status>>
    BY <1>1, <1>4, <1>5, <1>6 DEF Take, objects, IInv, HolderTypes
  <1>9. doing'[t] = e /\ \A u \in Threads : u # t => doing'[u] = doing[u]
    BY <1>8 DEF IInv, HolderTypes
  <1>10. ~At(t, "clear") /\ ~At(t, "clear")'
    BY <1>1, <1>2, <1>7, <1>9 DEF At
  <1>11. Kept' = Kept
    BY <1>8, <1>9, <1>10, KeptKept
  <1>12. ObjectTypes' /\ HolderTypes' /\ Bookkeeping' /\ MembersExist'
    BY <1>7, <1>8 DEF IInv, ObjectTypes, HolderTypes, Bookkeeping, MembersExist
  <1>13. Counted'
    BY <1>8, <1>11, CountedKept
  <1>14. Alone'
    <2>1. \A u \in Threads : u # t /\ At(u, "clear") => d.from # doing[u].from
      BY <1>1, <1>2 DEF IInv, Assignments, Alone
    <2> QED
      BY <1>7, <1>9, <1>10, <2>1, AloneKept
  <1>15. Halfway(t)'
    BY <1>1, <1>2, <1>7, <1>8, <1>9 DEF Halfway, SourceKept
  <1>16. \A u \in Threads : Halfway(u)'
    BY <1>8, <1>9, <1>15, AllHalfway
  <1> QED
    BY <1>12, <1>13, <1>14, <1>16 DEF IInv, Assignments

LEMMA CountKeeps ==
  ASSUME IInv, NEW t \in Threads, Count(t)
  PROVE  IInv'
  <1>1. PICK d \in Assignment : d = doing[t]
    BY DEF Count, At, IInv, HolderTypes
  <1>2. d # Null /\ d.step = "add_ref" /\ local[t][d.into] = Null
    BY <1>1 DEF Count, At, IInv, Assignments, Halfway
  <1>3. PICK v \in Variables : v = d.into
    BY DEF Assignment
  <1>4. PICK b \in Addrs \cup {Null} : b = d.abi
    BY DEF Assignment
  <1>5. b # Null => heap[b] = "live"
    BY <1>1, <1>2, <1>4, NothingDangles DEF NoDanglingPointer, At
  <1>6. /\ local' = [local EXCEPT ![t][v] = b]
        /\ doing' = [doing EXCEPT ![t] = Null]
        /\ IF b = Null THEN UNCHANGED <<ref_count, status>> ELSE AddRef(b)
        /\ UNCHANGED <<heap, member, module_ref_count, mObject, dying>>
    BY <1>1, <1>3, <1>4 DEF Count, AddRef
  <1>7. /\ ObjectTypes' /\ Bookkeeping' /\ MembersExist'
        /\ \A x \in Addrs : ref_count'[x] = ref_count[x] + Same(b, x)
    BY <1>5, <1>6, AddRefStep DEF IInv
  <1>8. /\ doing'[t] = Null
        /\ \A u \in Threads : u # t => doing'[u] = doing[u] /\ local'[u] = local[u]
    BY <1>6 DEF IInv, HolderTypes
  <1>9. Kept' = Kept
    <2>1. ~At(t, "clear") /\ ~At(t, "clear")'
      BY <1>1, <1>2, <1>8 DEF At
    <2> QED
      BY <1>6, <1>8, <2>1, KeptKept
  <1>10. HolderTypes'
    BY <1>6 DEF HolderTypes, IInv
  <1>11. Counted'
    <2> SUFFICES ASSUME NEW x \in Addrs PROVE ref_count'[x] = Cardinality(Owners(x)')
      BY DEF Counted
    <2>1. PICK l \in [Threads -> [Variables -> Addrs \cup {Null}]] : l = local
      BY DEF IInv, HolderTypes
    <2> PICK m : m = member
      OBVIOUS
    <2> PICK f : f = Kept
      OBVIOUS
    <2> PICK k : k = [l EXCEPT ![t][v] = b]
      OBVIOUS
    <2>2. Writes2(l, t, v, b, k)
      BY DEF Writes2
    <2>3. /\ Number(l, m, f, x) \in Nat
          /\ Number(k, m, f, x) = Number(l, m, f, x) - Same(l[t][v], x) + Same(b, x)
      BY <2>2, LocalWritten
    <2>4. /\ Cardinality(Owners(x)) = Number(l, m, f, x)
          /\ Cardinality(Owners(x)') = Number(k, m, f, x)
      BY <1>6, <1>9, <2>1, OwnersAreHolders DEF Number
    <2>5. l[t][v] = Null
      BY <1>2, <1>3, <2>1
    <2>6. Same(Null, x) = 0 /\ Same(b, x) \in {0, 1}
      BY SameValues
    <2>7. ref_count[x] = Number(l, m, f, x)
      BY <2>4 DEF IInv, Counted
    <2> QED
      BY <1>7, <2>3, <2>4, <2>5, <2>6, <2>7
  <1>12. Alone'
    BY <1>8, AloneKept DEF At
  <1>13. Halfway(t)'
    BY <1>8 DEF Halfway
  <1>14. \A u \in Threads : Halfway(u)'
    BY <1>6, <1>8, <1>13, AllHalfway
  <1> QED
    BY <1>7, <1>10, <1>11, <1>12, <1>14 DEF IInv, Assignments

LEMMA JavaReleaseKeeps ==
  ASSUME IInv, NEW t \in Threads, NEW p \in Parsers, NEW v \in Variables,
         JavaRelease(t, p, v)
  PROVE  IInv'
  <1>1. PICK c \in Addrs \cup {Null} : c = mObject[p]
    BY DEF IInv, HolderTypes
  <1>2. PICK d : d = [step |-> "clear", into |-> v, from |-> <<"field", p>>, abi |-> Null,
                      meant |-> c]
    OBVIOUS
  <1>3. /\ d \in Assignment /\ d # Null
        /\ d.step = "clear" /\ d.into = v /\ d.from = <<"field", p>>
    BY <1>2, ObjectLifetimeAssumption DEF Assignment, Source
  <1>4. /\ local' = [local EXCEPT ![t][v] = c] /\ local[t][v] = Null
        /\ doing' = [doing EXCEPT ![t] = d] /\ doing[t] = Null
        /\ UNCHANGED <<heap, ref_count, member, module_ref_count, mObject, dying, status>>
    BY <1>1, <1>2 DEF JavaRelease, objects, Idle
  <1>5. /\ doing'[t] = d /\ local'[t][v] = c
        /\ \A u \in Threads : u # t => doing'[u] = doing[u] /\ local'[u] = local[u]
    BY <1>4 DEF IInv, HolderTypes
  <1>6. \A u \in Threads : doing[u] # Null => doing[u].from # <<"field", p>>
    BY DEF JavaRelease, Quiet
  <1>7. /\ ~Releasing(p) /\ Releasing(p)'
        /\ \A q \in Parsers : q # p => (Releasing(q)' <=> Releasing(q))
    <2>1. ~Releasing(p)
      BY <1>6 DEF Releasing, At
    <2>2. Releasing(p)'
      BY <1>3, <1>5 DEF Releasing, At
    <2>3. \A q \in Parsers : q # p => (Releasing(q)' <=> Releasing(q))
      BY <1>3, <1>4, <1>5 DEF Releasing, At
    <2> QED
      BY <2>1, <2>2, <2>3
  <1>8. ObjectTypes' /\ HolderTypes' /\ Bookkeeping' /\ MembersExist'
    BY <1>3, <1>4 DEF IInv, ObjectTypes, HolderTypes, Bookkeeping, MembersExist
  <1>9. Counted'
    <2> SUFFICES ASSUME NEW x \in Addrs PROVE ref_count'[x] = Cardinality(Owners(x)')
      BY DEF Counted
    <2>1. PICK l \in [Threads -> [Variables -> Addrs \cup {Null}]] : l = local
      BY DEF IInv, HolderTypes
    <2> PICK m : m = member
      OBVIOUS
    <2>2. PICK f \in [Parsers -> Addrs \cup {Null}] : f = Kept
      BY DEF IInv, HolderTypes, Kept
    <2>3. PICK k : k = [l EXCEPT ![t][v] = c]
      OBVIOUS
    <2>4. PICK g : g = [f EXCEPT ![p] = Null]
      OBVIOUS
    <2>5. Writes2(l, t, v, c, k)
      BY <2>3 DEF Writes2
    <2>6. Writes(f, Parsers, p, Null, g)
      BY <2>2, <2>4 DEF Writes
    <2>7. /\ Number(l, m, f, x) \in Nat
          /\ Number(k, m, f, x) = Number(l, m, f, x) - Same(l[t][v], x) + Same(c, x)
      BY <2>5, LocalWritten
    <2>8. Number(k, m, g, x) = Number(k, m, f, x) - Same(f[p], x) + Same(Null, x)
      BY <2>6, FieldWritten
    <2>9. Kept' = g
      BY <1>4, <1>7, <2>2, <2>4 DEF Kept
    <2>10. /\ Cardinality(Owners(x)) = Number(l, m, f, x)
           /\ Cardinality(Owners(x)') = Number(k, m, g, x)
      BY <1>4, <2>1, <2>2, <2>3, <2>9, OwnersAreHolders DEF Number
    <2>11. l[t][v] = Null /\ f[p] = c
      BY <1>1, <1>4, <1>7, <2>1, <2>2 DEF Kept
    <2>12. Same(Null, x) = 0 /\ Same(c, x) \in {0, 1}
      BY SameValues
    <2>13. ref_count'[x] = Number(l, m, f, x)
      BY <1>4, <2>10 DEF IInv, Counted
    <2> QED
      BY <2>7, <2>8, <2>10, <2>11, <2>12, <2>13
  <1>10. Alone'
    <2>1. \A u \in Threads : u # t => (At(u, "clear")' <=> At(u, "clear"))
      BY <1>5 DEF At
    <2> QED
      BY <1>3, <1>5, <1>6, <2>1 DEF Alone, IInv, Assignments, At
  <1>11. Halfway(t)'
    BY <1>1, <1>3, <1>4, <1>5 DEF Halfway
  <1>12. \A u \in Threads : Halfway(u)'
    BY <1>4, <1>5, <1>11, AllHalfway
  <1> QED
    BY <1>8, <1>9, <1>10, <1>12 DEF IInv, Assignments
LEMMA MoveAssignKeeps ==
  ASSUME IInv, NEW t \in Threads, NEW v \in Variables, NEW w \in Variables,
         MoveAssign(t, v, w)
  PROVE  IInv'
  <1>1. PICK b \in Addrs \cup {Null} : b = local[t][v]
    BY DEF IInv, HolderTypes
  <1>2. PICK c \in Addrs \cup {Null} : c = local[t][w]
    BY DEF IInv, HolderTypes
  <1>3. /\ LetGo(t, b) /\ v # w
        /\ local' = [local EXCEPT ![t][v] = c, ![t][w] = Null]
        /\ doing[t] = Null /\ UNCHANGED <<mObject, doing>>
    BY <1>1, <1>2 DEF MoveAssign, LetGo, Release, Idle
  <1>4. b # Null => heap[b] = "live"
    BY <1>1, OwnedLives
  <1>5. /\ ObjectTypes' /\ Bookkeeping' /\ MembersExist'
        /\ \A x \in Addrs : ref_count'[x] = ref_count[x] - Same(b, x)
        /\ member' = member
    BY <1>3, <1>4, LetGoStep DEF IInv
  <1>6. Kept' = Kept
    BY <1>3 DEF Kept, Releasing, At
  <1>7. HolderTypes'
    BY <1>3, <1>5 DEF IInv, HolderTypes
  <1>8. Counted'
    <2> SUFFICES ASSUME NEW x \in Addrs PROVE ref_count'[x] = Cardinality(Owners(x)')
      BY DEF Counted
    <2>1. PICK l \in [Threads -> [Variables -> Addrs \cup {Null}]] : l = local
      BY DEF IInv, HolderTypes
    <2> PICK m : m = member
      OBVIOUS
    <2> PICK f : f = Kept
      OBVIOUS
    <2>2. PICK j : j = [l EXCEPT ![t][v] = c]
      OBVIOUS
    <2>3. PICK k : k = [l EXCEPT ![t][v] = c, ![t][w] = Null]
      OBVIOUS
    <2>4. Writes2(l, t, v, c, j) /\ Writes2(j, t, w, Null, k)
      BY <2>2, <2>3 DEF Writes2
    <2>5. /\ Number(l, m, f, x) \in Nat
          /\ Number(j, m, f, x) = Number(l, m, f, x) - Same(l[t][v], x) + Same(c, x)
      BY <2>4, LocalWritten
    <2>6. Number(k, m, f, x) = Number(j, m, f, x) - Same(j[t][w], x) + Same(Null, x)
      BY <2>4, LocalWritten
    <2>7. /\ Cardinality(Owners(x)) = Number(l, m, f, x)
          /\ Cardinality(Owners(x)') = Number(k, m, f, x)
      BY <1>3, <1>5, <1>6, <2>1, <2>3, OwnersAreHolders DEF Number
    <2>8. l[t][v] = b /\ j[t][w] = c
      BY <1>1, <1>2, <1>3, <2>1, <2>2
    <2>9. Same(Null, x) = 0 /\ Same(b, x) \in {0, 1} /\ Same(c, x) \in {0, 1}
      BY SameValues
    <2>10. ref_count[x] = Number(l, m, f, x)
      BY <2>7 DEF IInv, Counted
    <2> QED
      BY <1>5, <2>5, <2>6, <2>7, <2>8, <2>9, <2>10
  <1>9. Alone'
    BY <1>3 DEF Alone, At, IInv, Assignments
  <1>10. \A u \in Threads : u # t => doing'[u] = doing[u] /\ local'[u] = local[u]
    BY <1>3 DEF IInv, HolderTypes
  <1>11. Halfway(t)'
    BY <1>3 DEF Halfway
  <1>12. \A u \in Threads : Halfway(u)'
    BY <1>3, <1>5, <1>10, <1>11, AllHalfway
  <1> QED
    BY <1>5, <1>7, <1>8, <1>9, <1>12 DEF IInv, Assignments

LEMMA HandOverKeeps ==
  ASSUME IInv, NEW t \in Threads, NEW v \in Variables, NEW u \in Threads, NEW w \in Variables,
         HandOver(t, v, u, w)
  PROVE  IInv'
  <1>1. PICK c \in Addrs \cup {Null} : c = local[t][v]
    BY DEF IInv, HolderTypes
  <1>2. /\ t # u /\ local[u][w] = Null
        /\ local' = [local EXCEPT ![t][v] = Null, ![u][w] = c]
        /\ doing[t] = Null /\ doing[u] = Null
        /\ UNCHANGED <<heap, ref_count, member, module_ref_count, mObject, doing, dying, status>>
    BY <1>1 DEF HandOver, Idle, objects
  <1>3. Kept' = Kept
    BY <1>2 DEF Kept, Releasing, At
  <1>4. ObjectTypes' /\ HolderTypes' /\ Bookkeeping' /\ MembersExist'
    <2>1. local' \in [Threads -> [Variables -> Addrs \cup {Null}]]
      <3>1. PICK l \in [Threads -> [Variables -> Addrs \cup {Null}]] : l = local
        BY DEF IInv, HolderTypes
      <3>2. PICK j : j = [l EXCEPT ![t][v] = Null]
        OBVIOUS
      <3>3. j \in [Threads -> [Variables -> Addrs \cup {Null}]]
        BY <3>2
      <3>4. local' = [j EXCEPT ![u][w] = c]
        BY <1>2, <3>1, <3>2
      <3> QED
        BY <3>3, <3>4
    <2>2. HolderTypes'
      BY <1>2, <2>1 DEF IInv, HolderTypes
    <2>3. ObjectTypes' /\ Bookkeeping' /\ MembersExist'
      BY <1>2 DEF IInv, ObjectTypes, Bookkeeping, MembersExist
    <2> QED
      BY <2>2, <2>3
  <1>5. Counted'
    <2> SUFFICES ASSUME NEW x \in Addrs PROVE ref_count'[x] = Cardinality(Owners(x)')
      BY DEF Counted
    <2>1. PICK l \in [Threads -> [Variables -> Addrs \cup {Null}]] : l = local
      BY DEF IInv, HolderTypes
    <2> PICK m : m = member
      OBVIOUS
    <2> PICK f : f = Kept
      OBVIOUS
    <2>2. PICK j : j = [l EXCEPT ![t][v] = Null]
      OBVIOUS
    <2>3. PICK k : k = [l EXCEPT ![t][v] = Null, ![u][w] = c]
      OBVIOUS
    <2>4. Writes2(l, t, v, Null, j) /\ Writes2(j, u, w, c, k)
      BY <1>2, <2>2, <2>3 DEF Writes2
    <2>5. /\ Number(l, m, f, x) \in Nat
          /\ Number(j, m, f, x) = Number(l, m, f, x) - Same(l[t][v], x) + Same(Null, x)
      BY <2>4, LocalWritten
    <2>6. Number(k, m, f, x) = Number(j, m, f, x) - Same(j[u][w], x) + Same(c, x)
      BY <2>4, LocalWritten
    <2>7. /\ Cardinality(Owners(x)) = Number(l, m, f, x)
          /\ Cardinality(Owners(x)') = Number(k, m, f, x)
      BY <1>2, <1>3, <2>1, <2>3, OwnersAreHolders DEF Number
    <2>8. l[t][v] = c /\ j[u][w] = Null
      BY <1>1, <1>2, <2>1, <2>2
    <2>9. Same(Null, x) = 0 /\ Same(c, x) \in {0, 1}
      BY SameValues
    <2>10. ref_count'[x] = Number(l, m, f, x)
      BY <1>2, <2>7 DEF IInv, Counted
    <2> QED
      BY <2>5, <2>6, <2>7, <2>8, <2>9, <2>10
  <1>6. Alone'
    BY <1>2 DEF Alone, At, IInv, Assignments
  <1>7. ASSUME NEW z \in Threads PROVE Halfway(z)'
    <2>1. CASE z = t \/ z = u
      BY <1>2, <2>1 DEF Halfway
    <2>2. CASE z # t /\ z # u
      <3>1. local'[z] = local[z]
        BY <1>2, <2>2 DEF IInv, HolderTypes
      <3> QED
        BY <1>2, <3>1, HalfwayKept
    <2> QED
      BY <2>1, <2>2
  <1> QED
    BY <1>4, <1>5, <1>6, <1>7 DEF IInv, Assignments

LEMMA MakeKeeps ==
  ASSUME IInv, NEW t \in Threads, NEW v \in Variables, NEW w \in Variables \cup {Null},
         NEW a \in Addrs, Make(t, v, w, a)
  PROVE  IInv'
  <1>1. PICK c \in Addrs \cup {Null} : c = IF w = Null THEN Null ELSE local[t][w]
    BY DEF IInv, HolderTypes
  <1>2. /\ Construct(a, c) /\ local[t][v] = Null /\ v # w
        /\ doing[t] = Null /\ UNCHANGED <<mObject, doing>>
    BY <1>1 DEF Make, Idle, Construct
  <1>3. /\ ObjectTypes' /\ Bookkeeping' /\ MembersExist'
        /\ \A x \in Addrs : ref_count'[x] = ref_count[x] + Same(a, x)
        /\ member[a] = Null /\ member' = [member EXCEPT ![a] = c]
    BY <1>2, ConstructStep DEF IInv, HolderTypes
  <1>4. Kept' = Kept
    BY <1>2 DEF Kept, Releasing, At
  <1>5. /\ local' \in [Threads -> [Variables -> Addrs \cup {Null}]]
        /\ \A x \in Variables :
             local'[t][x] = IF x = v THEN a ELSE IF x = w THEN Null ELSE local[t][x]
        /\ \A u \in Threads : u # t => local'[u] = local[u]
    BY DEF Make, IInv, HolderTypes
  <1>6. HolderTypes'
    BY <1>2, <1>3, <1>5 DEF IInv, HolderTypes
  <1>7. Counted'
    <2> SUFFICES ASSUME NEW x \in Addrs PROVE ref_count'[x] = Cardinality(Owners(x)')
      BY DEF Counted
    <2>1. PICK l \in [Threads -> [Variables -> Addrs \cup {Null}]] : l = local
      BY DEF IInv, HolderTypes
    <2>2. PICK m \in [Addrs -> Addrs \cup {Null}] : m = member
      BY DEF IInv, HolderTypes
    <2> PICK f : f = Kept
      OBVIOUS
    <2>3. PICK j : j = [l EXCEPT ![t][v] = a]
      OBVIOUS
    <2>4. PICK k \in [Threads -> [Variables -> Addrs \cup {Null}]] : k = local'
      BY <1>5
    <2>5. PICK n : n = [m EXCEPT ![a] = c]
      OBVIOUS
    <2>6. Writes2(l, t, v, a, j) /\ Writes(m, Addrs, a, c, n)
      BY <2>3, <2>5 DEF Writes, Writes2
    <2>7. /\ Number(l, m, f, x) \in Nat
          /\ Number(j, m, f, x) = Number(l, m, f, x) - Same(l[t][v], x) + Same(a, x)
      BY <2>6, LocalWritten
    <2>8. Number(k, n, f, x) = Number(k, m, f, x) - Same(m[a], x) + Same(c, x)
      BY <2>6, MemberWritten
    <2>9. Same(Null, x) = 0 /\ Same(a, x) \in {0, 1} /\ Same(c, x) \in {0, 1}
      BY SameValues
    <2>10. Number(k, m, f, x) = Number(j, m, f, x) - Same(c, x)
      <3> Number(j, m, f, x) \in Nat /\ Number(k, m, f, x) \in Nat
        BY NumberIsNat
      <3>1. CASE w = Null
        <4>1. \A y \in Variables : k[t][y] = j[t][y]
          BY <1>5, <2>1, <2>3, <2>4, <3>1, ObjectLifetimeAssumption
        <4>2. k = j
          BY <1>5, <2>1, <2>3, <2>4, <4>1
        <4> QED
          BY <1>1, <2>9, <3>1, <4>2
      <3>2. CASE w # Null
        <4>1. w \in Variables /\ j[t][w] = c
          BY <1>1, <1>2, <2>1, <2>3, <3>2
        <4>2. k[t][w] = Null
          BY <1>2, <1>5, <2>4, <4>1
        <4>3. \A u \in Threads, y \in Variables : (u = t /\ y = w) \/ k[u][y] = j[u][y]
          BY <1>5, <2>1, <2>3, <2>4
        <4>4. Writes2(j, t, w, Null, k)
          BY <4>2, <4>3 DEF Writes2
        <4>5. Number(k, m, f, x) = Number(j, m, f, x) - Same(j[t][w], x) + Same(Null, x)
          BY <4>1, <4>4, LocalWritten
        <4> QED
          BY <2>9, <4>1, <4>5
      <3> QED
        BY <3>1, <3>2
    <2>11. /\ Cardinality(Owners(x)) = Number(l, m, f, x)
           /\ Cardinality(Owners(x)') = Number(k, n, f, x)
      BY <1>3, <1>4, <2>1, <2>2, <2>4, <2>5, OwnersAreHolders DEF Number
    <2>12. l[t][v] = Null /\ m[a] = Null
      BY <1>2, <1>3, <2>1, <2>2
    <2>13. ref_count[x] = Number(l, m, f, x)
      BY <2>11 DEF IInv, Counted
    <2> QED
      BY <1>3, <2>7, <2>8, <2>9, <2>10, <2>11, <2>12, <2>13
  <1>8. Alone'
    BY <1>2 DEF Alone, At, IInv, Assignments
  <1>9. Halfway(t)'
    BY <1>2 DEF Halfway
  <1>10. \A y \in Addrs : heap[y] = "live" => member'[y] = member[y]
    BY <1>2, <1>3 DEF Construct, IInv, HolderTypes
  <1>11. \A u \in Threads : Halfway(u)'
    BY <1>2, <1>5, <1>9, <1>10, AllHalfway
  <1> QED
    BY <1>3, <1>6, <1>7, <1>8, <1>11 DEF IInv, Assignments

LEMMA JavaInitKeeps ==
  ASSUME IInv, NEW t \in Threads, NEW p \in Parsers, NEW a \in Addrs, JavaInit(t, p, a)
  PROVE  IInv'
  <1>1. /\ Construct(a, Null) /\ mObject[p] = Null
        /\ mObject' = [mObject EXCEPT ![p] = a]
        /\ UNCHANGED <<local, doing>> /\ doing[t] = Null
    BY DEF JavaInit, Idle
  <1>2. /\ ObjectTypes' /\ Bookkeeping' /\ MembersExist'
        /\ \A x \in Addrs : ref_count'[x] = ref_count[x] + Same(a, x)
        /\ member[a] = Null /\ member' = [member EXCEPT ![a] = Null]
    BY <1>1, ConstructStep DEF IInv, HolderTypes
  <1>3. member' = member
    BY <1>2 DEF IInv, HolderTypes
  <1>4. \A u \in Threads : doing[u] # Null => doing[u].from # <<"field", p>>
    BY DEF JavaInit, Quiet
  <1>5. HolderTypes'
    BY <1>1, <1>3 DEF IInv, HolderTypes
  <1>6. Counted'
    <2> SUFFICES ASSUME NEW x \in Addrs PROVE ref_count'[x] = Cardinality(Owners(x)')
      BY DEF Counted
    <2> PICK l : l = local
      OBVIOUS
    <2> PICK m : m = member
      OBVIOUS
    <2>1. PICK f \in [Parsers -> Addrs \cup {Null}] : f = Kept
      BY DEF IInv, HolderTypes, Kept
    <2>2. PICK g : g = [f EXCEPT ![p] = a]
      OBVIOUS
    <2>3. Writes(f, Parsers, p, a, g)
      BY <2>1, <2>2 DEF Writes
    <2>4. /\ Number(l, m, f, x) \in Nat
          /\ Number(l, m, g, x) = Number(l, m, f, x) - Same(f[p], x) + Same(a, x)
      BY <2>3, FieldWritten
    <2>5. Kept' = g /\ f[p] = Null
      <3>1. ~Releasing(p)
        BY <1>4 DEF Releasing, At
      <3>2. \A q \in Parsers : Releasing(q)' <=> Releasing(q)
        BY <1>1 DEF Releasing, At
      <3> QED
        BY <1>1, <2>1, <2>2, <3>1, <3>2 DEF Kept, IInv, HolderTypes
    <2>6. /\ Cardinality(Owners(x)) = Number(l, m, f, x)
          /\ Cardinality(Owners(x)') = Number(l, m, g, x)
      BY <1>1, <1>3, <2>1, <2>5, OwnersAreHolders DEF Number
    <2>7. Same(Null, x) = 0 /\ Same(a, x) \in {0, 1}
      BY SameValues
    <2>8. ref_count[x] = Number(l, m, f, x)
      BY <2>6 DEF IInv, Counted
    <2> QED
      BY <1>2, <2>4, <2>5, <2>6, <2>7, <2>8
  <1>7. Alone'
    BY <1>1 DEF Alone, At, IInv, Assignments
  <1>8. ASSUME NEW u \in Threads PROVE Halfway(u)'
    <2>1. \A q \in Parsers :
            doing[u] # Null /\ doing[u].from = <<"field", q>> => mObject'[q] = mObject[q]
      BY <1>1, <1>4 DEF IInv, HolderTypes
    <2> QED
      BY <1>1, <1>3, <2>1, HalfwayKept
  <1> QED
    BY <1>2, <1>5, <1>6, <1>7, <1>8 DEF IInv, Assignments
LEMMA DestroyMemberKeeps ==
  ASSUME IInv, NEW t \in Threads, DestroyMember(t)
  PROVE  IInv'
  <1>1. PICK s \in Seq(Addrs) : s = dying[t] /\ s # <<>>
    BY DEF DestroyMember, IInv, ObjectTypes
  <1>2. PICK a : a = Last(s)
    OBVIOUS
  <1>3. a \in Addrs /\ a = s[Len(s)] /\ Len(s) \in DOMAIN s
    <2>1. PICK r : r = Front(s)
      OBVIOUS
    <2> QED
      BY <1>1, <1>2, <2>1, Shortened
  <1>4. heap[a] = "dying"
    BY <1>1, <1>3 DEF IInv, Bookkeeping
  <1>5. PICK b \in Addrs : b = member[a]
    BY <1>1, <1>2, <1>3 DEF DestroyMember, IInv, HolderTypes
  <1>6. /\ Release(t, b)
        /\ member' = [member EXCEPT ![a] = Null]
        /\ UNCHANGED <<module_ref_count, local, mObject, doing>>
    BY <1>1, <1>2, <1>5 DEF DestroyMember, Release
  <1>7. heap[b] = "live"
    BY <1>3, <1>5, OwnedLives, ObjectLifetimeAssumption
  <1>8. /\ ObjectTypes' /\ Bookkeeping'
        /\ \A x \in Addrs : ref_count'[x] = ref_count[x] - Same(b, x)
        /\ \A x \in Addrs : heap'[x] = "free" <=> heap[x] = "free"
    BY <1>6, <1>7, ReleaseStep DEF IInv
  <1>9. HolderTypes'
    BY <1>6 DEF IInv, HolderTypes
  <1>10. MembersExist'
    BY <1>6, <1>8 DEF IInv, HolderTypes, MembersExist
  <1>11. Kept' = Kept
    BY <1>6 DEF Kept, Releasing, At
  <1>12. Counted'
    <2> SUFFICES ASSUME NEW x \in Addrs PROVE ref_count'[x] = Cardinality(Owners(x)')
      BY DEF Counted
    <2> PICK l : l = local
      OBVIOUS
    <2>1. PICK m \in [Addrs -> Addrs \cup {Null}] : m = member
      BY DEF IInv, HolderTypes
    <2> PICK f : f = Kept
      OBVIOUS
    <2>2. PICK n : n = [m EXCEPT ![a] = Null]
      OBVIOUS
    <2>3. Writes(m, Addrs, a, Null, n)
      BY <1>3, <2>1, <2>2 DEF Writes
    <2>4. /\ Number(l, m, f, x) \in Nat
          /\ Number(l, n, f, x) = Number(l, m, f, x) - Same(m[a], x) + Same(Null, x)
      BY <1>3, <2>3, MemberWritten
    <2>5. m[a] = b
      BY <1>5, <2>1
    <2>6. /\ Cardinality(Owners(x)) = Number(l, m, f, x)
          /\ Cardinality(Owners(x)') = Number(l, n, f, x)
      BY <1>6, <1>11, <2>1, <2>2, OwnersAreHolders DEF Number
    <2>7. Same(Null, x) = 0 /\ Same(b, x) \in {0, 1}
      BY SameValues
    <2>8. ref_count[x] = Number(l, m, f, x)
      BY <2>6 DEF IInv, Counted
    <2> QED
      BY <1>8, <2>4, <2>5, <2>6, <2>7, <2>8
  <1>13. Alone'
    BY <1>6 DEF Alone, At, IInv, Assignments
  <1>14. \A y \in Addrs : heap[y] = "live" => member'[y] = member[y]
    BY <1>4, <1>6 DEF IInv, HolderTypes
  <1>15. \A u \in Threads : Halfway(u)'
    BY <1>6, <1>14, HalfwayKept
  <1> QED
    BY <1>8, <1>9, <1>10, <1>12, <1>13, <1>15 DEF IInv, Assignments

LEMMA DestroyObjectKeeps ==
  ASSUME IInv, NEW t \in Threads, DestroyObject(t)
  PROVE  IInv'
  <1>1. ObjectTypes' /\ Bookkeeping' /\ MembersExist'
    BY DestroyObjectStep DEF IInv
  <1>2. UNCHANGED <<ref_count, member, local, mObject, doing>>
    BY DEF DestroyObject
  <1>3. Kept' = Kept
    BY <1>2 DEF Kept, Releasing, At
  <1>4. Counted'
    BY <1>2, <1>3, CountedKept
  <1>5. Alone'
    BY <1>2 DEF Alone, At, IInv, Assignments
  <1>6. \A u \in Threads : Halfway(u)'
    BY <1>2, HalfwayKept
  <1> QED
    BY <1>1, <1>2, <1>4, <1>5, <1>6 DEF IInv, Assignments, HolderTypes

LEMMA Initially == Init => IInv
  <1> SUFFICES ASSUME Init PROVE IInv
    OBVIOUS
  <1>1. ObjectTypes /\ HolderTypes /\ MembersExist
    BY EmptySeq DEF Init, ObjectTypes, HolderTypes, MembersExist
  <1>2. Exists(heap) = {}
    BY DEF Init, Exists
  <1>3. Bookkeeping
    <2>1. \A t \in Threads : DOMAIN dying[t] = {}
      BY DEF Init
    <2>2. module_ref_count = Cardinality(Exists(heap))
      BY <1>2, FS_EmptySet DEF Init
    <2> QED
      BY <2>1, <2>2 DEF Init, Bookkeeping
  <1>4. Counted
    <2> SUFFICES ASSUME NEW a \in Addrs PROVE ref_count[a] = Cardinality(Owners(a))
      BY DEF Counted
    <2>1. Null # a
      BY ObjectLifetimeAssumption
    <2>2. ASSUME NEW s \in Slot PROVE Owned(s) = Null
      <3>1. CASE s[1] = "local"
        <4>1. s[2][1] \in Threads /\ s[2][2] \in Variables
          BY <3>1 DEF Slot
        <4> QED
          BY <3>1, <4>1 DEF Owned, Init
      <3>2. CASE s[1] = "member"
        <4>1. s[2] \in Addrs
          BY <3>2 DEF Slot
        <4> QED
          BY <3>2, <4>1 DEF Owned, Init
      <3>3. CASE s[1] # "local" /\ s[1] # "member"
        <4>1. s[2] \in Parsers
          BY <3>3 DEF Slot
        <4> QED
          BY <3>3, <4>1 DEF Owned, Init
      <3> QED
        BY <3>1, <3>2, <3>3
    <2>3. Owners(a) = {}
      BY <2>1, <2>2 DEF Owners
    <2> QED
      BY <2>3, FS_EmptySet DEF Init
  <1>5. Assignments
    BY DEF Init, Assignments, Halfway, Alone, At
  <1> QED
    BY <1>1, <1>3, <1>4, <1>5 DEF IInv

LEMMA StutterKeeps ==
  ASSUME IInv, UNCHANGED vars
  PROVE  IInv'
  <1>1. UNCHANGED <<heap, ref_count, member, module_ref_count, local, mObject, doing, dying,
                    status>>
    BY DEF vars, objects
  <1>2. ObjectTypes' /\ HolderTypes' /\ Bookkeeping' /\ MembersExist'
    BY <1>1 DEF IInv, ObjectTypes, HolderTypes, Bookkeeping, MembersExist
  <1>3. Kept' = Kept
    BY <1>1 DEF Kept, Releasing, At
  <1>4. Counted'
    BY <1>1, <1>3, CountedKept
  <1>5. Alone'
    BY <1>1 DEF Alone, At, IInv, Assignments
  <1>6. \A u \in Threads : Halfway(u)'
    BY <1>1, HalfwayKept
  <1> QED
    BY <1>2, <1>4, <1>5, <1>6 DEF IInv, Assignments

LEMMA Inductive == IInv /\ [Next]_vars => IInv'
  <1> SUFFICES ASSUME IInv, [Next]_vars PROVE IInv'
    OBVIOUS
  <1>1. CASE UNCHANGED vars
    BY <1>1, StutterKeeps
  <1>2. CASE Next
    <2>1. PICK t \in Threads :
            \/ Continue(t)
            \/ \E v \in Variables :
                 \/ Reset(t, v)
                 \/ \E w \in Variables :
                      MoveAssign(t, v, w) \/ CopyAssign(t, v, w) \/ AssignMember(t, v, w)
                 \/ \E w \in Variables \cup {Null}, a \in Addrs : Make(t, v, w, a)
                 \/ \E u \in Threads, w \in Variables : HandOver(t, v, u, w)
                 \/ \E p \in Parsers : JavaCall(t, p, v) \/ JavaRelease(t, p, v)
            \/ \E p \in Parsers, a \in Addrs : JavaInit(t, p, a)
      BY <1>2 DEF Next
    <2>2. CASE Continue(t)
      BY <2>2, JavaClearsKeeps, TakeKeeps, CountKeeps, DestroyMemberKeeps, DestroyObjectKeeps
         DEF Continue
    <2>3. ASSUME NEW v \in Variables, Reset(t, v)
          PROVE  IInv'
      BY <2>3, ResetKeeps
    <2>4. ASSUME NEW v \in Variables, NEW w \in Variables,
                 MoveAssign(t, v, w) \/ CopyAssign(t, v, w) \/ AssignMember(t, v, w)
          PROVE  IInv'
      BY <2>4, MoveAssignKeeps, CopyAssignKeeps, AssignMemberKeeps
    <2>5. ASSUME NEW v \in Variables, NEW w \in Variables \cup {Null}, NEW a \in Addrs,
                 Make(t, v, w, a)
          PROVE  IInv'
      BY <2>5, MakeKeeps
    <2>6. ASSUME NEW v \in Variables, NEW u \in Threads, NEW w \in Variables,
                 HandOver(t, v, u, w)
          PROVE  IInv'
      BY <2>6, HandOverKeeps
    <2>7. ASSUME NEW v \in Variables, NEW p \in Parsers,
                 JavaCall(t, p, v) \/ JavaRelease(t, p, v)
          PROVE  IInv'
      BY <2>7, JavaCallKeeps, JavaReleaseKeeps
    <2>8. ASSUME NEW p \in Parsers, NEW a \in Addrs, JavaInit(t, p, a)
          PROVE  IInv'
      BY <2>8, JavaInitKeeps
    <2> QED
      BY <2>1, <2>2, <2>3, <2>4, <2>5, <2>6, <2>7, <2>8
  <1> QED
    BY <1>1, <1>2

LEMMA InvariantHolds == Spec => []IInv
  BY Initially, Inductive, PTL DEF Spec
-----------------------------------------------------------------------------
(* Reachability.  Members point to older objects, so that no set of        *)
(* objects is held by its own members only; and what is being destroyed is *)
(* being destroyed by a thread.                                            *)
Acyclic ==
  \A X \in SUBSET Addrs : X # {} => \E x \in X : \A y \in X : member[y] # x

Listed ==
  \A a \in Addrs : heap[a] = "dying" =>
    \E t \in Threads : \E i \in DOMAIN dying[t] : dying[t][i] = a

LEMMA EverythingReached ==
  ASSUME IInv, Acyclic, Listed
  PROVE  NothingIsLost
  <1> SUFFICES ASSUME NEW S \in SUBSET Addrs, Roots \subseteq S,
                      \A a \in S : member[a] # Null => member[a] \in S,
                      NEW b \in Addrs, heap[b] # "free", b \notin S
               PROVE  FALSE
    BY DEF NothingIsLost
  <1>1. PICK X \in SUBSET Addrs : X = {a \in Addrs : heap[a] # "free" /\ a \notin S}
    OBVIOUS
  <1>2. PICK x \in X : \A y \in X : member[y] # x
    BY <1>1 DEF Acyclic
  <1>3. x \in Addrs /\ heap[x] # "free" /\ x \notin S /\ x # Null
    BY <1>1, <1>2, ObjectLifetimeAssumption
  <1>4. heap[x] # "dying"
    <2> SUFFICES ASSUME heap[x] = "dying" PROVE FALSE
      OBVIOUS
    <2>1. PICK t \in Threads : \E i \in DOMAIN dying[t] : dying[t][i] = x
      BY <1>3 DEF Listed
    <2>2. x \in ToSet(dying[t])
      BY <2>1 DEF ToSet
    <2> QED
      BY <1>3, <2>2 DEF Roots
  <1>5. ref_count[x] > 0
    BY <1>3, <1>4 DEF IInv, ObjectTypes, Bookkeeping
  <1>6. PICK s \in Slot : Owned(s) = x
    <2>1. Owners(x) # {}
      <3>1. ref_count[x] = Cardinality(Owners(x))
        BY <1>3 DEF IInv, Counted
      <3>2. Cardinality({}) = 0
        BY FS_EmptySet
      <3> QED
        BY <1>5, <3>1, <3>2
    <2> QED
      BY <2>1 DEF Owners
  <1>7. s[1] = "member"
    <2>1. s \in Owners(x)
      BY <1>6 DEF Owners
    <2> QED
      BY <1>3, <2>1 DEF Roots
  <1>8. PICK y \in Addrs : member[y] = x
    BY <1>6, <1>7 DEF Slot, Owned
  <1>9. heap[y] # "free"
    BY <1>3, <1>8 DEF IInv, MembersExist
  <1> QED
    BY <1>1, <1>2, <1>3, <1>8, <1>9

LEMMA ReleaseListed ==
  ASSUME ObjectTypes, Listed, NEW t \in Threads, NEW a \in Addrs, Release(t, a)
  PROVE  Listed'
  <1>1. CASE ref_count[a] # 0 /\ ref_count[a] = 1
    <2>1. heap' = [heap EXCEPT ![a] = "dying"] /\ dying' = [dying EXCEPT ![t] = Append(@, a)]
      BY <1>1 DEF Release
    <2>2. PICK s \in Seq(Addrs) : s = dying[t]
      BY DEF ObjectTypes
    <2>3. PICK r : r = Append(s, a)
      OBVIOUS
    <2>4. /\ Len(s) \in Nat /\ DOMAIN s = 1..Len(s) /\ DOMAIN r = 1..(Len(s) + 1)
          /\ \A i \in DOMAIN s : r[i] = s[i]
          /\ r[Len(s) + 1] = a
      BY <2>3, Appended
    <2>5. /\ \A u \in Threads : dying'[u] = IF u = t THEN r ELSE dying[u]
          /\ \A x \in Addrs : heap'[x] = IF x = a THEN "dying" ELSE heap[x]
      BY <2>1, <2>2, <2>3 DEF ObjectTypes
    <2>6. \A i \in DOMAIN s : i \in DOMAIN r
      BY <2>4
    <2>7. ASSUME NEW x \in Addrs, heap'[x] = "dying"
          PROVE  \E u \in Threads : \E i \in DOMAIN dying'[u] : dying'[u][i] = x
      <3>1. CASE x = a
        <4>1. Len(s) + 1 \in DOMAIN r
          BY <2>4
        <4> QED
          BY <2>4, <2>5, <3>1, <4>1
      <3>2. CASE x # a
        <4>1. PICK u \in Threads : \E i \in DOMAIN dying[u] : dying[u][i] = x
          BY <2>5, <2>7, <3>2 DEF Listed
        <4>2. PICK i \in DOMAIN dying[u] : dying[u][i] = x
          BY <4>1
        <4>3. i \in DOMAIN dying'[u] /\ dying'[u][i] = x
          BY <2>2, <2>4, <2>5, <2>6, <4>2
        <4> QED
          BY <4>3
      <3> QED
        BY <3>1, <3>2
    <2> QED
      BY <2>7 DEF Listed
  <1>2. CASE ~(ref_count[a] # 0 /\ ref_count[a] = 1)
    <2>1. heap' = heap /\ dying' = dying
      BY <1>2 DEF Release
    <2> QED
      BY <2>1 DEF Listed
  <1> QED
    BY <1>1, <1>2

LEMMA LetGoReached ==
  ASSUME IInv, Acyclic, Listed, NEW t \in Threads, NEW v \in Variables, LetGo(t, local[t][v])
  PROVE  Acyclic' /\ Listed'
  <1>1. member' = member
    BY DEF LetGo
  <1>2. PICK b \in Addrs \cup {Null} : b = local[t][v]
    BY DEF IInv, HolderTypes
  <1>3. CASE b = Null
    BY <1>1, <1>2, <1>3 DEF LetGo, Acyclic, Listed
  <1>4. CASE b # Null
    <2>1. b \in Addrs /\ Release(t, b)
      BY <1>2, <1>4 DEF LetGo, Release
    <2> QED
      BY <1>1, <2>1, ReleaseListed DEF Acyclic, IInv
  <1> QED
    BY <1>3, <1>4

LEMMA ConstructReached ==
  ASSUME IInv, Acyclic, Listed, NEW a \in Addrs, NEW c \in Addrs \cup {Null}, Construct(a, c),
         c # Null => heap[c] = "live"
  PROVE  Acyclic' /\ Listed'
  <1>1. heap[a] = "free" /\ dying' = dying
    BY DEF Construct
  <1>2. \A x \in Addrs : heap'[x] = IF x = a THEN "live" ELSE heap[x]
    BY DEF Construct, IInv, ObjectTypes
  <1>3. \A y \in Addrs : member'[y] = IF y = a THEN c ELSE member[y]
    BY DEF Construct, IInv, HolderTypes
  <1>4. \A y \in Addrs : member'[y] # a
    <2>1. c # a
      BY <1>1, ObjectLifetimeAssumption
    <2>2. \A y \in Addrs : member[y] # a
      BY <1>1, OwnedLives, ObjectLifetimeAssumption
    <2> QED
      BY <1>3, <2>1, <2>2
  <1>5. Acyclic'
    <2> SUFFICES ASSUME NEW X \in SUBSET Addrs, X # {}
                 PROVE  \E x \in X : \A y \in X : member'[y] # x
      BY DEF Acyclic
    <2>1. CASE a \in X
      BY <1>4, <2>1
    <2>2. CASE a \notin X
      <3>1. PICK x \in X : \A y \in X : member[y] # x
        BY DEF Acyclic
      <3> QED
        BY <1>3, <2>2, <3>1
    <2> QED
      BY <2>1, <2>2
  <1>6. Listed'
    BY <1>1, <1>2 DEF Listed
  <1> QED
    BY <1>5, <1>6

LEMMA DestroyMemberReached ==
  ASSUME IInv, Acyclic, Listed, NEW t \in Threads, DestroyMember(t)
  PROVE  Acyclic' /\ Listed'
  <1>1. PICK s \in Seq(Addrs) : s = dying[t] /\ s # <<>>
    BY DEF DestroyMember, IInv, ObjectTypes
  <1>2. PICK a \in Addrs : a = Last(dying[t])
    <2>1. PICK r : r = Front(s)
      OBVIOUS
    <2> QED
      BY <1>1, <2>1, Shortened
  <1>3. PICK b \in Addrs : b = member[a]
    BY <1>2 DEF DestroyMember, IInv, HolderTypes
  <1>4. Release(t, b) /\ member' = [member EXCEPT ![a] = Null]
    BY <1>2, <1>3 DEF DestroyMember, Release
  <1>5. Listed'
    BY <1>4, ReleaseListed DEF IInv
  <1>6. \A y \in Addrs : member'[y] = member[y] \/ member'[y] = Null
    BY <1>4 DEF IInv, HolderTypes
  <1>7. Acyclic'
    <2> SUFFICES ASSUME NEW X \in SUBSET Addrs, X # {}
                 PROVE  \E x \in X : \A y \in X : member'[y] # x
      BY DEF Acyclic
    <2>1. PICK x \in X : \A y \in X : member[y] # x
      BY DEF Acyclic
    <2> QED
      BY <1>6, <2>1, ObjectLifetimeAssumption
  <1> QED
    BY <1>5, <1>7

LEMMA DestroyObjectReached ==
  ASSUME IInv, Acyclic, Listed, NEW t \in Threads, DestroyObject(t)
  PROVE  Acyclic' /\ Listed'
  <1>1. PICK s \in Seq(Addrs) : s = dying[t] /\ s # <<>>
    BY DEF DestroyObject, IInv, ObjectTypes
  <1>2. PICK r : r = Front(s)
    OBVIOUS
  <1>3. PICK a : a = Last(s)
    OBVIOUS
  <1>4. /\ Len(s) \in Nat \ {0} /\ DOMAIN s = 1..Len(s) /\ DOMAIN r = 1..(Len(s) - 1)
        /\ \A i \in DOMAIN r : r[i] = s[i]
        /\ a = s[Len(s)] /\ a \in Addrs
    BY <1>1, <1>2, <1>3, Shortened
  <1>5. /\ heap' = [heap EXCEPT ![a] = "free"]
        /\ dying' = [dying EXCEPT ![t] = r]
        /\ member' = member
    BY <1>1, <1>2, <1>3 DEF DestroyObject
  <1>6. /\ \A u \in Threads : dying'[u] = IF u = t THEN r ELSE dying[u]
        /\ \A x \in Addrs : heap'[x] = IF x = a THEN "free" ELSE heap[x]
    BY <1>5 DEF IInv, ObjectTypes
  <1>7. \A i \in DOMAIN s : s[i] # a => i \in DOMAIN r
    BY <1>4
  <1>8. ASSUME NEW x \in Addrs, heap'[x] = "dying"
        PROVE  \E u \in Threads : \E i \in DOMAIN dying'[u] : dying'[u][i] = x
    <2>1. x # a /\ heap[x] = "dying"
      BY <1>6, <1>8
    <2>2. PICK u \in Threads : \E i \in DOMAIN dying[u] : dying[u][i] = x
      BY <2>1 DEF Listed
    <2>3. PICK i \in DOMAIN dying[u] : dying[u][i] = x
      BY <2>2
    <2>4. i \in DOMAIN dying'[u] /\ dying'[u][i] = x
      BY <1>1, <1>4, <1>6, <1>7, <2>1, <2>3
    <2> QED
      BY <2>4
  <1> QED
    BY <1>5, <1>8 DEF Acyclic, Listed

LEMMA ReachedInductive ==
  ASSUME IInv, Acyclic, Listed, [Next]_vars
  PROVE  Acyclic' /\ Listed'
  <1>1. ASSUME UNCHANGED <<heap, dying, member>>
        PROVE  Acyclic' /\ Listed'
    BY <1>1 DEF Acyclic, Listed
  <1>2. CASE UNCHANGED vars
    BY <1>1, <1>2 DEF vars, objects
  <1>3. ASSUME NEW t \in Threads, Continue(t)
        PROVE  Acyclic' /\ Listed'
    <2>1. CASE JavaClears(t)
      <3>1. doing[t].into \in Variables /\ LetGo(t, local[t][doing[t].into])
        BY <2>1, SourceShape DEF JavaClears, At, IInv
      <3> QED
        BY <3>1, LetGoReached
    <2>2. CASE Take(t) \/ Count(t)
      BY <1>1, <2>2 DEF Take, Count, objects
    <2> QED
      BY <1>3, <2>1, <2>2, DestroyMemberReached, DestroyObjectReached DEF Continue
  <1>4. ASSUME NEW t \in Threads, NEW v \in Variables, LetGo(t, local[t][v])
        PROVE  Acyclic' /\ Listed'
    BY <1>4, LetGoReached
  <1>5. ASSUME NEW t \in Threads, NEW v \in Variables, NEW w \in Variables \cup {Null},
               NEW a \in Addrs, Make(t, v, w, a)
        PROVE  Acyclic' /\ Listed'
    <2>1. PICK c \in Addrs \cup {Null} : c = IF w = Null THEN Null ELSE local[t][w]
      BY DEF IInv, HolderTypes
    <2>2. Construct(a, c)
      BY <1>5, <2>1 DEF Make, Construct
    <2>3. c # Null => heap[c] = "live"
      BY <2>1, OwnedLives
    <2> QED
      BY <2>2, <2>3, ConstructReached
  <1>6. ASSUME NEW t \in Threads, NEW p \in Parsers, NEW a \in Addrs, JavaInit(t, p, a)
        PROVE  Acyclic' /\ Listed'
    <2>1. PICK c \in Addrs \cup {Null} : c = Null
      OBVIOUS
    <2>2. Construct(a, c)
      BY <1>6, <2>1 DEF JavaInit, Construct
    <2> QED
      BY <2>1, <2>2, ConstructReached
  <1>7. ASSUME NEW t \in Threads, NEW v \in Variables, NEW u \in Threads, NEW w \in Variables,
               HandOver(t, v, u, w)
        PROVE  Acyclic' /\ Listed'
    BY <1>1, <1>7 DEF HandOver, objects
  <1>8. ASSUME NEW t \in Threads, NEW v \in Variables, NEW p \in Parsers,
               JavaCall(t, p, v) \/ JavaRelease(t, p, v)
        PROVE  Acyclic' /\ Listed'
    BY <1>1, <1>8 DEF JavaCall, JavaRelease, objects
  <1>9. ASSUME NEW t \in Threads, NEW v \in Variables, NEW w \in Variables,
               Reset(t, v) \/ MoveAssign(t, v, w) \/ CopyAssign(t, v, w) \/ AssignMember(t, v, w)
        PROVE  Acyclic' /\ Listed'
    <2>1. LetGo(t, local[t][v])
      BY <1>9 DEF Reset, MoveAssign, CopyAssign, AssignMember
    <2> QED
      BY <1>4, <2>1
  <1>10. CASE Next
    <2>1. PICK t \in Threads :
            \/ Continue(t)
            \/ \E v \in Variables :
                 \/ Reset(t, v)
                 \/ \E w \in Variables :
                      MoveAssign(t, v, w) \/ CopyAssign(t, v, w) \/ AssignMember(t, v, w)
                 \/ \E w \in Variables \cup {Null}, a \in Addrs : Make(t, v, w, a)
                 \/ \E u \in Threads, w \in Variables : HandOver(t, v, u, w)
                 \/ \E p \in Parsers : JavaCall(t, p, v) \/ JavaRelease(t, p, v)
            \/ \E p \in Parsers, a \in Addrs : JavaInit(t, p, a)
      BY <1>10 DEF Next
    <2> QED
      BY <1>3, <1>5, <1>6, <1>7, <1>8, <1>9, <2>1
  <1> QED
    BY <1>2, <1>10

LEMMA InitiallyReached == Init => Acyclic /\ Listed
  BY ObjectLifetimeAssumption DEF Init, Acyclic, Listed
-----------------------------------------------------------------------------
(* Every variable keeps its type; the module's counter, which is counted   *)
(* down without a test, never falls below zero.                            *)
THEOREM LifetimeTypeCorrect == Spec => []TypeOK
  BY InvariantHolds, PartsHold, PTL

(* A counter is the number of variables, members and Java fields that own  *)
(* a reference, and the module counts its objects (add_ref and release of  *)
(* implements, and every operation of unknown_object).                     *)
THEOREM CountersAreExact == Spec => []CountsExact
  BY InvariantHolds, PartsHold, PTL

(* Nothing destroyed is used or counted: what a thread, an object or a     *)
(* Java field designates is alive.                                         *)
THEOREM PointersDesignateLivingObjects == Spec => []NoDanglingPointer
  BY InvariantHolds, NothingDangles, PTL

(* An assignment that lets go first ends with the object it was given.     *)
THEOREM AssignmentsKeepTheirSource == Spec => []AssignmentKeepsItsSource
  BY InvariantHolds, PartsHold, PTL

(* Every object that exists can be reached from a variable, a field or a   *)
(* destruction in progress: the releases of destructors lose none.         *)
THEOREM ObjectsAreReached == Spec => []NothingIsLost
  <1>1. Spec => [](Acyclic /\ Listed)
    BY InvariantHolds, InitiallyReached, ReachedInductive, PTL DEF Spec
  <1> QED
    BY <1>1, InvariantHolds, EverythingReached, PTL

(* While the module counts no object, nothing designates one, and no       *)
(* thread is destroying one or about to count one.                         *)
UnloadIsSafe ==
  module_ref_count = 0 =>
    /\ \A t \in Threads :
         /\ dying[t] = <<>> /\ \A v \in Variables : local[t][v] = Null
         /\ At(t, "add_ref") => doing[t].abi = Null
    /\ \A p \in Parsers : mObject[p] = Null

(* What dll_can_unload_now answers (abi_standard_export.hpp) is about the  *)
(* past as well: true means that no code of an object is wanted any more.  *)
THEOREM ModuleUnloadsSafely == Spec => []UnloadIsSafe
  <1>1. ASSUME IInv, module_ref_count = 0 PROVE UnloadIsSafe
    <2>1. Exists(heap) = {}
      <3>1. Exists(heap) \subseteq Addrs
        BY DEF Exists
      <3>2. IsFiniteSet(Exists(heap))
        BY <3>1, ObjectLifetimeAssumption, FS_Subset
      <3> QED
        BY <1>1, <3>2, FS_EmptySet DEF IInv, Bookkeeping
    <2>2. \A a \in Addrs : heap[a] = "free"
      BY <2>1 DEF Exists
    <2>3. NoDanglingPointer
      BY <1>1, NothingDangles
    <2>4. ASSUME NEW t \in Threads PROVE dying[t] = <<>>
      <3>1. dying[t] \in Seq(Addrs)
        BY <1>1 DEF IInv, ObjectTypes
      <3>2. \A i \in DOMAIN dying[t] : dying[t][i] \in Addrs /\ heap[dying[t][i]] = "dying"
        BY <1>1, <3>1 DEF IInv, Bookkeeping
      <3>3. Len(dying[t]) = 0
        BY <2>2, <3>1, <3>2
      <3> QED
        BY <3>1, <3>3, EmptySeq
    <2>5. ASSUME NEW t \in Threads, NEW v \in Variables PROVE local[t][v] = Null
      BY <1>1, <2>2, <2>3 DEF NoDanglingPointer, IInv, HolderTypes
    <2>6. ASSUME NEW p \in Parsers PROVE mObject[p] = Null
      BY <1>1, <2>2, <2>3 DEF NoDanglingPointer, IInv, HolderTypes
    <2>7. ASSUME NEW t \in Threads, At(t, "add_ref") PROVE doing[t].abi = Null
      <3>1. doing[t] \in Assignment
        BY <1>1, <2>7 DEF IInv, HolderTypes, At
      <3>2. doing[t].abi \in Addrs \cup {Null}
        BY <3>1 DEF Assignment
      <3> QED
        BY <2>2, <2>3, <2>7, <3>2 DEF NoDanglingPointer
    <2> QED
      BY <2>4, <2>5, <2>6, <2>7 DEF UnloadIsSafe
  <1>2. IInv => UnloadIsSafe
    BY <1>1 DEF UnloadIsSafe
  <1> QED
    BY <1>2, InvariantHolds, PTL
=============================================================================
