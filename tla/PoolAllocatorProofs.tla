------------------------- MODULE PoolAllocatorProofs -------------------------
(***************************************************************************)
(* Proofs about PoolAllocator, for any number of threads, addresses, sizes *)
(* and ratios: every block has one owner, is large enough for its request, *)
(* and is gone when the allocator is.                                      *)
(***************************************************************************)
EXTENDS PoolAllocator, FiniteSetTheorems, TLAPS

(* What a thread carries from one list to the other, or to the heap.       *)
Travelling ==
  \A t \in Threads :
    /\ pc[t] = "alloc" => request[t] \in Sizes /\ moving[t] = <<request[t], NoAddr>>
    /\ pc[t] \in {"payout", "budget"} =>
         /\ moving[t] \in Entries
         /\ block[moving[t][2]] = moving[t][1]
    /\ pc[t] = "payout" => request[t] \in Sizes /\ request[t] <= moving[t][1]
    /\ pc[t] = "wild" => moving[t][2] \in Addrs

(* Once the destructor has run no call is under way and no budget is left. *)
Gone ==
  status \in {"destroyed", "terminated"} =>
    /\ \A t \in Threads : pc[t] = "idle"
    /\ budgets = {}
    /\ status = "destroyed" <=> payouts = {}

PoolInv ==
  /\ TypeOK
  /\ IsFiniteSet(held)
  /\ OneOwner
  /\ LargeEnough
  /\ Travelling
  /\ Gone

(* The parts of OneOwner, in terms of where an address is.                 *)
Apart ==
  \A a \in Addrs :
    /\ a \in AddrsOf(budgets) => a \notin AddrsOf(payouts)
    /\ a \in foreign => a \notin AddrsOf(budgets) /\ a \notin AddrsOf(payouts)
    /\ \A t \in Threads : a \in Carried(t) =>
         /\ a \notin AddrsOf(budgets) /\ a \notin AddrsOf(payouts) /\ a \notin foreign
         /\ \A u \in Threads \ {t} : a \notin Carried(u)

Accounted ==
  \A a \in Addrs : block[a] # 0 <=>
    \/ a \in AddrsOf(budgets) \/ a \in AddrsOf(payouts) \/ a \in foreign
    \/ \E t \in Threads : a \in Carried(t)

HeldOnce ==
  /\ AddrsOf(held) = AddrsOf(payouts)
  /\ \A g, h \in held : g[2] = h[2] => g = h

Sized == \A e \in budgets \cup payouts : block[e[2]] = e[1]
-----------------------------------------------------------------------------
(* Adding an entry to a list adds its address.                             *)
LEMMA AddrsOfAdd ==
  ASSUME NEW S, NEW e
  PROVE  AddrsOf(S \cup {e}) = AddrsOf(S) \cup {e[2]}
  BY DEF AddrsOf

(* Taking an entry out of a list whose entries agree with the heap takes   *)
(* its address out.                                                        *)
LEMMA AddrsOfRemove ==
  ASSUME NEW S \in SUBSET Entries, NEW e \in S,
         \A f \in S : block[f[2]] = f[1]
  PROVE  AddrsOf(S \ {e}) = AddrsOf(S) \ {e[2]}
<1>1. \A f, g \in S : f[2] = g[2] => f = g
  BY DEF Entries
<1> QED
  BY <1>1 DEF AddrsOf

(* Addresses in a list are heap addresses.                                 *)
LEMMA AddrsOfType ==
  ASSUME NEW S \in SUBSET Entries
  PROVE  AddrsOf(S) \subseteq Addrs
  BY DEF AddrsOf, Entries

(* What a thread carries is a heap address.                                *)
LEMMA CarriedType ==
  ASSUME TypeOK, Travelling, NEW t \in Threads
  PROVE  Carried(t) \subseteq Addrs
  BY DEF TypeOK, Travelling, Carried, Entries

(* OneOwner is the conjunction of its parts.                               *)
LEMMA OneOwnerParts ==
  ASSUME TypeOK, Travelling
  PROVE  OneOwner <=> Apart /\ Accounted /\ HeldOnce /\ Sized
<1>1. AddrsOf(budgets) \cup AddrsOf(payouts) \cup foreign
        \cup UNION {Carried(t) : t \in Threads} \subseteq Addrs
  BY AddrsOfType, CarriedType DEF TypeOK
<1>2. Accounted <=>
        Allocated = AddrsOf(budgets) \cup AddrsOf(payouts) \cup foreign
                      \cup UNION {Carried(t) : t \in Threads}
  <2> DEFINE W == AddrsOf(budgets) \cup AddrsOf(payouts) \cup foreign
                    \cup UNION {Carried(t) : t \in Threads}
  <2>1. \A a : a \in W <=>
          \/ a \in AddrsOf(budgets) \/ a \in AddrsOf(payouts) \/ a \in foreign
          \/ \E t \in Threads : a \in Carried(t)
    OBVIOUS
  <2>2. W \subseteq Addrs
    BY <1>1
  <2> HIDE DEF W
  <2>3. (\A a \in Addrs : block[a] # 0 <=> a \in W) <=> Allocated = W
    BY <2>2 DEF Allocated
  <2>4. Accounted <=> \A a \in Addrs : block[a] # 0 <=> a \in W
    BY <2>1 DEF Accounted
  <2> QED
    BY <2>3, <2>4 DEF W
<1>3. /\ AddrsOf(budgets) \subseteq Addrs /\ AddrsOf(payouts) \subseteq Addrs
      /\ foreign \subseteq Addrs
      /\ \A t \in Threads : Carried(t) \subseteq Addrs
  BY AddrsOfType, CarriedType DEF TypeOK
<1>4. Apart <=>
        /\ AddrsOf(budgets) \cap AddrsOf(payouts) = {}
        /\ \A t \in Threads :
             /\ Carried(t) \cap (AddrsOf(budgets) \cup AddrsOf(payouts) \cup foreign) = {}
             /\ \A u \in Threads \ {t} : Carried(t) \cap Carried(u) = {}
        /\ foreign \cap (AddrsOf(budgets) \cup AddrsOf(payouts)) = {}
  BY <1>3 DEF Apart
<1> QED
  BY <1>2, <1>4 DEF OneOwner, HeldOnce, Sized
-----------------------------------------------------------------------------
(* The initial state.                                                      *)
LEMMA PoolInit == Init => PoolInv
<1> SUFFICES ASSUME Init PROVE PoolInv
  OBVIOUS
<1>1. TypeOK
  BY PoolAllocatorAssumption DEF Init, TypeOK, NoEntry
<1>2. IsFiniteSet(held)
  BY FS_EmptySet DEF Init
<1>3. LargeEnough /\ Travelling /\ Gone
  BY DEF Init, LargeEnough, Travelling, Gone
<1>4. \A t \in Threads : Carried(t) = {}
  BY DEF Init, Carried
<1>5. AddrsOf(budgets) = {} /\ AddrsOf(payouts) = {} /\ AddrsOf(held) = {}
  BY DEF Init, AddrsOf
<1>6. Apart /\ Accounted /\ HeldOnce /\ Sized
  BY <1>4, <1>5 DEF Init, Apart, Accounted, HeldOnce, Sized
<1> QED
  BY <1>1, <1>2, <1>3, <1>6, OneOwnerParts DEF PoolInv

(* Noting the peak leaves it a natural number.                             *)
LEMMA PeakType ==
  ASSUME TypeOK, IsFiniteSet(held), NotePeak
  PROVE  peak' \in Nat
<1>1. Cardinality(held) \in Nat
  BY FS_CardinalityType
<1>2. Cardinality(Busy) \in Nat
  <2>1. IsFiniteSet(Busy)
    BY FS_Subset, PoolAllocatorAssumption DEF Busy
  <2> QED
    BY <2>1, FS_CardinalityType
<1> QED
  BY <1>1, <1>2 DEF NotePeak, TypeOK

(* Every step keeps the types, and the set of blocks in use finite.        *)
LEMMA TypeStep ==
  ASSUME TypeOK, IsFiniteSet(held), Travelling, [Next]_vars
  PROVE  TypeOK' /\ IsFiniteSet(held)'
<1> USE PoolAllocatorAssumption DEF TypeOK, Entries, Move, Finish, NoEntry
<1>1. ASSUME NEW t \in Threads, NEW n \in Sizes, FindNone(t, n)
      PROVE  TypeOK' /\ IsFiniteSet(held)'
  <2>1. peak' \in Nat
    BY <1>1, PeakType DEF FindNone
  <2> QED
    BY <1>1, <2>1 DEF FindNone
<1>2. ASSUME NEW t \in Threads, NEW n \in Sizes, NEW e \in Entries, FindBudget(t, n, e)
      PROVE  TypeOK' /\ IsFiniteSet(held)'
  <2>1. peak' \in Nat
    BY <1>2, PeakType DEF FindBudget
  <2> QED
    BY <1>2, <2>1 DEF FindBudget
<1>3. ASSUME NEW t \in Threads, NEW a \in Addrs, HeapAlloc(t, a)
      PROVE  TypeOK' /\ IsFiniteSet(held)'
  <2>1. moving[t][1] \in Sizes
    BY <1>3 DEF HeapAlloc, Travelling
  <2> QED
    BY <1>3, <2>1 DEF HeapAlloc
<1>4. ASSUME NEW t \in Threads, NEW a \in Addrs, FreeWild(t, a)
      PROVE  TypeOK' /\ IsFiniteSet(held)'
  <2>1. IsFiniteSet(held')
    BY <1>4, FS_Subset DEF FreeWild, GiveUp
  <2> QED
    BY <1>4, <2>1 DEF FreeWild, GiveUp
<1>5. ASSUME NEW t \in Threads, NEW e \in Entries, FreeFound(t, e)
      PROVE  TypeOK' /\ IsFiniteSet(held)'
  <2>1. IsFiniteSet(held')
    BY <1>5, FS_Subset DEF FreeFound, GiveUp
  <2> QED
    BY <1>5, <2>1 DEF FreeFound, GiveUp
<1>6. ASSUME NEW t \in Threads, PayOut(t)
      PROVE  TypeOK' /\ IsFiniteSet(held)'
  <2>1. moving[t] \in Entries /\ request[t] \in Sizes
    BY <1>6 DEF PayOut, Travelling
  <2>2. IsFiniteSet(held')
    BY <1>6, FS_AddElement DEF PayOut
  <2> QED
    BY <1>6, <2>1, <2>2 DEF PayOut
<1>7. ASSUME NEW t \in Threads, ReturnBudget(t)
      PROVE  TypeOK' /\ IsFiniteSet(held)'
  <2>1. moving[t] \in Entries
    BY <1>7 DEF ReturnBudget, Travelling
  <2> QED
    BY <1>7, <2>1 DEF ReturnBudget
<1>8. ASSUME NEW t \in Threads, HeapFree(t)
      PROVE  TypeOK' /\ IsFiniteSet(held)'
  BY <1>8 DEF HeapFree
<1>9. ASSUME NEW t \in Threads, Clear(t)
      PROVE  TypeOK' /\ IsFiniteSet(held)'
  BY <1>9 DEF Clear, ReleaseBudgets, calls
<1>10. ASSUME NEW r \in Ratios, SetRatio(r)
       PROVE  TypeOK' /\ IsFiniteSet(held)'
  BY <1>10 DEF SetRatio, calls
<1>11. ASSUME NEW a \in Addrs, AllocForeign(a)
       PROVE  TypeOK' /\ IsFiniteSet(held)'
  BY <1>11 DEF AllocForeign, calls
<1>12. ASSUME Destroy
       PROVE  TypeOK' /\ IsFiniteSet(held)'
  BY <1>12 DEF Destroy, ReleaseBudgets, calls
<1>13. ASSUME UNCHANGED vars
       PROVE  TypeOK' /\ IsFiniteSet(held)'
  BY <1>13 DEF vars, calls
<1>14. ASSUME Aborts
       PROVE  TypeOK' /\ IsFiniteSet(held)'
  BY <1>14 DEF Aborts, calls
<1> QED
  BY <1>1, <1>2, <1>3, <1>4, <1>5, <1>6, <1>7, <1>8, <1>9, <1>10, <1>11, <1>12, <1>13, <1>14
  DEF Next, InvalidRatio, NoGPU
-----------------------------------------------------------------------------
(* One lemma per action.                                                   *)

Owned == Apart /\ Accounted /\ HeldOnce /\ Sized
Kept == Owned /\ LargeEnough /\ Travelling /\ Gone

(* A budget taken out of its list is with the thread alone.                *)
LEMMA FindBudgetKeeps ==
  ASSUME PoolInv, NEW t \in Threads, NEW n \in Sizes, NEW e \in Entries,
         FindBudget(t, n, e)
  PROVE  Kept'
<1>1. Owned /\ TypeOK /\ LargeEnough /\ Travelling /\ Gone
  BY OneOwnerParts DEF PoolInv, Owned
<1>2. AddrsOf(budgets)' = AddrsOf(budgets) \ {e[2]} /\ e[2] \in AddrsOf(budgets)
  <2>1. AddrsOf(budgets \ {e}) = AddrsOf(budgets) \ {e[2]}
    BY <1>1, AddrsOfRemove DEF FindBudget, TypeOK, Owned, Sized
  <2> QED
    BY <2>1 DEF FindBudget, AddrsOf
<1>3. AddrsOf(payouts)' = AddrsOf(payouts) /\ AddrsOf(held)' = AddrsOf(held)
  BY DEF FindBudget
<1>4. foreign' = foreign /\ block' = block
  BY DEF FindBudget
<1>5. \A u \in Threads : Carried(u)' = IF u = t THEN {e[2]} ELSE Carried(u)
  BY <1>1 DEF FindBudget, Move, Carried, TypeOK
<1>6. Carried(t) = {}
  BY DEF FindBudget, Carried
<1>7. Apart'
  BY <1>1, <1>2, <1>3, <1>4, <1>5, <1>6 DEF Owned, Apart
<1>8. Accounted'
  BY <1>1, <1>2, <1>3, <1>4, <1>5, <1>6 DEF Owned, Accounted
<1>9. HeldOnce' /\ Sized'
  BY <1>1, <1>2, <1>3, <1>4, <1>6 DEF FindBudget, Move, Owned, HeldOnce, Sized, TypeOK
<1>10. LargeEnough'
  BY <1>1 DEF FindBudget, Move, LargeEnough
<1>11. Travelling'
  <2>1. block[e[2]] = e[1] /\ e[1] \in Nat /\ n <= e[1]
    BY <1>1, PoolAllocatorAssumption DEF FindBudget, Owned, Sized, Fits, Entries
  <2> QED
    BY <1>1, <2>1 DEF FindBudget, Move, Travelling, TypeOK, Entries
<1>12. Gone'
  BY <1>1 DEF FindBudget, Move, Gone, TypeOK
<1> QED
  BY <1>7, <1>8, <1>9, <1>10, <1>11, <1>12 DEF Kept, Owned

(* A thread that found no budget carries nothing yet.                      *)
LEMMA FindNoneKeeps ==
  ASSUME PoolInv, NEW t \in Threads, NEW n \in Sizes, FindNone(t, n)
  PROVE  Kept'
<1>1. Owned /\ TypeOK /\ LargeEnough /\ Travelling /\ Gone
  BY OneOwnerParts DEF PoolInv, Owned
<1>2. /\ AddrsOf(budgets)' = AddrsOf(budgets) /\ AddrsOf(payouts)' = AddrsOf(payouts)
      /\ AddrsOf(held)' = AddrsOf(held)
  BY DEF FindNone
<1>3. foreign' = foreign /\ block' = block
  BY DEF FindNone
<1>5. \A u \in Threads : Carried(u)' = IF u = t THEN {} ELSE Carried(u)
  BY <1>1 DEF FindNone, Move, Carried, TypeOK
<1>6. Carried(t) = {}
  BY DEF FindNone, Carried
<1>7. Apart'
  BY <1>1, <1>2, <1>3, <1>5, <1>6 DEF Owned, Apart
<1>8. Accounted'
  BY <1>1, <1>2, <1>3, <1>5, <1>6 DEF Owned, Accounted
<1>9. HeldOnce' /\ Sized'
  BY <1>1, <1>2, <1>3, <1>6 DEF FindNone, Move, Owned, HeldOnce, Sized, TypeOK
<1>10. LargeEnough'
  BY <1>1 DEF FindNone, Move, LargeEnough
<1>11. Travelling'
  BY <1>1, <1>3, <1>6 DEF FindNone, Move, Travelling, TypeOK, Entries
<1>12. Gone'
  BY <1>1 DEF FindNone, Move, Gone, TypeOK
<1> QED
  BY <1>7, <1>8, <1>9, <1>10, <1>11, <1>12 DEF Kept, Owned

(* A block fresh from the heap was nobody's before.                        *)
LEMMA HeapAllocKeeps ==
  ASSUME PoolInv, NEW t \in Threads, NEW a \in Addrs, HeapAlloc(t, a)
  PROVE  Kept'
<1>1. Owned /\ TypeOK /\ LargeEnough /\ Travelling /\ Gone
  BY OneOwnerParts DEF PoolInv, Owned
<1>2. /\ AddrsOf(budgets)' = AddrsOf(budgets) /\ AddrsOf(payouts)' = AddrsOf(payouts)
      /\ AddrsOf(held)' = AddrsOf(held)
  BY DEF HeapAlloc
<1>3. /\ foreign' = foreign
      /\ block[a] = 0
      /\ \A b \in Addrs : block'[b] = IF b = a THEN moving[t][1] ELSE block[b]
  BY <1>1 DEF HeapAlloc, TypeOK
<1>4. moving[t][1] \in Sizes /\ moving[t][1] # 0
  BY <1>1, PoolAllocatorAssumption DEF HeapAlloc, Travelling
<1>5. \A u \in Threads : Carried(u)' = IF u = t THEN {a} ELSE Carried(u)
  BY <1>1 DEF HeapAlloc, Move, Carried, TypeOK
<1>6. /\ a \notin AddrsOf(budgets) /\ a \notin AddrsOf(payouts) /\ a \notin foreign
      /\ \A u \in Threads : a \notin Carried(u)
      /\ \A e \in budgets \cup payouts : e[2] # a /\ e[2] \in Addrs
      /\ Carried(t) = {}
  <2>1. /\ a \notin AddrsOf(budgets) /\ a \notin AddrsOf(payouts) /\ a \notin foreign
        /\ \A u \in Threads : a \notin Carried(u)
    BY <1>1, <1>3 DEF Owned, Accounted
  <2> QED
    BY <1>1, <2>1 DEF AddrsOf, TypeOK, Entries, Carried, HeapAlloc
<1>7. Apart'
  BY <1>1, <1>2, <1>3, <1>4, <1>5, <1>6 DEF Owned, Apart
<1>8. Accounted'
  BY <1>1, <1>2, <1>3, <1>4, <1>5, <1>6 DEF Owned, Accounted
<1>9. HeldOnce' /\ Sized'
  BY <1>1, <1>2, <1>3, <1>4, <1>6 DEF HeapAlloc, Move, Owned, HeldOnce, Sized, TypeOK
<1>10. LargeEnough'
  <2>1. \A h \in held : h[2] \in Addrs /\ h[2] # a
    BY <1>1, <1>6 DEF TypeOK, Entries, Owned, HeldOnce, AddrsOf
  <2> QED
    BY <1>1, <1>3, <2>1 DEF HeapAlloc, LargeEnough
<1>11. Travelling'
  <2>1. \A u \in Threads \ {t} : pc[u] \in {"payout", "budget"} =>
          moving[u][2] # a /\ moving[u][2] \in Addrs
    BY <1>1, <1>6 DEF Carried, Travelling, Entries
  <2>2. request[t] \in Nat
    BY <1>1, PoolAllocatorAssumption DEF HeapAlloc, Travelling
  <2> QED
    BY <1>1, <1>3, <1>4, <2>1, <2>2 DEF HeapAlloc, Move, Travelling, TypeOK, Entries
<1>12. Gone'
  BY <1>1 DEF HeapAlloc, Move, Gone, TypeOK
<1> QED
  BY <1>7, <1>8, <1>9, <1>10, <1>11, <1>12 DEF Kept, Owned

(* Recording a block moves it from the thread to the payouts.              *)
LEMMA PayOutKeeps ==
  ASSUME PoolInv, NEW t \in Threads, PayOut(t)
  PROVE  Kept'
<1>1. Owned /\ TypeOK /\ LargeEnough /\ Travelling /\ Gone
  BY OneOwnerParts DEF PoolInv, Owned
<1>2. /\ AddrsOf(budgets)' = AddrsOf(budgets)
      /\ AddrsOf(payouts)' = AddrsOf(payouts) \cup {moving[t][2]}
      /\ AddrsOf(held)' = AddrsOf(held) \cup {moving[t][2]}
  <2>1. PICK e, d : e = moving[t] /\ d = <<request[t], moving[t][2]>>
    OBVIOUS
  <2>2. payouts' = payouts \cup {e} /\ held' = held \cup {d} /\ budgets' = budgets
    BY <2>1 DEF PayOut
  <2> QED
    BY <2>1, <2>2, AddrsOfAdd
<1>3. foreign' = foreign /\ block' = block
  BY DEF PayOut
<1>4. /\ moving[t] \in Entries /\ block[moving[t][2]] = moving[t][1]
      /\ request[t] \in Sizes /\ request[t] <= moving[t][1]
  BY <1>1 DEF PayOut, Travelling
<1>5. \A u \in Threads : Carried(u)' = IF u = t THEN {} ELSE Carried(u)
  BY <1>1 DEF PayOut, Move, Finish, NoEntry, Carried, TypeOK
<1>6. Carried(t) = {moving[t][2]} /\ moving[t][2] \in Addrs
      /\ moving[t][2] \notin AddrsOf(held)
  BY <1>1, <1>4 DEF PayOut, Carried, Entries, Owned, Apart, HeldOnce
<1>7. Apart'
  BY <1>1, <1>2, <1>3, <1>4, <1>5, <1>6 DEF Owned, Apart
<1>8. Accounted'
  BY <1>1, <1>2, <1>3, <1>4, <1>5, <1>6 DEF Owned, Accounted
<1>9. HeldOnce' /\ Sized'
  <2>1. \A h \in held : h[2] # moving[t][2]
    BY <1>6 DEF AddrsOf
  <2>2. HeldOnce'
    <3>1. PICK d : d = <<request[t], moving[t][2]>>
      OBVIOUS
    <3>2. held' = held \cup {d} /\ d[2] = moving[t][2]
      BY <3>1 DEF PayOut
    <3> QED
      BY <1>1, <1>2, <2>1, <3>2 DEF Owned, HeldOnce
  <2>3. Sized'
    BY <1>1, <1>3, <1>4 DEF PayOut, Owned, Sized
  <2> QED
    BY <2>2, <2>3
<1>10. LargeEnough'
  BY <1>1, <1>4 DEF PayOut, LargeEnough
<1>11. Travelling'
  BY <1>1, <1>3, <1>6 DEF PayOut, Move, Finish, NoEntry, Travelling, TypeOK, Entries
<1>12. Gone'
  BY <1>1 DEF PayOut, Move, Finish, NoEntry, Gone, TypeOK
<1> QED
  BY <1>7, <1>8, <1>9, <1>10, <1>11, <1>12 DEF Kept, Owned

(* A freed block moves from the payouts to the thread.                     *)
LEMMA FreeFoundKeeps ==
  ASSUME PoolInv, NEW t \in Threads, NEW e \in Entries, FreeFound(t, e)
  PROVE  Kept'
<1>1. Owned /\ TypeOK /\ LargeEnough /\ Travelling /\ Gone
  BY OneOwnerParts DEF PoolInv, Owned
<1>2. /\ AddrsOf(budgets)' = AddrsOf(budgets)
      /\ AddrsOf(payouts)' = AddrsOf(payouts) \ {e[2]}
      /\ AddrsOf(held)' = AddrsOf(held) \ {e[2]}
      /\ e[2] \in AddrsOf(payouts)
  <2>1. AddrsOf(payouts \ {e}) = AddrsOf(payouts) \ {e[2]}
    BY <1>1, AddrsOfRemove DEF FreeFound, TypeOK, Owned, Sized
  <2> QED
    BY <2>1 DEF FreeFound, GiveUp, AddrsOf
<1>3. foreign' = foreign /\ block' = block
  <2>1. e[2] \notin foreign
    BY <1>1, <1>2 DEF Owned, Apart, Entries
  <2> QED
    BY <2>1 DEF FreeFound, GiveUp
<1>4. block[e[2]] = e[1]
  BY <1>1 DEF FreeFound, Owned, Sized
<1>5. \A u \in Threads : Carried(u)' = IF u = t THEN {e[2]} ELSE Carried(u)
  BY <1>1 DEF FreeFound, GiveUp, Move, Carried, TypeOK
<1>6. Carried(t) = {}
  BY DEF FreeFound, Carried
<1>7. Apart'
  BY <1>1, <1>2, <1>3, <1>4, <1>5, <1>6 DEF Owned, Apart
<1>8. Accounted'
  BY <1>1, <1>2, <1>3, <1>4, <1>5, <1>6 DEF Owned, Accounted
<1>9. HeldOnce' /\ Sized'
  BY <1>1, <1>2, <1>3, <1>4, <1>6 DEF FreeFound, GiveUp, Move, Owned, HeldOnce, Sized, TypeOK
<1>10. LargeEnough'
  BY <1>1 DEF FreeFound, GiveUp, Move, LargeEnough
<1>11. Travelling'
  BY <1>1, <1>3, <1>4 DEF FreeFound, Move, Travelling, TypeOK, Entries
<1>12. Gone'
  BY <1>1 DEF FreeFound, Gone
<1> QED
  BY <1>7, <1>8, <1>9, <1>10, <1>11, <1>12 DEF Kept, Owned

(* A block that never came from the pool is given up by its user.          *)
LEMMA FreeWildKeeps ==
  ASSUME PoolInv, NEW t \in Threads, NEW a \in Addrs, FreeWild(t, a)
  PROVE  Kept'
<1>1. Owned /\ TypeOK /\ LargeEnough /\ Travelling /\ Gone
  BY OneOwnerParts DEF PoolInv, Owned
<1>2. /\ AddrsOf(budgets)' = AddrsOf(budgets) /\ AddrsOf(payouts)' = AddrsOf(payouts)
      /\ a \notin AddrsOf(payouts) /\ a \notin AddrsOf(held) /\ a \in foreign
  BY <1>1 DEF FreeWild, InUse, Owned, HeldOnce
<1>3. held' = held
  BY <1>2 DEF FreeWild, GiveUp, AddrsOf
<1>4. foreign' = foreign \ {a} /\ block' = block
  BY DEF FreeWild, GiveUp
<1>5. \A u \in Threads : Carried(u)' = IF u = t THEN {a} ELSE Carried(u)
  BY <1>1 DEF FreeWild, GiveUp, Move, Carried, TypeOK
<1>6. Carried(t) = {}
  BY DEF FreeWild, Carried
<1>7. Apart'
  BY <1>1, <1>2, <1>3, <1>4, <1>5, <1>6 DEF Owned, Apart
<1>8. Accounted'
  BY <1>1, <1>2, <1>3, <1>4, <1>5, <1>6 DEF Owned, Accounted
<1>9. HeldOnce' /\ Sized'
  BY <1>1, <1>2, <1>3, <1>4, <1>6 DEF FreeWild, GiveUp, Move, Owned, HeldOnce, Sized, TypeOK
<1>10. LargeEnough'
  BY <1>1 DEF FreeWild, GiveUp, Move, LargeEnough
<1>11. Travelling'
  BY <1>1, <1>3, <1>6 DEF FreeWild, GiveUp, Move, Travelling, TypeOK, Entries
<1>12. Gone'
  BY <1>1 DEF FreeWild, Gone
<1> QED
  BY <1>7, <1>8, <1>9, <1>10, <1>11, <1>12 DEF Kept, Owned

(* Returning a block moves it from the thread to the budgets.              *)
LEMMA ReturnBudgetKeeps ==
  ASSUME PoolInv, NEW t \in Threads, ReturnBudget(t)
  PROVE  Kept'
<1>1. Owned /\ TypeOK /\ LargeEnough /\ Travelling /\ Gone
  BY OneOwnerParts DEF PoolInv, Owned
<1>2. /\ AddrsOf(budgets)' = AddrsOf(budgets) \cup {moving[t][2]}
      /\ AddrsOf(payouts)' = AddrsOf(payouts) /\ AddrsOf(held)' = AddrsOf(held)
  <2>1. PICK e : e = moving[t]
    OBVIOUS
  <2>2. budgets' = budgets \cup {e} /\ payouts' = payouts /\ held' = held
    BY <2>1 DEF ReturnBudget
  <2> QED
    BY <2>1, <2>2, AddrsOfAdd
<1>3. foreign' = foreign /\ block' = block
  BY DEF ReturnBudget
<1>4. moving[t] \in Entries /\ block[moving[t][2]] = moving[t][1]
  BY <1>1 DEF ReturnBudget, Travelling
<1>5. \A u \in Threads : Carried(u)' = IF u = t THEN {} ELSE Carried(u)
  BY <1>1 DEF ReturnBudget, Move, Finish, NoEntry, Carried, TypeOK
<1>6. Carried(t) = {moving[t][2]}
  BY DEF ReturnBudget, Carried
<1>7. Apart'
  BY <1>1, <1>2, <1>3, <1>4, <1>5, <1>6 DEF Owned, Apart
<1>8. Accounted'
  BY <1>1, <1>2, <1>3, <1>4, <1>5, <1>6 DEF Owned, Accounted
<1>9. HeldOnce' /\ Sized'
  BY <1>1, <1>2, <1>3, <1>4, <1>6 DEF ReturnBudget, Move, Finish, NoEntry, Owned, HeldOnce, Sized, TypeOK
<1>10. LargeEnough'
  BY <1>1 DEF ReturnBudget, Move, Finish, NoEntry, LargeEnough
<1>11. Travelling'
  BY <1>1, <1>3, <1>6 DEF ReturnBudget, Move, Finish, NoEntry, Travelling, TypeOK, Entries
<1>12. Gone'
  BY <1>1 DEF ReturnBudget, Move, Finish, NoEntry, Gone, TypeOK
<1> QED
  BY <1>7, <1>8, <1>9, <1>10, <1>11, <1>12 DEF Kept, Owned

(* A block given to the heap was with this thread alone.                   *)
LEMMA HeapFreeKeeps ==
  ASSUME PoolInv, NEW t \in Threads, HeapFree(t)
  PROVE  Kept'
<1>1. Owned /\ TypeOK /\ LargeEnough /\ Travelling /\ Gone
  BY OneOwnerParts DEF PoolInv, Owned
<1>2. /\ AddrsOf(budgets)' = AddrsOf(budgets) /\ AddrsOf(payouts)' = AddrsOf(payouts)
      /\ AddrsOf(held)' = AddrsOf(held)
  BY DEF HeapFree
<1>3. /\ foreign' = foreign
      /\ moving[t][2] \in Addrs
      /\ \A b \in Addrs : block'[b] = IF b = moving[t][2] THEN 0 ELSE block[b]
  BY <1>1 DEF HeapFree, TypeOK, Travelling
<1>4. Carried(t) = {moving[t][2]}
  BY DEF HeapFree, Carried
<1>5. \A u \in Threads : Carried(u)' = IF u = t THEN {} ELSE Carried(u)
  BY <1>1 DEF HeapFree, Move, Finish, NoEntry, Carried, TypeOK
<1>6. /\ moving[t][2] \notin AddrsOf(budgets) /\ moving[t][2] \notin AddrsOf(payouts)
      /\ \A u \in Threads \ {t} : moving[t][2] \notin Carried(u)
      /\ \A e \in budgets \cup payouts : e[2] # moving[t][2] /\ e[2] \in Addrs
  <2>1. /\ moving[t][2] \notin AddrsOf(budgets) /\ moving[t][2] \notin AddrsOf(payouts)
        /\ \A u \in Threads \ {t} : moving[t][2] \notin Carried(u)
    BY <1>1, <1>3, <1>4 DEF Owned, Apart
  <2> QED
    BY <1>1, <2>1 DEF AddrsOf, TypeOK, Entries
<1>7. Apart'
  BY <1>1, <1>2, <1>3, <1>4, <1>5, <1>6 DEF Owned, Apart
<1>8. Accounted'
  <2>1. PICK m \in Addrs : m = moving[t][2]
    BY <1>3
  <2>2. \A b \in Addrs \ {m} : block'[b] # 0 <=> block[b] # 0
    BY <1>3, <2>1
  <2>3. block'[m] = 0
    BY <1>3, <2>1
  <2>4. Carried(t) = {m} /\ m \notin foreign
    BY <1>1, <1>4, <2>1 DEF Owned, Apart
  <2> QED
    BY <1>1, <1>2, <1>3, <1>5, <1>6, <2>1, <2>2, <2>3, <2>4 DEF Owned, Accounted
<1>9. HeldOnce' /\ Sized'
  BY <1>1, <1>2, <1>3, <1>4, <1>6 DEF HeapFree, Move, Finish, NoEntry, Owned, HeldOnce, Sized, TypeOK
<1>10. LargeEnough'
  <2>1. \A h \in held : h[2] \in Addrs /\ h[2] # moving[t][2]
    BY <1>1, <1>6 DEF TypeOK, Entries, Owned, HeldOnce, AddrsOf
  <2> QED
    BY <1>1, <1>3, <2>1 DEF HeapFree, LargeEnough
<1>11. Travelling'
  <2>1. \A u \in Threads \ {t} : pc[u] \in {"payout", "budget"} =>
          moving[u][2] # moving[t][2] /\ moving[u][2] \in Addrs
    BY <1>1, <1>6 DEF Carried, Travelling, Entries
  <2> QED
    BY <1>1, <1>3, <2>1 DEF HeapFree, Move, Finish, NoEntry, Travelling, TypeOK, Entries
<1>12. Gone'
  BY <1>1 DEF HeapFree, Move, Finish, NoEntry, Gone, TypeOK
<1> QED
  BY <1>7, <1>8, <1>9, <1>10, <1>11, <1>12 DEF Kept, Owned

(* A block taken from the heap past the pool was nobody's before.          *)
LEMMA AllocForeignKeeps ==
  ASSUME PoolInv, NEW a \in Addrs, AllocForeign(a)
  PROVE  Kept'
<1>1. Owned /\ TypeOK /\ LargeEnough /\ Travelling /\ Gone
  BY OneOwnerParts DEF PoolInv, Owned
<1>2. /\ AddrsOf(budgets)' = AddrsOf(budgets) /\ AddrsOf(payouts)' = AddrsOf(payouts)
      /\ AddrsOf(held)' = AddrsOf(held)
  BY DEF AllocForeign
<1>3. /\ foreign' = foreign \cup {a}
      /\ block[a] = 0 /\ block'[a] # 0
      /\ \A b \in Addrs \ {a} : block'[b] = block[b]
  BY <1>1, PoolAllocatorAssumption DEF AllocForeign, TypeOK
<1>5. \A u \in Threads : Carried(u)' = Carried(u)
  BY <1>1 DEF AllocForeign, calls, Carried, TypeOK
<1>6. /\ a \notin AddrsOf(budgets) /\ a \notin AddrsOf(payouts) /\ a \notin foreign
      /\ \A u \in Threads : a \notin Carried(u)
      /\ \A e \in budgets \cup payouts : e[2] # a /\ e[2] \in Addrs
  <2>1. /\ a \notin AddrsOf(budgets) /\ a \notin AddrsOf(payouts) /\ a \notin foreign
        /\ \A u \in Threads : a \notin Carried(u)
    BY <1>1, <1>3 DEF Owned, Accounted
  <2> QED
    BY <1>1, <2>1 DEF AddrsOf, TypeOK, Entries
<1>7. Apart'
  BY <1>1, <1>2, <1>3, <1>5, <1>6 DEF Owned, Apart
<1>8. Accounted'
  BY <1>1, <1>2, <1>3, <1>5, <1>6 DEF Owned, Accounted
<1>9. HeldOnce' /\ Sized'
  BY <1>1, <1>2, <1>3, <1>6 DEF AllocForeign, calls, Owned, HeldOnce, Sized, TypeOK
<1>10. LargeEnough'
  <2>1. \A h \in held : h[2] \in Addrs /\ h[2] # a
    BY <1>1, <1>6 DEF TypeOK, Entries, Owned, HeldOnce, AddrsOf
  <2> QED
    BY <1>1, <1>3, <2>1 DEF AllocForeign, LargeEnough
<1>11. Travelling'
  <2>1. \A u \in Threads : pc[u] \in {"payout", "budget"} =>
          moving[u][2] # a /\ moving[u][2] \in Addrs
    BY <1>1, <1>6 DEF Carried, Travelling, Entries
  <2> QED
    BY <1>1, <1>3, <2>1 DEF AllocForeign, calls, Travelling
<1>12. Gone'
  BY <1>1 DEF AllocForeign, calls, Gone, TypeOK
<1> QED
  BY <1>7, <1>8, <1>9, <1>10, <1>11, <1>12 DEF Kept, Owned

(* clear and the destructor give the budgets back.                         *)
LEMMA ReleaseBudgetsKeeps ==
  ASSUME PoolInv, ReleaseBudgets, UNCHANGED <<payouts, calls, held, foreign>>
  PROVE  (Owned /\ LargeEnough /\ Travelling)'
<1>1. Owned /\ TypeOK /\ LargeEnough /\ Travelling
  BY OneOwnerParts DEF PoolInv, Owned
<1>2. /\ AddrsOf(budgets)' = {} /\ AddrsOf(payouts)' = AddrsOf(payouts)
      /\ AddrsOf(held)' = AddrsOf(held)
  BY DEF ReleaseBudgets, AddrsOf
<1>3. /\ foreign' = foreign
      /\ \A b \in Addrs : block'[b] = IF b \in AddrsOf(budgets) THEN 0 ELSE block[b]
  BY DEF ReleaseBudgets
<1>4. \A u \in Threads : Carried(u)' = Carried(u)
  BY DEF calls, Carried
<1>5. Apart'
  BY <1>1, <1>2, <1>3, <1>4 DEF Owned, Apart
<1>6. Accounted'
  BY <1>1, <1>2, <1>3, <1>4 DEF Owned, Accounted, Apart
<1>7. \A e \in payouts : e[2] \in Addrs /\ e[2] \notin AddrsOf(budgets)
  <2>1. \A e \in payouts : e[2] \in AddrsOf(payouts) /\ e[2] \in Addrs
    BY <1>1 DEF AddrsOf, TypeOK, Entries
  <2> QED
    BY <1>1, <2>1 DEF Owned, Apart
<1>8. HeldOnce' /\ Sized'
  <2>1. HeldOnce'
    BY <1>1, <1>2 DEF Owned, HeldOnce
  <2>2. Sized'
    <3>1. \A e \in payouts : block'[e[2]] = e[1]
      BY <1>1, <1>3, <1>7 DEF Owned, Sized
    <3>2. (budgets \cup payouts)' = payouts
      BY DEF ReleaseBudgets
    <3> QED
      BY <3>1, <3>2 DEF Sized
  <2> QED
    BY <2>1, <2>2
<1>9. LargeEnough'
  <2>1. \A h \in held : h[2] \in Addrs /\ h[2] \notin AddrsOf(budgets)
    <3>1. \A h \in held : h[2] \in Addrs /\ h[2] \in AddrsOf(payouts)
      BY <1>1 DEF TypeOK, Entries, Owned, HeldOnce, AddrsOf
    <3> QED
      BY <1>1, <3>1 DEF Owned, Apart
  <2> QED
    BY <1>1, <1>3, <2>1 DEF LargeEnough
<1>10. Travelling'
  <2>1. \A u \in Threads : pc[u] \in {"payout", "budget"} =>
          moving[u][2] \notin AddrsOf(budgets) /\ moving[u][2] \in Addrs
    BY <1>1 DEF Carried, Travelling, Entries, Owned, Apart
  <2> QED
    BY <1>1, <1>3, <2>1 DEF calls, Travelling
<1> QED
  BY <1>5, <1>6, <1>8, <1>9, <1>10 DEF Owned

(* Steps that change no list, call or block keep everything.               *)
LEMMA StutterKeeps ==
  ASSUME PoolInv, UNCHANGED <<block, budgets, payouts, calls, held, foreign>>,
         status' \in {status, "aborted"}
  PROVE  Kept'
<1>1. Owned /\ LargeEnough /\ Travelling /\ Gone
  BY OneOwnerParts DEF PoolInv, Owned
<1>2. \A u \in Threads : Carried(u)' = Carried(u)
  BY DEF calls, Carried
<1>3. Apart' /\ Accounted'
  BY <1>1, <1>2 DEF Owned, Apart, Accounted
<1>4. HeldOnce' /\ Sized'
  BY <1>1 DEF Owned, HeldOnce, Sized
<1>5. LargeEnough' /\ Travelling' /\ Gone'
  BY <1>1 DEF LargeEnough, Travelling, Gone, calls
<1> QED
  BY <1>3, <1>4, <1>5 DEF Kept, Owned
-----------------------------------------------------------------------------
(* Every step of the allocator keeps the invariant.                        *)
LEMMA PoolStep ==
  ASSUME PoolInv, [Next]_vars
  PROVE  PoolInv'
<1>1. TypeOK' /\ IsFiniteSet(held)'
  BY TypeStep DEF PoolInv
<1>2. Kept'
  <2>1. ASSUME NEW t \in Threads, NEW n \in Sizes, FindNone(t, n) PROVE Kept'
    BY <2>1, FindNoneKeeps
  <2>2. ASSUME NEW t \in Threads, NEW n \in Sizes, NEW e \in Entries, FindBudget(t, n, e)
        PROVE  Kept'
    BY <2>2, FindBudgetKeeps
  <2>3. ASSUME NEW t \in Threads, NEW a \in Addrs, HeapAlloc(t, a) PROVE Kept'
    BY <2>3, HeapAllocKeeps
  <2>4. ASSUME NEW t \in Threads, NEW a \in Addrs, FreeWild(t, a) PROVE Kept'
    BY <2>4, FreeWildKeeps
  <2>5. ASSUME NEW t \in Threads, NEW e \in Entries, FreeFound(t, e) PROVE Kept'
    BY <2>5, FreeFoundKeeps
  <2>6. ASSUME NEW t \in Threads, PayOut(t) PROVE Kept'
    BY <2>6, PayOutKeeps
  <2>7. ASSUME NEW t \in Threads, ReturnBudget(t) PROVE Kept'
    BY <2>7, ReturnBudgetKeeps
  <2>8. ASSUME NEW t \in Threads, HeapFree(t) PROVE Kept'
    BY <2>8, HeapFreeKeeps
  <2>9. ASSUME NEW t \in Threads, Clear(t) PROVE Kept'
    <3>1. (Owned /\ LargeEnough /\ Travelling)'
      BY <2>9, ReleaseBudgetsKeeps DEF Clear
    <3>2. Gone'
      BY <2>9 DEF Clear, Gone
    <3> QED
      BY <3>1, <3>2 DEF Kept
  <2>10. ASSUME NEW r \in Ratios, SetRatio(r) PROVE Kept'
    BY <2>10, StutterKeeps DEF SetRatio
  <2>11. ASSUME NEW a \in Addrs, AllocForeign(a) PROVE Kept'
    BY <2>11, AllocForeignKeeps
  <2>12. ASSUME Destroy PROVE Kept'
    <3>1. (Owned /\ LargeEnough /\ Travelling)'
      BY <2>12, ReleaseBudgetsKeeps DEF Destroy
    <3>2. Gone'
      BY <2>12 DEF Destroy, ReleaseBudgets, Gone, calls
    <3> QED
      BY <3>1, <3>2 DEF Kept
  <2>13. ASSUME UNCHANGED vars PROVE Kept'
    BY <2>13, StutterKeeps DEF vars
  <2>14. ASSUME Aborts PROVE Kept'
    BY <2>14, StutterKeeps DEF Aborts
  <2> QED
    BY <2>1, <2>2, <2>3, <2>4, <2>5, <2>6, <2>7, <2>8, <2>9, <2>10, <2>11, <2>12, <2>13, <2>14
    DEF Next, InvalidRatio, NoGPU
<1>3. OneOwner'
  <2>1. Travelling'
    BY <1>2 DEF Kept
  <2>2. (TypeOK /\ Travelling => (OneOwner <=> Apart /\ Accounted /\ HeldOnce /\ Sized))'
    BY OneOwnerParts, PTL
  <2> QED
    BY <1>1, <1>2, <2>1, <2>2 DEF Kept, Owned
<1> QED
  BY <1>1, <1>2, <1>3 DEF PoolInv, Kept

(* PoolInv holds in every state of every run of the allocator.             *)
THEOREM PoolInvariant == Spec => []PoolInv
<1>1. PoolInv /\ [Next]_vars => PoolInv'
  BY PoolStep
<1> QED
  BY <1>1, PoolInit, PTL DEF Spec

(* The lists, the calls and the blocks in use keep their types.            *)
THEOREM PoolTypeCorrect == Spec => []TypeOK
<1>1. PoolInv => TypeOK
  BY DEF PoolInv
<1> QED
  BY <1>1, PoolInvariant, PTL

(* Every allocated block is in exactly one list, call or client's hands.   *)
THEOREM BlocksHaveOneOwner == Spec => []OneOwner
<1>1. PoolInv => OneOwner
  BY DEF PoolInv
<1> QED
  BY <1>1, PoolInvariant, PTL

(* Whatever the ratio does, a block handed out is as large as its request. *)
THEOREM BlocksAreLargeEnough == Spec => []LargeEnough
<1>1. PoolInv => LargeEnough
  BY DEF PoolInv
<1> QED
  BY <1>1, PoolInvariant, PTL

(* A destroyed allocator leaves nothing behind, and only a block in use    *)
(* makes its destructor end the process.                                   *)
THEOREM ExitIsClean == Spec => []CleanExit
<1>1. PoolInv => CleanExit
  <2> SUFFICES ASSUME PoolInv PROVE CleanExit
    OBVIOUS
  <2>1. Owned /\ TypeOK /\ Gone
    BY OneOwnerParts DEF PoolInv, Owned
  <2>2. ASSUME status = "destroyed" PROVE Allocated = foreign
    <3>1. AddrsOf(budgets) = {} /\ AddrsOf(payouts) = {}
      BY <2>1, <2>2 DEF Gone, AddrsOf
    <3>2. \A t \in Threads : Carried(t) = {}
      BY <2>1, <2>2 DEF Gone, Carried
    <3> QED
      BY <2>1, <3>1, <3>2 DEF Owned, Accounted, Allocated, TypeOK
  <2>3. ASSUME status = "terminated" PROVE held # {}
    <3>1. payouts # {}
      BY <2>1, <2>3 DEF Gone
    <3> QED
      BY <2>1, <3>1 DEF Owned, HeldOnce, AddrsOf
  <2> QED
    BY <2>2, <2>3 DEF CleanExit
<1> QED
  BY <1>1, PoolInvariant, PTL
-----------------------------------------------------------------------------
(* The footprint.                                                          *)

(* The cardinality of a disjoint union.                                    *)
LEMMA CardinalityOfBoth ==
  ASSUME NEW S, NEW T, IsFiniteSet(S), IsFiniteSet(T), S \cap T = {}
  PROVE  Cardinality(S \cup T) = Cardinality(S) + Cardinality(T)
<1>1. Cardinality(S \cup T) = Cardinality(S) + Cardinality(T) - Cardinality(S \cap T)
  BY FS_Union
<1>2. Cardinality(S \cap T) = 0
  BY FS_EmptySet
<1>3. Cardinality(S) \in Nat /\ Cardinality(T) \in Nat
  BY FS_CardinalityType
<1> QED
  BY <1>1, <1>2, <1>3

(* One element more is at most one more.                                   *)
LEMMA CardinalityOfOneMore ==
  ASSUME NEW S, NEW x, IsFiniteSet(S)
  PROVE  /\ IsFiniteSet(S \cup {x})
         /\ Cardinality(S \cup {x}) <= Cardinality(S) + 1
<1>1. Cardinality(S) \in Nat
  BY FS_CardinalityType
<1> QED
  BY <1>1, FS_AddElement

(* What is counted is finite.                                              *)
LEMMA FootprintFinite ==
  ASSUME NEW n \in Sizes
  PROVE  /\ IsFiniteSet(Footprint(n)) /\ Cardinality(Footprint(n)) \in Nat
         /\ IsFiniteSet(Asking(n)) /\ Cardinality(Asking(n)) \in Nat
<1>1. IsFiniteSet({n} \X Addrs)
  BY FS_Singleton, FS_Product, PoolAllocatorAssumption
<1>2. Footprint(n) \in SUBSET ({n} \X Addrs)
  BY DEF Footprint, Entries
<1>3. IsFiniteSet(Footprint(n))
  BY <1>1, <1>2, FS_Subset
<1>4. IsFiniteSet(Asking(n))
  <2>1. Asking(n) \in SUBSET Threads
    BY DEF Asking
  <2> QED
    BY <2>1, FS_Subset, PoolAllocatorAssumption
<1> QED
  BY <1>3, <1>4, FS_CardinalityType

(* A block of the payouts is in use, by one client.                        *)
LEMMA PayoutsAreHeld ==
  ASSUME TypeOK, IsFiniteSet(held), HeldOnce, NEW n \in Sizes
  PROVE  LET F == Footprint(n) \cap payouts
         IN  IsFiniteSet(F) /\ Cardinality(F) <= Cardinality(held)
<1> DEFINE F == Footprint(n) \cap payouts
           f == [e \in F |-> CHOOSE h \in held : h[2] = e[2]]
<1>1. IsFiniteSet(F)
  <2>1. F \in SUBSET Footprint(n)
    OBVIOUS
  <2> QED
    BY <2>1, FootprintFinite, FS_Subset
<1>2. \A e \in F : \E h \in held : h[2] = e[2]
  BY DEF HeldOnce, AddrsOf
<1>3. \A e \in F : f[e] \in held /\ f[e][2] = e[2]
  BY <1>2
<1>4. \A e, g \in F : e[2] = g[2] => e = g
  BY DEF Footprint, Entries
<1> HIDE DEF F
<1>5. f \in Injection(F, held)
  BY <1>3, <1>4 DEF Injection, IsInjective
<1>6. Cardinality(F) <= Cardinality(held)
  <2> HIDE DEF f
  <2> QED
    BY <1>5, FS_Injection
<1> QED
  BY <1>1, <1>6 DEF F

(* A block that is not in a list is with a thread of its own.              *)
Travellers == {t \in Threads : pc[t] \in {"payout", "budget"}}

LEMMA OthersTravel ==
  ASSUME NEW n \in Sizes, \A e \in budgets : e[1] # n
  PROVE  LET F == Footprint(n) \ payouts
         IN  IsFiniteSet(F) /\ Cardinality(F) <= Cardinality(Travellers)
<1> DEFINE F == Footprint(n) \ payouts
           f == [e \in F |-> CHOOSE t \in Travellers : moving[t] = e]
<1>1. IsFiniteSet(F)
  <2>1. F \in SUBSET Footprint(n)
    OBVIOUS
  <2> QED
    BY <2>1, FootprintFinite, FS_Subset
<1>2. \A e \in F : \E t \in Travellers : moving[t] = e
  BY DEF Footprint, Travellers
<1>3. \A e \in F : f[e] \in Travellers /\ moving[f[e]] = e
  BY <1>2
<1>4. IsFiniteSet(Travellers)
  BY FS_Subset, PoolAllocatorAssumption DEF Travellers
<1> HIDE DEF F
<1>5. f \in Injection(F, Travellers)
  BY <1>3 DEF Injection, IsInjective
<1>6. Cardinality(F) <= Cardinality(Travellers)
  <2> HIDE DEF f
  <2> QED
    BY <1>4, <1>5, FS_Injection
<1> QED
  BY <1>1, <1>6 DEF F

(* What is neither in a list nor freed is with the calls under way.        *)
LEMMA CallsAreBusy ==
  ASSUME NEW n \in Sizes
  PROVE  /\ Cardinality(Travellers) + Cardinality(Asking(n)) <= Cardinality(Busy)
         /\ Cardinality(Travellers) \in Nat /\ Cardinality(Busy) \in Nat
<1>1. IsFiniteSet(Busy) /\ Cardinality(Busy) \in Nat
  BY FS_Subset, FS_CardinalityType, PoolAllocatorAssumption DEF Busy
<1>2. IsFiniteSet(Travellers) /\ Cardinality(Travellers) \in Nat
  BY FS_Subset, FS_CardinalityType, PoolAllocatorAssumption DEF Travellers
<1>3. Travellers \cap Asking(n) = {}
  BY DEF Travellers, Asking
<1>4. Travellers \cup Asking(n) \in SUBSET Busy
  BY DEF Travellers, Asking, Busy
<1>5. Cardinality(Travellers \cup Asking(n)) <= Cardinality(Busy)
  BY <1>1, <1>4, FS_Subset
<1>6. Cardinality(Travellers \cup Asking(n)) = Cardinality(Travellers) + Cardinality(Asking(n))
  BY <1>2, <1>3, FootprintFinite, CardinalityOfBoth
<1> QED
  BY <1>1, <1>2, <1>5, <1>6

(* When no block of a size is in the budgets, as many are in use.          *)
LEMMA NoBudgetNoSlack ==
  ASSUME TypeOK, IsFiniteSet(held), HeldOnce, NEW n \in Sizes, \A e \in budgets : e[1] # n
  PROVE  /\ Cardinality(Footprint(n)) + Cardinality(Asking(n))
              <= Cardinality(held) + Cardinality(Busy)
         /\ Cardinality(held) \in Nat /\ Cardinality(Busy) \in Nat
<1> DEFINE F == Footprint(n) \cap payouts
           G == Footprint(n) \ payouts
<1>1. IsFiniteSet(F) /\ Cardinality(F) <= Cardinality(held)
  BY PayoutsAreHeld
<1>2. IsFiniteSet(G) /\ Cardinality(G) <= Cardinality(Travellers)
  BY OthersTravel
<1>3. Cardinality(Footprint(n)) = Cardinality(F) + Cardinality(G)
  <2>1. Footprint(n) = F \cup G /\ F \cap G = {}
    OBVIOUS
  <2> HIDE DEF F, G
  <2>2. Cardinality(F \cup G) = Cardinality(F) + Cardinality(G)
    BY <1>1, <1>2, <2>1, CardinalityOfBoth
  <2> QED
    BY <2>1, <2>2
<1>4. Cardinality(F) \in Nat /\ Cardinality(G) \in Nat /\ Cardinality(held) \in Nat
  BY <1>1, <1>2, FS_CardinalityType
<1> HIDE DEF F, G
<1> QED
  BY <1>1, <1>2, <1>3, <1>4, CallsAreBusy, FootprintFinite

(* The peak only grows.                                                    *)
LEMMA PeakGrows ==
  ASSUME TypeOK, IsFiniteSet(held), [Next]_vars
  PROVE  peak' \in Nat /\ peak <= peak'
<1>1. NotePeak => peak' \in Nat /\ peak <= peak'
  <2> SUFFICES ASSUME NotePeak PROVE peak' \in Nat /\ peak <= peak'
    OBVIOUS
  <2>1. Cardinality(held) \in Nat
    BY FS_CardinalityType
  <2>2. Cardinality(Busy) \in Nat
    BY FS_Subset, FS_CardinalityType, PoolAllocatorAssumption DEF Busy
  <2> QED
    BY <2>1, <2>2 DEF NotePeak, TypeOK
<1>2. NotePeak \/ peak' = peak
  BY DEF Next, vars, FindBudget, FindNone, HeapAlloc, PayOut, FreeFound, FreeWild, ReturnBudget,
         HeapFree, Clear, SetRatio, InvalidRatio, NoGPU, Aborts, AllocForeign, Destroy
<1> QED
  BY <1>1, <1>2 DEF TypeOK

(* A size of which there is nothing new stays within the peak.             *)
LEMMA NothingNew ==
  ASSUME TypeOK, IsFiniteSet(held), [Next]_vars, FootprintIsPeakUse, NEW n \in Sizes,
         Footprint(n)' \subseteq Footprint(n), Asking(n)' \subseteq Asking(n)
  PROVE  Cardinality(Footprint(n)') + Cardinality(Asking(n)') <= peak'
<1>1. Cardinality(Footprint(n)') \in Nat /\ Cardinality(Footprint(n)') <= Cardinality(Footprint(n))
  BY FootprintFinite, FS_Subset, FS_CardinalityType
<1>2. Cardinality(Asking(n)') \in Nat /\ Cardinality(Asking(n)') <= Cardinality(Asking(n))
  BY FootprintFinite, FS_Subset, FS_CardinalityType
<1> QED
  BY <1>1, <1>2, PeakGrows, FootprintFinite DEF FootprintIsPeakUse, TypeOK

(* A request that no budget serves: a block of its own size would have.    *)
LEMMA FindNoneWithinPeak ==
  ASSUME PoolInv, FootprintIsPeakUse, [Next]_vars,
         NEW t \in Threads, NEW n \in Sizes, FindNone(t, n), NEW m \in Sizes
  PROVE  Cardinality(Footprint(m)') + Cardinality(Asking(m)') <= peak'
<1>1. TypeOK /\ IsFiniteSet(held) /\ HeldOnce /\ Travelling
  BY OneOwnerParts DEF PoolInv
<1>2. Footprint(m)' = Footprint(m)
  BY <1>1 DEF FindNone, Move, Footprint, TypeOK
<1>3. Asking(m)' = IF m = n THEN Asking(m) \cup {t} ELSE Asking(m)
  BY <1>1 DEF FindNone, Move, Asking, TypeOK
<1>4. ASSUME m # n
      PROVE  Cardinality(Footprint(m)') + Cardinality(Asking(m)') <= peak'
  BY <1>1, <1>2, <1>3, <1>4, NothingNew
<1>5. ASSUME m = n
      PROVE  Cardinality(Footprint(m)') + Cardinality(Asking(m)') <= peak'
  <2>1. Fits(n, n)
    <3>1. \A r \in 0..256 : (n * r) \div 256 <= n
      BY PoolAllocatorAssumption
    <3> QED
      BY <1>1, <3>1, PoolAllocatorAssumption DEF Fits, TypeOK
  <2>2. \A e \in budgets : e[1] # n
    BY <2>1 DEF FindNone
  <2>3. /\ Cardinality(Footprint(n)) + Cardinality(Asking(n))
             <= Cardinality(held) + Cardinality(Busy)
        /\ Cardinality(held) \in Nat /\ Cardinality(Busy) \in Nat
    BY <1>1, <2>2, NoBudgetNoSlack
  <2>4. Cardinality(held) + Cardinality(Busy) + 1 <= peak'
    BY <1>1, <2>3 DEF FindNone, NotePeak, TypeOK
  <2>5. t \notin Asking(n)
    BY DEF FindNone, Asking
  <2>6. Cardinality(Asking(n) \cup {t}) = Cardinality(Asking(n)) + 1
    BY <2>5, FootprintFinite, FS_AddElement
  <2> QED
    <3>1. PICK x, y, p : /\ x = Cardinality(Footprint(n)) /\ y = Cardinality(Asking(n))
                         /\ p = peak'
      OBVIOUS
    <3>2. /\ x \in Nat /\ y \in Nat /\ p \in Nat
          /\ x + y + 1 <= p
      BY <1>1, <2>3, <2>4, <3>1, PeakGrows, FootprintFinite
    <3>3. Cardinality(Footprint(m)') = x /\ Cardinality(Asking(m)') = y + 1
      BY <1>2, <1>3, <1>5, <2>6, <3>1
    <3> QED
      BY <3>1, <3>2, <3>3
<1> QED
  BY <1>4, <1>5

(* The heap turns a request into a block.                                  *)
LEMMA HeapAllocWithinPeak ==
  ASSUME PoolInv, FootprintIsPeakUse, [Next]_vars,
         NEW t \in Threads, NEW a \in Addrs, HeapAlloc(t, a), NEW m \in Sizes
  PROVE  Cardinality(Footprint(m)') + Cardinality(Asking(m)') <= peak'
<1>1. TypeOK /\ IsFiniteSet(held) /\ Travelling
  BY DEF PoolInv
<1>2. PICK n \in Sizes : n = moving[t][1]
  BY <1>1 DEF HeapAlloc, Travelling
<1>3. \A u \in Threads : /\ pc'[u] = IF u = t THEN "payout" ELSE pc[u]
                         /\ moving'[u] = IF u = t THEN <<n, a>> ELSE moving[u]
  BY <1>1, <1>2 DEF HeapAlloc, Move, TypeOK
<1>4. pc[t] = "alloc" /\ budgets' = budgets /\ payouts' = payouts
  BY DEF HeapAlloc
<1>5. Footprint(m)' \subseteq IF m = n THEN Footprint(m) \cup {<<n, a>>} ELSE Footprint(m)
  BY <1>3, <1>4 DEF Footprint
<1>6. Asking(m)' = Asking(m) \ {t}
  BY <1>3, <1>4 DEF Asking
<1>7. ASSUME m # n
      PROVE  Cardinality(Footprint(m)') + Cardinality(Asking(m)') <= peak'
  BY <1>1, <1>5, <1>6, <1>7, NothingNew
<1>8. ASSUME m = n
      PROVE  Cardinality(Footprint(m)') + Cardinality(Asking(m)') <= peak'
  <2>1. Cardinality(Asking(n) \ {t}) = Cardinality(Asking(n)) - 1
    <3>1. t \in Asking(n)
      BY <1>2, <1>4 DEF Asking
    <3> QED
      BY <3>1, FootprintFinite, FS_RemoveElement
  <2>2. PICK e : e = <<n, a>>
    OBVIOUS
  <2>3. /\ IsFiniteSet(Footprint(n) \cup {e})
        /\ Cardinality(Footprint(n) \cup {e}) <= Cardinality(Footprint(n)) + 1
    BY FootprintFinite, CardinalityOfOneMore
  <2>4. /\ Cardinality(Footprint(n)') \in Nat
        /\ Cardinality(Footprint(n)') <= Cardinality(Footprint(n) \cup {e})
    BY <1>5, <1>8, <2>2, <2>3, FS_Subset, FS_CardinalityType
  <2>5. Cardinality(Footprint(n) \cup {e}) \in Nat
    BY <2>3, FS_CardinalityType
  <2> QED
    BY <1>1, <1>6, <1>8, <2>1, <2>3, <2>4, <2>5, PeakGrows, FootprintFinite
    DEF FootprintIsPeakUse, TypeOK
<1> QED
  BY <1>7, <1>8

(* Every step keeps the footprint of every size within the peak.           *)
LEMMA FootprintStep ==
  ASSUME PoolInv, FootprintIsPeakUse, [Next]_vars
  PROVE  FootprintIsPeakUse'
<1> SUFFICES ASSUME NEW m \in Sizes
             PROVE  Cardinality(Footprint(m)') + Cardinality(Asking(m)') <= peak'
  BY DEF FootprintIsPeakUse
<1> DEFINE Within == Cardinality(Footprint(m)') + Cardinality(Asking(m)') <= peak'
           Less == Footprint(m)' \subseteq Footprint(m) /\ Asking(m)' \subseteq Asking(m)
<1>1. TypeOK /\ IsFiniteSet(held) /\ Travelling
  BY DEF PoolInv
<1>2. Less => Within
  BY <1>1, NothingNew
<1>3. ASSUME NEW t \in Threads, NEW n \in Sizes, FindNone(t, n) PROVE Within
  BY <1>3, FindNoneWithinPeak
<1>4. ASSUME NEW t \in Threads, NEW a \in Addrs, HeapAlloc(t, a) PROVE Within
  BY <1>4, HeapAllocWithinPeak
<1>5. ASSUME NEW t \in Threads, NEW n \in Sizes, NEW e \in Entries, FindBudget(t, n, e) PROVE Less
  BY <1>1, <1>5 DEF FindBudget, Move, Footprint, Asking, TypeOK
<1>6. ASSUME NEW t \in Threads, NEW a \in Addrs, FreeWild(t, a) PROVE Less
  BY <1>1, <1>6 DEF FreeWild, Move, Footprint, Asking, TypeOK
<1>7. ASSUME NEW t \in Threads, NEW e \in Entries, FreeFound(t, e) PROVE Less
  BY <1>1, <1>7 DEF FreeFound, Move, Footprint, Asking, TypeOK
<1>8. ASSUME NEW t \in Threads, PayOut(t) PROVE Less
  BY <1>1, <1>8 DEF PayOut, Move, Finish, Footprint, Asking, TypeOK
<1>9. ASSUME NEW t \in Threads, ReturnBudget(t) PROVE Less
  BY <1>1, <1>9 DEF ReturnBudget, Move, Finish, Footprint, Asking, TypeOK
<1>10. ASSUME NEW t \in Threads, HeapFree(t) PROVE Less
  BY <1>1, <1>10 DEF HeapFree, Move, Finish, Footprint, Asking, TypeOK
<1>11. ASSUME NEW t \in Threads, Clear(t) PROVE Less
  BY <1>11 DEF Clear, ReleaseBudgets, calls, Footprint, Asking
<1>12. ASSUME NEW r \in Ratios, SetRatio(r) PROVE Less
  BY <1>12 DEF SetRatio, calls, Footprint, Asking
<1>13. ASSUME NEW a \in Addrs, AllocForeign(a) PROVE Less
  BY <1>13 DEF AllocForeign, calls, Footprint, Asking
<1>14. ASSUME Destroy PROVE Less
  BY <1>14 DEF Destroy, ReleaseBudgets, calls, Footprint, Asking
<1>15. ASSUME UNCHANGED vars PROVE Less
  BY <1>15 DEF vars, calls, Footprint, Asking
<1>16. ASSUME Aborts PROVE Less
  BY <1>16 DEF Aborts, calls, Footprint, Asking
<1> HIDE DEF Less, Within
<1>17. Within
  BY <1>2, <1>3, <1>4, <1>5, <1>6, <1>7, <1>8, <1>9, <1>10, <1>11, <1>12, <1>13, <1>14, <1>15,
     <1>16 DEF Next, InvalidRatio, NoGPU
<1> QED
  BY <1>17 DEF Within

(* Of no size does the pool get more blocks than were used at one time.    *)
THEOREM FootprintIsBounded == Spec => []FootprintIsPeakUse
<1>1. Init => FootprintIsPeakUse
  <2> SUFFICES ASSUME Init, NEW n \in Sizes
               PROVE  Cardinality(Footprint(n)) + Cardinality(Asking(n)) <= peak
    BY DEF FootprintIsPeakUse
  <2>1. Footprint(n) = {} /\ Asking(n) = {}
    BY DEF Init, Footprint, Asking
  <2> QED
    BY <2>1, FS_EmptySet DEF Init
<1>2. PoolInv /\ FootprintIsPeakUse /\ [Next]_vars => FootprintIsPeakUse'
  BY FootprintStep
<1> QED
  BY <1>1, <1>2, PoolInvariant, PTL DEF Spec
-----------------------------------------------------------------------------
(* The pool implements the store of blocks.                                *)

ForeignUse == {<<block[a], a>> : a \in foreign}
UsedBlocks == held \cup ForeignUse

(* The abstract step, in the terms of the refinement mapping.              *)
StoreStep == Store!Next \/ UNCHANGED <<block, UsedBlocks>>

LEMMA UsersAre == Store!InUse = AddrsOf(held) \cup foreign
<1>1. {u[2] : u \in ForeignUse} = foreign
  <2>1. \A u \in ForeignUse : u[2] \in foreign
    BY DEF ForeignUse
  <2>2. ASSUME NEW a \in foreign PROVE a \in {u[2] : u \in ForeignUse}
    <3>1. PICK e : e = <<block[a], a>>
      OBVIOUS
    <3>2. e \in ForeignUse /\ e[2] = a
      BY <3>1 DEF ForeignUse
    <3> QED
      BY <3>2
  <2> QED
    BY <2>1, <2>2
<1>2. {u[2] : u \in held \cup ForeignUse} = {u[2] : u \in held} \cup {u[2] : u \in ForeignUse}
  OBVIOUS
<1> QED
  BY <1>1, <1>2 DEF Store!InUse, AddrsOf, ForeignUse

(* Blocks in use are those of the pool that are paid out, and the foreign. *)
LEMMA InUseFacts ==
  ASSUME PoolInv
  PROVE  /\ Owned /\ TypeOK /\ Travelling
         /\ Store!InUse = AddrsOf(payouts) \cup foreign
         /\ Store!InUse \subseteq Addrs
         /\ \A a \in Store!InUse : block[a] # 0
         /\ Store!InUse \cap AddrsOf(budgets) = {}
         /\ \A t \in Threads : Store!InUse \cap Carried(t) = {}
<1>1. Owned /\ TypeOK /\ Travelling
  BY OneOwnerParts DEF PoolInv, Owned
<1>2. Store!InUse = AddrsOf(payouts) \cup foreign
  BY <1>1, UsersAre DEF Owned, HeldOnce
<1>3. Store!InUse \subseteq Addrs
  BY <1>1, <1>2, AddrsOfType DEF TypeOK
<1>4. \A a \in Store!InUse : block[a] # 0
  BY <1>1, <1>2, <1>3 DEF Owned, Accounted
<1>5. Store!InUse \cap AddrsOf(budgets) = {}
  BY <1>1, <1>2, <1>3 DEF Owned, Apart
<1>6. \A t \in Threads : Store!InUse \cap Carried(t) = {}
  BY <1>1, <1>2, <1>3 DEF Owned, Apart
<1> QED
  BY <1>1, <1>2, <1>3, <1>4, <1>5, <1>6

(* Memory that changes where nobody uses it leaves the blocks in use.      *)
LEMMA SameUse ==
  ASSUME held' = held, foreign' = foreign, \A a \in foreign : block'[a] = block[a]
  PROVE  UsedBlocks' = UsedBlocks
  BY DEF UsedBlocks, ForeignUse

LEMMA InvisibleToStore ==
  ASSUME UNCHANGED <<block, held, foreign>> PROVE StoreStep
<1>1. UsedBlocks' = UsedBlocks
  BY SameUse
<1> QED
  BY <1>1 DEF StoreStep

LEMMA HeapAllocGrows ==
  ASSUME PoolInv, NEW t \in Threads, NEW a \in Addrs, HeapAlloc(t, a)
  PROVE  StoreStep
<1>1. moving[t][1] \in Sizes
  BY DEF PoolInv, Travelling, HeapAlloc
<1>2. a \notin foreign
  BY InUseFacts DEF HeapAlloc
<1>3. UsedBlocks' = UsedBlocks
  BY <1>2, InUseFacts, SameUse DEF HeapAlloc, TypeOK
<1>4. Store!Grow(a)
  BY <1>1, <1>3 DEF HeapAlloc, Store!Grow, UsedBlocks, ForeignUse
<1> QED
  BY <1>4 DEF StoreStep, Store!Next

LEMMA PayOutHandsOut ==
  ASSUME PoolInv, NEW t \in Threads, PayOut(t)
  PROVE  StoreStep
<1>1. /\ moving[t] \in Entries /\ block[moving[t][2]] = moving[t][1]
      /\ request[t] \in Sizes /\ request[t] <= moving[t][1]
  BY DEF PoolInv, Travelling, PayOut
<1>2. moving[t][2] \in Addrs /\ moving[t][2] \in Carried(t)
  BY <1>1 DEF Entries, Carried, PayOut
<1>3. PICK n \in Sizes, a \in Addrs : n = request[t] /\ a = moving[t][2]
  BY <1>1, <1>2
<1>4. a \notin Store!InUse
  BY <1>2, <1>3, InUseFacts
<1>5. block[a] >= n
  BY <1>1, <1>3, PoolAllocatorAssumption DEF Entries
<1>6. UsedBlocks' = UsedBlocks \cup {<<n, a>>}
  BY <1>3 DEF PayOut, UsedBlocks, ForeignUse
<1>7. Store!HandOut(n, a)
  BY <1>4, <1>5, <1>6 DEF PayOut, Store!HandOut, UsedBlocks, ForeignUse
<1> QED
  BY <1>7 DEF StoreStep, Store!Next

LEMMA GiveUpTakesBack ==
  ASSUME PoolInv, NEW a \in Addrs, InUse(a), GiveUp(a), block' = block
  PROVE  StoreStep
<1>1. a \in Store!InUse
  BY UsersAre DEF InUse
<1>2. ForeignUse' = {u \in ForeignUse : u[2] # a}
  BY DEF ForeignUse, GiveUp
<1>3. UsedBlocks' = {u \in UsedBlocks : u[2] # a}
  BY <1>2 DEF UsedBlocks, GiveUp
<1>4. Store!TakeBack(a)
  BY <1>1, <1>3 DEF Store!TakeBack, UsedBlocks, ForeignUse
<1> QED
  BY <1>4 DEF StoreStep, Store!Next

LEMMA UnusedShrinks ==
  ASSUME PoolInv, NEW S \in SUBSET Addrs, S \cap Store!InUse = {},
         block' = [a \in Addrs |-> IF a \in S THEN 0 ELSE block[a]],
         held' = held, foreign' = foreign
  PROVE  StoreStep
<1>1. \A a \in foreign : a \in Addrs /\ a \notin S
  BY InUseFacts
<1>2. UsedBlocks' = UsedBlocks
  BY <1>1, SameUse
<1>3. Store!Shrink(S)
  BY <1>2 DEF Store!Shrink, UsedBlocks, ForeignUse
<1> QED
  BY <1>3 DEF StoreStep, Store!Next

LEMMA AllocForeignGrows ==
  ASSUME PoolInv, NEW a \in Addrs, AllocForeign(a)
  PROVE  StoreStep
<1>1. PICK n \in Sizes : block' = [block EXCEPT ![a] = n]
  BY DEF AllocForeign
<1>2. a \notin Store!InUse /\ block[a] = 0
  BY InUseFacts DEF AllocForeign
<1>3. ForeignUse' = ForeignUse \cup {<<n, a>>}
  <2>1. a \notin foreign /\ foreign \subseteq Addrs
    BY <1>2, InUseFacts
  <2>2. \A b \in foreign : block'[b] = block[b]
    BY <1>1, <2>1, InUseFacts DEF TypeOK
  <2>3. block'[a] = n
    BY <1>1, InUseFacts DEF TypeOK
  <2>4. foreign' = foreign \cup {a}
    BY DEF AllocForeign
  <2> QED
    BY <2>2, <2>3, <2>4 DEF ForeignUse
<1>4. UsedBlocks' = UsedBlocks \cup {<<n, a>>}
  BY <1>3 DEF AllocForeign, UsedBlocks
<1>5. Store!GrowInUse(n, a)
  BY <1>1, <1>2, <1>4 DEF Store!GrowInUse, UsedBlocks, ForeignUse
<1> QED
  BY <1>5 DEF StoreStep, Store!Next

(* Every step of the pool is a step of the store, or invisible to it.      *)
LEMMA PoolStepIsStoreStep ==
  ASSUME PoolInv, [Next]_vars PROVE StoreStep
<1>1. ASSUME NEW t \in Threads, NEW n \in Sizes, FindNone(t, n) PROVE StoreStep
  BY <1>1, InvisibleToStore DEF FindNone
<1>2. ASSUME NEW t \in Threads, NEW n \in Sizes, NEW e \in Entries, FindBudget(t, n, e)
      PROVE  StoreStep
  BY <1>2, InvisibleToStore DEF FindBudget
<1>3. ASSUME NEW t \in Threads, NEW a \in Addrs, HeapAlloc(t, a) PROVE StoreStep
  BY <1>3, HeapAllocGrows
<1>4. ASSUME NEW t \in Threads, NEW a \in Addrs, FreeWild(t, a) PROVE StoreStep
  BY <1>4, GiveUpTakesBack DEF FreeWild
<1>5. ASSUME NEW t \in Threads, NEW e \in Entries, FreeFound(t, e) PROVE StoreStep
  BY <1>5, GiveUpTakesBack DEF FreeFound, Entries
<1>6. ASSUME NEW t \in Threads, PayOut(t) PROVE StoreStep
  BY <1>6, PayOutHandsOut
<1>7. ASSUME NEW t \in Threads, ReturnBudget(t) PROVE StoreStep
  BY <1>7, InvisibleToStore DEF ReturnBudget
<1>8. ASSUME NEW t \in Threads, HeapFree(t) PROVE StoreStep
  <2> DEFINE S == {moving[t][2]}
  <2>1. S \in SUBSET Addrs /\ S = Carried(t)
    BY <1>8 DEF HeapFree, PoolInv, Travelling, Carried
  <2>2. block' = [a \in Addrs |-> IF a \in S THEN 0 ELSE block[a]]
    BY <1>8, InUseFacts DEF HeapFree, TypeOK
  <2> QED
    BY <1>8, <2>1, <2>2, InUseFacts, UnusedShrinks DEF HeapFree
<1>9. ASSUME ReleaseBudgets, UNCHANGED <<held, foreign>> PROVE StoreStep
  <2>1. AddrsOf(budgets) \in SUBSET Addrs
    BY AddrsOfType DEF PoolInv, TypeOK
  <2> QED
    BY <1>9, <2>1, InUseFacts, UnusedShrinks DEF ReleaseBudgets
<1>10. ASSUME NEW t \in Threads, Clear(t) PROVE StoreStep
  BY <1>9, <1>10 DEF Clear
<1>11. ASSUME Destroy PROVE StoreStep
  BY <1>9, <1>11 DEF Destroy
<1>12. ASSUME NEW r \in Ratios, SetRatio(r) PROVE StoreStep
  BY <1>12, InvisibleToStore DEF SetRatio
<1>13. ASSUME NEW a \in Addrs, AllocForeign(a) PROVE StoreStep
  BY <1>13, AllocForeignGrows
<1>14. ASSUME UNCHANGED vars PROVE StoreStep
  BY <1>14, InvisibleToStore DEF vars
<1>15. ASSUME Aborts PROVE StoreStep
  BY <1>15, InvisibleToStore DEF Aborts
<1> QED
  BY <1>1, <1>2, <1>3, <1>4, <1>5, <1>6, <1>7, <1>8, <1>10, <1>11, <1>12, <1>13, <1>14, <1>15
  DEF Next, InvalidRatio, NoGPU

(* The pool keeps what an allocator promises: a block somebody has is not  *)
(* handed out again, resized or given back to the heap.                    *)
THEOREM PoolImplementsStore == Spec => ImplementsStore
<1>1. Init => Store!Init
  BY DEF Init, Store!Init
<1>2. PoolInv /\ [Next]_vars => StoreStep
  BY PoolStepIsStoreStep
<1>3. StoreStep => [Store!Next]_<<block, held \cup {<<block[a], a>> : a \in foreign}>>
  BY DEF StoreStep, UsedBlocks, ForeignUse
<1> QED
  BY <1>1, <1>2, <1>3, PoolInvariant, PTL DEF Spec, ImplementsStore, Store!Spec

(* "pool allocator get wild" is said of what the pool never handed out,    *)
(* and of that only: a block of the pool that somebody frees is always in  *)
(* the payouts when it is looked for there.                                *)
THEOREM WildIsForeign ==
  Spec => [][\A t \in Threads, a \in Addrs : FreeWild(t, a) => a \in foreign]_vars
<1>1. PoolInv => \A t \in Threads, a \in Addrs : FreeWild(t, a) => a \in foreign
  BY OneOwnerParts DEF PoolInv, HeldOnce, FreeWild, InUse
<1> QED
  BY <1>1, PoolInvariant, PTL
=============================================================================
