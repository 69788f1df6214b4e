------------------------- MODULE PluginManagerProofs -------------------------
(***************************************************************************)
(* The safety of the plugin manager for every number of threads and        *)
(* addresses.  IInv is inductive: the reference counts are exact, so a     *)
(* release that reaches zero is the last one and destroys an object that   *)
(* nothing points to.                                                      *)
(***************************************************************************)
EXTENDS PluginManager, FiniteSetTheorems, TLAPS

Holding == {"init", "publish", "call", "drop"}

(* Which of its pointers a thread has set at each place.                   *)
FramesOK ==
  \A t \in Threads :
    /\ pc[t] \in Holding <=> ref[t] # NoInst
    /\ pc[t] = "destroy" <=> doomed[t] # NoInst
    /\ pc[t] \in {"lookup", "find", "erase"} => arg[t] # NoInst
    /\ pc[t] \in {"lookup", "find", "erase"} => outcome[t] = "none"
    /\ pc[t] = "find" => held[t] = NoInst

(* The identifier an instance is stored under is its address.              *)
KeyIsAddress ==
  \A a \in Addrs : registry[a] # NoInst => AddrOf(registry[a]) = a

(* The object whose destructor runs is dying, and only one thread runs it. *)
DoomedDying ==
  /\ \A t \in Threads :
       doomed[t] # NoInst => /\ heap[AddrOf(doomed[t])] = "dying"
                             /\ gen[AddrOf(doomed[t])] = GenOf(doomed[t])
  /\ \A t, u \in Threads :
       /\ t # u
       /\ doomed[t] # NoInst
       /\ doomed[u] # NoInst
       => AddrOf(doomed[t]) # AddrOf(doomed[u])

(* Until it is published, an object is referenced by its creator only.     *)
CreatorAlone ==
  \A t \in Threads :
    pc[t] \in {"init", "publish"} => Holders(AddrOf(ref[t])) = {<<t, "local">>}

IInv == /\ TypeOK
        /\ FramesOK
        /\ KeyIsAddress
        /\ NoDanglingReference
        /\ RefCountExact
        /\ DoomedDying
        /\ CreatorAlone
-----------------------------------------------------------------------------
(* Holders is a finite set, so its cardinality is a number.                *)
LEMMA HoldersFinite ==
  ASSUME NEW a
  PROVE  IsFiniteSet(Holders(a))
<1>1. IsFiniteSet(Threads \X {"local", "held"})
  <2>1. IsFiniteSet({"local", "held"})
    <3>1. {"local", "held"} = {"local"} \cup {"held"}
      OBVIOUS
    <3>2. IsFiniteSet({"local"})
      BY FS_Singleton
    <3>3. IsFiniteSet({"local"} \cup {"held"})
      BY <3>2, FS_AddElement
    <3>4. QED
      BY <3>1, <3>3
  <2>2. QED
    BY <2>1, FS_Product, PluginManagerAssumption
<1>2. IsFiniteSet(Tokens)
  BY <1>1, FS_AddElement DEF Tokens
<1>3. Holders(a) \in SUBSET Tokens
  BY DEF Holders
<1>4. QED
  BY <1>2, <1>3, FS_Subset

(* A step that moves no pointer and touches no object keeps the reference  *)
(* counting facts.                                                         *)
LEMMA PointersKept ==
  ASSUME IInv, UNCHANGED <<heap, gen, rc, registry, ref, doomed, held>>
  PROVE  /\ KeyIsAddress' /\ NoDanglingReference' /\ RefCountExact' /\ DoomedDying'
         /\ \A a \in Addrs : Holders(a)' = Holders(a)
<1>1. \A a \in Addrs : Holders(a)' = Holders(a)
  BY DEF Holders, Pointer, Tokens
<1>2. KeyIsAddress' /\ DoomedDying'
  BY DEF IInv, KeyIsAddress, DoomedDying
<1>3. NoDanglingReference'
  BY DEF IInv, NoDanglingReference, Pointer, PointsToLiving
<1>4. RefCountExact'
  BY <1>1 DEF IInv, RefCountExact
<1>5. QED
  BY <1>1, <1>2, <1>3, <1>4

(* add_ref on an object some pointer already holds, for a new pointer k.   *)
LEMMA ReferenceAdded ==
  ASSUME IInv, NEW i \in Instances, NEW k \in Tokens,
         PointsToLiving(i), AddRef(i), UNCHANGED <<heap, gen, doomed>>,
         k \notin Holders(AddrOf(i)),
         \A a \in Addrs : Holders(a)' = IF a = AddrOf(i) THEN Holders(a) \cup {k}
                                                        ELSE Holders(a),
         \A a \in Addrs : \A l \in Tokens :
           Pointer(l, a)' \in {NoInst, i, Pointer(l, a)}
  PROVE  /\ rc' \in [Addrs -> Nat]
         /\ NoDanglingReference' /\ RefCountExact' /\ DoomedDying'
<1>1. AddrOf(i) \in Addrs
  BY DEF Instances, AddrOf
<1>2. rc' = [rc EXCEPT ![AddrOf(i)] = rc[AddrOf(i)] + 1] /\ rc \in [Addrs -> Nat]
  BY DEF AddRef, IInv, TypeOK
<1>3. DoomedDying'
  BY DEF IInv, DoomedDying
<1>4. NoDanglingReference'
  BY DEF IInv, NoDanglingReference, PointsToLiving
<1>5. RefCountExact'
  <2> SUFFICES ASSUME NEW a \in Addrs
               PROVE  /\ rc'[a] = Cardinality(Holders(a)')
                      /\ heap'[a] = "live" <=> rc'[a] > 0
    BY DEF RefCountExact
  <2>1. CASE a = AddrOf(i)
    <3>1. Cardinality(Holders(a) \cup {k}) = Cardinality(Holders(a)) + 1
      BY <2>1, HoldersFinite, FS_AddElement
    <3>2. QED
      BY <1>1, <1>2, <2>1, <3>1 DEF IInv, RefCountExact, PointsToLiving
  <2>2. CASE a # AddrOf(i)
    BY <1>2, <2>2 DEF IInv, RefCountExact
  <2>3. QED
    BY <2>1, <2>2
<1>6. QED
  BY <1>1, <1>2, <1>3, <1>4, <1>5

(* Thread t releases the pointer k to the object i.  If the counter gets   *)
(* to zero, k was the only pointer and the object may die.                 *)
LEMMA ReferenceReleased ==
  ASSUME IInv, NEW t \in Threads, NEW i \in Instances, NEW k \in Holders(AddrOf(i)),
         PointsToLiving(i), ReleaseRef(t, i), doomed[t] = NoInst,
         \A a \in Addrs : Holders(a)' = IF a = AddrOf(i) THEN Holders(a) \ {k}
                                                        ELSE Holders(a),
         \A a \in Addrs : \A l \in Tokens :
           Pointer(l, a)' \in {NoInst, Pointer(l, a)},
         KeyIsAddress'
  PROVE  /\ rc' \in [Addrs -> Nat]
         /\ heap' \in [Addrs -> {"free", "live", "dying"}]
         /\ doomed' \in [Threads -> Instances \cup {NoInst}]
         /\ NoDanglingReference' /\ RefCountExact' /\ DoomedDying'
<1> DEFINE b == AddrOf(i)
<1>1. b \in Addrs /\ i # NoInst
  BY PluginManagerAssumption DEF Instances, AddrOf
<1>2. /\ rc' = [rc EXCEPT ![b] = rc[b] - 1]
      /\ heap' = IF rc[b] = 1 THEN [heap EXCEPT ![b] = "dying"] ELSE heap
      /\ doomed' = IF rc[b] = 1 THEN [doomed EXCEPT ![t] = i] ELSE doomed
      /\ gen' = gen
  BY DEF ReleaseRef, LastRef
<1>3. /\ rc \in [Addrs -> Nat] /\ rc[b] > 0 /\ heap[b] = "live"
      /\ heap \in [Addrs -> {"free", "live", "dying"}]
      /\ doomed \in [Threads -> Instances \cup {NoInst}]
      /\ rc[b] = Cardinality(Holders(b))
  BY <1>1 DEF IInv, TypeOK, PointsToLiving, RefCountExact
<1>4. /\ rc' \in [Addrs -> Nat]
      /\ heap' \in [Addrs -> {"free", "live", "dying"}]
      /\ doomed' \in [Threads -> Instances \cup {NoInst}]
  BY <1>1, <1>2, <1>3
<1>5. Cardinality(Holders(b) \ {k}) = rc[b] - 1 /\ IsFiniteSet(Holders(b) \ {k})
  BY <1>3, HoldersFinite, FS_RemoveElement
<1>6. RefCountExact'
  <2> SUFFICES ASSUME NEW a \in Addrs
               PROVE  /\ rc'[a] = Cardinality(Holders(a)')
                      /\ heap'[a] = "live" <=> rc'[a] > 0
    BY DEF RefCountExact
  <2>1. CASE a = b
    BY <1>1, <1>2, <1>3, <1>5, <2>1
  <2>2. CASE a # b
    BY <1>1, <1>2, <1>3, <2>2 DEF IInv, RefCountExact
  <2>3. QED
    BY <2>1, <2>2
<1>7. NoDanglingReference'
  <2> SUFFICES ASSUME NEW a \in Addrs, NEW l \in Tokens, Pointer(l, a)' # NoInst
               PROVE  PointsToLiving(Pointer(l, a))'
    BY DEF NoDanglingReference
  <2> DEFINE p == Pointer(l, a)
  <2>1. p' = p /\ p # NoInst /\ PointsToLiving(p)
    BY DEF IInv, NoDanglingReference
  <2>2. CASE AddrOf(p) # b \/ rc[b] # 1
    BY <1>1, <1>2, <1>3, <2>1, <2>2 DEF PointsToLiving
  <2>3. CASE AddrOf(p) = b /\ rc[b] = 1
    <3>1. Holders(b)' = {}
      BY <1>1, <1>3, <1>5, <2>3, FS_EmptySet
    <3>2. l \in Holders(b)'
      BY <1>1, <2>1, <2>3 DEF Holders, Pointer, KeyIsAddress
    <3>3. QED
      BY <3>1, <3>2
  <2>4. QED
    BY <2>2, <2>3
<1>8. DoomedDying'
  <2>1. \A u \in Threads : u # t /\ doomed[u] # NoInst => AddrOf(doomed[u]) # b
    BY <1>3 DEF IInv, DoomedDying
  <2>2. \A u \in Threads : doomed[u] # NoInst => AddrOf(doomed[u]) \in Addrs
    BY <1>3 DEF Instances, AddrOf
  <2>3. CASE rc[b] = 1
    BY <1>1, <1>2, <1>3, <2>1, <2>2, <2>3 DEF IInv, DoomedDying, PointsToLiving
  <2>4. CASE rc[b] # 1
    BY <1>2, <2>4 DEF IInv, DoomedDying
  <2>5. QED
    BY <2>3, <2>4
<1>9. QED
  BY <1>4, <1>6, <1>7, <1>8
-----------------------------------------------------------------------------
(* The initial states satisfy IInv: nothing exists yet.                    *)
LEMMA InitIInv == Init => IInv
<1> SUFFICES ASSUME Init PROVE IInv
  OBVIOUS
<1>1. \A a \in Addrs : Holders(a) = {}
  BY DEF Init, Holders, Pointer, Tokens
<1>2. TypeOK /\ FramesOK /\ KeyIsAddress /\ DoomedDying /\ CreatorAlone
  BY PluginManagerAssumption
     DEF Init, TypeOK, FramesOK, Holding, KeyIsAddress, DoomedDying, CreatorAlone, Labels
<1>3. NoDanglingReference
  BY DEF Init, NoDanglingReference, Pointer, Tokens
<1>4. RefCountExact
  BY <1>1, FS_EmptySet DEF Init, RefCountExact
<1>5. QED
  BY <1>2, <1>3, <1>4 DEF IInv

(* Steps that only move a thread from one place to another.                *)
LEMMA ControlStep ==
  ASSUME IInv, UNCHANGED <<heap, gen, rc, registry, ref, doomed, held>>,
         TypeOK', FramesOK',
         \A u \in Threads : pc'[u] \in {"init", "publish"} => pc[u] \in {"init", "publish"}
  PROVE  IInv'
<1>1. /\ KeyIsAddress' /\ NoDanglingReference' /\ RefCountExact' /\ DoomedDying'
      /\ \A a \in Addrs : Holders(a)' = Holders(a)
  BY PointersKept
<1>2. CreatorAlone'
  <2> SUFFICES ASSUME NEW u \in Threads, pc'[u] \in {"init", "publish"}
               PROVE  Holders(AddrOf(ref[u]))' = {<<u, "local">>}
    BY DEF CreatorAlone
  <2>1. Holders(AddrOf(ref[u])) = {<<u, "local">>}
    BY DEF IInv, CreatorAlone
  <2>2. AddrOf(ref[u]) \in Addrs
    BY DEF IInv, TypeOK, FramesOK, Holding, Instances, AddrOf
  <2>3. QED
    BY <1>1, <2>1, <2>2
<1>3. QED
  BY <1>1, <1>2 DEF IInv

(* create_algo_instance, execute, lookup and release: the control steps.   *)
LEMMA ControlActions ==
  ASSUME IInv, NEW t \in Threads, NEW h \in Instances,
         \/ CreateUnsupported(t) \/ InitPlugin(t) \/ InitThrows(t) \/ PublishThrows(t)
         \/ CallExecute(t, h) \/ PluginExecute(t) \/ CallLookup(t, h) \/ CallRelease(t, h)
  PROVE  IInv'
<1> USE PluginManagerAssumption DEF IInv, TypeOK, FramesOK, Holding, Labels, objects, clients, Goto, Answer
<1>1. CASE CreateUnsupported(t)
  BY <1>1, ControlStep DEF CreateUnsupported
<1>2. CASE InitPlugin(t)
  BY <1>2, ControlStep DEF InitPlugin
<1>3. CASE InitThrows(t)
  BY <1>3, ControlStep DEF InitThrows
<1>4. CASE PublishThrows(t)
  BY <1>4, ControlStep DEF PublishThrows
<1>5. CASE CallExecute(t, h)
  BY <1>5, ControlStep DEF CallExecute, MayUse
<1>6. CASE PluginExecute(t)
  BY <1>6, ControlStep DEF PluginExecute
<1>7. CASE CallLookup(t, h)
  BY <1>7, ControlStep DEF CallLookup, MayUse
<1>8. CASE CallRelease(t, h)
  BY <1>8, ControlStep DEF CallRelease, MayRelease, MayUse
<1>9. QED
  BY <1>1, <1>2, <1>3, <1>4, <1>5, <1>6, <1>7, <1>8

(* What an address in use tells about its object.                          *)
LEMMA RegisteredIsHeld ==
  ASSUME IInv, NEW a \in Addrs, registry[a] # NoInst
  PROVE  /\ registry[a] \in Instances
         /\ AddrOf(registry[a]) = a
         /\ PointsToLiving(registry[a])
         /\ <<NoThread, "map">> \in Holders(a)
<1>1. registry[a] \in Instances /\ AddrOf(registry[a]) = a
  BY DEF IInv, TypeOK, KeyIsAddress
<1>2. <<NoThread, "map">> \in Tokens /\ Pointer(<<NoThread, "map">>, a) = registry[a]
  BY DEF Tokens, Pointer
<1>3. QED
  BY <1>1, <1>2 DEF IInv, NoDanglingReference, Holders

LEMMA LocalIsHeld ==
  ASSUME IInv, NEW t \in Threads, ref[t] # NoInst
  PROVE  /\ ref[t] \in Instances
         /\ AddrOf(ref[t]) \in Addrs
         /\ PointsToLiving(ref[t])
         /\ <<t, "local">> \in Holders(AddrOf(ref[t]))
<1>1. ref[t] \in Instances /\ AddrOf(ref[t]) \in Addrs
  BY DEF IInv, TypeOK, Instances, AddrOf
<1>2. /\ <<t, "local">> \in Tokens
      /\ \A a \in Addrs : Pointer(<<t, "local">>, a) = ref[t]
  BY DEF Tokens, Pointer
<1>3. QED
  BY <1>1, <1>2 DEF IInv, NoDanglingReference, Holders

LEMMA LookedUpIsHeld ==
  ASSUME IInv, NEW t \in Threads, held[t] # NoInst
  PROVE  /\ held[t] \in Instances
         /\ AddrOf(held[t]) \in Addrs
         /\ PointsToLiving(held[t])
         /\ <<t, "held">> \in Holders(AddrOf(held[t]))
<1>1. held[t] \in Instances /\ AddrOf(held[t]) \in Addrs
  BY DEF IInv, TypeOK, Instances, AddrOf
<1>2. /\ <<t, "held">> \in Tokens
      /\ \A a \in Addrs : Pointer(<<t, "held">>, a) = held[t]
  BY DEF Tokens, Pointer
<1>3. QED
  BY <1>1, <1>2 DEF IInv, NoDanglingReference, Holders

(* A step that gives or takes a pointer at an address with a holder other  *)
(* than a creator leaves every creator alone with its object.              *)
LEMMA CreatorsKept ==
  ASSUME IInv, NEW b \in Addrs, NEW k \in Holders(b),
         \A u \in Threads : pc'[u] \in {"init", "publish"} =>
           pc[u] \in {"init", "publish"} /\ ref'[u] = ref[u] /\ k # <<u, "local">>,
         \A a \in Addrs : a # b => Holders(a)' = Holders(a)
  PROVE  CreatorAlone'
<1> SUFFICES ASSUME NEW u \in Threads, pc'[u] \in {"init", "publish"}
             PROVE  Holders(AddrOf(ref[u]))' = {<<u, "local">>}
  BY DEF CreatorAlone
<1>1. Holders(AddrOf(ref[u])) = {<<u, "local">>} /\ ref'[u] = ref[u]
  BY DEF IInv, CreatorAlone
<1>2. AddrOf(ref[u]) \in Addrs
  BY DEF IInv, TypeOK, FramesOK, Holding, Instances, AddrOf
<1>3. AddrOf(ref[u]) # b
  BY <1>1
<1>4. QED
  BY <1>1, <1>2, <1>3

(* create_algo_instance: the loader constructs an object at a free address.*)
LEMMA CreateObjectIInv ==
  ASSUME IInv, NEW t \in Threads, NEW a \in Addrs, CreateObject(t, a)
  PROVE  IInv'
<1> DEFINE i == <<a, gen[a] + 1>>
<1>1. /\ i \in Instances /\ AddrOf(i) = a /\ GenOf(i) = gen[a] + 1 /\ i # NoInst
      /\ ref[t] = NoInst
  BY PluginManagerAssumption
     DEF CreateObject, IInv, TypeOK, FramesOK, Holding, Instances, AddrOf, GenOf
<1>2. TypeOK'
  <2>1. gen[a] + 1 \in 0..MaxGen
    BY PluginManagerAssumption DEF IInv, TypeOK, CreateObject
  <2>2. QED
    BY <1>1, <2>1 DEF IInv, TypeOK, CreateObject, Goto, Answer, Labels, clients
<1>3. FramesOK'
  BY <1>1 DEF IInv, TypeOK, FramesOK, Holding, CreateObject, Goto, Answer
<1>4. KeyIsAddress'
  BY DEF IInv, KeyIsAddress, CreateObject
<1>5. rc[a] = 0 /\ Holders(a) = {}
  <2>1. rc[a] = 0
    BY DEF IInv, TypeOK, RefCountExact, CreateObject
  <2>2. QED
    BY <2>1, HoldersFinite, FS_EmptySet DEF IInv, RefCountExact
<1>6. \A b \in Addrs : Holders(b)' = IF b = a THEN {<<t, "local">>} ELSE Holders(b)
  <2> SUFFICES ASSUME NEW b \in Addrs
               PROVE  Holders(b)' = IF b = a THEN {<<t, "local">>} ELSE Holders(b)
    OBVIOUS
  <2>1. \A l \in Tokens : Pointer(l, b)' = IF l = <<t, "local">> THEN i ELSE Pointer(l, b)
    BY DEF IInv, TypeOK, Pointer, Tokens, CreateObject
  <2>2. <<t, "local">> \in Tokens /\ <<t, "local">> \notin Holders(b)
    BY <1>1 DEF Tokens, Holders, Pointer
  <2>3. QED
    BY <1>1, <1>5, <2>1, <2>2 DEF Holders
<1>7. NoDanglingReference'
  <2> SUFFICES ASSUME NEW b \in Addrs, NEW l \in Tokens, Pointer(l, b)' # NoInst
               PROVE  PointsToLiving(Pointer(l, b))'
    BY DEF NoDanglingReference
  <2>1. CASE l = <<t, "local">>
    BY <1>1, <2>1 DEF IInv, TypeOK, Pointer, PointsToLiving, CreateObject
  <2>2. CASE l # <<t, "local">>
    <3>1. Pointer(l, b)' = Pointer(l, b)
      BY <2>2 DEF IInv, TypeOK, Pointer, Tokens, CreateObject
    <3>2. PointsToLiving(Pointer(l, b))
      BY <3>1 DEF IInv, NoDanglingReference
    <3>3. AddrOf(Pointer(l, b)) # a
      BY <3>2 DEF PointsToLiving, CreateObject
    <3>4. QED
      BY <3>1, <3>2, <3>3 DEF IInv, TypeOK, PointsToLiving, CreateObject
  <2>3. QED
    BY <2>1, <2>2
<1>8. RefCountExact'
  <2>1. Cardinality({<<t, "local">>}) = 1
    BY FS_Singleton
  <2>2. /\ rc' = [rc EXCEPT ![a] = 1] /\ rc \in [Addrs -> Nat]
        /\ heap' = [heap EXCEPT ![a] = "live"] /\ heap \in [Addrs -> {"free", "live", "dying"}]
    BY DEF IInv, TypeOK, CreateObject
  <2>3. \A b \in Addrs : rc'[b] = Cardinality(Holders(b)') /\ (heap'[b] = "live" <=> rc'[b] > 0)
    BY <1>6, <2>1, <2>2 DEF IInv, RefCountExact
  <2>4. QED
    BY <2>3 DEF RefCountExact
<1>9. DoomedDying'
  BY DEF IInv, TypeOK, DoomedDying, CreateObject, Instances, AddrOf, GenOf
<1>10. CreatorAlone'
  <2> SUFFICES ASSUME NEW u \in Threads, pc'[u] \in {"init", "publish"}
               PROVE  Holders(AddrOf(ref[u]))' = {<<u, "local">>}
    BY DEF CreatorAlone
  <2>1. CASE u = t
    <3>1. ref'[u] = i
      BY <2>1 DEF CreateObject, IInv, TypeOK
    <3>2. QED
      BY <1>1, <1>6, <2>1, <3>1
  <2>2. CASE u # t
    <3>1. pc[u] \in {"init", "publish"} /\ ref'[u] = ref[u]
      BY <2>2 DEF CreateObject, Goto, IInv, TypeOK
    <3>2. Holders(AddrOf(ref[u])) = {<<u, "local">>} /\ ref[u] # NoInst
      BY <3>1 DEF IInv, CreatorAlone, FramesOK, Holding
    <3>3. AddrOf(ref[u]) \in Addrs /\ AddrOf(ref[u]) # a
      BY <1>5, <3>2, LocalIsHeld
    <3>4. QED
      BY <1>6, <3>1, <3>2, <3>3
  <2>3. QED
    BY <2>1, <2>2
<1>11. QED
  BY <1>2, <1>3, <1>4, <1>7, <1>8, <1>9, <1>10 DEF IInv

(* create_algo_instance: the map entry is a second reference.              *)
LEMMA PublishIInv ==
  ASSUME IInv, NEW t \in Threads, Publish(t)
  PROVE  IInv'
<1> DEFINE i == ref[t]
           a == AddrOf(i)
           m == <<NoThread, "map">>
<1>1. /\ pc[t] = "publish" /\ i # NoInst /\ i \in Instances /\ a \in Addrs
      /\ PointsToLiving(i) /\ <<t, "local">> \in Holders(a)
  BY LocalIsHeld DEF IInv, FramesOK, Holding, Publish
<1>2. Holders(a) = {<<t, "local">>} /\ m \notin Holders(a) /\ m \in Tokens
  BY <1>1 DEF IInv, CreatorAlone, Tokens
<1>3. registry[a] = NoInst
  BY <1>1, <1>2, RegisteredIsHeld
<1>4. registry' = [registry EXCEPT ![a] = i] /\ AddRef(i)
  BY <1>3 DEF Publish
<1>5. UNCHANGED <<heap, gen, mutex, ref, doomed, held, arg, issued, released>>
  BY DEF Publish, clients
<1>6. registry \in [Addrs -> Instances \cup {NoInst}]
  BY DEF IInv, TypeOK
<1>7. \A b \in Addrs : \A l \in Tokens :
        Pointer(l, b)' = IF l = m /\ b = a THEN i ELSE Pointer(l, b)
  BY <1>1, <1>4, <1>5, <1>6, PluginManagerAssumption DEF Pointer, Tokens
<1>8. \A b \in Addrs : Holders(b)' = IF b = a THEN Holders(b) \cup {m} ELSE Holders(b)
  BY <1>1, <1>2, <1>7 DEF Holders
<1>9. rc' \in [Addrs -> Nat] /\ NoDanglingReference' /\ RefCountExact' /\ DoomedDying'
  BY <1>1, <1>2, <1>4, <1>5, <1>7, <1>8, ReferenceAdded
<1>10. TypeOK'
  BY <1>1, <1>4, <1>5, <1>9 DEF IInv, TypeOK, Publish, Goto, Answer, Labels
<1>11. FramesOK'
  BY <1>1, <1>5 DEF IInv, TypeOK, FramesOK, Holding, Publish, Goto, Answer
<1>12. KeyIsAddress'
  BY <1>1, <1>4, <1>6 DEF IInv, KeyIsAddress
<1>13. CreatorAlone'
  <2>1. \A u \in Threads : pc'[u] \in {"init", "publish"} =>
          pc[u] \in {"init", "publish"} /\ ref'[u] = ref[u] /\ u # t
    BY <1>5 DEF IInv, TypeOK, Publish, Goto
  <2>2. QED
    BY <1>1, <1>8, <2>1, CreatorsKept
<1>14. QED
  BY <1>9, <1>10, <1>11, <1>12, <1>13 DEF IInv

(* execute: lookup copies the entry under the lock.                        *)
LEMMA LookupExecuteIInv ==
  ASSUME IInv, NEW t \in Threads, LookupExecute(t)
  PROVE  IInv'
<1> DEFINE a == AddrOf(arg[t])
           i == registry[a]
           k == <<t, "local">>
<1>1. /\ pc[t] = "lookup" /\ a \in Addrs /\ outcome[t] = "none" /\ ref[t] = NoInst
      /\ UNCHANGED <<registry, mutex, doomed, held>>
  BY DEF IInv, TypeOK, FramesOK, Holding, LookupExecute, Instances, AddrOf
<1>2. CASE i = NoInst
  <2>1. UNCHANGED <<heap, gen, rc, registry, ref, doomed, held>>
    BY <1>1, <1>2 DEF LookupExecute, objects
  <2>2. TypeOK'
    BY <1>1, <1>2, <2>1 DEF IInv, TypeOK, LookupExecute, Return, Goto, Answer, Labels
  <2>3. FramesOK'
    BY <1>1, <1>2, <2>1 DEF IInv, TypeOK, FramesOK, Holding, LookupExecute, Return, Goto, Answer
  <2>4. \A u \in Threads : pc'[u] \in {"init", "publish"} => pc[u] \in {"init", "publish"}
    BY <1>1, <1>2 DEF IInv, TypeOK, LookupExecute, Return, Goto
  <2>5. QED
    BY <2>1, <2>2, <2>3, <2>4, ControlStep
<1>3. CASE i # NoInst
  <2>1. /\ i \in Instances /\ AddrOf(i) = a /\ PointsToLiving(i)
        /\ <<NoThread, "map">> \in Holders(a)
    BY <1>1, <1>3, RegisteredIsHeld
  <2>2. /\ AddRef(i) /\ ref' = [ref EXCEPT ![t] = i] /\ ref \in [Threads -> Instances \cup {NoInst}]
        /\ UNCHANGED <<heap, gen, arg, outcome, issued, released>>
        /\ pc' = [pc EXCEPT ![t] = "call"]
    BY <1>3 DEF IInv, TypeOK, LookupExecute, clients, Goto
  <2>3. k \in Tokens /\ k \notin Holders(a)
    BY <1>1 DEF Tokens, Holders, Pointer
  <2>4. \A b \in Addrs : \A l \in Tokens : Pointer(l, b)' = IF l = k THEN i ELSE Pointer(l, b)
    BY <1>1, <2>2 DEF Pointer, Tokens
  <2>5. \A b \in Addrs : Pointer(k, b) = NoInst
    BY <1>1 DEF Pointer
  <2>6. \A b \in Addrs : Holders(b)' = IF b = a THEN Holders(b) \cup {k} ELSE Holders(b)
    BY <1>3, <2>1, <2>3, <2>4, <2>5 DEF Holders
  <2>7. rc' \in [Addrs -> Nat] /\ NoDanglingReference' /\ RefCountExact' /\ DoomedDying'
    BY <1>1, <2>1, <2>2, <2>3, <2>4, <2>6, ReferenceAdded
  <2>8. TypeOK'
    BY <1>1, <2>1, <2>2, <2>7 DEF IInv, TypeOK, Labels
  <2>9. FramesOK'
    BY <1>1, <1>3, <2>2 DEF IInv, TypeOK, FramesOK, Holding
  <2>10. KeyIsAddress'
    BY <1>1 DEF IInv, KeyIsAddress
  <2>11. CreatorAlone'
    <3>1. \A u \in Threads : pc'[u] \in {"init", "publish"} =>
            pc[u] \in {"init", "publish"} /\ ref'[u] = ref[u]
      BY <2>2 DEF IInv, TypeOK
    <3>2. \A u \in Threads : <<NoThread, "map">> # <<u, "local">>
      OBVIOUS
    <3>3. QED
      BY <1>1, <2>1, <2>6, <3>1, <3>2, CreatorsKept
  <2>12. QED
    BY <2>7, <2>8, <2>9, <2>10, <2>11 DEF IInv
<1>4. QED
  BY <1>2, <1>3

(* lookup as an operation: the client holds what it returned.              *)
LEMMA LookupHoldIInv ==
  ASSUME IInv, NEW t \in Threads, LookupHold(t)
  PROVE  IInv'
<1> DEFINE a == AddrOf(arg[t])
           i == registry[a]
           k == <<t, "held">>
<1>1. /\ pc[t] = "find" /\ a \in Addrs /\ ref[t] = NoInst /\ held[t] = NoInst
      /\ UNCHANGED <<heap, gen, registry, mutex, ref, doomed, issued, released>>
      /\ held' = [held EXCEPT ![t] = i] /\ held \in [Threads -> Instances \cup {NoInst}]
      /\ i \in Instances \cup {NoInst}
  BY DEF IInv, TypeOK, FramesOK, Holding, LookupHold, clients, Instances, AddrOf
<1>2. rc' \in [Addrs -> Nat] => TypeOK'
  BY <1>1 DEF IInv, TypeOK, LookupHold, Goto, Answer, Labels
<1>3. FramesOK'
  BY <1>1 DEF IInv, TypeOK, FramesOK, Holding, LookupHold, Goto, Answer
<1>4. \A u \in Threads : pc'[u] \in {"init", "publish"} => pc[u] \in {"init", "publish"}
  BY <1>1 DEF IInv, TypeOK, LookupHold, Goto
<1>5. CASE i = NoInst
  <2>1. UNCHANGED <<heap, gen, rc, registry, ref, doomed, held>>
    BY <1>1, <1>5 DEF LookupHold
  <2>2. TypeOK'
    BY <1>2, <2>1 DEF IInv, TypeOK
  <2>3. QED
    BY <1>3, <1>4, <2>1, <2>2, ControlStep
<1>6. CASE i # NoInst
  <2>1. /\ i \in Instances /\ AddrOf(i) = a /\ PointsToLiving(i)
        /\ <<NoThread, "map">> \in Holders(a)
    BY <1>1, <1>6, RegisteredIsHeld
  <2>2. AddRef(i)
    BY <1>6 DEF LookupHold
  <2>3. k \in Tokens /\ k \notin Holders(a)
    BY <1>1 DEF Tokens, Holders, Pointer
  <2>4. \A b \in Addrs : \A l \in Tokens : Pointer(l, b)' = IF l = k THEN i ELSE Pointer(l, b)
    BY <1>1 DEF Pointer, Tokens
  <2>5. \A b \in Addrs : Pointer(k, b) = NoInst
    BY <1>1 DEF Pointer
  <2>6. \A b \in Addrs : Holders(b)' = IF b = a THEN Holders(b) \cup {k} ELSE Holders(b)
    BY <1>6, <2>1, <2>3, <2>4, <2>5 DEF Holders
  <2>7. rc' \in [Addrs -> Nat] /\ NoDanglingReference' /\ RefCountExact' /\ DoomedDying'
    BY <1>1, <2>1, <2>2, <2>3, <2>4, <2>6, ReferenceAdded
  <2>8. KeyIsAddress'
    BY <1>1 DEF IInv, KeyIsAddress
  <2>9. CreatorAlone'
    <3>1. \A u \in Threads : <<NoThread, "map">> # <<u, "local">>
      OBVIOUS
    <3>2. QED
      BY <1>1, <1>4, <2>1, <2>6, <3>1, CreatorsKept
  <2>10. QED
    BY <1>2, <1>3, <2>7, <2>8, <2>9 DEF IInv
<1>7. QED
  BY <1>5, <1>6

(* The local pointer of create or execute goes out of scope.               *)
LEMMA DropLocalIInv ==
  ASSUME IInv, NEW t \in Threads, DropLocal(t)
  PROVE  IInv'
<1> DEFINE i == ref[t]
           k == <<t, "local">>
<1>1. /\ pc[t] = "drop" /\ i # NoInst /\ doomed[t] = NoInst
      /\ ReleaseRef(t, i) /\ ref' = [ref EXCEPT ![t] = NoInst]
      /\ ref \in [Threads -> Instances \cup {NoInst}]
      /\ UNCHANGED <<gen, registry, mutex, held, outcome>>
  BY DEF IInv, TypeOK, FramesOK, Holding, DropLocal, ReleaseRef
<1>2. i \in Instances /\ AddrOf(i) \in Addrs /\ PointsToLiving(i) /\ k \in Holders(AddrOf(i))
  BY <1>1, LocalIsHeld
<1>3. \A b \in Addrs : \A l \in Tokens : Pointer(l, b)' = IF l = k THEN NoInst ELSE Pointer(l, b)
  BY <1>1 DEF Pointer, Tokens
<1>4. \A b \in Addrs : Pointer(k, b) = i
  BY DEF Pointer
<1>5. \A b \in Addrs : Holders(b)' = IF b = AddrOf(i) THEN Holders(b) \ {k} ELSE Holders(b)
  BY <1>3, <1>4 DEF Holders
<1>6. KeyIsAddress'
  BY <1>1 DEF IInv, KeyIsAddress
<1>7. /\ rc' \in [Addrs -> Nat]
      /\ heap' \in [Addrs -> {"free", "live", "dying"}]
      /\ doomed' \in [Threads -> Instances \cup {NoInst}]
      /\ NoDanglingReference' /\ RefCountExact' /\ DoomedDying'
  BY <1>1, <1>2, <1>3, <1>5, <1>6, ReferenceReleased
<1>8. TypeOK'
  <2>1. /\ pc' \in [Threads -> Labels]
        /\ arg' \in [Threads -> Instances \cup {NoInst}]
        /\ issued' \in {issued, issued \cup {i}} /\ released' = released
    BY DEF IInv, TypeOK, DropLocal, Return, Goto, Labels, clients
  <2>2. issued' \subseteq Instances /\ released' \subseteq issued'
    BY <1>2, <2>1 DEF IInv, TypeOK
  <2>3. QED
    BY <1>1, <1>7, <2>1, <2>2 DEF IInv, TypeOK
<1>9. FramesOK'
  <2>1. CASE LastRef(i)
    BY <1>1, <1>2, <2>1, PluginManagerAssumption
       DEF IInv, TypeOK, FramesOK, Holding, DropLocal, ReleaseRef, Goto
  <2>2. CASE ~LastRef(i)
    BY <1>1, <1>2, <2>2 DEF IInv, TypeOK, FramesOK, Holding, DropLocal, ReleaseRef, Return, Goto
  <2>3. QED
    BY <2>1, <2>2
<1>10. CreatorAlone'
  <2>1. \A u \in Threads : pc'[u] \in {"init", "publish"} =>
          pc[u] \in {"init", "publish"} /\ ref'[u] = ref[u] /\ u # t
    BY <1>1 DEF IInv, TypeOK, DropLocal, Return, Goto
  <2>2. QED
    BY <1>2, <1>5, <2>1, CreatorsKept
<1>11. QED
  BY <1>6, <1>7, <1>8, <1>9, <1>10 DEF IInv

(* The client lets go of a reference lookup returned.                      *)
LEMMA DropHeldIInv ==
  ASSUME IInv, NEW t \in Threads, DropHeld(t)
  PROVE  IInv'
<1> DEFINE i == held[t]
           k == <<t, "held">>
<1>1. /\ pc[t] = "idle" /\ i # NoInst /\ doomed[t] = NoInst
      /\ ReleaseRef(t, i) /\ held' = [held EXCEPT ![t] = NoInst]
      /\ held \in [Threads -> Instances \cup {NoInst}]
      /\ UNCHANGED <<gen, registry, mutex, ref, arg, issued, released>>
  BY DEF IInv, TypeOK, FramesOK, DropHeld, ReleaseRef, clients
<1>2. i \in Instances /\ AddrOf(i) \in Addrs /\ PointsToLiving(i) /\ k \in Holders(AddrOf(i))
  BY <1>1, LookedUpIsHeld
<1>3. \A b \in Addrs : \A l \in Tokens : Pointer(l, b)' = IF l = k THEN NoInst ELSE Pointer(l, b)
  BY <1>1 DEF Pointer, Tokens
<1>4. \A b \in Addrs : Pointer(k, b) = i
  BY DEF Pointer
<1>5. \A b \in Addrs : Holders(b)' = IF b = AddrOf(i) THEN Holders(b) \ {k} ELSE Holders(b)
  BY <1>3, <1>4 DEF Holders
<1>6. KeyIsAddress'
  BY <1>1 DEF IInv, KeyIsAddress
<1>7. /\ rc' \in [Addrs -> Nat]
      /\ heap' \in [Addrs -> {"free", "live", "dying"}]
      /\ doomed' \in [Threads -> Instances \cup {NoInst}]
      /\ NoDanglingReference' /\ RefCountExact' /\ DoomedDying'
  BY <1>1, <1>2, <1>3, <1>5, <1>6, ReferenceReleased
<1>8. TypeOK'
  BY <1>1, <1>2, <1>7 DEF IInv, TypeOK, DropHeld, Goto, Answer, Labels
<1>9. FramesOK'
  <2>1. CASE LastRef(i)
    BY <1>1, <1>2, <2>1, PluginManagerAssumption
       DEF IInv, TypeOK, FramesOK, Holding, DropHeld, ReleaseRef, Goto, Answer
  <2>2. CASE ~LastRef(i)
    BY <1>1, <1>2, <2>2 DEF IInv, TypeOK, FramesOK, Holding, DropHeld, ReleaseRef, Goto, Answer
  <2>3. QED
    BY <2>1, <2>2
<1>10. CreatorAlone'
  <2>1. \A u \in Threads : pc'[u] \in {"init", "publish"} =>
          pc[u] \in {"init", "publish"} /\ ref'[u] = ref[u] /\ k # <<u, "local">>
    BY <1>1 DEF IInv, TypeOK, DropHeld, Goto
  <2>2. QED
    BY <1>2, <1>5, <2>1, CreatorsKept
<1>11. QED
  BY <1>6, <1>7, <1>8, <1>9, <1>10 DEF IInv

(* release_algo_instance: the map entry and its reference go.              *)
LEMMA EraseIInv ==
  ASSUME IInv, NEW t \in Threads, Erase(t)
  PROVE  IInv'
<1> DEFINE a == AddrOf(arg[t])
           i == registry[a]
           m == <<NoThread, "map">>
<1>1. /\ pc[t] = "erase" /\ a \in Addrs /\ doomed[t] = NoInst /\ ref[t] = NoInst
      /\ UNCHANGED <<ref, held, issued, released>>
      /\ registry \in [Addrs -> Instances \cup {NoInst}]
  BY DEF IInv, TypeOK, FramesOK, Holding, Erase, clients, Instances, AddrOf
<1>2. CASE i = NoInst
  <2>1. UNCHANGED <<heap, gen, rc, registry, ref, doomed, held>>
    BY <1>1, <1>2 DEF Erase, objects
  <2>2. TypeOK'
    BY <1>1, <1>2, <2>1 DEF IInv, TypeOK, Erase, Goto, Answer, Labels
  <2>3. FramesOK'
    BY <1>1, <1>2, <2>1 DEF IInv, TypeOK, FramesOK, Holding, Erase, Goto, Answer
  <2>4. \A u \in Threads : pc'[u] \in {"init", "publish"} => pc[u] \in {"init", "publish"}
    BY <1>1, <1>2 DEF IInv, TypeOK, Erase, Goto
  <2>5. QED
    BY <2>1, <2>2, <2>3, <2>4, ControlStep
<1>3. CASE i # NoInst
  <2>1. i \in Instances /\ AddrOf(i) = a /\ PointsToLiving(i) /\ m \in Holders(a)
    BY <1>1, <1>3, RegisteredIsHeld
  <2>2. /\ ReleaseRef(t, i) /\ registry' = [registry EXCEPT ![a] = NoInst] /\ gen' = gen
        /\ mutex' = IF LastRef(i) THEN t ELSE NoThread
        /\ pc' = [pc EXCEPT ![t] = IF LastRef(i) THEN "destroy" ELSE "idle"]
        /\ arg' = IF LastRef(i) THEN arg ELSE [arg EXCEPT ![t] = NoInst]
        /\ outcome' = [outcome EXCEPT ![t] = "done"]
    BY <1>3 DEF Erase, ReleaseRef, Goto, Answer
  <2>3. \A b \in Addrs : \A l \in Tokens :
          Pointer(l, b)' = IF l = m /\ b = a THEN NoInst ELSE Pointer(l, b)
    BY <1>1, <2>2, PluginManagerAssumption DEF Pointer, Tokens
  <2>4. Pointer(m, a) = i
    BY DEF Pointer
  <2>5. \A b \in Addrs : Holders(b)' = IF b = a THEN Holders(b) \ {m} ELSE Holders(b)
    BY <2>3, <2>4 DEF Holders
  <2>6. KeyIsAddress'
    BY <1>1, <2>2 DEF IInv, KeyIsAddress
  <2>7. /\ rc' \in [Addrs -> Nat]
        /\ heap' \in [Addrs -> {"free", "live", "dying"}]
        /\ doomed' \in [Threads -> Instances \cup {NoInst}]
        /\ NoDanglingReference' /\ RefCountExact' /\ DoomedDying'
    BY <1>1, <2>1, <2>2, <2>3, <2>5, <2>6, ReferenceReleased
  <2>8. TypeOK'
    BY <1>1, <2>2, <2>7 DEF IInv, TypeOK, Labels
  <2>9. FramesOK'
    <3>1. CASE LastRef(i)
      BY <1>1, <1>3, <2>2, <3>1 DEF IInv, TypeOK, FramesOK, Holding, ReleaseRef
    <3>2. CASE ~LastRef(i)
      BY <1>1, <2>2, <3>2 DEF IInv, TypeOK, FramesOK, Holding, ReleaseRef
    <3>3. QED
      BY <3>1, <3>2
  <2>10. CreatorAlone'
    <3>1. \A u \in Threads : pc'[u] \in {"init", "publish"} =>
            pc[u] \in {"init", "publish"} /\ ref'[u] = ref[u] /\ m # <<u, "local">>
      BY <1>1, <2>2 DEF IInv, TypeOK
    <3>2. QED
      BY <1>1, <2>1, <2>5, <3>1, CreatorsKept
  <2>11. QED
    BY <2>6, <2>7, <2>8, <2>9, <2>10 DEF IInv
<1>4. QED
  BY <1>2, <1>3

(* The destructor ends; nothing pointed to the object any more.            *)
LEMMA DestroyIInv ==
  ASSUME IInv, NEW t \in Threads, Destroy(t)
  PROVE  IInv'
<1> DEFINE i == doomed[t]
           b == AddrOf(i)
<1>1. /\ pc[t] = "destroy" /\ i # NoInst /\ i \in Instances /\ b \in Addrs
      /\ heap[b] = "dying" /\ ref[t] = NoInst
  BY DEF IInv, TypeOK, FramesOK, Holding, DoomedDying, Destroy, Instances, AddrOf
<1>2. /\ heap' = [heap EXCEPT ![b] = "free"] /\ doomed' = [doomed EXCEPT ![t] = NoInst]
      /\ heap \in [Addrs -> {"free", "live", "dying"}]
      /\ doomed \in [Threads -> Instances \cup {NoInst}]
      /\ pc' = [pc EXCEPT ![t] = "idle"] /\ pc \in [Threads -> Labels]
      /\ UNCHANGED <<gen, rc, registry, ref, held, outcome>>
  BY DEF IInv, TypeOK, Destroy, Return, Goto
<1>3. TypeOK'
  BY <1>1, <1>2 DEF IInv, TypeOK, Destroy, Return, Labels
<1>4. FramesOK'
  BY <1>1, <1>2 DEF IInv, TypeOK, FramesOK, Holding, Destroy, Return
<1>5. KeyIsAddress'
  BY <1>2 DEF IInv, KeyIsAddress
<1>6. \A a \in Addrs : Holders(a)' = Holders(a)
  BY <1>2 DEF Holders, Pointer, Tokens
<1>7. NoDanglingReference'
  BY <1>1, <1>2 DEF IInv, NoDanglingReference, Pointer, PointsToLiving
<1>8. RefCountExact'
  BY <1>1, <1>2, <1>6 DEF IInv, RefCountExact
<1>9. DoomedDying'
  BY <1>1, <1>2 DEF IInv, DoomedDying
<1>10. CreatorAlone'
  <2> SUFFICES ASSUME NEW u \in Threads, pc'[u] \in {"init", "publish"}
               PROVE  Holders(AddrOf(ref[u]))' = {<<u, "local">>}
    BY DEF CreatorAlone
  <2>1. pc[u] \in {"init", "publish"} /\ ref'[u] = ref[u]
    BY <1>2
  <2>2. AddrOf(ref[u]) \in Addrs
    BY <2>1 DEF IInv, TypeOK, FramesOK, Holding, Instances, AddrOf
  <2>3. QED
    BY <1>6, <2>1, <2>2 DEF IInv, CreatorAlone
<1>11. QED
  BY <1>3, <1>4, <1>5, <1>7, <1>8, <1>9, <1>10 DEF IInv
-----------------------------------------------------------------------------
(* Every step of every thread preserves IInv.                              *)
LEMMA NextIInv == IInv /\ [Next]_vars => IInv'
<1> SUFFICES ASSUME IInv, [Next]_vars PROVE IInv'
  OBVIOUS
<1>1. CASE UNCHANGED vars
  <2>1. UNCHANGED <<heap, gen, rc, registry, ref, doomed, held>> /\ pc' = pc
    BY <1>1 DEF vars
  <2>2. TypeOK'
    BY <1>1 DEF vars, IInv, TypeOK
  <2>3. FramesOK'
    BY <1>1 DEF vars, IInv, FramesOK
  <2>4. QED
    BY <2>1, <2>2, <2>3, ControlStep
<1>2. ASSUME NEW t \in Threads, Call(t)
      PROVE  IInv'
  <2>1. ASSUME NEW a \in Addrs, CreateObject(t, a) PROVE IInv'
    BY <2>1, CreateObjectIInv
  <2>2. CASE CreateUnsupported(t)
    <3>1. CASE Instances = {}
      BY <2>2, <3>1, ControlStep
         DEF CreateUnsupported, IInv, TypeOK, FramesOK, objects, clients, Answer
    <3>2. CASE Instances # {}
      BY <2>2, <3>2, ControlActions
    <3>3. QED
      BY <3>1, <3>2
  <2>3. ASSUME NEW h \in Instances, CallExecute(t, h) \/ CallLookup(t, h) \/ CallRelease(t, h)
        PROVE  IInv'
    BY <2>3, ControlActions
  <2>4. CASE DropHeld(t)
    BY <2>4, DropHeldIInv
  <2>5. QED
    BY <1>2, <2>1, <2>2, <2>3, <2>4 DEF Call
<1>3. ASSUME NEW t \in Threads, Step(t)
      PROVE  IInv'
  <2>1. CASE Publish(t)
    BY <2>1, PublishIInv
  <2>2. CASE LookupExecute(t)
    BY <2>2, LookupExecuteIInv
  <2>3. CASE DropLocal(t)
    BY <2>3, DropLocalIInv
  <2>4. CASE LookupHold(t)
    BY <2>4, LookupHoldIInv
  <2>5. CASE Erase(t)
    BY <2>5, EraseIInv
  <2>6. CASE Destroy(t)
    BY <2>6, DestroyIInv
  <2>7. CASE InitPlugin(t) \/ InitThrows(t) \/ PublishThrows(t) \/ PluginExecute(t)
    <3>1. ref[t] \in Instances
      BY <2>7 DEF IInv, TypeOK, FramesOK, Holding, InitPlugin, InitThrows, PublishThrows, PluginExecute
    <3>2. QED
      BY <2>7, <3>1, ControlActions
  <2>8. QED
    BY <1>3, <2>1, <2>2, <2>3, <2>4, <2>5, <2>6, <2>7 DEF Step
<1>4. QED
  BY <1>1, <1>2, <1>3 DEF Next

(* The inductive invariant holds in every reachable state.                 *)
THEOREM InductiveInvariant == Spec => []IInv
BY InitIInv, NextIInv, PTL DEF Spec

(* Type correctness, in particular: no reference counter ever underflows.  *)
THEOREM TypeCorrect == Spec => []TypeOK
<1>1. IInv => TypeOK
  BY DEF IInv
<1>2. QED
  BY <1>1, InductiveInvariant, PTL

(* No smart pointer of any thread, nor the map, ever points to an object   *)
(* that is being destroyed or was, whatever identifiers the clients pass.  *)
THEOREM ReferencesNeverDangle == Spec => []NoDanglingReference
<1>1. IInv => NoDanglingReference
  BY DEF IInv
<1>2. QED
  BY <1>1, InductiveInvariant, PTL

(* Reference counts are exact in every interleaving, so the release that   *)
(* reaches zero is the last one and no unreferenced object stays alive.    *)
THEOREM CountsAreExact == Spec => []RefCountExact
<1>1. IInv => RefCountExact
  BY DEF IInv
<1>2. QED
  BY <1>1, InductiveInvariant, PTL

(* A new instance never takes the map entry of another one: an entry keeps *)
(* its object, and so the address its identifier is made from, allocated.  *)
THEOREM NewInstanceGetsFreeEntry == Spec => NoOverwrite
<1> DEFINE Kept == \A a \in Addrs : registry[a] # NoInst => registry'[a] \in {registry[a], NoInst}
<1>1. IInv /\ [Next]_vars => [Kept]_vars
  <2> SUFFICES ASSUME IInv, Next, NEW a \in Addrs, registry[a] # NoInst
               PROVE  registry'[a] \in {registry[a], NoInst}
    BY DEF vars
  <2>1. registry \in [Addrs -> Instances \cup {NoInst}]
    BY DEF IInv, TypeOK
  <2>2. ASSUME NEW t \in Threads, Publish(t)
        PROVE  registry'[a] = registry[a]
    <3>1. Holders(AddrOf(ref[t])) = {<<t, "local">>}
      BY <2>2 DEF IInv, CreatorAlone, Publish
    <3>2. AddrOf(ref[t]) # a
      BY <3>1, RegisteredIsHeld
    <3>3. QED
      BY <2>1, <2>2, <3>2 DEF Publish
  <2>3. ASSUME NEW t \in Threads, Erase(t)
        PROVE  registry'[a] \in {registry[a], NoInst}
    BY <2>1, <2>3 DEF Erase
  <2>4. ASSUME NEW t \in Threads, Call(t)
        PROVE  registry' = registry
    BY <2>4 DEF Call, CreateObject, CreateUnsupported, CallExecute, CallLookup, CallRelease, DropHeld
  <2>5. ASSUME NEW t \in Threads, Step(t), ~Publish(t), ~Erase(t)
        PROVE  registry' = registry
    BY <2>5 DEF Step, InitPlugin, InitThrows, PublishThrows, LookupExecute, PluginExecute,
                DropLocal, LookupHold, Destroy
  <2>6. QED
    BY <2>2, <2>3, <2>4, <2>5 DEF Next
<1>2. Spec => [][Kept]_vars
  BY <1>1, InductiveInvariant, PTL DEF Spec
<1>3. QED
  BY <1>2 DEF NoOverwrite
-----------------------------------------------------------------------------
(***************************************************************************)
(* What the identifiers mean to clients that never use one again once they *)
(* have started to release it: although an identifier is only a hash of an *)
(* address and addresses come back, an unreleased one keeps denoting the   *)
(* instance it was issued for.                                             *)
(***************************************************************************)

(* A create that will hand out, or may still hand out, its identifier.     *)
Publishes(t) == pc[t] = "drop" /\ outcome[t] = "id"
Creating(t)  == pc[t] \in {"init", "publish"} \/ Publishes(t)

ReleaseInv ==
  /\ \A t \in Threads :
       pc[t] = "erase" => arg[t] \in released /\ registry[AddrOf(arg[t])] = arg[t]
  /\ \A t, u \in Threads :
       pc[t] = "erase" /\ pc[u] = "erase" /\ t # u => arg[t] # arg[u]

CreateInv ==
  /\ \A t \in Threads : Creating(t) => ref[t] \notin issued
  /\ \A t \in Threads : Publishes(t) => registry[AddrOf(ref[t])] = ref[t]
  /\ \A t \in Threads : pc[t] = "destroy" => outcome[t] # "id"
  /\ \A t, u \in Threads : Creating(t) /\ Creating(u) /\ t # u => ref[t] # ref[u]
  /\ \A h \in issued : GenOf(h) <= gen[AddrOf(h)]

IdsInv == (\A h \in issued \ released : registry[AddrOf(h)] = h) /\ ReleaseInv /\ CreateInv

ClientInv == IInv /\ (ClientRule # "any" => IdsInv)
-----------------------------------------------------------------------------
LEMMA InstanceGen ==
  ASSUME NEW i \in Instances
  PROVE  GenOf(i) \in Nat
BY DEF Instances, GenOf

LEMMA InitClientInv == Init => ClientInv
<1> SUFFICES ASSUME Init PROVE ClientInv
  OBVIOUS
<1>1. IdsInv
  BY DEF Init, IdsInv, ReleaseInv, CreateInv, Creating, Publishes
<1>2. QED
  BY <1>1, InitIInv DEF ClientInv

(* Steps that touch no entry and no identifier, start no release and bring *)
(* no create nearer to its identifier.                                     *)
LEMMA QuietStep ==
  ASSUME IdsInv, UNCHANGED <<registry, gen, issued, released>>,
         \A u \in Threads : pc'[u] = "erase" => pc[u] = "erase" /\ arg'[u] = arg[u],
         \A u \in Threads : Creating(u)' => Creating(u) /\ ref'[u] = ref[u],
         \A u \in Threads : Publishes(u)' => Publishes(u),
         \A u \in Threads : pc'[u] = "destroy" => outcome'[u] # "id"
  PROVE  IdsInv'
<1>1. ReleaseInv'
  BY DEF IdsInv, ReleaseInv
<1>2. \A u \in Threads : Publishes(u)' => Publishes(u) /\ ref'[u] = ref[u]
  BY DEF Creating
<1>3. CreateInv'
  <2>1. \A u \in Threads : Creating(u)' => ref'[u] \notin issued'
    BY DEF IdsInv, CreateInv
  <2>2. \A u \in Threads : Publishes(u)' => registry'[AddrOf(ref'[u])] = ref'[u]
    BY <1>2 DEF IdsInv, CreateInv
  <2>3. \A u, v \in Threads : Creating(u)' /\ Creating(v)' /\ u # v => ref'[u] # ref'[v]
    BY DEF IdsInv, CreateInv
  <2>4. \A h \in issued' : GenOf(h) <= gen'[AddrOf(h)]
    BY DEF IdsInv, CreateInv
  <2>5. QED
    BY <2>1, <2>2, <2>3, <2>4 DEF CreateInv
<1>4. QED
  BY <1>1, <1>3 DEF IdsInv

(* A new object is the first of its generation at its address.             *)
LEMMA CreateObjectIds ==
  ASSUME IInv, IdsInv, NEW t \in Threads, NEW a \in Addrs, CreateObject(t, a)
  PROVE  IdsInv'
<1> DEFINE i == <<a, gen[a] + 1>>
<1>1. /\ AddrOf(i) = a /\ GenOf(i) = gen[a] + 1 /\ i \in Instances
      /\ ref \in [Threads -> Instances \cup {NoInst}] /\ ref' = [ref EXCEPT ![t] = i]
      /\ gen \in [Addrs -> 0..MaxGen] /\ gen' = [gen EXCEPT ![a] = @ + 1]
      /\ pc \in [Threads -> Labels] /\ pc' = [pc EXCEPT ![t] = "init"]
      /\ outcome \in [Threads -> {"none", "id", "error", "result", "done"}]
      /\ outcome' = [outcome EXCEPT ![t] = "none"]
      /\ UNCHANGED <<registry, arg, issued, released>>
  BY PluginManagerAssumption
     DEF CreateObject, IInv, TypeOK, Instances, AddrOf, GenOf, clients, Goto, Answer
<1>2. \A h \in issued : AddrOf(h) \in Addrs /\ GenOf(h) \in Nat /\ GenOf(h) <= gen[AddrOf(h)]
  BY DEF IInv, TypeOK, IdsInv, CreateInv, Instances, AddrOf, GenOf
<1>3. \A h \in issued : GenOf(h) <= gen'[AddrOf(h)] /\ h # i
  BY <1>1, <1>2
<1>4. \A u \in Threads : ref[u] # NoInst => ref[u] # i
  <2>1. \A u \in Threads : ref[u] # NoInst => heap[AddrOf(ref[u])] = "live"
    BY LocalIsHeld DEF PointsToLiving
  <2>2. heap[AddrOf(i)] = "free"
    BY <1>1 DEF CreateObject
  <2>3. QED
    BY <2>1, <2>2
<1>5. \A u \in Threads : u # t => /\ Creating(u)' = Creating(u) /\ Publishes(u)' = Publishes(u)
                                  /\ ref'[u] = ref[u]
  BY <1>1 DEF Creating, Publishes
<1>6. ~Publishes(t)' /\ ref'[t] = i
  BY <1>1 DEF Publishes
<1>7. \A u \in Threads : Creating(u) => ref[u] # NoInst
  BY DEF Creating, Publishes, IInv, FramesOK, Holding
<1>8. ReleaseInv'
  BY <1>1 DEF IdsInv, ReleaseInv
<1>9. CreateInv'
  <2>1. \A u \in Threads : Creating(u)' => ref'[u] \notin issued'
    BY <1>1, <1>3, <1>5, <1>6 DEF IdsInv, CreateInv
  <2>2. \A u \in Threads : Publishes(u)' => registry'[AddrOf(ref'[u])] = ref'[u]
    BY <1>1, <1>5, <1>6 DEF IdsInv, CreateInv
  <2>3. \A u \in Threads : pc'[u] = "destroy" => outcome'[u] # "id"
    BY <1>1 DEF IdsInv, CreateInv
  <2>4. \A u, v \in Threads : Creating(u)' /\ Creating(v)' /\ u # v => ref'[u] # ref'[v]
    BY <1>4, <1>5, <1>6, <1>7 DEF IdsInv, CreateInv
  <2>5. QED
    BY <1>1, <1>3, <2>1, <2>2, <2>3, <2>4 DEF CreateInv
<1>10. QED
  BY <1>1, <1>8, <1>9 DEF IdsInv

(* The entry a create fills was free, so no identifier was issued for it   *)
(* that is still unreleased, and no release is about to remove it.         *)
LEMMA PublishIds ==
  ASSUME IInv, IdsInv, NEW t \in Threads, Publish(t)
  PROVE  IdsInv'
<1> DEFINE a == AddrOf(ref[t])
<1>1. /\ pc[t] = "publish" /\ ref[t] # NoInst /\ a \in Addrs
      /\ pc \in [Threads -> Labels] /\ pc' = [pc EXCEPT ![t] = "drop"]
      /\ outcome \in [Threads -> {"none", "id", "error", "result", "done"}]
      /\ outcome' = [outcome EXCEPT ![t] = "id"]
      /\ registry \in [Addrs -> Instances \cup {NoInst}]
      /\ registry' = [registry EXCEPT ![a] = ref[t]]
      /\ UNCHANGED <<gen, ref, arg, issued, released>>
  BY LocalIsHeld DEF Publish, IInv, TypeOK, FramesOK, Holding, clients, Goto, Answer
<1>2. registry[a] = NoInst
  <2>1. Holders(a) = {<<t, "local">>}
    BY <1>1 DEF IInv, CreatorAlone
  <2>2. QED
    BY <1>1, <2>1, RegisteredIsHeld
<1>3. \A h \in issued : h # NoInst /\ AddrOf(h) \in Addrs
  BY PluginManagerAssumption DEF IInv, TypeOK, Instances, AddrOf
<1>4. \A u \in Threads : (Creating(u)' <=> Creating(u)) /\ (u # t => (Publishes(u)' <=> Publishes(u)))
  BY <1>1 DEF Creating, Publishes
<1>5. \A h \in issued' \ released' : registry'[AddrOf(h)] = h
  BY <1>1, <1>2, <1>3 DEF IdsInv
<1>6. ReleaseInv'
  <2>1. \A u \in Threads : pc'[u] = "erase" => pc[u] = "erase" /\ arg[u] \in issued
    BY <1>1 DEF IdsInv, ReleaseInv, IInv, TypeOK
  <2>2. QED
    BY <1>1, <1>2, <1>3, <2>1 DEF IdsInv, ReleaseInv
<1>7. CreateInv'
  <2>1. \A u \in Threads : Publishes(u)' => registry'[AddrOf(ref'[u])] = ref'[u]
    <3>1. \A u \in Threads : Publishes(u) => ref[u] # NoInst /\ AddrOf(ref[u]) \in Addrs
      BY LocalIsHeld DEF Publishes, IInv, FramesOK, Holding
    <3>2. QED
      BY <1>1, <1>2, <1>4, <3>1 DEF IdsInv, CreateInv
  <2>2. \A u \in Threads : pc'[u] = "destroy" => outcome'[u] # "id"
    BY <1>1 DEF IdsInv, CreateInv
  <2>3. QED
    BY <1>1, <1>4, <2>1, <2>2 DEF IdsInv, CreateInv
<1>8. QED
  BY <1>5, <1>6, <1>7 DEF IdsInv

(* A client that releases an unreleased identifier will erase the instance *)
(* the identifier was issued for.                                          *)
LEMMA CallReleaseIds ==
  ASSUME IInv, IdsInv, ClientRule # "any", NEW t \in Threads, NEW h \in Instances, CallRelease(t, h)
  PROVE  IdsInv'
<1>1. /\ h \in issued \ released /\ pc[t] = "idle"
      /\ pc \in [Threads -> Labels] /\ pc' = [pc EXCEPT ![t] = "erase"]
      /\ arg \in [Threads -> Instances \cup {NoInst}] /\ arg' = [arg EXCEPT ![t] = h]
      /\ outcome \in [Threads -> {"none", "id", "error", "result", "done"}]
      /\ outcome' = [outcome EXCEPT ![t] = "none"]
      /\ released' = released \cup {h}
      /\ UNCHANGED <<gen, registry, ref, issued>>
  BY DEF CallRelease, MayRelease, MayUse, IInv, TypeOK, objects, Goto, Answer
<1>2. \A u \in Threads : (Creating(u)' <=> Creating(u)) /\ (Publishes(u)' <=> Publishes(u))
  BY <1>1 DEF Creating, Publishes
<1>3. ReleaseInv'
  <2>1. registry[AddrOf(h)] = h
    BY <1>1 DEF IdsInv
  <2>2. \A u \in Threads : pc[u] = "erase" => arg[u] # h
    BY <1>1 DEF IdsInv, ReleaseInv
  <2>3. \A u \in Threads : pc'[u] = "erase" => IF u = t THEN arg'[u] = h
                                                ELSE pc[u] = "erase" /\ arg'[u] = arg[u]
    BY <1>1
  <2>4. QED
    BY <1>1, <2>1, <2>2, <2>3 DEF IdsInv, ReleaseInv
<1>4. CreateInv'
  <2>1. \A u \in Threads : pc'[u] = "destroy" => outcome'[u] # "id"
    BY <1>1 DEF IdsInv, CreateInv
  <2>2. QED
    BY <1>1, <1>2, <2>1 DEF IdsInv, CreateInv
<1>5. QED
  BY <1>1, <1>3, <1>4 DEF IdsInv

(* The entry a release removes is its own, nobody else relies on it.       *)
LEMMA EraseIds ==
  ASSUME IInv, IdsInv, NEW t \in Threads, Erase(t)
  PROVE  IdsInv'
<1> DEFINE a == AddrOf(arg[t])
<1>1. /\ pc[t] = "erase" /\ a \in Addrs /\ arg[t] \in released /\ registry[a] = arg[t]
      /\ pc \in [Threads -> Labels] /\ arg \in [Threads -> Instances \cup {NoInst}]
      /\ outcome \in [Threads -> {"none", "id", "error", "result", "done"}]
      /\ outcome' = [outcome EXCEPT ![t] = "done"]
      /\ registry \in [Addrs -> Instances \cup {NoInst}]
      /\ UNCHANGED <<gen, ref, issued, released>>
  BY DEF Erase, IInv, TypeOK, FramesOK, IdsInv, ReleaseInv, clients, objects, Instances, AddrOf,
         Answer, ReleaseRef
<1>2. /\ registry' = [registry EXCEPT ![a] = NoInst]
      /\ pc' = [pc EXCEPT ![t] = IF LastRef(arg[t]) THEN "destroy" ELSE "idle"]
      /\ \A u \in Threads : u # t => arg'[u] = arg[u]
  BY <1>1 DEF Erase, Goto, IInv, FramesOK
<1>3. \A h \in issued : AddrOf(h) \in Addrs /\ h # NoInst
  BY PluginManagerAssumption DEF IInv, TypeOK, Instances, AddrOf
<1>4. \A h \in issued' \ released' : registry'[AddrOf(h)] = h
  BY <1>1, <1>2, <1>3 DEF IdsInv
<1>5. ReleaseInv'
  <2>1. \A u \in Threads : pc'[u] = "erase" => u # t /\ pc[u] = "erase" /\ arg'[u] = arg[u]
    BY <1>1, <1>2
  <2>2. \A u \in Threads : u # t /\ pc[u] = "erase" =>
          /\ arg[u] # arg[t] /\ registry[AddrOf(arg[u])] = arg[u]
          /\ AddrOf(arg[u]) \in Addrs /\ arg[u] \in released
    BY <1>1, <1>3 DEF IdsInv, ReleaseInv, IInv, TypeOK
  <2>3. \A u \in Threads : u # t /\ pc[u] = "erase" => registry'[AddrOf(arg[u])] = arg[u]
    BY <1>1, <1>2, <2>2
  <2>4. QED
    BY <1>1, <2>1, <2>2, <2>3 DEF IdsInv, ReleaseInv
<1>6. CreateInv'
  <2>1. \A u \in Threads : /\ Creating(u)' => Creating(u)
                           /\ Publishes(u)' => Publishes(u)
    BY <1>1, <1>2 DEF Creating, Publishes
  <2>2. \A u \in Threads : Publishes(u) =>
          /\ ref[u] \notin issued /\ registry[AddrOf(ref[u])] = ref[u]
          /\ AddrOf(ref[u]) \in Addrs
    BY LocalIsHeld DEF IdsInv, CreateInv, Creating, Publishes, IInv, FramesOK, Holding
  <2>3. arg[t] \in issued
    BY <1>1 DEF IInv, TypeOK
  <2>4. \A u \in Threads : Publishes(u)' => registry'[AddrOf(ref'[u])] = ref'[u]
    BY <1>1, <1>2, <2>1, <2>2, <2>3
  <2>5. \A u \in Threads : pc'[u] = "destroy" => outcome'[u] # "id"
    BY <1>1, <1>2 DEF IdsInv, CreateInv
  <2>6. QED
    BY <1>1, <2>1, <2>4, <2>5 DEF IdsInv, CreateInv
<1>7. QED
  BY <1>4, <1>5, <1>6 DEF IdsInv

(* A create returns: its entry is in place and it did not drop the last    *)
(* reference.                                                              *)
LEMMA DropLocalIds ==
  ASSUME IInv, IdsInv, NEW t \in Threads, DropLocal(t)
  PROVE  IdsInv'
<1> DEFINE a == AddrOf(ref[t])
<1>1. /\ pc[t] = "drop" /\ ref[t] # NoInst /\ a \in Addrs /\ ref[t] \in Instances
      /\ <<t, "local">> \in Holders(a) /\ gen[a] = GenOf(ref[t])
      /\ UNCHANGED <<gen, registry, outcome, released>>
      /\ pc \in [Threads -> Labels]
      /\ ref \in [Threads -> Instances \cup {NoInst}] /\ ref' = [ref EXCEPT ![t] = NoInst]
      /\ arg \in [Threads -> Instances \cup {NoInst}]
  BY LocalIsHeld DEF DropLocal, IInv, TypeOK, FramesOK, Holding, PointsToLiving, ReleaseRef, Return, clients
<1>2. \A u \in Threads : u # t => pc'[u] = pc[u] /\ arg'[u] = arg[u] /\ ref'[u] = ref[u]
  BY <1>1 DEF DropLocal, Return, Goto
<1>3. pc'[t] = IF LastRef(ref[t]) THEN "destroy" ELSE "idle"
  BY <1>1 DEF DropLocal, Return, Goto
<1>4. \A u \in Threads : /\ Creating(u)' => u # t /\ Creating(u)
                         /\ Publishes(u)' => u # t /\ Publishes(u)
  BY <1>1, <1>2, <1>3 DEF Creating, Publishes
<1>5. ReleaseInv'
  <2>1. \A u \in Threads : pc'[u] = "erase" => pc[u] = "erase" /\ arg'[u] = arg[u]
    BY <1>2, <1>3
  <2>2. QED
    BY <1>1, <2>1 DEF IdsInv, ReleaseInv
<1>6. CASE outcome[t] # "id"
  <2>1. issued' = issued
    BY <1>6 DEF DropLocal, Return, clients
  <2>2. \A u \in Threads : pc'[u] = "destroy" => outcome'[u] # "id"
    BY <1>1, <1>2, <1>6 DEF IdsInv, CreateInv
  <2>3. CreateInv'
    BY <1>1, <1>2, <1>4, <2>1, <2>2 DEF IdsInv, CreateInv
  <2>4. QED
    BY <1>1, <1>5, <2>1, <2>3 DEF IdsInv
<1>7. CASE outcome[t] = "id"
  <2>1. Publishes(t) /\ Creating(t) /\ registry[a] = ref[t]
    BY <1>1, <1>7 DEF IdsInv, CreateInv, Publishes, Creating
  <2>2. ~LastRef(ref[t])
    <3>1. <<NoThread, "map">> \in Holders(a) /\ <<NoThread, "map">> # <<t, "local">>
      BY <1>1, <2>1, RegisteredIsHeld
    <3>2. Cardinality(Holders(a)) # 1
      <4>1. ~ \E x : Holders(a) = {x}
        BY <1>1, <3>1
      <4>2. QED
        BY <4>1, HoldersFinite, FS_Singleton
    <3>3. QED
      BY <1>1, <3>2 DEF LastRef, IInv, RefCountExact
  <2>3. issued' = issued \cup {ref[t]}
    BY <1>7, <2>2 DEF DropLocal, Return
  <2>4. \A h \in issued' \ released' : registry'[AddrOf(h)] = h
    BY <1>1, <2>1, <2>3 DEF IdsInv
  <2>5. CreateInv'
    <3>1. \A u \in Threads : pc'[u] = "destroy" => outcome'[u] # "id"
      BY <1>1, <1>2, <1>3, <2>2 DEF IdsInv, CreateInv
    <3>2. \A u \in Threads : Creating(u)' => ref'[u] \notin issued'
      BY <1>2, <1>4, <2>1, <2>3 DEF IdsInv, CreateInv
    <3>3. \A h \in issued' : GenOf(h) <= gen'[AddrOf(h)]
      <4>1. GenOf(ref[t]) <= gen[a]
        BY <1>1, InstanceGen
      <4>2. QED
        BY <1>1, <2>3, <4>1 DEF IdsInv, CreateInv
    <3>4. \A u \in Threads : Publishes(u)' => registry'[AddrOf(ref'[u])] = ref'[u]
      BY <1>1, <1>2, <1>4 DEF IdsInv, CreateInv
    <3>5. \A u, v \in Threads : Creating(u)' /\ Creating(v)' /\ u # v => ref'[u] # ref'[v]
      BY <1>2, <1>4 DEF IdsInv, CreateInv
    <3>6. QED
      BY <3>1, <3>2, <3>3, <3>4, <3>5 DEF CreateInv
  <2>6. QED
    BY <1>5, <2>4, <2>5 DEF IdsInv
<1>8. QED
  BY <1>6, <1>7
-----------------------------------------------------------------------------
LEMMA NextClientInv == ClientInv /\ [Next]_vars => ClientInv'
<1> SUFFICES ASSUME ClientInv, [Next]_vars, ClientRule # "any" PROVE IdsInv'
  BY NextIInv DEF ClientInv
<1>0. IInv /\ IdsInv
  BY DEF ClientInv
<1>1. CASE UNCHANGED vars
  BY <1>0, <1>1, QuietStep DEF vars, Creating, Publishes, IdsInv, CreateInv
<1>2. ASSUME NEW t \in Threads, Call(t)
      PROVE  IdsInv'
  <2>1. ASSUME NEW a \in Addrs, CreateObject(t, a) PROVE IdsInv'
    BY <1>0, <2>1, CreateObjectIds
  <2>2. ASSUME NEW h \in Instances, CallRelease(t, h) PROVE IdsInv'
    BY <1>0, <2>2, CallReleaseIds
  <2>3. CASE CreateUnsupported(t)
    BY <1>0, <2>3, QuietStep
       DEF CreateUnsupported, Creating, Publishes, objects, clients, Answer, IInv, TypeOK, IdsInv, CreateInv
  <2>4. ASSUME NEW h \in Instances, CallExecute(t, h) \/ CallLookup(t, h) PROVE IdsInv'
    BY <1>0, <2>4, QuietStep
       DEF CallExecute, CallLookup, Creating, Publishes, objects, clients, Goto, Answer,
           IInv, TypeOK, IdsInv, CreateInv
  <2>5. CASE DropHeld(t)
    BY <1>0, <2>5, QuietStep
       DEF DropHeld, ReleaseRef, Creating, Publishes, clients, Goto, Answer,
           IInv, TypeOK, IdsInv, CreateInv
  <2>6. QED
    BY <1>2, <2>1, <2>2, <2>3, <2>4, <2>5 DEF Call
<1>3. ASSUME NEW t \in Threads, Step(t)
      PROVE  IdsInv'
  <2> USE DEF Creating, Publishes, objects, clients, Goto, Answer, IInv, TypeOK, IdsInv, CreateInv
  <2>1. CASE InitPlugin(t)
    BY <1>0, <2>1, QuietStep DEF InitPlugin
  <2>2. CASE InitThrows(t)
    BY <1>0, <2>2, QuietStep DEF InitThrows
  <2>3. CASE PublishThrows(t)
    BY <1>0, <2>3, QuietStep DEF PublishThrows
  <2>4. CASE PluginExecute(t)
    BY <1>0, <2>4, QuietStep DEF PluginExecute
  <2>5. CASE LookupHold(t)
    BY <1>0, <2>5, QuietStep DEF LookupHold
  <2>6. CASE LookupExecute(t)
    BY <1>0, <2>6, QuietStep DEF LookupExecute, Return, FramesOK
  <2>7. CASE Destroy(t)
    BY <1>0, <2>7, QuietStep DEF Destroy, Return
  <2>8. CASE Publish(t) \/ Erase(t) \/ DropLocal(t)
    BY <1>0, <2>8, PublishIds, EraseIds, DropLocalIds
  <2>9. QED
    BY <1>3, <2>1, <2>2, <2>3, <2>4, <2>5, <2>6, <2>7, <2>8 DEF Step
<1>4. QED
  BY <1>1, <1>2, <1>3 DEF Next

(* Provided no client uses an identifier again after it started to release *)
(* it, every issued and unreleased identifier finds its own instance, even *)
(* though identifiers come back with the addresses they are made from.     *)
THEOREM IdentifiersAreStable == Spec => []UnreleasedIsRegistered
<1>1. ClientInv => UnreleasedIsRegistered
  BY DEF ClientInv, IdsInv, UnreleasedIsRegistered
<1>2. QED
  BY <1>1, InitClientInv, NextClientInv, PTL DEF Spec
-----------------------------------------------------------------------------
(* A quiescent client releases no identifier a call is using.              *)
CallInv ==
  ClientRule = "quiescent" =>
    \A t \in Threads : /\ pc[t] = "lookup" => arg[t] \in issued \ released
                       /\ pc[t] = "call" => ref[t] = arg[t]

LEMMA NextCallInv == ClientInv /\ CallInv /\ [Next]_vars => CallInv'
<1> SUFFICES ASSUME ClientInv, CallInv, [Next]_vars, ClientRule = "quiescent", NEW u \in Threads
             PROVE  /\ pc'[u] = "lookup" => arg'[u] \in issued' \ released'
                    /\ pc'[u] = "call" => ref'[u] = arg'[u]
  BY DEF CallInv
<1> USE DEF Goto, Answer, IInv, TypeOK
<1>0. /\ pc[u] = "lookup" => arg[u] \in issued \ released
      /\ pc[u] = "call" => ref[u] = arg[u]
      /\ IInv /\ IdsInv
  BY DEF ClientInv, CallInv
<1>1. CASE UNCHANGED vars
  BY <1>0, <1>1 DEF vars
<1>2. ASSUME NEW t \in Threads, Call(t)
      PROVE  /\ pc'[u] = "lookup" => arg'[u] \in issued' \ released'
             /\ pc'[u] = "call" => ref'[u] = arg'[u]
  <2>1. ASSUME NEW h \in Instances, CallRelease(t, h)
        PROVE  /\ pc'[u] = "lookup" => arg'[u] \in issued' \ released'
               /\ pc'[u] = "call" => ref'[u] = arg'[u]
    BY <1>0, <2>1 DEF CallRelease, MayRelease
  <2>2. ASSUME NEW h \in Instances, CallExecute(t, h)
        PROVE  /\ pc'[u] = "lookup" => arg'[u] \in issued' \ released'
               /\ pc'[u] = "call" => ref'[u] = arg'[u]
    BY <1>0, <2>2 DEF CallExecute, MayUse, clients
  <2>3. ASSUME NEW h \in Instances, CallLookup(t, h)
        PROVE  /\ pc'[u] = "lookup" => arg'[u] \in issued' \ released'
               /\ pc'[u] = "call" => ref'[u] = arg'[u]
    BY <1>0, <2>3 DEF CallLookup, clients
  <2>4. ASSUME NEW a \in Addrs, CreateObject(t, a)
        PROVE  /\ pc'[u] = "lookup" => arg'[u] \in issued' \ released'
               /\ pc'[u] = "call" => ref'[u] = arg'[u]
    BY <1>0, <2>4 DEF CreateObject, clients
  <2>5. CASE CreateUnsupported(t) \/ DropHeld(t)
    BY <1>0, <2>5 DEF CreateUnsupported, DropHeld, clients
  <2>6. QED
    BY <1>2, <2>1, <2>2, <2>3, <2>4, <2>5 DEF Call
<1>3. ASSUME NEW t \in Threads, Step(t)
      PROVE  /\ pc'[u] = "lookup" => arg'[u] \in issued' \ released'
             /\ pc'[u] = "call" => ref'[u] = arg'[u]
  <2>1. CASE LookupExecute(t)
    <3>1. t = u /\ pc'[u] = "call" => registry[AddrOf(arg[u])] = arg[u]
      BY <1>0, <2>1 DEF LookupExecute, IdsInv
    <3>2. QED
      BY <1>0, <2>1, <3>1 DEF LookupExecute, Return, clients
  <2>2. CASE DropLocal(t)
    BY <1>0, <2>2 DEF DropLocal, Return, clients
  <2>3. CASE Destroy(t)
    BY <1>0, <2>3 DEF Destroy, Return
  <2>4. CASE Erase(t)
    BY <1>0, <2>4 DEF Erase, clients
  <2>5. CASE LookupHold(t)
    BY <1>0, <2>5 DEF LookupHold, clients
  <2>6. CASE InitPlugin(t) \/ InitThrows(t) \/ Publish(t) \/ PublishThrows(t) \/ PluginExecute(t)
    BY <1>0, <2>6 DEF InitPlugin, InitThrows, Publish, PublishThrows, PluginExecute, clients
  <2>7. QED
    BY <1>3, <2>1, <2>2, <2>3, <2>4, <2>5, <2>6 DEF Step
<1>4. QED
  BY <1>1, <1>2, <1>3 DEF Next

(* If clients also wait for the calls that use an identifier before they   *)
(* release it, execute runs the plugin the identifier was issued for.      *)
THEOREM ExecuteReachesItsInstance == Spec => []ExecutesOwnInstance
<1>1. Init => ClientInv /\ CallInv
  BY InitClientInv DEF Init, CallInv
<1>2. CallInv => ExecutesOwnInstance
  BY DEF CallInv, ExecutesOwnInstance
<1>3. QED
  BY <1>1, <1>2, NextClientInv, NextCallInv, PTL DEF Spec
-----------------------------------------------------------------------------
(***************************************************************************)
(* The plugin manager implements the abstract registry: every step of a    *)
(* thread is one step of the registry or invisible to it.                  *)
(***************************************************************************)

Alive == {i \in Instances : heap[AddrOf(i)] # "free" /\ gen[AddrOf(i)] = GenOf(i)}
Registered == {i \in Instances : registry[AddrOf(i)] = i}
Slots == Threads \X {"local", "held"}
Holds == [u \in Slots |-> IF u[2] = "local" THEN ref[u[1]] ELSE held[u[1]]]

(* The abstract step, in the terms of the refinement mapping.              *)
AbstractStep == Registry!Next \/ UNCHANGED <<Alive, Registered, Holds>>

LEMMA InstanceParts ==
  ASSUME NEW i \in Instances
  PROVE  AddrOf(i) \in Addrs /\ GenOf(i) \in 1..MaxGen /\ i = <<AddrOf(i), GenOf(i)>> /\ i # NoInst
BY PluginManagerAssumption DEF Instances, AddrOf, GenOf

(* Everything a thread does that the abstract registry does not see.       *)
LEMMA InvisibleStep ==
  ASSUME UNCHANGED <<registry, ref, held>>, gen' = gen,
         \A a \in Addrs : heap[a] = "free" <=> heap'[a] = "free"
  PROVE  AbstractStep
<1>1. Alive' = Alive
  BY InstanceParts DEF Alive
<1>2. Registered' = Registered
  BY DEF Registered
<1>3. Holds' = Holds
  BY DEF Holds
<1>4. QED
  BY <1>1, <1>2, <1>3 DEF AbstractStep

(* Setting one pointer of a thread sets one user's reference.              *)
LEMMA LocalSet ==
  ASSUME NEW t \in Threads, NEW x, ref \in [Threads -> Instances \cup {NoInst}],
         ref' = [ref EXCEPT ![t] = x], held' = held
  PROVE  Holds' = [Holds EXCEPT ![<<t, "local">>] = x]
<1>1. \A v \in Slots : Holds'[v] = IF v = <<t, "local">> THEN x ELSE Holds[v]
  BY DEF Holds, Slots
<1>2. Holds = [v \in Slots |-> Holds[v]] /\ Holds' = [v \in Slots |-> Holds'[v]]
  BY DEF Holds
<1>3. QED
  BY <1>1, <1>2

LEMMA HeldSet ==
  ASSUME NEW t \in Threads, NEW x, held \in [Threads -> Instances \cup {NoInst}],
         held' = [held EXCEPT ![t] = x], ref' = ref
  PROVE  Holds' = [Holds EXCEPT ![<<t, "held">>] = x]
<1>1. \A v \in Slots : Holds'[v] = IF v = <<t, "held">> THEN x ELSE Holds[v]
  BY DEF Holds, Slots
<1>2. Holds = [v \in Slots |-> Holds[v]] /\ Holds' = [v \in Slots |-> Holds'[v]]
  BY DEF Holds
<1>3. QED
  BY <1>1, <1>2

(* Each abstract operation is a step of the abstract registry.             *)
LEMMA UserStep ==
  ASSUME NEW u \in Slots, NEW i \in Instances,
         \/ Registry!Construct(u, i) \/ Registry!Register(u, i)
         \/ Registry!Acquire(u, i) \/ Registry!Drop(u)
         \/ Registry!Unregister(i) \/ Registry!Destroy(i)
  PROVE  AbstractStep
BY DEF AbstractStep, Registry!Next, Slots

LEMMA ConstructStep ==
  ASSUME IInv, NEW t \in Threads, NEW a \in Addrs, CreateObject(t, a)
  PROVE  AbstractStep
<1> DEFINE u == <<t, "local">>
<1>0. <<a, gen[a] + 1>> \in Instances
  BY PluginManagerAssumption DEF CreateObject, IInv, TypeOK, Instances
<1> PICK i \in Instances : i = <<a, gen[a] + 1>>
  BY <1>0
<1>1. /\ AddrOf(i) = a /\ GenOf(i) = gen[a] + 1
      /\ ref[t] = NoInst /\ ref \in [Threads -> Instances \cup {NoInst}]
      /\ ref' = [ref EXCEPT ![t] = i] /\ UNCHANGED <<held, registry>>
  BY DEF CreateObject, IInv, TypeOK, FramesOK, Holding, AddrOf, GenOf
<1>2. /\ heap[a] = "free" /\ heap' = [heap EXCEPT ![a] = "live"]
      /\ gen' = [gen EXCEPT ![a] = @ + 1]
      /\ heap \in [Addrs -> {"free", "live", "dying"}] /\ gen \in [Addrs -> 0..MaxGen]
  BY DEF CreateObject, IInv, TypeOK
<1>3. \A j \in Alive : Registry!IdOf(j) # Registry!IdOf(i)
  BY <1>1, <1>2, InstanceParts DEF Alive, Registry!IdOf, AddrOf
<1>4. Alive' = Alive \cup {i}
  BY <1>1, <1>2, InstanceParts DEF Alive
<1>5. u \in Slots /\ Holds[u] = NoInst /\ Holds' = [Holds EXCEPT ![u] = i]
  BY <1>1, LocalSet DEF Slots, Holds
<1>6. Registered' = Registered
  BY <1>1 DEF Registered
<1>7. Registry!Construct(u, i)
  BY <1>3, <1>4, <1>5, <1>6 DEF Registry!Construct, Alive, Registered, Holds, Slots
<1>8. QED
  BY <1>5, <1>7, UserStep

LEMMA RegisterStep ==
  ASSUME IInv, NEW t \in Threads, Publish(t)
  PROVE  AbstractStep
<1> DEFINE u == <<t, "local">>
<1>0. ref[t] \in Instances /\ <<t, "local">> \in Holders(AddrOf(ref[t]))
  BY LocalIsHeld DEF IInv, FramesOK, Holding, Publish
<1> PICK i \in Instances : i = ref[t]
  BY <1>0
<1> DEFINE a == AddrOf(i)
<1>1. a \in Addrs /\ Holders(a) = {<<t, "local">>}
  BY InstanceParts DEF IInv, CreatorAlone, Publish
<1>2. registry[a] = NoInst
  BY <1>1, RegisteredIsHeld
<1>3. /\ registry' = [registry EXCEPT ![a] = i] /\ registry \in [Addrs -> Instances \cup {NoInst}]
      /\ UNCHANGED <<heap, gen, ref, held>>
  BY DEF Publish, IInv, TypeOK
<1>4. \A j \in Registered : Registry!IdOf(j) # Registry!IdOf(i)
  BY <1>2, InstanceParts DEF Registered, Registry!IdOf, AddrOf
<1>5. Registered' = Registered \cup {i}
  BY <1>1, <1>2, <1>3, InstanceParts DEF Registered
<1>6. u \in Slots /\ Holds[u] = i /\ Holds' = Holds /\ Alive' = Alive
  BY <1>3 DEF Slots, Holds, Alive
<1>7. Registry!Register(u, i)
  BY <1>4, <1>5, <1>6 DEF Registry!Register, Alive, Registered, Holds, Slots
<1>8. QED
  BY <1>6, <1>7, UserStep

LEMMA AcquireStep ==
  ASSUME IInv, NEW t \in Threads, LookupExecute(t) \/ LookupHold(t),
         registry[AddrOf(arg[t])] # NoInst
  PROVE  AbstractStep
<1>0. /\ AddrOf(arg[t]) \in Addrs /\ registry[AddrOf(arg[t])] \in Instances
      /\ AddrOf(registry[AddrOf(arg[t])]) = AddrOf(arg[t])
  <2>1. AddrOf(arg[t]) \in Addrs
    BY InstanceParts DEF IInv, TypeOK, FramesOK, LookupExecute, LookupHold
  <2>2. QED
    BY <2>1, RegisteredIsHeld
<1> PICK i \in Instances : i = registry[AddrOf(arg[t])]
  BY <1>0
<1>1. i \in Registered
  BY <1>0 DEF Registered
<1>2. CASE LookupExecute(t)
  <2> DEFINE u == <<t, "local">>
  <2>1. /\ ref[t] = NoInst /\ ref \in [Threads -> Instances \cup {NoInst}]
        /\ ref' = [ref EXCEPT ![t] = i] /\ UNCHANGED <<held, registry, heap, gen>>
    BY <1>2 DEF IInv, TypeOK, FramesOK, Holding, LookupExecute
  <2>2. u \in Slots /\ Holds[u] = NoInst /\ Holds' = [Holds EXCEPT ![u] = i]
    BY <2>1, LocalSet DEF Slots, Holds
  <2>3. Registered' = Registered /\ Alive' = Alive
    BY <2>1 DEF Registered, Alive
  <2>4. Registry!Acquire(u, i)
    BY <1>1, <2>2, <2>3 DEF Registry!Acquire, Alive, Registered, Holds, Slots
  <2>5. QED
    BY <2>2, <2>4, UserStep
<1>3. CASE LookupHold(t)
  <2> DEFINE u == <<t, "held">>
  <2>1. /\ held[t] = NoInst /\ held \in [Threads -> Instances \cup {NoInst}]
        /\ held' = [held EXCEPT ![t] = i] /\ UNCHANGED <<ref, registry, heap, gen>>
    BY <1>3 DEF IInv, TypeOK, FramesOK, LookupHold
  <2>2. u \in Slots /\ Holds[u] = NoInst /\ Holds' = [Holds EXCEPT ![u] = i]
    BY <2>1, HeldSet DEF Slots, Holds
  <2>3. Registered' = Registered /\ Alive' = Alive
    BY <2>1 DEF Registered, Alive
  <2>4. Registry!Acquire(u, i)
    BY <1>1, <2>2, <2>3 DEF Registry!Acquire, Alive, Registered, Holds, Slots
  <2>5. QED
    BY <2>2, <2>4, UserStep
<1>4. QED
  BY <1>2, <1>3

(* Releasing a pointer may start a destructor; the memory stays in use.    *)
LEMMA ReleaseKeepsAlive ==
  ASSUME IInv, NEW t \in Threads, NEW i \in Instances, PointsToLiving(i), ReleaseRef(t, i)
  PROVE  Alive' = Alive
<1>1. /\ heap \in [Addrs -> {"free", "live", "dying"}] /\ gen' = gen
      /\ heap' = heap \/ heap' = [heap EXCEPT ![AddrOf(i)] = "dying"]
      /\ heap[AddrOf(i)] = "live"
  BY DEF IInv, TypeOK, ReleaseRef, PointsToLiving
<1>2. \A a \in Addrs : heap[a] = "free" <=> heap'[a] = "free"
  BY <1>1
<1>3. QED
  BY <1>1, <1>2, InstanceParts DEF Alive

LEMMA DropStep ==
  ASSUME IInv, NEW t \in Threads, DropLocal(t) \/ DropHeld(t)
  PROVE  AbstractStep
<1>1. CASE DropLocal(t)
  <2> DEFINE u == <<t, "local">>
  <2>0. ref[t] \in Instances /\ PointsToLiving(ref[t])
    BY <1>1, LocalIsHeld DEF IInv, FramesOK, Holding, DropLocal
  <2> PICK i \in Instances : i = ref[t]
    BY <2>0
  <2>1. /\ ref[t] # NoInst /\ ref \in [Threads -> Instances \cup {NoInst}]
        /\ ref' = [ref EXCEPT ![t] = NoInst] /\ UNCHANGED <<held, registry>>
        /\ ReleaseRef(t, i)
    BY <1>1, <2>0, InstanceParts DEF IInv, TypeOK, DropLocal
  <2>2. u \in Slots /\ Holds[u] # NoInst /\ Holds' = [Holds EXCEPT ![u] = NoInst]
    BY <2>1, LocalSet DEF Slots, Holds
  <2>3. Registered' = Registered /\ Alive' = Alive
    BY <2>0, <2>1, ReleaseKeepsAlive DEF Registered
  <2>4. Registry!Drop(u)
    BY <2>2, <2>3 DEF Registry!Drop, Alive, Registered, Holds, Slots
  <2>5. QED
    BY <2>2, <2>4, UserStep
<1>2. CASE DropHeld(t)
  <2> DEFINE u == <<t, "held">>
  <2>0. held[t] \in Instances /\ PointsToLiving(held[t])
    BY <1>2, LookedUpIsHeld DEF DropHeld
  <2> PICK i \in Instances : i = held[t]
    BY <2>0
  <2>1. /\ held[t] # NoInst /\ held \in [Threads -> Instances \cup {NoInst}]
        /\ held' = [held EXCEPT ![t] = NoInst] /\ UNCHANGED <<ref, registry>>
        /\ ReleaseRef(t, i)
    BY <1>2 DEF IInv, TypeOK, DropHeld
  <2>2. u \in Slots /\ Holds[u] # NoInst /\ Holds' = [Holds EXCEPT ![u] = NoInst]
    BY <2>1, HeldSet DEF Slots, Holds
  <2>3. Registered' = Registered /\ Alive' = Alive
    BY <2>0, <2>1, ReleaseKeepsAlive DEF Registered
  <2>4. Registry!Drop(u)
    BY <2>2, <2>3 DEF Registry!Drop, Alive, Registered, Holds, Slots
  <2>5. QED
    BY <2>2, <2>4, UserStep
<1>3. QED
  BY <1>1, <1>2

LEMMA UnregisterStep ==
  ASSUME IInv, NEW t \in Threads, Erase(t)
  PROVE  AbstractStep
<1> DEFINE a == AddrOf(arg[t])
<1>1. a \in Addrs
  BY InstanceParts DEF IInv, TypeOK, FramesOK, Erase
<1>2. CASE registry[a] = NoInst
  <2>1. UNCHANGED <<registry, ref, held>> /\ gen' = gen /\ heap' = heap
    BY <1>2 DEF Erase, objects
  <2>2. QED
    BY <2>1, InvisibleStep
<1>3. CASE registry[a] # NoInst
  <2>0. /\ registry[a] \in Instances /\ AddrOf(registry[a]) = a /\ PointsToLiving(registry[a])
    BY <1>1, <1>3, RegisteredIsHeld
  <2> PICK i \in Instances : i = registry[a]
    BY <2>0
  <2>1. /\ registry' = [registry EXCEPT ![a] = NoInst]
        /\ registry \in [Addrs -> Instances \cup {NoInst}]
        /\ UNCHANGED <<ref, held>> /\ ReleaseRef(t, i)
    BY <1>3 DEF Erase, IInv, TypeOK
  <2>2. i \in Registered /\ Registered' = Registered \ {i}
    BY <1>1, <2>0, <2>1, InstanceParts DEF Registered
  <2>3. Holds' = Holds /\ Alive' = Alive
    BY <2>0, <2>1, ReleaseKeepsAlive DEF Holds
  <2>4. Registry!Unregister(i)
    BY <2>2, <2>3 DEF Registry!Unregister, Alive, Registered, Holds, Slots
  <2>5. <<t, "local">> \in Slots
    BY DEF Slots
  <2>6. QED
    BY <2>4, <2>5, UserStep
<1>4. QED
  BY <1>2, <1>3

(* The heart of the refinement: when a destructor ends, no pointer and no  *)
(* map entry is left that could reach the object.                          *)
LEMMA DestroyStep ==
  ASSUME IInv, NEW t \in Threads, Destroy(t)
  PROVE  AbstractStep
<1>0. /\ doomed[t] \in Instances /\ heap[AddrOf(doomed[t])] = "dying"
      /\ gen[AddrOf(doomed[t])] = GenOf(doomed[t])
  BY DEF IInv, TypeOK, FramesOK, DoomedDying, Destroy
<1> PICK i \in Instances : i = doomed[t]
  BY <1>0
<1> DEFINE b == AddrOf(i)
<1>1. /\ b \in Addrs /\ heap[b] = "dying" /\ gen[b] = GenOf(i) /\ i # NoInst
      /\ heap' = [heap EXCEPT ![b] = "free"] /\ heap \in [Addrs -> {"free", "live", "dying"}]
      /\ UNCHANGED <<gen, registry, ref, held>>
  BY <1>0, InstanceParts DEF IInv, TypeOK, Destroy
<1>2. i \in Alive /\ Alive' = Alive \ {i}
  BY <1>1, InstanceParts DEF Alive
<1>3. i \notin Registered
  <2>1. registry[b] # i
    BY <1>1, RegisteredIsHeld DEF PointsToLiving
  <2>2. QED
    BY <2>1 DEF Registered
<1>4. \A u \in Slots : Holds[u] # i
  <2>1. \A v \in Threads : ref[v] # i /\ held[v] # i
    BY <1>1, LocalIsHeld, LookedUpIsHeld DEF PointsToLiving
  <2>2. QED
    BY <2>1 DEF Slots, Holds
<1>5. Registered' = Registered /\ Holds' = Holds
  BY <1>1 DEF Registered, Holds
<1>6. Registry!Destroy(i)
  BY <1>2, <1>3, <1>4, <1>5 DEF Registry!Destroy, Alive, Registered, Holds, Slots
<1>7. <<t, "local">> \in Slots
  BY DEF Slots
<1>8. QED
  BY <1>6, <1>7, UserStep
-----------------------------------------------------------------------------
LEMMA NextSimulates == IInv /\ [Next]_vars => AbstractStep
<1> SUFFICES ASSUME IInv, [Next]_vars PROVE AbstractStep
  OBVIOUS
<1>1. CASE UNCHANGED vars
  BY <1>1, InvisibleStep DEF vars
<1>2. ASSUME NEW t \in Threads, Call(t)
      PROVE  AbstractStep
  <2>1. ASSUME NEW a \in Addrs, CreateObject(t, a) PROVE AbstractStep
    BY <2>1, ConstructStep
  <2>2. CASE DropHeld(t)
    BY <2>2, DropStep
  <2>3. ASSUME CreateUnsupported(t) \/ \E h \in Instances :
                 CallExecute(t, h) \/ CallLookup(t, h) \/ CallRelease(t, h)
        PROVE  AbstractStep
    BY <2>3, InvisibleStep DEF CreateUnsupported, CallExecute, CallLookup, CallRelease, objects
  <2>4. QED
    BY <1>2, <2>1, <2>2, <2>3 DEF Call
<1>3. ASSUME NEW t \in Threads, Step(t)
      PROVE  AbstractStep
  <2>1. CASE Publish(t)
    BY <2>1, RegisterStep
  <2>2. CASE DropLocal(t)
    BY <2>2, DropStep
  <2>3. CASE Erase(t)
    BY <2>3, UnregisterStep
  <2>4. CASE Destroy(t)
    BY <2>4, DestroyStep
  <2>5. CASE InitPlugin(t) \/ InitThrows(t) \/ PublishThrows(t) \/ PluginExecute(t)
    BY <2>5, InvisibleStep DEF InitPlugin, InitThrows, PublishThrows, PluginExecute, objects
  <2>6. CASE LookupExecute(t) \/ LookupHold(t)
    <3>1. CASE registry[AddrOf(arg[t])] # NoInst
      BY <2>6, <3>1, AcquireStep
    <3>2. CASE registry[AddrOf(arg[t])] = NoInst /\ LookupExecute(t)
      BY <3>2, InvisibleStep DEF LookupExecute, objects
    <3>3. CASE registry[AddrOf(arg[t])] = NoInst /\ LookupHold(t)
      <4>1. held' = held
        BY <3>3 DEF LookupHold, IInv, TypeOK, FramesOK
      <4>2. QED
        BY <3>3, <4>1, InvisibleStep DEF LookupHold
    <3>4. QED
      BY <2>6, <3>1, <3>2, <3>3
  <2>7. QED
    BY <1>3, <2>1, <2>2, <2>3, <2>4, <2>5, <2>6 DEF Step
<1>4. QED
  BY <1>1, <1>2, <1>3 DEF Next

LEMMA InitSimulates == Init => Registry!Init
<1> SUFFICES ASSUME Init PROVE Registry!Init
  OBVIOUS
<1>1. Alive = {} /\ Registered = {}
  BY InstanceParts DEF Init, Alive, Registered
<1>2. Holds = [u \in Slots |-> NoInst]
  BY DEF Init, Holds, Slots
<1>3. QED
  BY <1>1, <1>2 DEF Registry!Init, Alive, Registered, Holds, Slots

(* The plugin manager implements the abstract registry: lookups find what  *)
(* is registered, registration never displaces, and an instance is         *)
(* destroyed only when it is unregistered and nobody uses it.              *)
THEOREM ManagerImplementsRegistry == Spec => ImplementsRegistry
<1>1. IInv /\ [Next]_vars => [Registry!Next]_(Registry!vars)
  BY NextSimulates DEF AbstractStep, Registry!vars, Alive, Registered, Holds, Slots
<1>2. QED
  BY <1>1, InitSimulates, InductiveInvariant, PTL DEF Spec, ImplementsRegistry, Registry!Spec
=============================================================================
