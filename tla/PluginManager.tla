---------------------------- MODULE PluginManager ----------------------------
(***************************************************************************)
(* The process-wide plugin manager: threads create algorithm instances,    *)
(* execute them through an identifier, look them up and release them.      *)
(* The identifier of an instance is a hash of its heap address, so it      *)
(* comes back when the allocator hands the address out again.  An          *)
(* instance <<a, g>> is the g-th object constructed at address a; the      *)
(* program sees the address only, g lets the properties tell two objects   *)
(* at one address apart.                                                   *)
(*                                                                         *)
(* One action is one critical section, one atomic counter operation or     *)
(* one call into a plugin.                                                 *)
(***************************************************************************)
EXTENDS Integers, FiniteSets

CONSTANTS Threads,     (* client threads                                    *)
          Addrs,       (* heap addresses plugin objects can live at         *)
          MaxGen,      (* bound: objects constructed at one address         *)
          ClientRule,  (* what the clients promise, see MayUse, MayRelease  *)
          NoThread,    (* the mutex is free                                 *)
          NoInst       (* a null smart pointer                              *)

Instances == Addrs \X (1..MaxGen)
AddrOf(i) == i[1]
GenOf(i)  == i[2]

ASSUME PluginManagerAssumption ==
  /\ IsFiniteSet(Threads)
  /\ MaxGen \in Nat
  /\ ClientRule \in {"any", "once", "quiescent"}
  /\ NoThread \notin Threads
  /\ NoInst \notin Instances

VARIABLES heap,      (* state of the memory at each address                 *)
          gen,       (* objects constructed so far at each address          *)
          rc,        (* ref_count_ of the object at each address            *)
          registry,  (* plugin_instances_map_, by identifier                *)
          mutex,     (* the thread inside mutex_ across steps, or NoThread  *)
          pc,        (* where each thread is                                *)
          ref,       (* the local smart pointer "instance" of its frame     *)
          doomed,    (* the object whose destructor the thread is running   *)
          held,      (* a reference its client got from lookup              *)
          arg,       (* the identifier its client passed, as issued         *)
          outcome,   (* what the last call answered                         *)
          issued,    (* identifiers handed to the clients                   *)
          released   (* identifiers some client has passed to release       *)

objects == <<heap, gen, rc>>
clients == <<issued, released>>
vars == <<heap, gen, rc, registry, mutex, pc, ref, doomed, held, arg,
          outcome, issued, released>>

Labels == {"idle", "init", "publish", "lookup", "find", "call", "drop",
           "erase", "destroy"}

TypeOK ==
  /\ heap \in [Addrs -> {"free", "live", "dying"}]
  /\ gen \in [Addrs -> 0..MaxGen]
  /\ rc \in [Addrs -> Nat]
  /\ registry \in [Addrs -> Instances \cup {NoInst}]
  /\ mutex \in Threads \cup {NoThread}
  /\ pc \in [Threads -> Labels]
  /\ ref \in [Threads -> Instances \cup {NoInst}]
  /\ doomed \in [Threads -> Instances \cup {NoInst}]
  /\ held \in [Threads -> Instances \cup {NoInst}]
  /\ arg \in [Threads -> Instances \cup {NoInst}]
  /\ outcome \in [Threads -> {"none", "id", "error", "result", "done"}]
  /\ issued \subseteq Instances
  /\ released \subseteq issued

Init ==
  /\ heap = [a \in Addrs |-> "free"]
  /\ gen = [a \in Addrs |-> 0]
  /\ rc = [a \in Addrs |-> 0]
  /\ registry = [a \in Addrs |-> NoInst]
  /\ mutex = NoThread
  /\ pc = [t \in Threads |-> "idle"]
  /\ ref = [t \in Threads |-> NoInst]
  /\ doomed = [t \in Threads |-> NoInst]
  /\ held = [t \in Threads |-> NoInst]
  /\ arg = [t \in Threads |-> NoInst]
  /\ outcome = [t \in Threads |-> "none"]
  /\ issued = {}
  /\ released = {}
-----------------------------------------------------------------------------
(* Helpers.                                                                *)

Goto(t, label) == pc' = [pc EXCEPT ![t] = label]
Answer(t, o)   == outcome' = [outcome EXCEPT ![t] = o]

AddRef(i) == rc' = [rc EXCEPT ![AddrOf(i)] = @ + 1]

(* The frame of t gives its reference to i up.  The release that brings    *)
(* the counter to zero runs the destructor on the same thread.             *)
LastRefEarly(i) == rc[AddrOf(i)] <= 2   \* fault: tests the old count

LastRef(i) == rc[AddrOf(i)] = 1

ReleaseRef(t, i) ==
  /\ rc' = [rc EXCEPT ![AddrOf(i)] = @ - 1]
  /\ heap' = IF LastRef(i) THEN [heap EXCEPT ![AddrOf(i)] = "dying"] ELSE heap
  /\ doomed' = IF LastRef(i) THEN [doomed EXCEPT ![t] = i] ELSE doomed
  /\ UNCHANGED gen

(* The call of t returns to its client; create hands the identifier out.   *)
Return(t, i) ==
  /\ Goto(t, "idle")
  /\ arg' = [arg EXCEPT ![t] = NoInst]
  /\ issued' = IF outcome[t] = "id" THEN issued \cup {i} ELSE issued
  /\ UNCHANGED released

(* What clients do: "any" reuses identifiers at will, "once" starts no     *)
(* call with an identifier after it started to release it, "quiescent"     *)
(* also waits for the calls using an identifier before it releases it.     *)
MayUse(h) == /\ h \in issued
             /\ ClientRule = "any" \/ h \notin released

MayRelease(h) == /\ MayUse(h)
                 /\ ClientRule = "quiescent" => \A u \in Threads : arg[u] # h
-----------------------------------------------------------------------------
(* create_algo_instance                                                    *)

(* The loader constructs the object; the frame keeps the one reference     *)
(* left when the temporary the loader returned is gone.                    *)
CreateObject(t, a) ==
  /\ pc[t] = "idle"
  /\ heap[a] = "free"
  /\ gen[a] < MaxGen
  /\ heap' = [heap EXCEPT ![a] = "live"]
  /\ gen' = [gen EXCEPT ![a] = @ + 1]
  /\ rc' = [rc EXCEPT ![a] = 1]
  /\ ref' = [ref EXCEPT ![t] = <<a, gen[a] + 1>>]
  /\ Goto(t, "init")
  /\ Answer(t, "none")
  /\ UNCHANGED <<registry, mutex, doomed, held, arg, clients>>

(* No such component: nothing is constructed.                              *)
CreateUnsupported(t) ==
  /\ pc[t] = "idle"
  /\ Answer(t, "error")
  /\ UNCHANGED <<objects, registry, mutex, pc, ref, doomed, held, arg, clients>>

InitPlugin(t) ==
  /\ pc[t] = "init"
  /\ Goto(t, "publish")
  /\ UNCHANGED <<objects, registry, mutex, ref, doomed, held, arg, outcome, clients>>

(* Fault: the frame is left without dropping its reference.                *)
InitThrowsLeaks(t) ==
  /\ pc[t] = "init"
  /\ ref' = [ref EXCEPT ![t] = NoInst]
  /\ Answer(t, "error")
  /\ Goto(t, "idle")
  /\ UNCHANGED <<objects, registry, mutex, doomed, held, arg, clients>>

(* The object is no algo_plugin_interface, or the plugin's init fails;     *)
(* unwinding drops the only reference.                                     *)
InitThrows(t) ==
  /\ pc[t] = "init"
  /\ Answer(t, "error")
  /\ Goto(t, "drop")
  /\ UNCHANGED <<objects, registry, mutex, ref, doomed, held, arg, clients>>

(* Fault: the map keeps the bare pointer and counts no reference.          *)
PublishUncounted(t) ==
  /\ pc[t] = "publish"
  /\ mutex = NoThread
  /\ registry' = [registry EXCEPT ![AddrOf(ref[t])] = ref[t]]
  /\ Answer(t, "id")
  /\ Goto(t, "drop")
  /\ UNCHANGED <<objects, mutex, ref, doomed, held, arg, clients>>

(* insert_or_assign under the lock.  Assigning over an entry would release *)
(* the pointer stored there, which has the same address: the counter of    *)
(* the object at that address would not change.                            *)
Publish(t) ==
  /\ pc[t] = "publish"
  /\ mutex = NoThread
  /\ LET a == AddrOf(ref[t])
     IN /\ registry' = [registry EXCEPT ![a] = ref[t]]
        /\ IF registry[a] = NoInst THEN AddRef(ref[t]) ELSE UNCHANGED rc
  /\ Answer(t, "id")
  /\ Goto(t, "drop")
  /\ UNCHANGED <<heap, gen, mutex, ref, doomed, held, arg, clients>>

(* Fault: the failure is swallowed and an identifier is returned.          *)
PublishThrowsSilently(t) ==
  /\ pc[t] = "publish"
  /\ mutex = NoThread
  /\ Answer(t, "id")
  /\ Goto(t, "drop")
  /\ UNCHANGED <<objects, registry, mutex, ref, doomed, held, arg, clients>>

(* The map cannot allocate its node: nothing is inserted, create unwinds.  *)
PublishThrows(t) ==
  /\ pc[t] = "publish"
  /\ mutex = NoThread
  /\ Answer(t, "error")
  /\ Goto(t, "drop")
  /\ UNCHANGED <<objects, registry, mutex, ref, doomed, held, arg, clients>>
-----------------------------------------------------------------------------
(* execute and lookup                                                      *)

CallExecute(t, h) ==
  /\ pc[t] = "idle"
  /\ MayUse(h)
  /\ arg' = [arg EXCEPT ![t] = h]
  /\ Answer(t, "none")
  /\ Goto(t, "lookup")
  /\ UNCHANGED <<objects, registry, mutex, ref, doomed, held, clients>>

(* Fault: the entry is used after the lock without a reference of its own. *)
LookupExecuteUncounted(t) ==
  /\ pc[t] = "lookup"
  /\ mutex = NoThread
  /\ registry[AddrOf(arg[t])] # NoInst
  /\ ref' = [ref EXCEPT ![t] = registry[AddrOf(arg[t])]]
  /\ Goto(t, "call")
  /\ UNCHANGED <<objects, registry, mutex, doomed, held, arg, outcome, clients>>

(* lookup inside execute: the entry is copied, and its counter raised,     *)
(* before the lock is given up; a missing entry is abi_key_not_found.      *)
LookupExecute(t) ==
  LET i == registry[AddrOf(arg[t])]
  IN /\ pc[t] = "lookup"
     /\ mutex = NoThread
     /\ \/ /\ i # NoInst
           /\ AddRef(i)
           /\ ref' = [ref EXCEPT ![t] = i]
           /\ Goto(t, "call")
           /\ UNCHANGED <<heap, gen, arg, outcome, clients>>
        \/ /\ i = NoInst
           /\ Answer(t, "error")
           /\ Return(t, NoInst)
           /\ UNCHANGED <<objects, ref>>
     /\ UNCHANGED <<registry, mutex, doomed, held>>

(* The plugin runs, outside the lock, and returns or throws.               *)
PluginExecute(t) ==
  /\ pc[t] = "call"
  /\ \/ Answer(t, "result")
     \/ Answer(t, "error")
  /\ Goto(t, "drop")
  /\ UNCHANGED <<objects, registry, mutex, ref, doomed, held, arg, clients>>

(* The local smart pointer of create or execute goes out of scope.         *)
DropLocal(t) ==
  /\ pc[t] = "drop"
  /\ ReleaseRef(t, ref[t])
  /\ ref' = [ref EXCEPT ![t] = NoInst]
  /\ IF LastRef(ref[t])
     THEN /\ Goto(t, "destroy")
          /\ UNCHANGED <<arg, clients>>
     ELSE Return(t, ref[t])
  /\ UNCHANGED <<registry, mutex, held, outcome>>

CallLookup(t, h) ==
  /\ pc[t] = "idle"
  /\ held[t] = NoInst
  /\ MayUse(h)
  /\ arg' = [arg EXCEPT ![t] = h]
  /\ Answer(t, "none")
  /\ Goto(t, "find")
  /\ UNCHANGED <<objects, registry, mutex, ref, doomed, held, clients>>

(* lookup as an operation of its own: the client keeps what it returns.    *)
LookupHold(t) ==
  LET i == registry[AddrOf(arg[t])]
  IN /\ pc[t] = "find"
     /\ mutex = NoThread
     /\ held' = [held EXCEPT ![t] = i]
     /\ IF i # NoInst THEN AddRef(i) ELSE UNCHANGED rc
     /\ Answer(t, "result")
     /\ Goto(t, "idle")
     /\ arg' = [arg EXCEPT ![t] = NoInst]
     /\ UNCHANGED <<heap, gen, registry, mutex, ref, doomed, clients>>

(* The client lets go of a reference it got from lookup.                   *)
DropHeld(t) ==
  /\ pc[t] = "idle"
  /\ held[t] # NoInst
  /\ ReleaseRef(t, held[t])
  /\ held' = [held EXCEPT ![t] = NoInst]
  /\ Answer(t, "none")
  /\ Goto(t, IF LastRef(held[t]) THEN "destroy" ELSE "idle")
  /\ UNCHANGED <<registry, mutex, ref, arg, clients>>
-----------------------------------------------------------------------------
(* release_algo_instance                                                   *)

CallRelease(t, h) ==
  /\ pc[t] = "idle"
  /\ MayRelease(h)
  /\ arg' = [arg EXCEPT ![t] = h]
  /\ released' = released \cup {h}
  /\ Answer(t, "none")
  /\ Goto(t, "erase")
  /\ UNCHANGED <<objects, registry, mutex, ref, doomed, held, issued>>

(* erase under the lock; the entry is unlinked, then its reference goes.   *)
(* If it was the last one the destructor runs before the lock is released. *)
Erase(t) ==
  LET i == registry[AddrOf(arg[t])]
  IN /\ pc[t] = "erase"
     /\ mutex = NoThread
     /\ Answer(t, "done")
     /\ \/ /\ i = NoInst
           /\ Goto(t, "idle")
           /\ arg' = [arg EXCEPT ![t] = NoInst]
           /\ UNCHANGED <<objects, registry, mutex, doomed>>
        \/ /\ i # NoInst
           /\ registry' = [registry EXCEPT ![AddrOf(arg[t])] = NoInst]
           /\ ReleaseRef(t, i)
           /\ mutex' = IF LastRef(i) THEN t ELSE NoThread
           /\ Goto(t, IF LastRef(i) THEN "destroy" ELSE "idle")
           /\ arg' = IF LastRef(i) THEN arg ELSE [arg EXCEPT ![t] = NoInst]
     /\ UNCHANGED <<ref, held, clients>>

(* Fault: the lock is not given up after the destructor.                   *)
DestroyKeepsLock(t) ==
  /\ pc[t] = "destroy"
  /\ heap' = [heap EXCEPT ![AddrOf(doomed[t])] = "free"]
  /\ doomed' = [doomed EXCEPT ![t] = NoInst]
  /\ Return(t, doomed[t])
  /\ UNCHANGED <<gen, rc, registry, mutex, ref, held, outcome>>

(* The destructor ends and the memory goes back to the allocator; an erase *)
(* then gives the lock up.                                                 *)
Destroy(t) ==
  /\ pc[t] = "destroy"
  /\ heap' = [heap EXCEPT ![AddrOf(doomed[t])] = "free"]
  /\ doomed' = [doomed EXCEPT ![t] = NoInst]
  /\ mutex' = IF mutex = t THEN NoThread ELSE mutex
  /\ Return(t, doomed[t])
  /\ UNCHANGED <<gen, rc, registry, ref, held, outcome>>
-----------------------------------------------------------------------------
(* What a client decides, and what a thread inside a call goes on to do.   *)
Call(t) ==
  \/ \E a \in Addrs : CreateObject(t, a)
  \/ CreateUnsupported(t)
  \/ \E h \in Instances : CallExecute(t, h) \/ CallLookup(t, h) \/ CallRelease(t, h)
  \/ DropHeld(t)

Step(t) ==
  \/ InitPlugin(t) \/ InitThrows(t) \/ Publish(t) \/ PublishThrows(t)
  \/ LookupExecute(t) \/ PluginExecute(t) \/ DropLocal(t)
  \/ LookupHold(t) \/ Erase(t) \/ Destroy(t)

Next == \E t \in Threads : Call(t) \/ Step(t)

Spec == Init /\ [][Next]_vars

(* A thread inside a call keeps running; clients owe nothing.              *)
FairSpec == Spec /\ \A t \in Threads : WF_vars(Step(t))
-----------------------------------------------------------------------------
(* Properties.                                                             *)

(* Every strong reference: local and looked-up ones, and the map entry.    *)
Tokens == (Threads \X {"local", "held"}) \cup {<<NoThread, "map">>}

Pointer(k, a) == IF k[2] = "local" THEN ref[k[1]]
                 ELSE IF k[2] = "held" THEN held[k[1]]
                 ELSE registry[a]

Holders(a) == {k \in Tokens : /\ Pointer(k, a) # NoInst
                              /\ AddrOf(Pointer(k, a)) = a}

(* A smart pointer, local, looked-up or in the map, points to a living     *)
(* object, the very one it was set to and not a later one at its address.  *)
PointsToLiving(i) == heap[AddrOf(i)] = "live" /\ gen[AddrOf(i)] = GenOf(i)

NoDanglingReference ==
  \A a \in Addrs : \A k \in Tokens :
    Pointer(k, a) # NoInst => PointsToLiving(Pointer(k, a))

(* The counter of an object is the number of references to it, in every    *)
(* interleaving of create, execute, lookup and release: no underflow (the  *)
(* code would terminate), no leak of an object that nobody references.     *)
RefCountExact ==
  \A a \in Addrs : /\ rc[a] = Cardinality(Holders(a))
                   /\ heap[a] = "live" <=> rc[a] > 0

(* insert_or_assign never assigns: the identifier of a new instance is not *)
(* in the map, because an entry keeps its address from being handed out.   *)
NoOverwrite ==
  [][\A a \in Addrs : registry[a] # NoInst => registry'[a] \in {registry[a], NoInst}]_vars

(* An identifier that was handed out and that no client has released finds *)
(* its own instance, provided no client uses a released identifier again.  *)
UnreleasedIsRegistered ==
  ClientRule # "any" =>
    \A h \in issued \ released : registry[AddrOf(h)] = h

(* If clients also wait for running calls before they release, a plugin    *)
(* executes for the identifier that was passed, never for a later owner of *)
(* the same address.                                                       *)
ExecutesOwnInstance ==
  ClientRule = "quiescent" =>
    \A t \in Threads : pc[t] = "call" => ref[t] = arg[t]

(* No call waits for ever for the lock, which is held across steps only    *)
(* while a destructor runs.                                                *)
EveryCallReturns == \A t \in Threads : pc[t] # "idle" ~> pc[t] = "idle"

(* The manager implements the abstract registry: an instance is destroyed  *)
(* only when it is unregistered and no caller uses it.                     *)
Registry == INSTANCE InstanceRegistry WITH
  Users      <- Threads \X {"local", "held"},
  alive      <- {i \in Instances : heap[AddrOf(i)] # "free" /\ gen[AddrOf(i)] = GenOf(i)},
  registered <- {i \in Instances : registry[AddrOf(i)] = i},
  holds      <- [u \in Threads \X {"local", "held"} |->
                  IF u[2] = "local" THEN ref[u[1]] ELSE held[u[1]]]

ImplementsRegistry == Registry!Spec
=============================================================================
