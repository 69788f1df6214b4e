---------------------------- MODULE ObjectLifetime ----------------------------
(***************************************************************************)
(* Objects behind the ABI and the smart pointers that keep them:           *)
(* unknown_object adds a reference when it is copied and drops one when it *)
(* is assigned over or destroyed; the release that finds the counter at    *)
(* one destroys the object, which drops what the object itself holds, and  *)
(* so on.  The Java binding keeps one reference as a number in a field.    *)
(*                                                                         *)
(* A step is one atomic operation on a counter, or one access to a Java    *)
(* field, with the accesses to the thread's own variables around it.       *)
(*                                                                         *)
(* Clients: a pointer variable belongs to one thread; a pointer is never   *)
(* assigned from a member of the object it holds itself (NotItsOwn); a     *)
(* Java parser is called before its release only (InUse), which overlaps   *)
(* no other call of it (Quiet).                                            *)
(***************************************************************************)
EXTENDS Naturals, Sequences, SequencesExt, FiniteSets

CONSTANTS Threads, Variables,   (* pointer variables of each thread         *)
          Addrs,                (* bounds the objects alive at one time     *)
          Parsers,              (* Java objects                             *)
          Null

Source == ({"local"} \X Variables) \cup ({"member"} \X Addrs) \cup ({"field"} \X Parsers)
Assignment ==
  [step : {"take", "add_ref", "clear"}, into : Variables, from : Source,
   abi : Addrs \cup {Null}, meant : Addrs \cup {Null}]

ASSUME ObjectLifetimeAssumption ==
  /\ IsFiniteSet(Threads) /\ IsFiniteSet(Variables)
  /\ IsFiniteSet(Addrs) /\ IsFiniteSet(Parsers)
  /\ Null \notin Addrs \cup Variables \cup Assignment

VARIABLES heap,               (* what is at each address                    *)
          ref_count, member,  (* of the object there                        *)
          module_ref_count,
          local,              (* the pointer variables                      *)
          mObject,            (* the field of each Java object; Null is 0   *)
          doing,              (* the assignment each thread is in, or Null  *)
          dying,              (* objects it is destroying, innermost last   *)
          status

objects == <<heap, ref_count, member, module_ref_count>>
vars == <<objects, local, mObject, doing, dying, status>>

TypeOK ==
  /\ heap \in [Addrs -> {"free", "live", "dying"}]
  /\ ref_count \in [Addrs -> Nat]
  /\ member \in [Addrs -> Addrs \cup {Null}]
  /\ module_ref_count \in Nat
  /\ local \in [Threads -> [Variables -> Addrs \cup {Null}]]
  /\ mObject \in [Parsers -> Addrs \cup {Null}]
  /\ doing \in [Threads -> Assignment \cup {Null}]
  /\ dying \in [Threads -> Seq(Addrs)]
  /\ \A t \in Threads : \A i, j \in DOMAIN dying[t] : dying[t][i] = dying[t][j] => i = j
  /\ status \in {"running", "undefined"}

Init ==
  /\ heap = [a \in Addrs |-> "free"]
  /\ ref_count = [a \in Addrs |-> 0]
  /\ member = [a \in Addrs |-> Null]
  /\ module_ref_count = 0
  /\ local = [t \in Threads |-> [v \in Variables |-> Null]]
  /\ mObject = [p \in Parsers |-> Null]
  /\ doing = [t \in Threads |-> Null]
  /\ dying = [t \in Threads |-> <<>>]
  /\ status = "running"
-----------------------------------------------------------------------------
Free(t) == dying[t] = <<>> /\ status = "running"
Idle(t) == Free(t) /\ doing[t] = Null
At(t, step) == doing[t] # Null /\ doing[t].step = step

(* The counter goes up; to count what is gone is undefined.                *)
AddRef(a) ==
  /\ status' = IF heap[a] = "live" THEN status ELSE "undefined"
  /\ ref_count' = [ref_count EXCEPT ![a] = @ + 1]

(* The counter goes down, and at zero destruction begins; below zero the   *)
(* process ends, and so it may for a counter that is no longer there.      *)
Release(t, a) ==
  IF ref_count[a] = 0
  THEN status' = "undefined" /\ UNCHANGED <<heap, ref_count, dying>>
  ELSE /\ ref_count' = [ref_count EXCEPT ![a] = @ - 1]
       /\ IF ref_count[a] = 1
          THEN /\ heap' = [heap EXCEPT ![a] = "dying"]
               /\ dying' = [dying EXCEPT ![t] = Append(@, a)]
          ELSE UNCHANGED <<heap, dying>>
       /\ UNCHANGED status

(* A pointer that lets go is null or loses a reference.                    *)
LetGo(t, a) ==
  /\ IF a = Null THEN UNCHANGED <<heap, ref_count, dying, status>> ELSE Release(t, a)
  /\ UNCHANGED <<member, module_ref_count>>

(* An object at a, counted once by its creator and once by the module.     *)
Construct(a, m) ==
  /\ heap[a] = "free"
  /\ heap' = [heap EXCEPT ![a] = "live"]
  /\ ref_count' = [ref_count EXCEPT ![a] = 1]
  /\ member' = [member EXCEPT ![a] = m]
  /\ module_ref_count' = module_ref_count + 1
  /\ UNCHANGED <<dying, status>>
-----------------------------------------------------------------------------
(* Pointer variables.                                                      *)

(* A new object, which takes over the pointer w if w is a variable.        *)
Make(t, v, w, a) ==
  /\ Idle(t)
  /\ local[t][v] = Null /\ v # w
  /\ Construct(a, IF w = Null THEN Null ELSE local[t][w])
  /\ local' = [local EXCEPT ![t] =
       [x \in Variables |-> IF x = v THEN a ELSE IF x = w THEN Null ELSE @[x]]]
  /\ UNCHANGED <<mObject, doing>>

(* v is destroyed, or assigned nullptr.                                    *)
Reset(t, v) ==
  /\ Idle(t)
  /\ LetGo(t, local[t][v])
  /\ local' = [local EXCEPT ![t][v] = Null]
  /\ UNCHANGED <<mObject, doing>>

(* v = std::move(w)                                                        *)
MoveAssign(t, v, w) ==
  /\ Idle(t) /\ v # w
  /\ LetGo(t, local[t][v])
  /\ local' = [local EXCEPT ![t][v] = local[t][w], ![t][w] = Null]
  /\ UNCHANGED <<mObject, doing>>

(* A pointer goes to another thread, through something that synchronises.  *)
HandOver(t, v, u, w) ==
  /\ Idle(t) /\ Idle(u) /\ t # u
  /\ local[t][v] # Null /\ local[u][w] = Null
  /\ local' = [local EXCEPT ![t][v] = Null, ![u][w] = local[t][v]]
  /\ UNCHANGED <<objects, mObject, doing, dying, status>>

Taking(v, s, a) == [step |-> "take", into |-> v, from |-> s, abi |-> Null, meant |-> a]

(* Fault: nothing asks whether both sides are one pointer.                 *)
CopyAssignUnchecked(t, v, w) ==
  /\ Idle(t)
  /\ LetGo(t, local[t][v])
  /\ local' = [local EXCEPT ![t][v] = Null]
  /\ doing' = [doing EXCEPT ![t] = Taking(v, <<"local", w>>, local[t][w])]
  /\ UNCHANGED mObject

(* v = w; v lets go of its object before it looks at w.  A copy, or the    *)
(* result of a successful as<>, is the case of a v that was null.          *)
CopyAssign(t, v, w) ==
  /\ Idle(t) /\ v # w
  /\ LetGo(t, local[t][v])
  /\ local' = [local EXCEPT ![t][v] = Null]
  /\ doing' = [doing EXCEPT ![t] = Taking(v, <<"local", w>>, local[t][w])]
  /\ UNCHANGED mObject

(* The pointer read is a member of the object that w, and not v, holds.    *)
NotItsOwn(v, w) == v # w

(* v = w->member                                                           *)
AssignMember(t, v, w) ==
  /\ Idle(t) /\ NotItsOwn(v, w) /\ local[t][w] # Null
  /\ LetGo(t, local[t][v])
  /\ local' = [local EXCEPT ![t][v] = Null]
  /\ doing' = [doing EXCEPT ![t] =
       Taking(v, <<"member", local[t][w]>>, member[local[t][w]])]
  /\ UNCHANGED mObject
-----------------------------------------------------------------------------
(* The Java binding.                                                       *)

Quiet(p) == \A u \in Threads : doing[u] # Null => doing[u].from # <<"field", p>>

Releasing(p) == \E t \in Threads : At(t, "clear") /\ doing[t].from = <<"field", p>>
InUse(p) == mObject[p] # Null /\ ~Releasing(p)

(* The constructor of the Java object: the pointer is detached.            *)
JavaInit(t, p, a) ==
  /\ Idle(t)
  /\ Quiet(p) /\ mObject[p] = Null
  /\ Construct(a, Null)
  /\ mObject' = [mObject EXCEPT ![p] = a]
  /\ UNCHANGED <<local, doing>>

(* A native call makes a pointer of its own out of the field.              *)
JavaCall(t, p, v) ==
  /\ Idle(t) /\ local[t][v] = Null
  /\ InUse(p)
  /\ doing' = [doing EXCEPT ![t] = Taking(v, <<"field", p>>, mObject[p])]
  /\ UNCHANGED <<objects, local, mObject, dying, status>>

(* release: a pointer takes over what the field counts ...                 *)
JavaRelease(t, p, v) ==
  /\ Idle(t) /\ local[t][v] = Null
  /\ Quiet(p)
  /\ local' = [local EXCEPT ![t][v] = mObject[p]]
  /\ doing' = [doing EXCEPT ![t] =
       [step |-> "clear", into |-> v, from |-> <<"field", p>>, abi |-> Null,
        meant |-> mObject[p]]]
  /\ UNCHANGED <<objects, mObject, dying, status>>

(* Fault: the field keeps its value.                                       *)
JavaKeepsField(t) ==
  /\ Free(t) /\ At(t, "clear")
  /\ LetGo(t, local[t][doing[t].into])
  /\ local' = [local EXCEPT ![t][doing[t].into] = Null]
  /\ doing' = [doing EXCEPT ![t] = Null]
  /\ UNCHANGED mObject

(* ... the field becomes zero, and the pointer is destroyed.               *)
JavaClears(t) ==
  /\ Free(t) /\ At(t, "clear")
  /\ mObject' = [mObject EXCEPT ![doing[t].from[2]] = Null]
  /\ LetGo(t, local[t][doing[t].into])
  /\ local' = [local EXCEPT ![t][doing[t].into] = Null]
  /\ doing' = [doing EXCEPT ![t] = Null]
-----------------------------------------------------------------------------
(* What an assignment has left to do, and destruction.                     *)

ValueOf(t, s) ==
  IF s[1] = "local" THEN local[t][s[2]]
  ELSE IF s[1] = "member" THEN member[s[2]] ELSE mObject[s[2]]

Gone(s) == s[1] = "member" /\ heap[s[2]] = "free"

(* The right side is read now.                                             *)
Take(t) ==
  /\ Free(t) /\ At(t, "take")
  /\ doing' = [doing EXCEPT ![t].step = "add_ref", ![t].abi = ValueOf(t, doing[t].from)]
  /\ status' = IF Gone(doing[t].from) THEN "undefined" ELSE status
  /\ UNCHANGED <<objects, local, mObject, dying>>

(* Fault: what the field says is taken as it is.                           *)
CountUncounted(t) ==
  /\ Free(t) /\ At(t, "add_ref")
  /\ IF doing[t].abi = Null \/ doing[t].from[1] = "field"
     THEN UNCHANGED <<ref_count, status>> ELSE AddRef(doing[t].abi)
  /\ local' = [local EXCEPT ![t][doing[t].into] = doing[t].abi]
  /\ doing' = [doing EXCEPT ![t] = Null]
  /\ UNCHANGED <<heap, member, module_ref_count, mObject, dying>>

Count(t) ==
  /\ Free(t) /\ At(t, "add_ref")
  /\ IF doing[t].abi = Null THEN UNCHANGED <<ref_count, status>> ELSE AddRef(doing[t].abi)
  /\ local' = [local EXCEPT ![t][doing[t].into] = doing[t].abi]
  /\ doing' = [doing EXCEPT ![t] = Null]
  /\ UNCHANGED <<heap, member, module_ref_count, mObject, dying>>

(* Fault: what the object holds is left as it is.                          *)
ForgetMember(t) ==
  /\ dying[t] # <<>> /\ status = "running"
  /\ member[Last(dying[t])] # Null
  /\ member' = [member EXCEPT ![Last(dying[t])] = Null]
  /\ UNCHANGED <<heap, ref_count, module_ref_count, local, mObject, doing, dying, status>>

(* The destructor drops what the object holds, which may die with it ...   *)
DestroyMember(t) ==
  /\ dying[t] # <<>> /\ status = "running"
  /\ LET a == Last(dying[t]) IN
       /\ member[a] # Null
       /\ Release(t, member[a])
       /\ member' = [member EXCEPT ![a] = Null]
  /\ UNCHANGED <<module_ref_count, local, mObject, doing>>

(* Fault: the memory is given back, the destructor goes on.                *)
DestroyObjectOnly(t) ==
  /\ dying[t] # <<>> /\ status = "running"
  /\ LET a == Last(dying[t]) IN
       /\ member[a] = Null
       /\ heap[a] = "dying"
       /\ heap' = [heap EXCEPT ![a] = "free"]
  /\ module_ref_count' = module_ref_count - 1
  /\ UNCHANGED <<ref_count, member, local, mObject, doing, dying, status>>

(* ... then the object is no longer counted, and its memory is free.       *)
DestroyObject(t) ==
  /\ dying[t] # <<>> /\ status = "running"
  /\ LET a == Last(dying[t]) IN
       /\ member[a] = Null
       /\ heap' = [heap EXCEPT ![a] = "free"]
  /\ dying' = [dying EXCEPT ![t] = Front(@)]
  /\ module_ref_count' = module_ref_count - 1
  /\ UNCHANGED <<ref_count, member, local, mObject, doing, status>>

Continue(t) == JavaClears(t) \/ Take(t) \/ Count(t) \/ DestroyMember(t) \/ DestroyObject(t)

Next ==
  \E t \in Threads :
    \/ Continue(t)
    \/ \E v \in Variables :
         \/ Reset(t, v)
         \/ \E w \in Variables : MoveAssign(t, v, w) \/ CopyAssign(t, v, w) \/ AssignMember(t, v, w)
         \/ \E w \in Variables \cup {Null}, a \in Addrs : Make(t, v, w, a)
         \/ \E u \in Threads, w \in Variables : HandOver(t, v, u, w)
         \/ \E p \in Parsers : JavaCall(t, p, v) \/ JavaRelease(t, p, v)
    \/ \E p \in Parsers, a \in Addrs : JavaInit(t, p, a)

Spec == Init /\ [][Next]_vars
FairSpec == Spec /\ \A t \in Threads : WF_vars(Continue(t))
-----------------------------------------------------------------------------
(* What can own a reference, and what it owns: a pointer variable, a       *)
(* member, or a field that no release has taken over.                      *)
Slot == ({"local"} \X (Threads \X Variables)) \cup ({"member"} \X Addrs) \cup ({"field"} \X Parsers)

Owned(s) ==
  IF s[1] = "local" THEN local[s[2][1]][s[2][2]]
  ELSE IF s[1] = "member" THEN member[s[2]]
  ELSE IF Releasing(s[2]) THEN Null ELSE mObject[s[2]]

Owners(a) == {s \in Slot : Owned(s) = a}

(* The counter of an object is the number of variables, members and Java   *)
(* fields that own a reference; the module's counter, which tells whether  *)
(* it can be unloaded, is the number of its objects.                       *)
CountsExact ==
  /\ \A a \in Addrs : ref_count[a] = Cardinality(Owners(a))
  /\ module_ref_count = Cardinality({a \in Addrs : heap[a] # "free"})

(* Whatever a thread, an object or a Java field designates is an object    *)
(* that lives, and so is what an assignment is about to count: nothing     *)
(* destroyed is ever used or counted.                                      *)
NoDanglingPointer ==
  /\ status = "running"
  /\ \A t \in Threads, v \in Variables : local[t][v] # Null => heap[local[t][v]] = "live"
  /\ \A a \in Addrs : member[a] # Null => heap[a] # "free" /\ heap[member[a]] = "live"
  /\ \A p \in Parsers : mObject[p] # Null => heap[mObject[p]] = "live"
  /\ \A t \in Threads :
       At(t, "add_ref") /\ doing[t].abi # Null => heap[doing[t].abi] = "live"

(* Although the left side lets go first, with all that this destroys, an   *)
(* assignment ends with the object the right side designated at its start. *)
AssignmentKeepsItsSource ==
  \A t \in Threads : At(t, "add_ref") => doing[t].abi = doing[t].meant

(* What a live object can be reached from: variables, fields, what is      *)
(* being destroyed, and objects that can be reached.                       *)
Roots == {a \in Addrs :
            \/ \E s \in Owners(a) : s[1] # "member"
            \/ \E t \in Threads : a \in ToSet(dying[t])}

(* Nothing is lost: every object that still exists is on a path of members *)
(* from something that is in use or is being destroyed.                    *)
NothingIsLost ==
  \A S \in SUBSET Addrs :
    Roots \subseteq S /\ (\A a \in S : member[a] # Null => member[a] \in S)
      => \A a \in Addrs : heap[a] # "free" => a \in S

(* Destruction ends, however long the chain of objects it takes along.     *)
DestructionEnds == \A a \in Addrs : heap[a] = "dying" ~> heap[a] = "free"
=============================================================================
