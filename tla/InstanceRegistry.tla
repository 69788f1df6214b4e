-------------------------- MODULE InstanceRegistry --------------------------
(***************************************************************************)
(* What the plugin manager promises its clients, with no reference counts, *)
(* no lock and no heap: instances are constructed, registered under an     *)
(* identifier, acquired through the registry by users, unregistered, and   *)
(* destroyed only when nobody can reach them any more.                     *)
(***************************************************************************)
CONSTANTS Users,      (* whoever may hold one strong reference              *)
          Instances,  (* pairs <<identifier, incarnation>>                  *)
          NoInst      (* "holds nothing"                                    *)

VARIABLES alive,       (* instances constructed and not yet destroyed       *)
          registered,  (* instances a lookup can find                       *)
          holds        (* the instance each user holds, or NoInst           *)

vars == <<alive, registered, holds>>

IdOf(i) == i[1]

Init == /\ alive = {}
        /\ registered = {}
        /\ holds = [u \in Users |-> NoInst]

(* A user constructs an instance at an identifier no living instance has.  *)
Construct(u, i) ==
  /\ \A j \in alive : IdOf(j) # IdOf(i)
  /\ holds[u] = NoInst
  /\ alive' = alive \cup {i}
  /\ holds' = [holds EXCEPT ![u] = i]
  /\ UNCHANGED registered

(* Registration never displaces a registered instance.                     *)
Register(u, i) ==
  /\ holds[u] = i
  /\ \A j \in registered : IdOf(j) # IdOf(i)
  /\ registered' = registered \cup {i}
  /\ UNCHANGED <<alive, holds>>

(* A user can acquire what is registered, and nothing else.                *)
Acquire(u, i) ==
  /\ i \in registered
  /\ holds[u] = NoInst
  /\ holds' = [holds EXCEPT ![u] = i]
  /\ UNCHANGED <<alive, registered>>

Drop(u) ==
  /\ holds[u] # NoInst
  /\ holds' = [holds EXCEPT ![u] = NoInst]
  /\ UNCHANGED <<alive, registered>>

Unregister(i) ==
  /\ i \in registered
  /\ registered' = registered \ {i}
  /\ UNCHANGED <<alive, holds>>

(* The destructor finishes: by then no registry entry and no user is left. *)
Destroy(i) ==
  /\ i \in alive \ registered
  /\ \A u \in Users : holds[u] # i
  /\ alive' = alive \ {i}
  /\ UNCHANGED <<registered, holds>>

Next == \/ \E u \in Users, i \in Instances :
              Construct(u, i) \/ Register(u, i) \/ Acquire(u, i)
        \/ \E u \in Users : Drop(u)
        \/ \E i \in Instances : Unregister(i) \/ Destroy(i)

Spec == Init /\ [][Next]_vars
=============================================================================
