----------------------------- MODULE ListenerList -----------------------------
(***************************************************************************)
(* What a delegate promises: each delegate has one list of listeners that  *)
(* changes as a whole, and a call runs, in order, every listener that was  *)
(* in the list at one moment of it, whatever happens to the list later.    *)
(***************************************************************************)
EXTENDS Naturals, Sequences, SequencesExt

CONSTANTS Delegates, Callers, Idle

VARIABLES list,      (* the listeners of each delegate, in calling order    *)
          running    (* those each caller has yet to run                    *)

Init == /\ list = [d \in Delegates |-> <<>>]
        /\ running = [t \in Callers |-> Idle]

Funcs(l) == [i \in DOMAIN l |-> l[i].func]

(* d gets listeners for these functions, all at once, behind the others.   *)
Extend(d, funcs) ==
  /\ list[d] \in Prefixes(list'[d])
  /\ Funcs(list'[d]) = Funcs(list[d]) \o funcs
  /\ list' = [list EXCEPT ![d] = list'[d]]
  /\ UNCHANGED running

(* A new callable is named by the id of its listener.                      *)
Add(d) == list'[d] # <<>> /\ Extend(d, <<Last(list'[d]).id>>)
Merge(d, e) == Extend(d, Funcs(list[e]))

(* One listener leaves; the others keep their order.                       *)
Leave(d, i) == list' = [list EXCEPT ![d] = RemoveAt(@, i)] /\ UNCHANGED running

(* A delegate begins or ends with no listeners, or takes those of another. *)
Clear(d) == list' = [list EXCEPT ![d] = <<>>] /\ UNCHANGED running
Copy(d, e) == list' = [list EXCEPT ![e] = list[d]] /\ UNCHANGED running
Move(d, e) == list' = [list EXCEPT ![e] = list[d], ![d] = <<>>] /\ UNCHANGED running

Begin(t, d) ==
  /\ running[t] = Idle
  /\ running' = [running EXCEPT ![t] = list[d]]
  /\ UNCHANGED list

Run(t) ==
  /\ running[t] \notin {Idle, <<>>}
  /\ running' = [running EXCEPT ![t] = Tail(@)]
  /\ UNCHANGED list

End(t) ==
  /\ running[t] = <<>>
  /\ running' = [running EXCEPT ![t] = Idle]
  /\ UNCHANGED list

Next ==
  \/ \E d \in Delegates :
       \/ Add(d) \/ Clear(d)
       \/ \E i \in DOMAIN list[d] : Leave(d, i)
       \/ \E e \in Delegates \ {d} : Merge(d, e) \/ Copy(d, e) \/ Move(d, e)
  \/ \E t \in Callers : Run(t) \/ End(t) \/ \E d \in Delegates : Begin(t, d)

Spec == Init /\ [][Next]_<<list, running>>
=============================================================================
