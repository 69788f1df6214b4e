------------------------------- MODULE Delegate -------------------------------
(***************************************************************************)
(* delegate and delegate_token: a list of listeners that is changed by one *)
(* thread at a time and called by any number of threads at once.  A call   *)
(* loads the readable buffer atomically and works on that; the tokens of   *)
(* add_listener_auto_removal take their listener out when they go, unless  *)
(* a weak pointer tells them that the delegate went first.                 *)
(*                                                                         *)
(* Clients: changes are serialised, but a listener may make them while it  *)
(* runs; no call begins during the assignment, move or destruction of a    *)
(* whole delegate, which are one step here; a delegate that shares its     *)
(* observer outlives its tokens; one that still has tokens is not moved;   *)
(* one that was moved from is only assigned to or destroyed; a callable is *)
(* never empty (the loop of a call would take an empty one for its end).   *)
(***************************************************************************)
EXTENDS Naturals, Sequences, SequencesExt, FiniteSets

CONSTANTS Delegates,     (* addresses a delegate can live at                *)
          Tokens, Threads,
          MaxCallables,  (* bound of global_counter when a callable joins   *)
          MaxListeners,  (* and at any time; it has 64 bits in the code     *)
          MaxObservers,  (* bound of the delegates constructed              *)
          None

Listener == [id : 0..MaxListeners, func : 0..MaxListeners]
Token == [id : 0..MaxListeners, observer : 1..MaxObservers, this : Delegates]
Change == [step : {"remove", "publish"}, this : Delegates, id : 0..MaxListeners,
           token : Tokens \cup {None}]

ASSUME DelegateAssumption ==
  /\ MaxListeners \in Nat /\ MaxCallables \in 0..MaxListeners /\ MaxObservers \in Nat
  /\ None \notin Delegates \cup Tokens \cup Token \cup Change

VARIABLES global_counter,
          observers,          (* observers made so far                      *)
          alive,              (* delegates constructed and not destroyed    *)
          lifetime_observer,  (* of each; 0 is null                         *)
          copied,             (* observers of delegates copied into a       *)
                              (* listener, which may keep them for ever     *)
          listeners, readable_buffer,
          token,              (* None is an empty one                       *)
          change,             (* the change in progress, or None            *)
          call,               (* what each running call has left to run     *)
          automatic,          (* history: listeners added with a token      *)
          owned               (* history: those the token has not given up  *)

lists == <<listeners, readable_buffer>>
objects == <<observers, alive, lifetime_observer, copied>>
history == <<automatic, owned>>
vars == <<global_counter, objects, lists, token, change, call, history>>

Ids(l) == {l[i].id : i \in DOMAIN l}
Distinct(l) == \A i, j \in DOMAIN l : l[i].id = l[j].id => i = j

TypeOK ==
  /\ global_counter \in 0..MaxListeners
  /\ observers \in 0..MaxObservers
  /\ alive \subseteq Delegates
  /\ lifetime_observer \in [Delegates -> 0..observers]
  /\ copied \subseteq 1..observers
  /\ \A d \in Delegates :
       /\ {listeners[d], readable_buffer[d]} \subseteq Seq(Listener)
       /\ Distinct(listeners[d])
       /\ \A i \in Ids(listeners[d]) : i < global_counter
       /\ d \notin alive => lifetime_observer[d] = 0 /\ listeners[d] = <<>>
  /\ token \in [Tokens -> Token \cup {None}]
  /\ change \in Change \cup {None}
  /\ \A t \in Threads : call[t] # None => call[t] \in Seq(Listener)
  /\ automatic \subseteq Delegates \X (0..MaxListeners)
  /\ owned \subseteq automatic

Init ==
  /\ global_counter = 0
  /\ observers = 0 /\ alive = {} /\ copied = {}
  /\ lifetime_observer = [d \in Delegates |-> 0]
  /\ listeners = [d \in Delegates |-> <<>>]
  /\ readable_buffer = [d \in Delegates |-> <<>>]
  /\ token = [k \in Tokens |-> None]
  /\ change = None
  /\ call = [t \in Threads |-> None]
  /\ automatic = {} /\ owned = {}
-----------------------------------------------------------------------------
(* Changes, one at a time.                                                 *)

(* The delegate was constructed and not moved from.                        *)
Usable(d) == d \in alive /\ lifetime_observer[d] # 0
Holds(d, k) == token[k] # None /\ token[k].this = d
Except(d, pairs) == {p \in pairs : p[1] # d}
Forget(d) == automatic' = Except(d, automatic) /\ owned' = Except(d, owned)
Moved(d, e, pairs) == {IF p[1] = d THEN <<e, p[2]>> ELSE p : p \in Except(e, pairs)}

Construct(d) ==
  /\ change = None
  /\ d \notin alive
  /\ observers < MaxObservers
  /\ observers' = observers + 1
  /\ alive' = alive \cup {d}
  /\ lifetime_observer' = [lifetime_observer EXCEPT ![d] = observers']
  /\ UNCHANGED <<global_counter, copied, lists, token, change, call, history>>

(* The copy shares the observer, the buffer and the ids.                   *)
CopyTo(d, e) ==
  /\ change = None
  /\ Usable(d) /\ d # e
  /\ alive' = alive \cup {e}
  /\ lifetime_observer' = [lifetime_observer EXCEPT ![e] = lifetime_observer[d]]
  /\ listeners' = [listeners EXCEPT ![e] = listeners[d]]
  /\ readable_buffer' = [readable_buffer EXCEPT ![e] = readable_buffer[d]]
  /\ Forget(e)
  /\ UNCHANGED <<global_counter, observers, copied, token, change, call>>

MayMove(d) == \A k \in Tokens : Holds(d, k) => token[k].observer # lifetime_observer[d]

MoveTo(d, e) ==
  /\ change = None
  /\ Usable(d) /\ d # e /\ MayMove(d)
  /\ alive' = alive \cup {e}
  /\ lifetime_observer' = [lifetime_observer EXCEPT ![e] = lifetime_observer[d], ![d] = 0]
  /\ listeners' = [listeners EXCEPT ![e] = listeners[d], ![d] = <<>>]
  /\ readable_buffer' = [readable_buffer EXCEPT ![e] = readable_buffer[d], ![d] = <<>>]
  /\ automatic' = Moved(d, e, automatic)
  /\ owned' = Moved(d, e, owned)
  /\ UNCHANGED <<global_counter, observers, copied, token, change, call>>

MayDestroy(d) ==
  \A k \in Tokens : Holds(d, k) =>
    /\ token[k].observer \notin copied
    /\ \A e \in alive \ {d} : lifetime_observer[e] # token[k].observer

Destroy(d) ==
  /\ change = None
  /\ d \in alive /\ MayDestroy(d)
  /\ alive' = alive \ {d}
  /\ lifetime_observer' = [lifetime_observer EXCEPT ![d] = 0]
  /\ listeners' = [listeners EXCEPT ![d] = <<>>]
  /\ readable_buffer' = [readable_buffer EXCEPT ![d] = <<>>]
  /\ Forget(d)
  /\ UNCHANGED <<global_counter, observers, copied, token, change, call>>

Appends(d, funcs) ==
  /\ global_counter + Len(funcs) <= MaxListeners
  /\ global_counter' = global_counter + Len(funcs)
  /\ listeners' = [listeners EXCEPT ![d] = @ \o
       [i \in DOMAIN funcs |-> [id |-> global_counter + i - 1, func |-> funcs[i]]]]

Publishing(d, id, k) == [step |-> "publish", this |-> d, id |-> id, token |-> k]

(* Fault: the counter is read and never advanced.                          *)
AddListenerSameId(d, k) ==
  /\ change = None
  /\ Usable(d) /\ global_counter < MaxCallables
  /\ k # None => token[k] = None
  /\ listeners' = [listeners EXCEPT ![d] =
       Append(@, [id |-> global_counter, func |-> global_counter])]
  /\ change' = Publishing(d, global_counter, k)
  /\ UNCHANGED <<global_counter, objects, readable_buffer, token, call, history>>

(* A callable joins, named by the id it is first added under; with a token *)
(* if k is one.                                                            *)
Joins(d, k) ==
  /\ change = None
  /\ Usable(d) /\ global_counter < MaxCallables
  /\ k # None => token[k] = None
  /\ Appends(d, <<global_counter>>)
  /\ change' = Publishing(d, global_counter, k)
  /\ UNCHANGED <<readable_buffer, token, call, history>>

AddListener(d, k) == Joins(d, k) /\ UNCHANGED objects

(* d += e where e is not const is the template for callables: one listener *)
(* joins, with a copy of e and of e's observer in it.                      *)
AddDelegate(d, e) ==
  /\ Usable(e)
  /\ Joins(d, None)
  /\ copied' = copied \cup {lifetime_observer[e]}
  /\ UNCHANGED <<observers, alive, lifetime_observer>>

(* Faults: nothing is published; each listener is published on its own.    *)
MergeUnpublished(d, e) ==
  /\ change = None
  /\ Usable(d) /\ Usable(e) /\ d # e
  /\ Appends(d, [i \in DOMAIN listeners[e] |-> listeners[e][i].func])
  /\ UNCHANGED <<objects, readable_buffer, token, change, call, history>>

MergeOne(d, e) ==
  /\ change = None
  /\ Usable(d) /\ Usable(e) /\ d # e /\ listeners[e] # <<>>
  /\ Appends(d, [i \in DOMAIN listeners[e] |-> listeners[e][i].func])
  /\ readable_buffer' = [readable_buffer EXCEPT ![d] = Front(listeners'[d])]
  /\ change' = Publishing(d, global_counter, None)
  /\ UNCHANGED <<objects, token, call, history>>

(* d += e where e is const: every function of e under a new id, then one   *)
(* buffer update.                                                          *)
Merge(d, e) ==
  /\ change = None
  /\ Usable(d) /\ Usable(e) /\ d # e
  /\ Appends(d, [i \in DOMAIN listeners[e] |-> listeners[e][i].func])
  /\ change' = Publishing(d, global_counter, None)
  /\ UNCHANGED <<objects, readable_buffer, token, call, history>>

(* update_readable_buffer, and the token is made of what is known then.    *)
UpdateReadableBuffer ==
  /\ change # None /\ change.step = "publish"
  /\ LET d == change.this k == change.token IN
       /\ readable_buffer' = [readable_buffer EXCEPT ![d] = listeners[d]]
       /\ IF k = None
          THEN UNCHANGED <<token, history>>
          ELSE /\ token' = [token EXCEPT ![k] =
                    [id |-> change.id, observer |-> lifetime_observer[d], this |-> d]]
               /\ automatic' = automatic \cup {<<d, change.id>>}
               /\ owned' = owned \cup {<<d, change.id>>}
  /\ change' = None
  /\ UNCHANGED <<global_counter, objects, listeners, call>>
-----------------------------------------------------------------------------
(* Tokens.                                                                 *)

Locks(k) ==
  token[k].observer \in copied \cup {lifetime_observer[d] : d \in alive}

Removing(k) == [step |-> "remove", this |-> token[k].this, id |-> token[k].id, token |-> None]

(* Fault: the observer is not asked.                                       *)
ClearsBlindly(k) ==
  IF token[k] = None
  THEN UNCHANGED <<change, owned>>
  ELSE /\ change' = Removing(k)
       /\ owned' = {p \in owned : p[2] # token[k].id}

(* clear(): call the remove handler if the observer can be locked.         *)
Clears(k) ==
  IF token[k] = None
  THEN UNCHANGED <<change, owned>>
  ELSE /\ change' = IF Locks(k) THEN Removing(k) ELSE None
       /\ owned' = {p \in owned : p[2] # token[k].id}

ClearToken(k) ==
  /\ change = None
  /\ token[k] # None
  /\ Clears(k)
  /\ UNCHANGED <<global_counter, objects, lists, token, call, automatic>>

DestroyToken(k) ==
  /\ change = None
  /\ token[k] # None
  /\ Clears(k)
  /\ token' = [token EXCEPT ![k] = None]
  /\ UNCHANGED <<global_counter, objects, lists, call, automatic>>

(* Fault: the token's own listener is forgotten.                           *)
MoveTokenOver(k, r) ==
  /\ change = None
  /\ k # r /\ token[r] # None
  /\ token' = [token EXCEPT ![k] = token[r], ![r] = None]
  /\ owned' = IF token[k] = None THEN owned
              ELSE {p \in owned : p[2] # token[k].id}
  /\ UNCHANGED <<global_counter, objects, lists, change, call, automatic>>

(* k = std::move(r): k clears itself, then takes over what r had.          *)
MoveToken(k, r) ==
  /\ change = None
  /\ k # r /\ token[r] # None
  /\ Clears(k)
  /\ token' = [token EXCEPT ![k] = token[r], ![r] = None]
  /\ UNCHANGED <<global_counter, objects, lists, call, automatic>>

(* remove_listener: an unknown id is ignored.                              *)
RemoveListener ==
  /\ change # None /\ change.step = "remove"
  /\ LET d == change.this IN
       IF change.id \in Ids(listeners[d])
       THEN \E i \in DOMAIN listeners[d] :
              /\ listeners[d][i].id = change.id
              /\ listeners' = [listeners EXCEPT ![d] = RemoveAt(@, i)]
              /\ change' = Publishing(d, change.id, None)
       ELSE change' = None /\ UNCHANGED listeners
  /\ UNCHANGED <<global_counter, objects, readable_buffer, token, call, history>>
-----------------------------------------------------------------------------
(* Calls.                                                                  *)

CallBegins(t, d) ==
  /\ Usable(d)
  /\ call[t] = None
  /\ call' = [call EXCEPT ![t] = readable_buffer[d]]
  /\ UNCHANGED <<global_counter, objects, lists, token, change, history>>

CallRuns(t) ==
  /\ call[t] \notin {None, <<>>}
  /\ call' = [call EXCEPT ![t] = Tail(@)]
  /\ UNCHANGED <<global_counter, objects, lists, token, change, history>>

CallEnds(t) ==
  /\ call[t] = <<>>
  /\ call' = [call EXCEPT ![t] = None]
  /\ UNCHANGED <<global_counter, objects, lists, token, change, history>>

Next ==
  \/ \E d \in Delegates :
       \/ Construct(d) \/ Destroy(d)
       \/ \E k \in Tokens \cup {None} : AddListener(d, k)
       \/ \E e \in Delegates : CopyTo(d, e) \/ MoveTo(d, e) \/ Merge(d, e) \/ AddDelegate(d, e)
  \/ \E k \in Tokens :
       ClearToken(k) \/ DestroyToken(k) \/ \E r \in Tokens : MoveToken(k, r)
  \/ UpdateReadableBuffer \/ RemoveListener
  \/ \E t \in Threads :
       CallRuns(t) \/ CallEnds(t) \/ \E d \in Delegates : CallBegins(t, d)

Spec == Init /\ [][Next]_vars
-----------------------------------------------------------------------------
(* The remove handler of a token is bound to the bare address of its       *)
(* delegate; whenever it runs, that delegate still lives.                  *)
TokenReachesLivingDelegate ==
  change # None => change.this \in alive

(* Between two changes a call sees exactly the listeners there are.        *)
PublishedIsCurrent == change = None => readable_buffer = listeners

(* Between two changes a listener that was added with a token is called    *)
(* exactly as long as the token has neither been cleared nor destroyed nor *)
(* assigned over, however the token travelled.  (Its delegate stays where  *)
(* it is: one that has tokens is not moved.)                               *)
TokenOwnsListener ==
  change = None =>
    \A p \in automatic : p[2] \in Ids(readable_buffer[p[1]]) <=> p \in owned

List == INSTANCE ListenerList WITH
  Callers <- Threads, Idle <- None, list <- readable_buffer, running <- call

(* Every change is one step to the calls, which run what they loaded: a    *)
(* merge is never seen half done, a removal takes one listener and leaves  *)
(* the order of the others, and no change reaches a call that has begun.   *)
ImplementsListenerList == List!Spec
=============================================================================
