------------------------ MODULE ParserFrontEndProofs ------------------------
(***************************************************************************)
(* Proofs about ParserFrontEnd, for any number of threads, configurations, *)
(* modules and instances: the manager is made once and is there for        *)
(* whoever was told that it is, a client that keeps to its own identifiers *)
(* never ends the process, and its identifiers find their instances.       *)
(***************************************************************************)
EXTENDS ParserFrontEnd, TLAPS

Answers == Codes \cup {0, Unlicensed}

(* What the codes of the exceptions the parser throws itself come to.      *)
LEMMA OwnCodes ==
  /\ \A type \in {"exception", "format_error", "bad_alloc"} :
       Cross(type) \in Answers \ {NullPointer}
  /\ Unlicensed \in Answers \ {NullPointer} /\ 0 \in Answers \ {NullPointer}
  /\ NullPointer \in Answers /\ Rethrow(NullPointer) \in Answers
  /\ Rethrow(Rethrow(KeyNotFound)) \in Answers \ {NullPointer}
  /\ \A code \in ManagerCodes : Rethrow(Rethrow(code)) \in Answers \ {NullPointer}
  BY ParserFrontEndAssumption
  DEF Cross, Rethrow, StandardCode, Codes, Failure, NullPointer, KeyNotFound, Unlicensed, Answers

LEMMA EmptyList == <<>> \in Seq(Items)
  OBVIOUS

LEMMA NextModule ==
  ASSUME NEW s \in Seq(Items), s # <<>>
  PROVE  Head(s) \in Items /\ Tail(s) \in Seq(Items)
  OBVIOUS

(* The parts of TypeOK.                                                    *)
Settings ==
  /\ parser_object \in BOOLEAN
  /\ once \in {Unset, Done} \cup Threads
  /\ ready \in BOOLEAN
  /\ present \subseteq Libs /\ loaded \subseteq present
  /\ made \in Nat /\ plugin_manager \in 0..made
  /\ told \in BOOLEAN /\ issued \subseteq Ids

Taken == \A t \in Threads : once = t <=> pc[t] \in {"loading", "leaving"}

Objects ==
  /\ alive \subseteq Instances /\ registered \subseteq Instances
  /\ holds \in [Threads -> Instances \cup {NoInst}]

CallsTyped ==
  /\ pc \in [Threads -> {"idle", "license", "init", "loading", "leaving", "create",
                         "init plugin", "publish", "execute", "running", "release"}]
  /\ arg \in [Threads -> Configs \cup Ids \cup {NoArg}]
  /\ todo \in [Threads -> Seq(Items)]
  /\ answer \in [Threads -> Answers]
  /\ promised \in [Threads -> BOOLEAN]
  /\ impolite \in BOOLEAN
  /\ calls \in [Threads -> 0..MaxCalls]
  /\ status \in {"running", "terminated", "unlicensed"}

Stages ==
  \A t \in Threads :
    /\ holds[t] # NoInst <=> pc[t] \in {"init plugin", "publish", "running"}
    /\ pc[t] \in {"license", "init", "loading", "leaving"} => arg[t] \in Configs
    /\ pc[t] \in {"execute", "running", "release"} => arg[t] \in Ids

Typed == Settings /\ Taken /\ Objects /\ CallsTyped /\ Stages

LEMMA TypeParts == TypeOK <=> Typed
  BY DEF Typed, TypeOK, Settings, Taken, Objects, CallsTyped, Stages, Answers

(* A call that ends leaves the calls well typed.                           *)
LEMMA Answered ==
  ASSUME CallsTyped, Stages, Objects, NEW t \in Threads, NEW code \in Answers, Answer(t, code),
         holds' = holds \/ holds' = [holds EXCEPT ![t] = NoInst],
         holds'[t] = NoInst
  PROVE  CallsTyped' /\ Stages' /\ pc' = [pc EXCEPT ![t] = "idle"]
<1> USE DEF Answer, Goto, clients
<1>1. CallsTyped'
  BY EmptyList DEF CallsTyped
<1>2. Stages'
  BY DEF CallsTyped, Stages, Objects
<1> QED
  BY <1>1, <1>2

(* So does one that begins.                                                *)
LEMMA Begun ==
  ASSUME CallsTyped, Stages, NEW t \in Threads,
         NEW label \in {"license", "create", "execute", "release"},
         NEW a \in Configs \cup Ids \cup {NoArg},
         label = "license" => a \in Configs,
         label \in {"execute", "release"} => a \in Ids,
         Begin(t, label, a), impolite' \in BOOLEAN, told \in BOOLEAN
  PROVE  CallsTyped' /\ Stages'
<1> USE DEF Begin, Goto, At, registry
<1>1. calls'[t] \in 0..MaxCalls
  <2>1. calls[t] \in 0..MaxCalls /\ calls[t] < MaxCalls
    BY DEF CallsTyped
  <2>2. calls'[t] = calls[t] + 1
    BY DEF CallsTyped
  <2> QED
    BY <2>1, <2>2, ParserFrontEndAssumption
<1>2. CallsTyped'
  BY <1>1, OwnCodes DEF CallsTyped
<1>3. Stages'
  BY DEF CallsTyped, Stages
<1> QED
  BY <1>2, <1>3

(* So does one that goes on.                                               *)
LEMMA Moved ==
  ASSUME CallsTyped, Stages, NEW t \in Threads,
         NEW label \in {"idle", "license", "init", "loading", "leaving", "create",
                        "init plugin", "publish", "execute", "running", "release"},
         Goto(t, label), UNCHANGED <<arg, answer, clients>>, todo' \in [Threads -> Seq(Items)],
         status' = status,
         holds' \in [Threads -> Instances \cup {NoInst}],
         holds'[t] # NoInst <=> label \in {"init plugin", "publish", "running"},
         \A u \in Threads \ {t} : holds'[u] = holds[u],
         label \in {"license", "init", "loading", "leaving"} => arg[t] \in Configs,
         label \in {"execute", "running", "release"} => arg[t] \in Ids
  PROVE  CallsTyped' /\ Stages'
<1> USE DEF Goto, clients
<1>1. CallsTyped'
  BY DEF CallsTyped
<1>2. Stages'
  BY DEF CallsTyped, Stages
<1> QED
  BY <1>1, <1>2
(* So does a release, which answers nothing.                               *)
LEMMA ReleaseEnds ==
  ASSUME CallsTyped, Stages, NEW t \in Threads, At(t, "release"), ReleaseReturns(t), holds' = holds
  PROVE  CallsTyped' /\ Stages'
<1> USE DEF ReleaseReturns, Goto, At, outcome, clients
<1>1. CallsTyped'
  BY DEF CallsTyped
<1>2. Stages'
  BY DEF CallsTyped, Stages
<1> QED
  BY <1>1, <1>2
-----------------------------------------------------------------------------
LEMMA TypeInit == Init => TypeOK
<1> SUFFICES ASSUME Init PROVE TypeOK
  OBVIOUS
<1> USE ParserFrontEndAssumption DEF Init
<1>1. Settings /\ Taken /\ Objects
  <2>1. Settings
    <3>1. made \in Nat /\ plugin_manager \in 0..made
      OBVIOUS
    <3>2. present \subseteq Libs /\ loaded \subseteq present /\ issued \subseteq Ids
      OBVIOUS
    <3>3. parser_object \in BOOLEAN /\ once \in {Unset, Done} \cup Threads /\ ready \in BOOLEAN /\ told \in BOOLEAN
      OBVIOUS
    <3> QED
      BY <3>1, <3>2, <3>3, Zenon DEF Settings
  <2>2. Taken
    BY DEF Taken
  <2>3. Objects
    BY DEF Objects, Registry!Init
  <2> QED
    BY <2>1, <2>2, <2>3
<1>2. CallsTyped
  <2>1. todo \in [Threads -> Seq(Items)] /\ answer \in [Threads -> Answers]
    BY EmptyList, OwnCodes
  <2>2. calls \in [Threads -> 0..MaxCalls]
    OBVIOUS
  <2> QED
    BY <2>1, <2>2 DEF CallsTyped
<1>3. Stages
  BY DEF Stages, Registry!Init
<1> QED
  BY <1>1, <1>2, <1>3, TypeParts DEF Typed

(* A call that ends, with nothing else changed but the caller's reference. *)
LEMMA AnswerStep ==
  ASSUME Typed, NEW t \in Threads, NEW code \in Answers, Answer(t, code),
         pc[t] \notin {"loading", "leaving"},
         UNCHANGED <<initialised, told, issued, alive, registered>>,
         (holds' = holds /\ holds[t] = NoInst) \/ holds' = [holds EXCEPT ![t] = NoInst]
  PROVE  Typed'
<1>1. CallsTyped' /\ Stages' /\ pc' = [pc EXCEPT ![t] = "idle"]
  BY Answered DEF Typed, Objects
<1>2. Settings' /\ Taken' /\ Objects'
  BY <1>1 DEF Typed, Answer, Settings, Taken, Objects, CallsTyped, initialised
<1> QED
  BY <1>1, <1>2 DEF Typed

(* A call that begins or goes on without touching what is initialised.     *)
LEMMA StageStep ==
  ASSUME Typed, NEW t \in Threads, NEW label, Goto(t, label), CallsTyped', Stages', Objects',
         pc[t] \notin {"loading", "leaving"}, label \notin {"loading", "leaving"},
         UNCHANGED <<parser_object, initialised, present, told>>, issued' \subseteq issued
  PROVE  Typed'
<1>1. Settings' /\ Taken'
  BY DEF Typed, Goto, Settings, Taken, CallsTyped, initialised
<1> QED
  BY <1>1 DEF Typed

LEMMA TypeStep ==
  ASSUME TypeOK, [Next]_vars
  PROVE  TypeOK'
<1> SUFFICES Typed'
  <2>1. TypeOK' <=> Typed'
    BY TypeParts, PTL
  <2> QED
    BY <2>1
<1> USE TypeParts, ParserFrontEndAssumption, OwnCodes DEF Typed
<1>1. ASSUME NEW t \in Threads, LicenseFails(t) PROVE Typed'
  BY <1>1, AnswerStep DEF LicenseFails, At, Stages, registry
<1>2. ASSUME NEW t \in Threads, LicenseHolds(t) PROVE Typed'
  <2> USE <1>2 DEF LicenseHolds, At
  <2>1. CallsTyped' /\ Stages'
    BY Moved DEF Settings, CallsTyped, Objects, Stages, registry, outcome, clients
  <2>2. Objects'
    BY DEF Objects, Stages, registry
  <2> QED
    BY <2>1, <2>2, StageStep DEF outcome
<1>3. ASSUME NEW t \in Threads, NoParser(t) PROVE Typed'
  BY <1>3, AnswerStep DEF NoParser, At, Stages, registry
<1>4. ASSUME NEW t \in Threads, ReadConfig(t) PROVE Typed'
  <2> USE <1>4 DEF ReadConfig, Enters, At
  <2>1. CallsTyped' /\ Stages'
    BY Moved DEF Settings, CallsTyped, Objects, Stages, registry, outcome, clients
  <2>2. Settings' /\ Taken' /\ Objects'
    BY <2>1 DEF Goto, Settings, Taken, Objects, CallsTyped, initialised, registry, outcome, clients
  <2> QED
    BY <2>1, <2>2
<1>5. ASSUME NEW t \in Threads, ConfigFails(t) PROVE Typed'
  BY <1>5, AnswerStep DEF ConfigFails, Enters, At, Stages, registry
<1>6. ASSUME NEW t \in Threads, LoadModule(t) PROVE Typed'
  <2> USE <1>6 DEF LoadModule, At
  <2>1. Tail(todo[t]) \in Seq(Items) /\ Head(todo[t]) \in Libs
    BY NextModule DEF CallsTyped, Settings
  <2>2. CallsTyped'
    BY <2>1 DEF CallsTyped, outcome, clients
  <2>3. Stages' /\ Taken'
    BY DEF Stages, Taken, registry
  <2>4. Settings' /\ Objects'
    BY DEF Settings, Objects, registry, outcome
  <2> QED
    BY <2>2, <2>3, <2>4
<1>7. ASSUME NEW t \in Threads, LoadFails(t) PROVE Typed'
  <2> USE <1>7 DEF LoadFails, At
  <2>1. PICK code \in Answers : Answer(t, code)
    OBVIOUS
  <2>2. pc[t] # "publish" => holds[t] = NoInst \/ holds' = [holds EXCEPT ![t] = NoInst]
    BY DEF Stages
  <2>3. CallsTyped' /\ Stages' /\ pc' = [pc EXCEPT ![t] = "idle"]
    BY <2>1, <2>2, Answered DEF registry, Objects, Stages
  <2>4. Settings' /\ Taken' /\ Objects'
    BY <2>3 DEF Answer, Settings, Taken, Objects, CallsTyped, initialised, registry, outcome,
      clients
  <2> QED
    BY <2>3, <2>4
<1>8. ASSUME NEW t \in Threads, MakeManager(t) PROVE Typed'
  <2> USE <1>8 DEF MakeManager, At
  <2>1. CallsTyped' /\ Stages'
    BY Moved DEF Settings, CallsTyped, Objects, Stages, registry, outcome, clients
  <2>2. plugin_manager' \in 0..made' /\ made' \in Nat
    BY DEF Settings
  <2>3. Settings' /\ Taken' /\ Objects'
    BY <2>2 DEF Goto, Settings, Taken, Objects, CallsTyped, registry, outcome, clients
  <2> QED
    BY <2>1, <2>3
<1>9. ASSUME NEW t \in Threads, MakeManagerFails(t) PROVE Typed'
  <2> USE <1>9 DEF MakeManagerFails, At
  <2>1. PICK code \in Answers : Answer(t, code)
    OBVIOUS
  <2>2. pc[t] # "publish" => holds[t] = NoInst \/ holds' = [holds EXCEPT ![t] = NoInst]
    BY DEF Stages
  <2>3. CallsTyped' /\ Stages' /\ pc' = [pc EXCEPT ![t] = "idle"]
    BY <2>1, <2>2, Answered DEF registry, Objects, Stages
  <2>4. Settings' /\ Taken' /\ Objects'
    BY <2>3 DEF Answer, Settings, Taken, Objects, CallsTyped, initialised, registry, outcome,
      clients
  <2> QED
    BY <2>3, <2>4
<1>10. ASSUME NEW t \in Threads, LeaveOnce(t) PROVE Typed'
  <2> USE <1>10 DEF LeaveOnce, CheckReady, At
  <2>1. PICK code \in Answers : Answer(t, code)
    OBVIOUS
  <2>2. pc[t] # "publish" => holds[t] = NoInst \/ holds' = [holds EXCEPT ![t] = NoInst]
    BY DEF Stages
  <2>3. CallsTyped' /\ Stages' /\ pc' = [pc EXCEPT ![t] = "idle"]
    BY <2>1, <2>2, Answered DEF registry, Objects, Stages
  <2>4. Settings' /\ Taken' /\ Objects'
    BY <2>3 DEF Answer, Settings, Taken, Objects, CallsTyped, initialised, registry, outcome,
      clients
  <2> QED
    BY <2>3, <2>4
<1>11. ASSUME NEW t \in Threads, PassOnce(t) PROVE Typed'
  <2> USE <1>11 DEF PassOnce, CheckReady, At
  <2>1. PICK code \in Answers : Answer(t, code)
    OBVIOUS
  <2>2. pc[t] # "publish" => holds[t] = NoInst \/ holds' = [holds EXCEPT ![t] = NoInst]
    BY DEF Stages
  <2>3. CallsTyped' /\ Stages' /\ pc' = [pc EXCEPT ![t] = "idle"]
    BY <2>1, <2>2, Answered DEF registry, Objects, Stages
  <2>4. Settings' /\ Taken' /\ Objects'
    BY <2>3 DEF Answer, Settings, Taken, Objects, CallsTyped, initialised, registry, outcome,
      clients
  <2> QED
    BY <2>3, <2>4
<1>12. ASSUME NEW t \in Threads, NullManager(t) PROVE Typed'
  BY <1>12, AnswerStep DEF NullManager, At, Stages, registry
<1>13. ASSUME NEW t \in Threads, CreateFails(t) PROVE Typed'
  BY <1>13, AnswerStep DEF CreateFails, Through, Fails, At, Stages, registry
<1>14. ASSUME NEW t \in Threads, InitPluginFails(t) PROVE Typed'
  BY <1>14, AnswerStep DEF InitPluginFails, Fails, Registry!Drop, At, Stages, registry
<1>15. ASSUME NEW t \in Threads, Register(t) PROVE Typed'
  <2> USE <1>15 DEF Register, Unanswered, Registry!Register, At
  <2>1. CallsTyped' /\ Stages'
    BY Moved DEF Settings, CallsTyped, Objects, Stages, registry, outcome, clients
  <2>2. Objects'
    BY DEF Objects, Stages, registry
  <2> QED
    BY <2>1, <2>2, StageStep DEF outcome
<1>16. ASSUME NEW t \in Threads, CreateReturns(t) PROVE Typed'
  <2> USE <1>16 DEF CreateReturns, Registry!Drop, At
  <2>1. PICK code \in Answers : Answer(t, code)
    OBVIOUS
  <2>2. pc[t] # "publish" => holds[t] = NoInst \/ holds' = [holds EXCEPT ![t] = NoInst]
    BY DEF Stages
  <2>3. CallsTyped' /\ Stages' /\ pc' = [pc EXCEPT ![t] = "idle"]
    BY <2>1, <2>2, Answered DEF registry, Objects, Stages
  <2>4. IdOf(holds[t]) \in Ids
    BY DEF Stages, Objects, Ids
  <2>5. Settings' /\ Taken'
    BY <2>3, <2>4 DEF Answer, Settings, Taken, CallsTyped, initialised
  <2>6. Objects'
    BY DEF Objects
  <2> QED
    BY <2>3, <2>5, <2>6
<1>17. ASSUME NEW t \in Threads, ExecuteRejected(t) PROVE Typed'
  BY <1>17, AnswerStep DEF ExecuteRejected, At, Stages, registry
<1>18. ASSUME NEW t \in Threads, ExecuteMisses(t) PROVE Typed'
  BY <1>18, AnswerStep DEF ExecuteMisses, Through, At, Stages, registry
<1>19. ASSUME NEW t \in Threads, ExecuteReturns(t) PROVE Typed'
  BY <1>19, AnswerStep DEF ExecuteReturns, Fails, Registry!Drop, At, Stages, registry
<1>20. ASSUME NEW t \in Threads, ReleaseMisses(t) PROVE Typed'
  <2> USE <1>20 DEF ReleaseMisses, Through, At
  <2>1. CallsTyped' /\ Stages'
    BY ReleaseEnds DEF Settings, CallsTyped, Objects, Stages, registry, outcome, clients
  <2>2. Objects'
    BY DEF Objects, Stages, registry
  <2> QED
    BY <2>1, <2>2, StageStep DEF outcome, ReleaseReturns
<1>21. ASSUME NEW t \in Threads, ReleaseThrows(t) PROVE Typed'
  <2> USE <1>21 DEF ReleaseThrows, At
  <2>1. CallsTyped' /\ Stages'
    BY Moved DEF Settings, CallsTyped, Objects, Stages, registry, outcome, clients
  <2>2. Settings' /\ Taken' /\ Objects'
    BY <2>1 DEF Goto, Settings, Taken, Objects, CallsTyped, initialised, registry, outcome, clients
  <2> QED
    BY <2>1, <2>2
<1>22. ASSUME NEW t \in Threads, NEW i \in Instances, Construct(t, i) PROVE Typed'
  <2> USE <1>22 DEF Construct, Through, Unanswered, Registry!Construct, At
  <2>1. CallsTyped' /\ Stages'
    BY Moved DEF Settings, CallsTyped, Objects, Stages, registry, outcome, clients
  <2>2. Objects'
    BY DEF Objects, Stages, registry
  <2> QED
    BY <2>1, <2>2, StageStep DEF outcome
<1>23. ASSUME NEW t \in Threads, NEW i \in Instances, ExecuteFinds(t, i) PROVE Typed'
  <2> USE <1>23 DEF ExecuteFinds, Through, Unanswered, Registry!Acquire, At
  <2>1. CallsTyped' /\ Stages'
    BY Moved DEF Settings, CallsTyped, Objects, Stages, registry, outcome, clients
  <2>2. Objects'
    BY DEF Objects, Stages, registry
  <2> QED
    BY <2>1, <2>2, StageStep DEF outcome
<1>24. ASSUME NEW t \in Threads, NEW i \in Instances, ReleaseErases(t, i) PROVE Typed'
  <2> USE <1>24 DEF ReleaseErases, Through, Registry!Unregister, At
  <2>1. CallsTyped' /\ Stages'
    BY ReleaseEnds DEF Settings, CallsTyped, Objects, Stages, registry, outcome, clients
  <2>2. Objects'
    BY DEF Objects, Stages, registry
  <2> QED
    BY <2>1, <2>2, StageStep DEF outcome, ReleaseReturns
<1>25. ASSUME NEW t \in Threads, CallCreate(t) PROVE Typed'
  <2>1. CallsTyped' /\ Stages'
    BY <1>25, Begun DEF CallCreate, Settings, CallsTyped
  <2> QED
    BY <1>25, <2>1, StageStep DEF CallCreate, Begin, At, Objects, registry
<1>26. ASSUME NEW t \in Threads, NEW c \in Configs, CallInit(t, c) PROVE Typed'
  <2>1. CallsTyped' /\ Stages'
    BY <1>26, Begun DEF CallInit, Settings, CallsTyped
  <2> QED
    BY <1>26, <2>1, StageStep DEF CallInit, Begin, At, Objects, registry
<1>27. ASSUME NEW t \in Threads, NEW x \in Ids, CallExecute(t, x) PROVE Typed'
  <2>1. CallsTyped' /\ Stages'
    BY <1>27, Begun DEF CallExecute, Settings, CallsTyped
  <2> QED
    BY <1>27, <2>1, StageStep DEF CallExecute, Begin, At, Objects, registry
<1>28. ASSUME NEW t \in Threads, NEW x \in Ids, CallRelease(t, x) PROVE Typed'
  <2>1. CallsTyped' /\ Stages'
    BY <1>28, Begun DEF CallRelease, Settings, CallsTyped
  <2> QED
    BY <1>28, <2>1, StageStep DEF CallRelease, Begin, At, Objects, registry
<1>29. ASSUME NEW i \in Instances, DestroyInstance(i) PROVE Typed'
  BY <1>29 DEF DestroyInstance, Registry!Destroy, Settings, Taken, Objects, CallsTyped, Stages,
    initialised, registry, outcome, clients
<1>30. ASSUME NEW l \in Libs, InstallModule(l) PROVE Typed'
  BY <1>30 DEF InstallModule, Settings, Taken, Objects, CallsTyped, Stages, initialised,
    registry, outcome, clients
<1>31. CASE UNCHANGED vars
  BY <1>31 DEF vars, Settings, Taken, Objects, CallsTyped, Stages, initialised, registry,
    outcome, clients
<1>32. ASSUME NEW t \in Threads, LicenseThrows(t) PROVE Typed'
  <2> USE <1>32 DEF LicenseThrows, At
  <2>1. CallsTyped' /\ Stages'
    BY Moved DEF Settings, CallsTyped, Objects, Stages, registry, outcome, clients
  <2>2. Settings' /\ Taken' /\ Objects'
    BY <2>1 DEF Goto, Settings, Taken, Objects, CallsTyped, initialised, registry, outcome, clients
  <2> QED
    BY <2>1, <2>2
<1>33. ASSUME NEW t \in Threads, ItemFails(t) PROVE Typed'
  <2> USE <1>33 DEF ItemFails, At
  <2>1. PICK code \in Answers : Answer(t, code)
    OBVIOUS
  <2>2. pc[t] # "publish" => holds[t] = NoInst \/ holds' = [holds EXCEPT ![t] = NoInst]
    BY DEF Stages
  <2>3. CallsTyped' /\ Stages' /\ pc' = [pc EXCEPT ![t] = "idle"]
    BY <2>1, <2>2, Answered DEF registry, Objects, Stages
  <2>4. Settings' /\ Taken' /\ Objects'
    BY <2>3 DEF Answer, Settings, Taken, Objects, CallsTyped, initialised, registry, outcome,
      clients
  <2> QED
    BY <2>3, <2>4
<1> QED
  BY <1>1, <1>2, <1>3, <1>4, <1>5, <1>6, <1>7, <1>8, <1>9, <1>10, <1>11, <1>12, <1>13, <1>14,
    <1>15, <1>16, <1>17, <1>18, <1>19, <1>20, <1>21, <1>22, <1>23, <1>24, <1>25, <1>26, <1>27,
    <1>28, <1>29, <1>30, <1>31, <1>32, <1>33
  DEF Next, InitStep, UseStep, ClientStep
-----------------------------------------------------------------------------
(* How far the initialisation is.                                          *)
Phase ==
  /\ ready <=> plugin_manager # 0
  /\ plugin_manager # 0 <=> once = Done \/ \E t \in Threads : pc[t] = "leaving"
  /\ once # Unset => parser_object

(* What is loaded: a thread that loads still has the rest of its list.     *)
Listings ==
  /\ \A t \in Threads : pc[t] \in {"loading", "leaving"} => arg[t] \notin BadConfigs
  /\ \A t \in Threads : pc[t] = "loading" =>
       \A l \in Listed(arg[t]) \ loaded : \E k \in DOMAIN todo[t] : todo[t][k] = l
  /\ plugin_manager # 0 =>
       Registrar \in loaded /\ \E c \in Configs \ BadConfigs : Listed(c) \subseteq loaded

(* Without a manager nobody was told, or holds, anything.                  *)
Reached ==
  plugin_manager = 0 =>
    /\ ~told /\ issued = {}
    /\ \A t \in Threads :
         /\ ~promised[t]
         /\ pc[t] \notin {"init plugin", "publish", "running"}
         /\ pc[t] = "release" => impolite

Started == Phase /\ Listings /\ Reached /\ NullOnlyBeforeInit /\ PoliteClientsSurvive

FrontInv == TypeOK /\ Started

(* What is loaded and listed stays as it is when no list moves.            *)
LEMMA ListingsKept ==
  ASSUME Listings, plugin_manager' = plugin_manager, loaded' = loaded,
         \A u \in Threads : pc'[u] \in {"loading", "leaving"} =>
           pc'[u] = pc[u] /\ arg'[u] = arg[u] /\ todo'[u] = todo[u]
  PROVE  Listings'
<1>1. ASSUME NEW u \in Threads, pc'[u] \in {"loading", "leaving"} PROVE arg'[u] \notin BadConfigs
  BY <1>1 DEF Listings
<1>2. ASSUME NEW u \in Threads, pc'[u] = "loading", NEW l \in Listed(arg'[u]) \ loaded
      PROVE  \E k \in DOMAIN todo'[u] : todo'[u][k] = l
  BY <1>2 DEF Listings
<1>3. plugin_manager' # 0 =>
        Registrar \in loaded' /\ \E c \in Configs \ BadConfigs : Listed(c) \subseteq loaded'
  BY DEF Listings
<1> QED
  BY <1>1, <1>2, <1>3 DEF Listings

(* What comes after the head of a list is in the rest of it.               *)
LEMMA RestOfList ==
  ASSUME NEW s \in Seq(Items), s # <<>>, NEW k \in DOMAIN s, s[k] # Head(s)
  PROVE  \E j \in DOMAIN Tail(s) : Tail(s)[j] = s[k]
<1>1. k \in 2..Len(s)
  OBVIOUS
<1>2. k - 1 \in 1..Len(Tail(s)) /\ Tail(s)[k - 1] = s[k]
  BY <1>1
<1> QED
  BY <1>2

(* A step of a thread that is not the one that initialises.                *)
LEMMA OutsideFront ==
  ASSUME CallsTyped, Started, NEW t \in Threads, NEW label,
         pc[t] \notin {"loading", "leaving"}, label \notin {"loading", "leaving"}, Goto(t, label),
         UNCHANGED <<parser_object, once, ready, plugin_manager, loaded, status>>,
         told' = told \/ plugin_manager # 0,
         issued' \subseteq issued \/ plugin_manager # 0,
         \A u \in Threads \ {t} : /\ arg'[u] = arg[u] /\ todo'[u] = todo[u]
                                  /\ promised'[u] = promised[u] /\ answer'[u] = answer[u],
         impolite => impolite',
         label \in {"init plugin", "publish", "running"} => plugin_manager # 0,
         label = "release" => impolite' \/ plugin_manager # 0,
         promised'[t] => told \/ promised[t],
         answer'[t] = NullPointer =>
           plugin_manager = 0 \/ (answer[t] = NullPointer /\ promised'[t] = promised[t])
  PROVE  Started'
<1>1. \A u \in Threads : pc'[u] = IF u = t THEN label ELSE pc[u]
  BY DEF Goto, CallsTyped
<1>2. Phase'
  BY <1>1 DEF Started, Phase
<1>3. Listings'
  BY <1>1, ListingsKept DEF Started
<1>4. Reached'
  BY <1>1 DEF Started, Reached
<1>5. NullOnlyBeforeInit' /\ PoliteClientsSurvive'
  BY DEF Started, Reached, NullOnlyBeforeInit, PoliteClientsSurvive
<1> QED
  BY <1>2, <1>3, <1>4, <1>5 DEF Started

LEMMA FrontStep ==
  ASSUME FrontInv, [Next]_vars
  PROVE  Started'
<1> USE TypeParts, ParserFrontEndAssumption, OwnCodes DEF FrontInv, Typed, Started
<1>1. ASSUME NEW t \in Threads, LicenseFails(t) PROVE Started'
  BY <1>1, OutsideFront DEF LicenseFails, Answer, At, CallsTyped, initialised, registry,
    outcome, clients, Started, Reached
<1>2. ASSUME NEW t \in Threads, LicenseHolds(t) PROVE Started'
  BY <1>2, OutsideFront DEF LicenseHolds, At, CallsTyped, initialised, registry, outcome,
    clients, Started, Reached
<1>3. ASSUME NEW t \in Threads, NoParser(t) PROVE Started'
  <2>1. plugin_manager = 0
    BY <1>3, ParserFrontEndAssumption DEF NoParser, Phase, Taken
  <2>2. promised[t] = FALSE
    BY <1>3, <2>1 DEF NoParser, Reached, CallsTyped
  <2> QED
    BY <1>3, <2>1, <2>2, OutsideFront DEF NoParser, Answer, At, CallsTyped, initialised, registry,
      outcome, clients
<1>4. ASSUME NEW t \in Threads, ReadConfig(t) PROVE Started'
  <2> USE <1>4 DEF ReadConfig, Enters, At
  <2>1. Phase'
    BY DEF Phase, Taken, Goto, Settings, CallsTyped, initialised, registry, outcome, clients
  <2>2. Listings'
    <3>1. \A l \in Listed(arg[t]) : \E k \in DOMAIN todo'[t] : todo'[t][k] = l
      BY DEF Listed, CallsTyped
    <3>2. \A u \in Threads : pc'[u] \in {"loading", "leaving"} => u = t
      BY DEF Taken, Goto, CallsTyped
    <3>3. arg' = arg /\ loaded' = loaded /\ plugin_manager' = plugin_manager
      OBVIOUS
    <3> QED
      BY <3>1, <3>2, <3>3 DEF Listings
  <2>3. Phase' /\ Listings'
    BY <2>1, <2>2
  <2>4. Reached'
    BY DEF Reached, Phase, Taken, Goto, Settings, CallsTyped, initialised, registry, outcome,
      clients
  <2>5. NullOnlyBeforeInit' /\ PoliteClientsSurvive'
    BY DEF NullOnlyBeforeInit, PoliteClientsSurvive, Reached, Phase, Taken, Goto, Settings,
      CallsTyped, initialised, registry, outcome, clients
  <2> QED
    BY <2>3, <2>4, <2>5
<1>5. ASSUME NEW t \in Threads, ConfigFails(t) PROVE Started'
  BY <1>5, OutsideFront DEF ConfigFails, Enters, Answer, At, CallsTyped, initialised, registry,
    outcome, clients, Started, Reached
<1>6. ASSUME NEW t \in Threads, LoadModule(t) PROVE Started'
  <2> USE <1>6 DEF LoadModule, At
  <2>1. Phase'
    BY DEF Phase, Taken, Goto, Settings, CallsTyped, initialised, registry, outcome, clients
  <2>2. Listings'
    <3>1. \A u \in Threads : pc[u] \in {"loading", "leaving"} => u = t
      BY DEF Taken
    <3>2. PICK s \in Seq(Items) : s = todo[t]
      BY DEF CallsTyped
    <3>3. todo'[t] = Tail(s) /\ loaded' = loaded \cup {Head(s)} /\ s # <<>>
      BY <3>2 DEF CallsTyped
    <3>4. ASSUME NEW l \in Listed(arg[t]) \ loaded'
          PROVE  \E k \in DOMAIN todo'[t] : todo'[t][k] = l
      <4>1. PICK k \in DOMAIN s : s[k] = l
        BY <3>2, <3>3, <3>4 DEF Listings
      <4>2. s[k] # Head(s)
        BY <3>3, <3>4, <4>1
      <4>3. PICK j \in DOMAIN Tail(s) : Tail(s)[j] = l
        BY <3>3, <4>1, <4>2, RestOfList
      <4>4. todo'[t] = Tail(s)
        BY <3>3
      <4> HIDE DEF LoadModule
      <4> QED
        BY <4>3, <4>4, Zenon
    <3>5. UNCHANGED <<pc, arg, plugin_manager>>
      BY DEF outcome
    <3> QED
      BY <3>1, <3>3, <3>4, <3>5 DEF Listings
  <2>3. Phase' /\ Listings'
    BY <2>1, <2>2
  <2>4. Reached'
    BY DEF Reached, Phase, Taken, Goto, Settings, CallsTyped, initialised, registry, outcome,
      clients
  <2>5. NullOnlyBeforeInit' /\ PoliteClientsSurvive'
    BY DEF NullOnlyBeforeInit, PoliteClientsSurvive, Reached, Phase, Taken, Goto, Settings,
      CallsTyped, initialised, registry, outcome, clients
  <2> QED
    BY <2>3, <2>4, <2>5
<1>7. ASSUME NEW t \in Threads, LoadFails(t) PROVE Started'
  <2> USE <1>7 DEF LoadFails, Answer, At
  <2>1. Phase'
    BY DEF Phase, Taken, Goto, Settings, CallsTyped, initialised, registry, outcome, clients
  <2>2. Listings'
    BY ListingsKept DEF Goto, Settings, CallsTyped, initialised, registry, outcome, clients
  <2>3. Phase' /\ Listings'
    BY <2>1, <2>2
  <2>4. Reached'
    BY DEF Reached, Phase, Taken, Goto, Settings, CallsTyped, initialised, registry, outcome,
      clients
  <2>5. NullOnlyBeforeInit' /\ PoliteClientsSurvive'
    BY DEF NullOnlyBeforeInit, PoliteClientsSurvive, Reached, Phase, Taken, Goto, Settings,
      CallsTyped, initialised, registry, outcome, clients
  <2> QED
    BY <2>3, <2>4, <2>5
<1>8. ASSUME NEW t \in Threads, MakeManager(t) PROVE Started'
  <2> USE <1>8 DEF MakeManager, At
  <2>1. Phase'
    <3>1. plugin_manager' # 0
      BY DEF Settings
    <3>2. pc'[t] = "leaving"
      BY DEF Goto, CallsTyped
    <3> QED
      BY <3>1, <3>2 DEF Phase, Taken
  <2>2. Listings'
    <3>1. \A u \in Threads : pc'[u] \in {"loading", "leaving"} => u = t
      BY DEF Taken, Goto, CallsTyped
    <3>2. pc'[t] = "leaving" /\ arg' = arg /\ loaded' = loaded
      BY DEF Goto, CallsTyped
    <3>3. DOMAIN todo[t] = {}
      OBVIOUS
    <3>4. PICK c \in Configs \ BadConfigs : c = arg[t]
      BY DEF Listings, Stages
    <3>5. Listed(c) \subseteq loaded
      BY <3>3, <3>4 DEF Listings
    <3> QED
      BY <3>1, <3>2, <3>4, <3>5 DEF Listings
  <2>3. Phase' /\ Listings'
    BY <2>1, <2>2
  <2>4. Reached'
    BY DEF Reached, Phase, Taken, Goto, Settings, CallsTyped, initialised, registry, outcome,
      clients
  <2>5. NullOnlyBeforeInit' /\ PoliteClientsSurvive'
    BY DEF NullOnlyBeforeInit, PoliteClientsSurvive, Reached, Phase, Taken, Goto, Settings,
      CallsTyped, initialised, registry, outcome, clients
  <2> QED
    BY <2>3, <2>4, <2>5
<1>9. ASSUME NEW t \in Threads, MakeManagerFails(t) PROVE Started'
  <2> USE <1>9 DEF MakeManagerFails, At
  <2>1. PICK code \in Answers \ {NullPointer} : Answer(t, code)
    OBVIOUS
  <2>2. Phase'
    BY <2>1 DEF Answer, Phase, Taken, Goto, Settings, CallsTyped, initialised, registry,
      outcome, clients
  <2>3. Listings'
    BY <2>1, ListingsKept DEF Answer, Goto, Settings, CallsTyped, initialised, registry,
      outcome, clients
  <2>4. Phase' /\ Listings'
    BY <2>2, <2>3
  <2>5. Reached'
    BY <2>1 DEF Answer, Reached, Phase, Taken, Goto, Settings, CallsTyped, initialised,
      registry, outcome, clients
  <2>6. NullOnlyBeforeInit' /\ PoliteClientsSurvive'
    BY <2>1 DEF Answer, NullOnlyBeforeInit, PoliteClientsSurvive, Reached, Phase, Taken, Goto,
      Settings, CallsTyped, initialised, registry, outcome, clients
  <2> QED
    BY <2>4, <2>5, <2>6
<1>10. ASSUME NEW t \in Threads, LeaveOnce(t) PROVE Started'
  <2> USE <1>10 DEF LeaveOnce, CheckReady, Answer, At
  <2>1. Phase'
    BY DEF Phase, Taken, Goto, Settings, CallsTyped, initialised, registry, outcome, clients
  <2>2. Listings'
    <3>1. \A u \in Threads : /\ pc'[u] = IF u = t THEN "idle" ELSE pc[u]
                             /\ u # t => arg'[u] = arg[u] /\ todo'[u] = todo[u]
      BY DEF Goto, CallsTyped
    <3>2. loaded' = loaded /\ plugin_manager' = plugin_manager /\ Listings
      OBVIOUS
    <3> HIDE DEF LeaveOnce
    <3> QED
      BY <3>1, <3>2, ListingsKept, Zenon
  <2>3. Phase' /\ Listings'
    BY <2>1, <2>2
  <2>4. Reached'
    BY DEF Reached, Phase, Taken, Goto, Settings, CallsTyped, initialised, registry, outcome,
      clients
  <2>5. NullOnlyBeforeInit' /\ PoliteClientsSurvive'
    BY DEF NullOnlyBeforeInit, PoliteClientsSurvive, Reached, Phase, Taken, Goto, Settings,
      CallsTyped, initialised, registry, outcome, clients
  <2> QED
    BY <2>3, <2>4, <2>5
<1>11. ASSUME NEW t \in Threads, PassOnce(t) PROVE Started'
  <2>1. PICK code \in Answers \ {NullPointer} : Answer(t, code)
    BY <1>11 DEF PassOnce, CheckReady
  <2>2. told' = told \/ plugin_manager # 0
    BY <1>11 DEF PassOnce, Phase
  <2> QED
    BY <1>11, <2>1, <2>2, OutsideFront DEF PassOnce, CheckReady, At, Answer, CallsTyped,
      initialised,
      registry, outcome, clients
<1>12. ASSUME NEW t \in Threads, NullManager(t) PROVE Started'
  BY <1>12, OutsideFront DEF NullManager, Answer, At, CallsTyped, initialised, registry,
    outcome, clients, Started, Reached
<1>13. ASSUME NEW t \in Threads, CreateFails(t) PROVE Started'
  <2>1. PICK code \in Answers \ {NullPointer} : Answer(t, code)
    BY <1>13 DEF CreateFails, Through, Fails
  <2> QED
    BY <1>13, <2>1, OutsideFront DEF CreateFails, Through, Fails, At, Answer, CallsTyped,
      initialised, registry, outcome, clients
<1>14. ASSUME NEW t \in Threads, InitPluginFails(t) PROVE Started'
  <2>1. PICK code \in Answers \ {NullPointer} : Answer(t, code)
    BY <1>14 DEF InitPluginFails, Fails
  <2> QED
    BY <1>14, <2>1, OutsideFront DEF InitPluginFails, Fails, At, Answer, CallsTyped,
      initialised, registry, outcome, clients
<1>15. ASSUME NEW t \in Threads, Register(t) PROVE Started'
  BY <1>15, OutsideFront DEF Register, Unanswered, At, CallsTyped, initialised, registry,
    outcome, clients, Started, Reached
<1>16. ASSUME NEW t \in Threads, CreateReturns(t) PROVE Started'
  BY <1>16, OutsideFront DEF CreateReturns, Answer, At, CallsTyped, initialised, registry,
    outcome, clients, Started, Reached
<1>17. ASSUME NEW t \in Threads, ExecuteRejected(t) PROVE Started'
  <2>1. PICK code \in Answers \ {NullPointer} : Answer(t, code)
    BY <1>17 DEF ExecuteRejected
  <2> QED
    BY <1>17, <2>1, OutsideFront DEF ExecuteRejected, At, Answer, CallsTyped, initialised,
      registry, outcome, clients
<1>18. ASSUME NEW t \in Threads, ExecuteMisses(t) PROVE Started'
  BY <1>18, OutsideFront DEF ExecuteMisses, Through, Answer, At, CallsTyped, initialised,
    registry, outcome, clients, Started, Reached
<1>19. ASSUME NEW t \in Threads, ExecuteReturns(t) PROVE Started'
  <2>1. PICK code \in Answers \ {NullPointer} : Answer(t, code)
    BY <1>19 DEF ExecuteReturns, Fails
  <2> QED
    BY <1>19, <2>1, OutsideFront DEF ExecuteReturns, Fails, At, Answer, CallsTyped, initialised,
      registry, outcome, clients
<1>20. ASSUME NEW t \in Threads, ReleaseMisses(t) PROVE Started'
  BY <1>20, OutsideFront DEF ReleaseMisses, Through, ReleaseReturns, At, CallsTyped,
    initialised, registry, outcome, clients, Started, Reached
<1>21. ASSUME NEW t \in Threads, ReleaseThrows(t) PROVE Started'
  <2> USE <1>21 DEF ReleaseThrows, At
  <2>1. Phase' /\ Listings'
    BY ListingsKept DEF Phase, Settings, CallsTyped, initialised, registry, outcome, clients
  <2>2. Reached'
    BY DEF Reached, Phase, Taken, Goto, Settings, CallsTyped, initialised, registry, outcome,
      clients
  <2>3. NullOnlyBeforeInit' /\ PoliteClientsSurvive'
    BY DEF NullOnlyBeforeInit, PoliteClientsSurvive, Reached, Phase, Taken, Goto, Settings,
      CallsTyped, initialised, registry, outcome, clients
  <2> QED
    BY <2>1, <2>2, <2>3
<1>22. ASSUME NEW t \in Threads, NEW i \in Instances, Construct(t, i) PROVE Started'
  BY <1>22, OutsideFront DEF Construct, Through, Unanswered, At, CallsTyped, initialised,
    registry, outcome, clients, Started, Reached
<1>23. ASSUME NEW t \in Threads, NEW i \in Instances, ExecuteFinds(t, i) PROVE Started'
  BY <1>23, OutsideFront DEF ExecuteFinds, Through, Unanswered, At, CallsTyped, initialised,
    registry, outcome, clients, Started, Reached
<1>24. ASSUME NEW t \in Threads, NEW i \in Instances, ReleaseErases(t, i) PROVE Started'
  BY <1>24, OutsideFront DEF ReleaseErases, Through, ReleaseReturns, At, CallsTyped,
    initialised, registry, outcome, clients, Started, Reached
<1>25. ASSUME NEW t \in Threads, CallCreate(t) PROVE Started'
  BY <1>25, OutsideFront DEF CallCreate, Begin, At, CallsTyped, initialised, registry, outcome,
    clients, Started, Reached
<1>26. ASSUME NEW t \in Threads, NEW c \in Configs, CallInit(t, c) PROVE Started'
  BY <1>26, OutsideFront DEF CallInit, Begin, At, CallsTyped, initialised, registry, outcome,
    clients, Started, Reached
<1>27. ASSUME NEW t \in Threads, NEW x \in Ids, CallExecute(t, x) PROVE Started'
  BY <1>27, OutsideFront DEF CallExecute, Begin, At, CallsTyped, initialised, registry, outcome,
    clients, Started, Reached
<1>28. ASSUME NEW t \in Threads, NEW x \in Ids, CallRelease(t, x) PROVE Started'
  BY <1>28, OutsideFront DEF CallRelease, Begin, At, CallsTyped, initialised, registry, outcome,
    clients, Started, Reached
<1>29. ASSUME NEW i \in Instances, DestroyInstance(i) PROVE Started'
  <2> USE <1>29 DEF DestroyInstance, Settings, CallsTyped, initialised, registry, outcome, clients
  <2>1. Listings'
    BY ListingsKept
  <2> QED
    BY <2>1 DEF Phase, Reached, NullOnlyBeforeInit, PoliteClientsSurvive
<1>30. ASSUME NEW l \in Libs, InstallModule(l) PROVE Started'
  <2> USE <1>30 DEF InstallModule, Settings, CallsTyped, initialised, registry, outcome, clients
  <2>1. Listings'
    BY ListingsKept
  <2> QED
    BY <2>1 DEF Phase, Reached, NullOnlyBeforeInit, PoliteClientsSurvive
<1>31. CASE UNCHANGED vars
  <2> USE <1>31 DEF vars, Settings, CallsTyped, initialised, registry, outcome, clients
  <2>1. Listings'
    BY ListingsKept
  <2> QED
    BY <2>1 DEF Phase, Reached, NullOnlyBeforeInit, PoliteClientsSurvive
<1>32. ASSUME NEW t \in Threads, LicenseThrows(t) PROVE Started'
  <2> USE <1>32 DEF LicenseThrows, At
  <2>1. Phase' /\ Listings'
    BY ListingsKept DEF Phase, Settings, CallsTyped, initialised, registry, outcome, clients
  <2>2. Reached'
    BY DEF Reached, Phase, Taken, Goto, Settings, CallsTyped, initialised, registry, outcome,
      clients
  <2>3. NullOnlyBeforeInit' /\ PoliteClientsSurvive'
    BY DEF NullOnlyBeforeInit, PoliteClientsSurvive, Reached, Phase, Taken, Goto, Settings,
      CallsTyped, initialised, registry, outcome, clients
  <2> QED
    BY <2>1, <2>2, <2>3
<1>33. ASSUME NEW t \in Threads, ItemFails(t) PROVE Started'
  <2> USE <1>33 DEF ItemFails, Answer, At
  <2>1. Phase'
    BY DEF Phase, Taken, Goto, Settings, CallsTyped, initialised, registry, outcome, clients
  <2>2. Listings'
    BY ListingsKept DEF Goto, Settings, CallsTyped, initialised, registry, outcome, clients
  <2>3. Phase' /\ Listings'
    BY <2>1, <2>2
  <2>4. Reached'
    BY DEF Reached, Phase, Taken, Goto, Settings, CallsTyped, initialised, registry, outcome,
      clients
  <2>5. NullOnlyBeforeInit' /\ PoliteClientsSurvive'
    BY DEF NullOnlyBeforeInit, PoliteClientsSurvive, Reached, Phase, Taken, Goto, Settings,
      CallsTyped, initialised, registry, outcome, clients
  <2> QED
    BY <2>3, <2>4, <2>5
<1> QED
  BY <1>1, <1>2, <1>3, <1>4, <1>5, <1>6, <1>7, <1>8, <1>9, <1>10, <1>11, <1>12, <1>13, <1>14,
    <1>15, <1>16, <1>17, <1>18, <1>19, <1>20, <1>21, <1>22, <1>23, <1>24, <1>25, <1>26, <1>27,
    <1>28, <1>29, <1>30, <1>31, <1>32, <1>33
  DEF Next, InitStep, UseStep, ClientStep
-----------------------------------------------------------------------------
(* Living instances have identifiers of their own, and an instance under   *)
(* construction is in one thread's hands.                                  *)
Owned ==
  /\ \A i \in registered : i \in alive
  /\ \A i, j \in alive : IdOf(i) = IdOf(j) => i = j
  /\ \A t \in Threads :
       /\ holds[t] # NoInst => holds[t] \in alive
       /\ pc[t] = "init plugin" => holds[t] \notin registered
       /\ \A u \in Threads \ {t} :
            pc[t] \in {"init plugin", "publish"} /\ pc[u] \in {"init plugin", "publish"} =>
              holds[t] # holds[u]

(* As long as clients release their own, an identifier is with one of them,*)
(* on its way to one, or being released once.                              *)
Polite ==
  ~impolite =>
    /\ \A x \in issued : \E i \in registered : IdOf(i) = x
    /\ \A t \in Threads :
         /\ pc[t] = "publish" => holds[t] \in registered /\ IdOf(holds[t]) \notin issued
         /\ pc[t] = "release" =>
              /\ arg[t] \notin issued
              /\ \E i \in registered : IdOf(i) = arg[t]
              /\ \A u \in Threads \ {t} :
                   /\ pc[u] = "publish" => IdOf(holds[u]) # arg[t]
                   /\ pc[u] = "release" => arg[u] # arg[t]

(* A step that neither creates, publishes nor releases.                    *)
LEMMA Elsewhere ==
  ASSUME Owned, Polite, UNCHANGED <<alive, registered, issued, impolite>>,
         \A u \in Threads :
           /\ pc'[u] \in {"init plugin", "publish", "release"} =>
                pc'[u] = pc[u] /\ holds'[u] = holds[u] /\ arg'[u] = arg[u]
           /\ holds'[u] # NoInst => holds'[u] \in alive
  PROVE  (Owned /\ Polite)'
<1>1. Owned'
  BY DEF Owned
<1>2. Polite'
  BY DEF Polite
<1> QED
  BY <1>1, <1>2

(* Instances stay with their owners when nobody takes one up.              *)
LEMMA OwnersKept ==
  ASSUME Owned, alive' = alive,
         \A i \in registered' : i \in alive,
         \A u \in Threads :
           /\ pc'[u] \in {"init plugin", "publish"} =>
                pc[u] \in {"init plugin", "publish"} /\ holds'[u] = holds[u]
           /\ pc'[u] = "init plugin" => holds'[u] \notin registered'
           /\ holds'[u] # NoInst => holds'[u] = holds[u]
  PROVE  Owned'
<1>1. \A u \in Threads : holds'[u] # NoInst => holds'[u] \in alive'
  BY DEF Owned
<1>2. \A u, v \in Threads :
        u # v /\ pc'[u] \in {"init plugin", "publish"} /\ pc'[v] \in {"init plugin", "publish"} =>
          holds'[u] # holds'[v]
  BY DEF Owned
<1> QED
  BY <1>1, <1>2 DEF Owned

LEMMA OwnedStep ==
  ASSUME TypeOK, Owned, Polite, [Next]_vars
  PROVE  (Owned /\ Polite)'
<1> USE TypeParts, ParserFrontEndAssumption, OwnCodes DEF Typed
<1>1. ASSUME NEW t \in Threads, LicenseFails(t) PROVE (Owned /\ Polite)'
  <2> USE <1>1 DEF LicenseFails, Answer, At, Goto
  <2>1. \A u \in Threads :
           /\ pc'[u] \in {"init plugin", "publish", "release"} =>
                pc'[u] = pc[u] /\ holds'[u] = holds[u] /\ arg'[u] = arg[u]
           /\ holds'[u] # NoInst => holds'[u] \in alive
    BY DEF Owned, Settings, CallsTyped, Objects, initialised, registry, outcome, clients
  <2>2. UNCHANGED <<alive, registered, issued, impolite>>
    BY DEF Settings, CallsTyped, Objects, initialised, registry, outcome, clients
  <2> QED
    BY <2>1, <2>2, Elsewhere
<1>2. ASSUME NEW t \in Threads, LicenseHolds(t) PROVE (Owned /\ Polite)'
  <2> USE <1>2 DEF LicenseHolds, At, Goto
  <2>1. \A u \in Threads :
           /\ pc'[u] \in {"init plugin", "publish", "release"} =>
                pc'[u] = pc[u] /\ holds'[u] = holds[u] /\ arg'[u] = arg[u]
           /\ holds'[u] # NoInst => holds'[u] \in alive
    BY DEF Owned, Settings, CallsTyped, Objects, initialised, registry, outcome, clients
  <2>2. UNCHANGED <<alive, registered, issued, impolite>>
    BY DEF Settings, CallsTyped, Objects, initialised, registry, outcome, clients
  <2> QED
    BY <2>1, <2>2, Elsewhere
<1>3. ASSUME NEW t \in Threads, NoParser(t) PROVE (Owned /\ Polite)'
  <2> USE <1>3 DEF NoParser, Answer, At, Goto
  <2>1. \A u \in Threads :
           /\ pc'[u] \in {"init plugin", "publish", "release"} =>
                pc'[u] = pc[u] /\ holds'[u] = holds[u] /\ arg'[u] = arg[u]
           /\ holds'[u] # NoInst => holds'[u] \in alive
    BY DEF Owned, Settings, CallsTyped, Objects, initialised, registry, outcome, clients
  <2>2. UNCHANGED <<alive, registered, issued, impolite>>
    BY DEF Settings, CallsTyped, Objects, initialised, registry, outcome, clients
  <2> QED
    BY <2>1, <2>2, Elsewhere
<1>4. ASSUME NEW t \in Threads, ReadConfig(t) PROVE (Owned /\ Polite)'
  <2> USE <1>4 DEF ReadConfig, Enters, At, Goto
  <2>1. \A u \in Threads :
           /\ pc'[u] \in {"init plugin", "publish", "release"} =>
                pc'[u] = pc[u] /\ holds'[u] = holds[u] /\ arg'[u] = arg[u]
           /\ holds'[u] # NoInst => holds'[u] \in alive
    BY DEF Owned, Settings, CallsTyped, Objects, initialised, registry, outcome, clients
  <2>2. UNCHANGED <<alive, registered, issued, impolite>>
    BY DEF Settings, CallsTyped, Objects, initialised, registry, outcome, clients
  <2> QED
    BY <2>1, <2>2, Elsewhere
<1>5. ASSUME NEW t \in Threads, ConfigFails(t) PROVE (Owned /\ Polite)'
  <2> USE <1>5 DEF ConfigFails, Enters, Answer, At, Goto
  <2>1. \A u \in Threads :
           /\ pc'[u] \in {"init plugin", "publish", "release"} =>
                pc'[u] = pc[u] /\ holds'[u] = holds[u] /\ arg'[u] = arg[u]
           /\ holds'[u] # NoInst => holds'[u] \in alive
    BY DEF Owned, Settings, CallsTyped, Objects, initialised, registry, outcome, clients
  <2>2. UNCHANGED <<alive, registered, issued, impolite>>
    BY DEF Settings, CallsTyped, Objects, initialised, registry, outcome, clients
  <2> QED
    BY <2>1, <2>2, Elsewhere
<1>6. ASSUME NEW t \in Threads, LoadModule(t) PROVE (Owned /\ Polite)'
  <2> USE <1>6 DEF LoadModule, At, Goto
  <2>1. \A u \in Threads :
           /\ pc'[u] \in {"init plugin", "publish", "release"} =>
                pc'[u] = pc[u] /\ holds'[u] = holds[u] /\ arg'[u] = arg[u]
           /\ holds'[u] # NoInst => holds'[u] \in alive
    BY DEF Owned, Settings, CallsTyped, Objects, initialised, registry, outcome, clients
  <2>2. UNCHANGED <<alive, registered, issued, impolite>>
    BY DEF Settings, CallsTyped, Objects, initialised, registry, outcome, clients
  <2> QED
    BY <2>1, <2>2, Elsewhere
<1>7. ASSUME NEW t \in Threads, LoadFails(t) PROVE (Owned /\ Polite)'
  <2> USE <1>7 DEF LoadFails, Answer, At, Goto
  <2>1. \A u \in Threads :
           /\ pc'[u] \in {"init plugin", "publish", "release"} =>
                pc'[u] = pc[u] /\ holds'[u] = holds[u] /\ arg'[u] = arg[u]
           /\ holds'[u] # NoInst => holds'[u] \in alive
    BY DEF Owned, Settings, CallsTyped, Objects, initialised, registry, outcome, clients
  <2>2. UNCHANGED <<alive, registered, issued, impolite>>
    BY DEF Settings, CallsTyped, Objects, initialised, registry, outcome, clients
  <2> QED
    BY <2>1, <2>2, Elsewhere
<1>8. ASSUME NEW t \in Threads, MakeManager(t) PROVE (Owned /\ Polite)'
  <2> USE <1>8 DEF MakeManager, At, Goto
  <2>1. \A u \in Threads :
           /\ pc'[u] \in {"init plugin", "publish", "release"} =>
                pc'[u] = pc[u] /\ holds'[u] = holds[u] /\ arg'[u] = arg[u]
           /\ holds'[u] # NoInst => holds'[u] \in alive
    BY DEF Owned, Settings, CallsTyped, Objects, initialised, registry, outcome, clients
  <2>2. UNCHANGED <<alive, registered, issued, impolite>>
    BY DEF Settings, CallsTyped, Objects, initialised, registry, outcome, clients
  <2> QED
    BY <2>1, <2>2, Elsewhere
<1>9. ASSUME NEW t \in Threads, MakeManagerFails(t) PROVE (Owned /\ Polite)'
  <2> USE <1>9 DEF MakeManagerFails, At, Goto
  <2>1. PICK code \in Answers \ {NullPointer} : Answer(t, code)
    OBVIOUS
  <2>2. \A u \in Threads :
           /\ pc'[u] \in {"init plugin", "publish", "release"} =>
                pc'[u] = pc[u] /\ holds'[u] = holds[u] /\ arg'[u] = arg[u]
           /\ holds'[u] # NoInst => holds'[u] \in alive
    BY <2>1 DEF Answer, Owned, Settings, CallsTyped, Objects, initialised, registry, outcome,
      clients
  <2>3. UNCHANGED <<alive, registered, issued, impolite>>
    BY <2>1 DEF Answer, Settings, CallsTyped, Objects, initialised, registry, outcome, clients
  <2> QED
    BY <2>2, <2>3, Elsewhere
<1>10. ASSUME NEW t \in Threads, LeaveOnce(t) PROVE (Owned /\ Polite)'
  <2> USE <1>10 DEF LeaveOnce, At
  <2>1. PICK code \in Answers : Answer(t, code)
    BY DEF CheckReady
  <2>2. UNCHANGED <<registry, issued>>
    BY DEF CheckReady
  <2>3. \A u \in Threads : u # t => pc'[u] = pc[u] /\ arg'[u] = arg[u]
    BY <2>1 DEF Answer, Goto, CallsTyped
  <2>4. pc'[t] = "idle" /\ impolite' = impolite
    BY <2>1 DEF Answer, Goto, CallsTyped, clients
  <2> QED
    BY <2>2, <2>3, <2>4, Elsewhere DEF registry, Owned
<1>11. ASSUME NEW t \in Threads, PassOnce(t) PROVE (Owned /\ Polite)'
  <2> USE <1>11 DEF PassOnce, At
  <2>1. PICK code \in Answers : Answer(t, code)
    BY DEF CheckReady
  <2>2. UNCHANGED <<registry, issued>>
    BY DEF CheckReady
  <2>3. \A u \in Threads : u # t => pc'[u] = pc[u] /\ arg'[u] = arg[u]
    BY <2>1 DEF Answer, Goto, CallsTyped
  <2>4. pc'[t] = "idle" /\ impolite' = impolite
    BY <2>1 DEF Answer, Goto, CallsTyped, clients
  <2> QED
    BY <2>2, <2>3, <2>4, Elsewhere DEF registry, Owned
<1>12. ASSUME NEW t \in Threads, NullManager(t) PROVE (Owned /\ Polite)'
  <2> USE <1>12 DEF NullManager, Answer, At, Goto
  <2>1. \A u \in Threads :
           /\ pc'[u] \in {"init plugin", "publish", "release"} =>
                pc'[u] = pc[u] /\ holds'[u] = holds[u] /\ arg'[u] = arg[u]
           /\ holds'[u] # NoInst => holds'[u] \in alive
    BY DEF Owned, Settings, CallsTyped, Objects, initialised, registry, outcome, clients
  <2>2. UNCHANGED <<alive, registered, issued, impolite>>
    BY DEF Settings, CallsTyped, Objects, initialised, registry, outcome, clients
  <2> QED
    BY <2>1, <2>2, Elsewhere
<1>13. ASSUME NEW t \in Threads, CreateFails(t) PROVE (Owned /\ Polite)'
  <2> USE <1>13 DEF CreateFails, Through, Fails, At, Goto
  <2>1. PICK code \in Answers \ {NullPointer} : Answer(t, code)
    OBVIOUS
  <2>2. \A u \in Threads :
           /\ pc'[u] \in {"init plugin", "publish", "release"} =>
                pc'[u] = pc[u] /\ holds'[u] = holds[u] /\ arg'[u] = arg[u]
           /\ holds'[u] # NoInst => holds'[u] \in alive
    BY <2>1 DEF Answer, Owned, Settings, CallsTyped, Objects, initialised, registry, outcome,
      clients
  <2>3. UNCHANGED <<alive, registered, issued, impolite>>
    BY <2>1 DEF Answer, Settings, CallsTyped, Objects, initialised, registry, outcome, clients
  <2> QED
    BY <2>2, <2>3, Elsewhere
<1>14. ASSUME NEW t \in Threads, InitPluginFails(t) PROVE (Owned /\ Polite)'
  <2> USE <1>14 DEF InitPluginFails, Fails, Registry!Drop, At, Goto
  <2>1. PICK code \in Answers \ {NullPointer} : Answer(t, code)
    OBVIOUS
  <2>2. \A u \in Threads :
           /\ pc'[u] \in {"init plugin", "publish", "release"} =>
                pc'[u] = pc[u] /\ holds'[u] = holds[u] /\ arg'[u] = arg[u]
           /\ holds'[u] # NoInst => holds'[u] \in alive
    BY <2>1 DEF Answer, Owned, Settings, CallsTyped, Objects, initialised, registry, outcome,
      clients
  <2>3. UNCHANGED <<alive, registered, issued, impolite>>
    BY <2>1 DEF Answer, Settings, CallsTyped, Objects, initialised, registry, outcome, clients
  <2> QED
    BY <2>2, <2>3, Elsewhere
<1>15. ASSUME NEW t \in Threads, Register(t) PROVE (Owned /\ Polite)'
  <2>1. PICK i \in Instances : i = holds[t]
    BY <1>15 DEF Stages, Objects, Register, Unanswered, Registry!Register, At, Goto
  <2>2. \A u \in Threads : pc'[u] = IF u = t THEN "publish" ELSE pc[u]
    BY <1>15 DEF CallsTyped, Register, Unanswered, Registry!Register, At, Goto
  <2>3. /\ registered' = registered \cup {i} /\ \A j \in registered : IdOf(j) # IdOf(i)
        /\ UNCHANGED <<alive, holds, arg, issued, impolite>>
    BY <1>15, <2>1 DEF outcome, clients, Registry!IdOf, IdOf, Register, Unanswered,
      Registry!Register, At, Goto
  <2>4. i \in alive
    BY <1>15, <2>1 DEF Owned, Objects, Register, Unanswered, Registry!Register, At, Goto
  <2>5. Owned'
    <3>1. pc[t] = "init plugin"
      BY <1>15 DEF Register, At
    <3>2. \A u \in Threads : u # t /\ pc[u] = "init plugin" => holds[u] # i
      BY <2>1, <3>1 DEF Owned
    <3>3. \A u \in Threads : pc'[u] = "init plugin" => holds'[u] \notin registered'
      BY <2>2, <2>3, <3>2 DEF Owned
    <3>4. \A u \in Threads : pc'[u] \in {"init plugin", "publish"} =>
            pc[u] \in {"init plugin", "publish"}
      BY <2>2, <3>1
    <3>5. \A j \in registered' : j \in alive
      BY <2>3, <2>4 DEF Owned
    <3> QED
      BY <2>3, <3>3, <3>4, <3>5, OwnersKept
  <2>6. Polite'
    <3> SUFFICES ASSUME ~impolite PROVE Polite'
      BY <2>3 DEF Polite
    <3>1. IdOf(i) \notin issued
      BY <2>3 DEF Polite
    <3>2. \A u \in Threads : pc[u] = "release" => arg[u] # IdOf(i)
      BY <2>3 DEF Polite
    <3> QED
      BY <2>1, <2>2, <2>3, <3>1, <3>2 DEF Polite
  <2> QED
    BY <2>5, <2>6
<1>16. ASSUME NEW t \in Threads, CreateReturns(t) PROVE (Owned /\ Polite)'
  <2>1. PICK i \in Instances : i = holds[t]
    BY <1>16 DEF Stages, Objects, CreateReturns, Answer, Registry!Drop, At, Goto
  <2>2. \A u \in Threads : /\ pc'[u] = IF u = t THEN "idle" ELSE pc[u]
                           /\ holds'[u] = IF u = t THEN NoInst ELSE holds[u]
    BY <1>16 DEF CallsTyped, Objects, CreateReturns, Answer, Registry!Drop, At, Goto
  <2>3. \A u \in Threads : u # t => arg'[u] = arg[u]
    BY <1>16 DEF CreateReturns, Answer, CallsTyped
  <2>4. issued' = issued \cup {IdOf(i)} /\ UNCHANGED <<alive, registered, impolite>>
    BY <1>16, <2>1 DEF clients, CreateReturns, Answer, Registry!Drop, At, Goto
  <2>5. pc[t] = "publish"
    BY <1>16 DEF CreateReturns, Answer, Registry!Drop, At, Goto
  <2>6. Owned'
    <3>1. \A u \in Threads :
            /\ pc'[u] \in {"init plugin", "publish"} =>
                 pc[u] \in {"init plugin", "publish"} /\ holds'[u] = holds[u]
            /\ pc'[u] = "init plugin" => holds'[u] \notin registered'
            /\ holds'[u] # NoInst => holds'[u] = holds[u]
      BY <2>2, <2>4 DEF Owned
    <3>2. alive' = alive /\ \A j \in registered' : j \in alive
      BY <2>4 DEF Owned
    <3> QED
      BY <3>1, <3>2, OwnersKept
  <2>7. Polite'
    <3> SUFFICES ASSUME ~impolite PROVE Polite'
      BY <2>4 DEF Polite
    <3>1. i \in registered
      BY <2>1, <2>5 DEF Polite
    <3>2. \A u \in Threads : u # t /\ pc[u] = "publish" => IdOf(holds[u]) # IdOf(i)
      BY <2>1, <2>5, <3>1 DEF Owned, Polite
    <3>3. \A u \in Threads : pc[u] = "release" => arg[u] # IdOf(i)
      BY <2>1, <2>5 DEF Polite
    <3> QED
      <4>1. \A u \in Threads : pc'[u] = "publish" => u # t /\ pc[u] = "publish" /\ holds'[u] = holds[u]
        BY <2>2
      <4>2. \A u \in Threads : pc'[u] = "release" => u # t /\ pc[u] = "release" /\ arg'[u] = arg[u]
        BY <2>2, <2>3
      <4>3. \A x \in issued' : \E j \in registered' : IdOf(j) = x
        BY <2>4, <3>1 DEF Polite
      <4>4. \A u \in Threads : pc'[u] = "publish" =>
              holds'[u] \in registered' /\ IdOf(holds'[u]) \notin issued'
        BY <2>4, <3>2, <4>1 DEF Polite
      <4>5. \A u \in Threads : pc'[u] = "release" =>
              arg'[u] \notin issued' /\ \E j \in registered' : IdOf(j) = arg'[u]
        BY <2>4, <3>3, <4>2 DEF Polite
      <4>6. \A u, v \in Threads : u # v /\ pc'[u] = "release" =>
              /\ pc'[v] = "publish" => IdOf(holds'[v]) # arg'[u]
              /\ pc'[v] = "release" => arg'[v] # arg'[u]
        BY <4>1, <4>2 DEF Polite
      <4> QED
        BY <4>3, <4>4, <4>5, <4>6 DEF Polite
  <2> QED
    BY <2>6, <2>7
<1>17. ASSUME NEW t \in Threads, ExecuteRejected(t) PROVE (Owned /\ Polite)'
  <2> USE <1>17 DEF ExecuteRejected, At, Goto
  <2>1. PICK code \in Answers \ {NullPointer} : Answer(t, code)
    OBVIOUS
  <2>2. \A u \in Threads :
           /\ pc'[u] \in {"init plugin", "publish", "release"} =>
                pc'[u] = pc[u] /\ holds'[u] = holds[u] /\ arg'[u] = arg[u]
           /\ holds'[u] # NoInst => holds'[u] \in alive
    BY <2>1 DEF Answer, Owned, Settings, CallsTyped, Objects, initialised, registry, outcome,
      clients
  <2>3. UNCHANGED <<alive, registered, issued, impolite>>
    BY <2>1 DEF Answer, Settings, CallsTyped, Objects, initialised, registry, outcome, clients
  <2> QED
    BY <2>2, <2>3, Elsewhere
<1>18. ASSUME NEW t \in Threads, ExecuteMisses(t) PROVE (Owned /\ Polite)'
  <2> USE <1>18 DEF ExecuteMisses, Through, Answer, At, Goto
  <2>1. \A u \in Threads :
           /\ pc'[u] \in {"init plugin", "publish", "release"} =>
                pc'[u] = pc[u] /\ holds'[u] = holds[u] /\ arg'[u] = arg[u]
           /\ holds'[u] # NoInst => holds'[u] \in alive
    BY DEF Owned, Settings, CallsTyped, Objects, initialised, registry, outcome, clients
  <2>2. UNCHANGED <<alive, registered, issued, impolite>>
    BY DEF Settings, CallsTyped, Objects, initialised, registry, outcome, clients
  <2> QED
    BY <2>1, <2>2, Elsewhere
<1>19. ASSUME NEW t \in Threads, ExecuteReturns(t) PROVE (Owned /\ Polite)'
  <2> USE <1>19 DEF ExecuteReturns, Fails, Registry!Drop, At, Goto
  <2>1. PICK code \in Answers \ {NullPointer} : Answer(t, code)
    OBVIOUS
  <2>2. \A u \in Threads :
           /\ pc'[u] \in {"init plugin", "publish", "release"} =>
                pc'[u] = pc[u] /\ holds'[u] = holds[u] /\ arg'[u] = arg[u]
           /\ holds'[u] # NoInst => holds'[u] \in alive
    BY <2>1 DEF Answer, Owned, Settings, CallsTyped, Objects, initialised, registry, outcome,
      clients
  <2>3. UNCHANGED <<alive, registered, issued, impolite>>
    BY <2>1 DEF Answer, Settings, CallsTyped, Objects, initialised, registry, outcome, clients
  <2> QED
    BY <2>2, <2>3, Elsewhere
<1>20. ASSUME NEW t \in Threads, ReleaseMisses(t) PROVE (Owned /\ Polite)'
  <2> USE <1>20 DEF ReleaseMisses, Through, ReleaseReturns, At, Goto
  <2>1. \A u \in Threads :
           /\ pc'[u] \in {"init plugin", "publish", "release"} =>
                pc'[u] = pc[u] /\ holds'[u] = holds[u] /\ arg'[u] = arg[u]
           /\ holds'[u] # NoInst => holds'[u] \in alive
    BY DEF Owned, Settings, CallsTyped, Objects, initialised, registry, outcome, clients
  <2>2. UNCHANGED <<alive, registered, issued, impolite>>
    BY DEF Settings, CallsTyped, Objects, initialised, registry, outcome, clients
  <2> QED
    BY <2>1, <2>2, Elsewhere
<1>21. ASSUME NEW t \in Threads, ReleaseThrows(t) PROVE (Owned /\ Polite)'
  <2> USE <1>21 DEF ReleaseThrows, At, Goto
  <2>1. \A u \in Threads :
           /\ pc'[u] \in {"init plugin", "publish", "release"} =>
                pc'[u] = pc[u] /\ holds'[u] = holds[u] /\ arg'[u] = arg[u]
           /\ holds'[u] # NoInst => holds'[u] \in alive
    BY DEF Owned, Settings, CallsTyped, Objects, initialised, registry, outcome, clients
  <2>2. UNCHANGED <<alive, registered, issued, impolite>>
    BY DEF Settings, CallsTyped, Objects, initialised, registry, outcome, clients
  <2> QED
    BY <2>1, <2>2, Elsewhere
<1>22. ASSUME NEW t \in Threads, NEW i \in Instances, Construct(t, i) PROVE (Owned /\ Polite)'
  <2>1. \A u \in Threads : /\ pc'[u] = IF u = t THEN "init plugin" ELSE pc[u]
                           /\ holds'[u] = IF u = t THEN i ELSE holds[u]
    BY <1>22 DEF CallsTyped, Objects, Construct, Through, Unanswered, Registry!Construct, At, Goto
  <2>2. /\ alive' = alive \cup {i} /\ \A j \in alive : IdOf(j) # IdOf(i)
        /\ UNCHANGED <<registered, arg, issued, impolite>>
    BY <1>22 DEF outcome, clients, Registry!IdOf, IdOf, Construct, Through, Unanswered,
      Registry!Construct, At, Goto
  <2>3. i \notin alive /\ i # NoInst /\ holds[t] = NoInst
    BY <1>22, <2>2 DEF Stages, Construct, Through, Unanswered, Registry!Construct, At, Goto
  <2>4. \A u \in Threads : u # t /\ pc[u] \in {"init plugin", "publish"} => holds[u] \in alive
    BY DEF Owned, Stages
  <2>5. Owned'
    BY <2>1, <2>2, <2>3, <2>4 DEF Owned
  <2>6. Polite'
    BY <2>1, <2>2 DEF Polite
  <2> QED
    BY <2>5, <2>6
<1>23. ASSUME NEW t \in Threads, NEW i \in Instances, ExecuteFinds(t, i) PROVE (Owned /\ Polite)'
  <2> USE <1>23 DEF ExecuteFinds, Through, Unanswered, Registry!Acquire, At, Goto
  <2>1. \A u \in Threads :
           /\ pc'[u] \in {"init plugin", "publish", "release"} =>
                pc'[u] = pc[u] /\ holds'[u] = holds[u] /\ arg'[u] = arg[u]
           /\ holds'[u] # NoInst => holds'[u] \in alive
    BY DEF Owned, Settings, CallsTyped, Objects, initialised, registry, outcome, clients
  <2>2. UNCHANGED <<alive, registered, issued, impolite>>
    BY DEF Settings, CallsTyped, Objects, initialised, registry, outcome, clients
  <2> QED
    BY <2>1, <2>2, Elsewhere
<1>24. ASSUME NEW t \in Threads, NEW i \in Instances, ReleaseErases(t, i) PROVE (Owned /\ Polite)'
  <2>1. \A u \in Threads : /\ pc'[u] = IF u = t THEN "idle" ELSE pc[u]
                           /\ u # t => arg'[u] = arg[u]
    BY <1>24 DEF CallsTyped, ReleaseErases, Through, ReleaseReturns, Registry!Unregister, At, Goto
  <2>2. /\ registered' = registered \ {i} /\ IdOf(i) = arg[t] /\ pc[t] = "release"
        /\ UNCHANGED <<alive, holds, issued, impolite>>
    BY <1>24 DEF outcome, clients, ReleaseErases, Through, ReleaseReturns, Registry!Unregister,
      At, Goto
  <2>3. Owned'
    <3>1. \A u \in Threads :
            /\ pc'[u] \in {"init plugin", "publish"} =>
                 pc[u] \in {"init plugin", "publish"} /\ holds'[u] = holds[u]
            /\ pc'[u] = "init plugin" => holds'[u] \notin registered'
            /\ holds'[u] # NoInst => holds'[u] = holds[u]
      BY <2>1, <2>2 DEF Owned
    <3>2. alive' = alive /\ \A j \in registered' : j \in alive
      BY <2>2 DEF Owned
    <3> QED
      BY <3>1, <3>2, OwnersKept
  <2>4. Polite'
    <3> SUFFICES ASSUME ~impolite PROVE Polite'
      BY <2>2 DEF Polite
    <3>1. \A x \in issued : x # IdOf(i)
      BY <2>2 DEF Polite
    <3>2. \A u \in Threads \ {t} : /\ pc[u] = "publish" => holds[u] # i
                                   /\ pc[u] = "release" => arg[u] # IdOf(i)
      BY <2>2 DEF Polite
    <3> QED
      <4>1. \A u \in Threads : pc'[u] = "publish" => u # t /\ pc[u] = "publish" /\ holds'[u] = holds[u]
        BY <2>1, <2>2
      <4>2. \A u \in Threads : pc'[u] = "release" => u # t /\ pc[u] = "release" /\ arg'[u] = arg[u]
        BY <2>1
      <4>3. \A x \in issued' : \E j \in registered' : IdOf(j) = x
        BY <2>2, <3>1 DEF Polite
      <4>4. \A u \in Threads : pc'[u] = "publish" =>
              holds'[u] \in registered' /\ IdOf(holds'[u]) \notin issued'
        BY <2>2, <3>2, <4>1 DEF Polite
      <4>5. \A u \in Threads : pc'[u] = "release" =>
              arg'[u] \notin issued' /\ \E j \in registered' : IdOf(j) = arg'[u]
        BY <2>2, <3>2, <4>2 DEF Polite
      <4>6. \A u, v \in Threads : u # v /\ pc'[u] = "release" =>
              /\ pc'[v] = "publish" => IdOf(holds'[v]) # arg'[u]
              /\ pc'[v] = "release" => arg'[v] # arg'[u]
        BY <4>1, <4>2 DEF Polite
      <4> QED
        BY <4>3, <4>4, <4>5, <4>6 DEF Polite
  <2> QED
    BY <2>3, <2>4
<1>25. ASSUME NEW t \in Threads, CallCreate(t) PROVE (Owned /\ Polite)'
  <2> USE <1>25 DEF CallCreate, Begin, At, Goto
  <2>1. \A u \in Threads :
           /\ pc'[u] \in {"init plugin", "publish", "release"} =>
                pc'[u] = pc[u] /\ holds'[u] = holds[u] /\ arg'[u] = arg[u]
           /\ holds'[u] # NoInst => holds'[u] \in alive
    BY DEF Owned, Settings, CallsTyped, Objects, initialised, registry, outcome, clients
  <2>2. UNCHANGED <<alive, registered, issued, impolite>>
    BY DEF Settings, CallsTyped, Objects, initialised, registry, outcome, clients
  <2> QED
    BY <2>1, <2>2, Elsewhere
<1>26. ASSUME NEW t \in Threads, NEW c \in Configs, CallInit(t, c) PROVE (Owned /\ Polite)'
  <2> USE <1>26 DEF CallInit, Begin, At, Goto
  <2>1. \A u \in Threads :
           /\ pc'[u] \in {"init plugin", "publish", "release"} =>
                pc'[u] = pc[u] /\ holds'[u] = holds[u] /\ arg'[u] = arg[u]
           /\ holds'[u] # NoInst => holds'[u] \in alive
    BY DEF Owned, Settings, CallsTyped, Objects, initialised, registry, outcome, clients
  <2>2. UNCHANGED <<alive, registered, issued, impolite>>
    BY DEF Settings, CallsTyped, Objects, initialised, registry, outcome, clients
  <2> QED
    BY <2>1, <2>2, Elsewhere
<1>27. ASSUME NEW t \in Threads, NEW x \in Ids, CallExecute(t, x) PROVE (Owned /\ Polite)'
  <2> USE <1>27 DEF CallExecute, Begin, At, Goto
  <2>1. \A u \in Threads :
           /\ pc'[u] \in {"init plugin", "publish", "release"} =>
                pc'[u] = pc[u] /\ holds'[u] = holds[u] /\ arg'[u] = arg[u]
           /\ holds'[u] # NoInst => holds'[u] \in alive
    BY DEF Owned, Settings, CallsTyped, Objects, initialised, registry, outcome, clients
  <2>2. UNCHANGED <<alive, registered, issued, impolite>>
    BY DEF Settings, CallsTyped, Objects, initialised, registry, outcome, clients
  <2> QED
    BY <2>1, <2>2, Elsewhere
<1>28. ASSUME NEW t \in Threads, NEW x \in Ids, CallRelease(t, x) PROVE (Owned /\ Polite)'
  <2>1. \A u \in Threads : /\ pc'[u] = IF u = t THEN "release" ELSE pc[u]
                           /\ arg'[u] = IF u = t THEN x ELSE arg[u]
    BY <1>28 DEF CallsTyped, CallRelease, Begin, At, Goto
  <2>2. issued' = issued \ {x} /\ UNCHANGED <<alive, registered, holds>>
    BY <1>28 DEF registry, CallRelease, Begin, At, Goto
  <2>3. Owned'
    BY <2>1, <2>2 DEF Owned
  <2>4. Polite'
    <3> SUFFICES ASSUME ~impolite' PROVE Polite'
      BY DEF Polite
    <3>1. ~impolite /\ x \in issued
      BY <1>28 DEF CallRelease, Begin, At, Goto
    <3>2. \A u \in Threads : /\ pc[u] = "publish" => IdOf(holds[u]) # x
                             /\ pc[u] = "release" => arg[u] # x
      BY <3>1 DEF Polite
    <3>3. \E i \in registered : IdOf(i) = x
      BY <3>1 DEF Polite
    <3> QED
      BY <2>1, <2>2, <3>1, <3>2, <3>3 DEF Polite
  <2> QED
    BY <2>3, <2>4
<1>29. ASSUME NEW i \in Instances, DestroyInstance(i) PROVE (Owned /\ Polite)'
  BY <1>29 DEF DestroyInstance, Registry!Destroy, Owned, Polite, outcome, clients
<1>30. ASSUME NEW l \in Libs, InstallModule(l) PROVE (Owned /\ Polite)'
  BY <1>30, Elsewhere DEF InstallModule, Owned, registry, outcome, clients
<1>31. CASE UNCHANGED vars
  BY <1>31, Elsewhere DEF vars, Owned, registry, outcome, clients
<1>32. ASSUME NEW t \in Threads, LicenseThrows(t) PROVE (Owned /\ Polite)'
  <2> USE <1>32 DEF LicenseThrows, At, Goto
  <2>1. \A u \in Threads :
           /\ pc'[u] \in {"init plugin", "publish", "release"} =>
                pc'[u] = pc[u] /\ holds'[u] = holds[u] /\ arg'[u] = arg[u]
           /\ holds'[u] # NoInst => holds'[u] \in alive
    BY DEF Owned, Settings, CallsTyped, Objects, initialised, registry, outcome, clients
  <2>2. UNCHANGED <<alive, registered, issued, impolite>>
    BY DEF Settings, CallsTyped, Objects, initialised, registry, outcome, clients
  <2> QED
    BY <2>1, <2>2, Elsewhere
<1>33. ASSUME NEW t \in Threads, ItemFails(t) PROVE (Owned /\ Polite)'
  <2> USE <1>33 DEF ItemFails, Answer, At, Goto
  <2>1. \A u \in Threads :
           /\ pc'[u] \in {"init plugin", "publish", "release"} =>
                pc'[u] = pc[u] /\ holds'[u] = holds[u] /\ arg'[u] = arg[u]
           /\ holds'[u] # NoInst => holds'[u] \in alive
    BY DEF Owned, Settings, CallsTyped, Objects, initialised, registry, outcome, clients
  <2>2. UNCHANGED <<alive, registered, issued, impolite>>
    BY DEF Settings, CallsTyped, Objects, initialised, registry, outcome, clients
  <2> QED
    BY <2>1, <2>2, Elsewhere
<1> QED
  BY <1>1, <1>2, <1>3, <1>4, <1>5, <1>6, <1>7, <1>8, <1>9, <1>10, <1>11, <1>12, <1>13, <1>14,
    <1>15, <1>16, <1>17, <1>18, <1>19, <1>20, <1>21, <1>22, <1>23, <1>24, <1>25, <1>26, <1>27,
    <1>28, <1>29, <1>30, <1>31, <1>32, <1>33
  DEF Next, InitStep, UseStep, ClientStep
-----------------------------------------------------------------------------
(* The invariant, and that it holds.                                       *)
FrontEndInv == FrontInv /\ Owned /\ Polite

LEMMA FrontEndInit == Init => FrontEndInv
<1> SUFFICES ASSUME Init PROVE FrontEndInv
  OBVIOUS
<1>1. TypeOK
  BY TypeInit
<1>2. Phase /\ Listings /\ Reached
  BY ParserFrontEndAssumption DEF Init, Phase, Listings, Reached
<1>3. NullOnlyBeforeInit /\ PoliteClientsSurvive
  BY DEF Init, NullOnlyBeforeInit, PoliteClientsSurvive
<1>4. Owned /\ Polite
  BY DEF Init, Registry!Init, Owned, Polite
<1> QED
  BY <1>1, <1>2, <1>3, <1>4 DEF FrontEndInv, FrontInv, Started

LEMMA FrontEndStep == FrontEndInv /\ [Next]_vars => FrontEndInv'
<1> SUFFICES ASSUME FrontEndInv, [Next]_vars PROVE FrontEndInv'
  OBVIOUS
<1>1. FrontInv /\ TypeOK /\ Owned /\ Polite
  BY DEF FrontEndInv, FrontInv
<1>2. TypeOK'
  BY <1>1, TypeStep
<1>3. Started'
  BY <1>1, FrontStep
<1>4. (Owned /\ Polite)'
  BY <1>1, OwnedStep
<1> QED
  BY <1>2, <1>3, <1>4 DEF FrontEndInv, FrontInv

(* FrontEndInv holds in every state of every run of the front end.         *)
THEOREM FrontEndInvariant == Spec => []FrontEndInv
  BY FrontEndInit, FrontEndStep, PTL DEF Spec

(* The flag, the manager, the calls and the instances keep their types.    *)
THEOREM FrontEndTypeCorrect == Spec => []TypeOK
<1>1. FrontEndInv => TypeOK
  BY DEF FrontEndInv, FrontInv
<1> QED
  BY <1>1, FrontEndInvariant, PTL

(* plugin_manager_ is assigned at most once, so that a thread that reads   *)
(* it without the flag never has it replaced under its feet.               *)
THEOREM ManagerIsMadeOnce == Spec => ManagerIsStable
<1>1. FrontEndInv /\ [Next]_vars => (plugin_manager # 0 => plugin_manager' = plugin_manager)
  <2> SUFFICES ASSUME FrontEndInv, [Next]_vars, plugin_manager # 0
               PROVE  plugin_manager' = plugin_manager
    OBVIOUS
  <2>1. \A t \in Threads : pc[t] # "loading"
    BY TypeParts, ParserFrontEndAssumption DEF FrontEndInv, FrontInv, Started, Phase, Taken, Typed
  <2>2. \A t \in Threads : ~MakeManager(t)
    BY <2>1 DEF MakeManager, At
  <2>3. ASSUME NEW t \in Threads, InitStep(t) PROVE plugin_manager' = plugin_manager
    BY <2>2, <2>3 DEF InitStep, LicenseFails, LicenseThrows, LicenseHolds, NoParser,
       ReadConfig, ConfigFails, LoadModule, LoadFails, ItemFails, MakeManagerFails, LeaveOnce,
       PassOnce, CheckReady, initialised
  <2>4. ASSUME NEW t \in Threads, UseStep(t) PROVE plugin_manager' = plugin_manager
    BY <2>4 DEF UseStep, NullManager, CreateFails, InitPluginFails, Register, CreateReturns,
       ExecuteRejected, ExecuteMisses, ExecuteReturns, ReleaseMisses, ReleaseThrows, Construct,
       ExecuteFinds, ReleaseErases, ReleaseReturns, Fails, Unanswered, initialised
  <2>5. ASSUME NEW t \in Threads, ClientStep(t) PROVE plugin_manager' = plugin_manager
    BY <2>5 DEF ClientStep, CallCreate, CallInit, CallExecute, CallRelease, Begin, initialised
  <2>6. ASSUME NEW i \in Instances, DestroyInstance(i) PROVE plugin_manager' = plugin_manager
    BY <2>6 DEF DestroyInstance, initialised
  <2>7. ASSUME NEW l \in Libs, InstallModule(l) PROVE plugin_manager' = plugin_manager
    BY <2>7 DEF InstallModule, initialised
  <2>8. ASSUME UNCHANGED vars PROVE plugin_manager' = plugin_manager
    BY <2>8 DEF vars, initialised
  <2> QED
    BY <2>3, <2>4, <2>5, <2>6, <2>7, <2>8 DEF Next
<1>2. FrontEndInv /\ [Next]_vars => [plugin_manager # 0 => plugin_manager' = plugin_manager]_vars
  BY <1>1
<1> QED
  BY <1>2, FrontEndInvariant, PTL DEF Spec, ManagerIsStable

(* A call begun after a successful init does not find the manager null.    *)
THEOREM NullIsEarly == Spec => []NullOnlyBeforeInit
<1>1. FrontEndInv => NullOnlyBeforeInit
  BY DEF FrontEndInv, FrontInv, Started
<1> QED
  BY <1>1, FrontEndInvariant, PTL

(* Who is told 0 was told so after the flag was set.                       *)
Finished == told => once = Done

LEMMA FinishedStep == FrontInv /\ Finished /\ [Next]_vars => Finished'
<1> SUFFICES ASSUME FrontInv, Finished, [Next]_vars PROVE Finished'
  OBVIOUS
<1> USE DEF Finished, initialised, outcome
<1>1. /\ Unset # Done /\ Unset \notin Threads /\ Done \notin Threads
      /\ \A t \in Threads : pc[t] \in {"loading", "leaving"} => once = t
  BY TypeParts, ParserFrontEndAssumption DEF FrontInv, Typed, Taken
<1>2. ASSUME NEW t \in Threads,
             ReadConfig(t) \/ LoadFails(t) \/ ItemFails(t) \/ MakeManagerFails(t)
      PROVE  Finished'
  BY <1>1, <1>2 DEF ReadConfig, Enters, LoadFails, ItemFails, MakeManagerFails, At
<1>3. ASSUME NEW t \in Threads, LeaveOnce(t) \/ PassOnce(t) PROVE Finished'
  BY <1>3 DEF LeaveOnce, PassOnce, CheckReady
<1>4. ASSUME NEW t \in Threads,
             \/ LicenseFails(t) \/ LicenseThrows(t) \/ LicenseHolds(t) \/ NoParser(t)
             \/ ConfigFails(t) \/ LoadModule(t) \/ MakeManager(t)
      PROVE  Finished'
  BY <1>4 DEF LicenseFails, LicenseThrows, LicenseHolds, NoParser, ConfigFails, LoadModule,
     MakeManager
<1>5. ASSUME NEW t \in Threads, UseStep(t) PROVE Finished'
  BY <1>5 DEF UseStep, NullManager, CreateFails, InitPluginFails, Register, CreateReturns,
     ExecuteRejected, ExecuteMisses, ExecuteReturns, ReleaseMisses, ReleaseThrows, Construct,
     ExecuteFinds, ReleaseErases, ReleaseReturns, Fails, Unanswered
<1>6. ASSUME NEW t \in Threads, ClientStep(t) PROVE Finished'
  BY <1>6 DEF ClientStep, CallCreate, CallInit, CallExecute, CallRelease, Begin
<1>7. ASSUME NEW i \in Instances, DestroyInstance(i) PROVE Finished'
  BY <1>7 DEF DestroyInstance
<1>8. ASSUME NEW l \in Libs, InstallModule(l) PROVE Finished'
  BY <1>8 DEF InstallModule
<1>9. CASE UNCHANGED vars
  BY <1>9 DEF vars
<1> QED
  BY <1>2, <1>3, <1>4, <1>5, <1>6, <1>7, <1>8, <1>9 DEF Next, InitStep

(* Success of an init means a manager and the modules of a configuration,  *)
(* and a failed initialisation is never taken for a finished one.          *)
THEOREM SuccessMeansReady == Spec => []InitMeansReady
<1>1. Init => Finished
  BY DEF Init, Finished
<1>2. FrontEndInv /\ Finished /\ [Next]_vars => Finished'
  BY FinishedStep DEF FrontEndInv
<1>3. FrontEndInv /\ Finished => InitMeansReady
  BY DEF FrontEndInv, FrontInv, Started, Phase, Listings, Finished, InitMeansReady
<1> QED
  BY <1>1, <1>2, <1>3, FrontEndInvariant, PTL DEF Spec

(* The process ends only for a client that releases what it was not given. *)
THEOREM PolitenessSuffices == Spec => []PoliteClientsSurvive
<1>1. FrontEndInv => PoliteClientsSurvive
  BY DEF FrontEndInv, FrontInv, Started
<1> QED
  BY <1>1, FrontEndInvariant, PTL

(* A client's identifiers find their instances.                            *)
THEOREM IdentifiersWork == Spec => []IssuedIsRegistered
<1>1. FrontEndInv => IssuedIsRegistered
  BY DEF FrontEndInv, Polite, IssuedIsRegistered
<1> QED
  BY <1>1, FrontEndInvariant, PTL

(* An execution fails with KeyNotFound only for an identifier that was     *)
(* released, or that was never given out: plugin_manager.cpp cannot lose   *)
(* an instance a client still holds by name.                               *)
THEOREM IssuedIsNeverMissed ==
  Spec => [][\A t \in Threads : ExecuteMisses(t) => impolite \/ arg[t] \notin issued]_vars
<1>1. FrontEndInv => \A t \in Threads : ExecuteMisses(t) => impolite \/ arg[t] \notin issued
  <2>1. FrontEndInv => IssuedIsRegistered
    BY DEF FrontEndInv, Polite, IssuedIsRegistered
  <2>2. FrontEndInv => registered \subseteq Instances
    BY DEF FrontEndInv, FrontInv, TypeOK
  <2> QED
    BY <2>1, <2>2 DEF IssuedIsRegistered, ExecuteMisses
<1> QED
  BY <1>1, FrontEndInvariant, PTL

(* An identifier that a client is given is one that no client has: the     *)
(* instance it stands for is not yet anybody's, however many creations and *)
(* releases run at once.                                                   *)
THEOREM IdentifiersAreFresh ==
  Spec => [][\A t \in Threads : CreateReturns(t) => impolite \/ IdOf(holds[t]) \notin issued]_vars
<1>1. FrontEndInv =>
        \A t \in Threads : CreateReturns(t) => impolite \/ IdOf(holds[t]) \notin issued
  BY DEF FrontEndInv, Polite, CreateReturns, At
<1> QED
  BY <1>1, FrontEndInvariant, PTL
=============================================================================
