--------------------------- MODULE ParserFrontEnd ---------------------------
(***************************************************************************)
(* The parser behind the C interface: parser_init_plugin loads the modules *)
(* a configuration lists and makes the plugin manager, once in the life of *)
(* the process; parser_create_instance, parser_execute and                 *)
(* parser_release_instance go through plugin_manager_, which they read     *)
(* with no synchronisation at all.                                         *)
(*                                                                         *)
(* The plugin manager is the abstract InstanceRegistry, which the module   *)
(* PluginManager implements: every step inside the manager is a step of    *)
(* the registry.                                                           *)
(***************************************************************************)
EXTENDS AbiErrors, Sequences, FiniteSets

CONSTANTS Threads,
          Configs, PluginList,  (* configuration files and what they list   *)
          BadConfigs,           (* those that cannot be read or parsed      *)
          Libs, Registrar,      (* modules; the one with the plugin manager *)
          NoText,               (* an item of a list that is not text       *)
          Instances, NoInst,    (* of InstanceRegistry                      *)
          ManagerCodes,         (* codes plugins and the manager fail with  *)
          MaxCalls,             (* calls one thread makes                   *)
          Unset, Done,          (* states of the once_flag                  *)
          NoArg                 (* "no argument"                           *)

Items == Libs \cup {NoText}

ASSUME ParserFrontEndAssumption ==
  /\ PluginList \in [Configs -> Seq(Items)]
  /\ NoText \notin Libs
  /\ BadConfigs \subseteq Configs
  /\ Registrar \in Libs
  /\ NoInst \notin Instances
  /\ ManagerCodes \subseteq Codes \ {NullPointer, KeyNotFound}
  /\ MaxCalls \in Nat
  /\ Unset # Done /\ {Unset, Done} \cap Threads = {}

VARIABLES parser_object,   (* whether the static initialiser found a parser *)
          once,            (* flag: Unset, Done, or the thread that runs it *)
          ready,
          present,         (* modules on disk                               *)
          loaded,          (* modules the component loader has              *)
          plugin_manager,  (* 0 is null, n the nth manager made             *)
          made,            (* managers made                                 *)
          alive, registered, holds,   (* InstanceRegistry                   *)
          pc, arg, todo,   (* the call each thread is in                    *)
          answer,          (* of each thread's last call                    *)
          told,            (* some init has returned 0                      *)
          promised,        (* so when the thread's last call began          *)
          issued,          (* identifiers given out and not given back      *)
          impolite,        (* somebody released what was not his            *)
          calls, status

registry == <<alive, registered, holds>>
initialised == <<once, ready, loaded, plugin_manager, made>>
outcome == <<answer, told, issued>>
clients == <<promised, impolite, calls>>
vars == <<parser_object, initialised, present, registry, pc, arg, todo, outcome, clients, status>>

Registry == INSTANCE InstanceRegistry WITH Users <- Threads

IdOf(i) == i[1]
Ids == {IdOf(i) : i \in Instances}
Listed(c) == {PluginList[c][k] : k \in DOMAIN PluginList[c]}

TypeOK ==
  /\ parser_object \in BOOLEAN
  /\ once \in {Unset, Done} \cup Threads
  /\ \A t \in Threads : once = t <=> pc[t] \in {"loading", "leaving"}
  /\ ready \in BOOLEAN
  /\ present \subseteq Libs /\ loaded \subseteq present
  /\ made \in Nat /\ plugin_manager \in 0..made
  /\ alive \subseteq Instances /\ registered \subseteq Instances
  /\ holds \in [Threads -> Instances \cup {NoInst}]
  /\ pc \in [Threads -> {"idle", "license", "init", "loading", "leaving", "create", "init plugin",
                         "publish", "execute", "running", "release"}]
  /\ arg \in [Threads -> Configs \cup Ids \cup {NoArg}]
  /\ \A t \in Threads :
       /\ holds[t] # NoInst <=> pc[t] \in {"init plugin", "publish", "running"}
       /\ pc[t] \in {"license", "init", "loading", "leaving"} => arg[t] \in Configs
       /\ pc[t] \in {"execute", "running", "release"} => arg[t] \in Ids
  /\ todo \in [Threads -> Seq(Items)]
  /\ answer \in [Threads -> Codes \cup {0, Unlicensed}]
  /\ told \in BOOLEAN /\ promised \in [Threads -> BOOLEAN]
  /\ issued \subseteq Ids
  /\ impolite \in BOOLEAN
  /\ calls \in [Threads -> 0..MaxCalls]
  /\ status \in {"running", "terminated", "unlicensed"}

Init ==
  /\ parser_object \in BOOLEAN
  /\ once = Unset
  /\ ready = FALSE
  /\ present \in SUBSET Libs
  /\ loaded = {}
  /\ plugin_manager = 0 /\ made = 0
  /\ Registry!Init
  /\ pc = [t \in Threads |-> "idle"]
  /\ arg = [t \in Threads |-> NoArg]
  /\ todo = [t \in Threads |-> <<>>]
  /\ answer = [t \in Threads |-> 0]
  /\ told = FALSE
  /\ promised = [t \in Threads |-> FALSE]
  /\ issued = {}
  /\ impolite = FALSE
  /\ calls = [t \in Threads |-> 0]
  /\ status = "running"
-----------------------------------------------------------------------------
At(t, label) == pc[t] = label /\ status = "running"
Goto(t, label) == pc' = [pc EXCEPT ![t] = label]

(* A call begins; MaxCalls bounds their number.                            *)
Begin(t, label, a) ==
  /\ At(t, "idle")
  /\ calls[t] < MaxCalls
  /\ calls' = [calls EXCEPT ![t] = @ + 1]
  /\ Goto(t, label)
  /\ arg' = [arg EXCEPT ![t] = a]
  /\ promised' = [promised EXCEPT ![t] = told]
  /\ answer' = [answer EXCEPT ![t] = 0]
  /\ UNCHANGED <<parser_object, initialised, present, registry, todo, told, status>>

(* It ends and the caller gets a code.                                     *)
Answer(t, code) ==
  /\ Goto(t, "idle")
  /\ arg' = [arg EXCEPT ![t] = NoArg]
  /\ todo' = [todo EXCEPT ![t] = <<>>]
  /\ answer' = [answer EXCEPT ![t] = code]
  /\ UNCHANGED <<parser_object, present, clients, status>>

CallInit(t, c) == Begin(t, "license", c) /\ UNCHANGED <<issued, impolite>>
CallCreate(t) == Begin(t, "create", NoArg) /\ UNCHANGED <<issued, impolite>>
CallExecute(t, x) == Begin(t, "execute", x) /\ UNCHANGED <<issued, impolite>>

(* The caller gives its identifier back, or releases a stranger's.         *)
CallRelease(t, x) ==
  /\ Begin(t, "release", x)
  /\ issued' = issued \ {x}
  /\ impolite' = (impolite \/ x \notin issued)

(* The license is checked before anything else.                            *)
LicenseFails(t) ==
  /\ At(t, "license")
  /\ Answer(t, Unlicensed)
  /\ UNCHANGED <<initialised, registry, told, issued>>

(* There is a handler for std::exception only.  An abi_error, which the    *)
(* Java binding expects of the same check, leaves the C function.          *)
LicenseThrows(t) ==
  /\ At(t, "license")
  /\ status' = "unlicensed"
  /\ UNCHANGED <<parser_object, initialised, present, registry, pc, arg, todo, outcome, clients>>

LicenseHolds(t) ==
  /\ At(t, "license")
  /\ Goto(t, "init")
  /\ UNCHANGED <<parser_object, initialised, present, registry, arg, todo, outcome, clients,
                 status>>

(* A static initialiser that failed left a null parser.                    *)
NoParser(t) ==
  /\ \E label \in {"init", "create", "execute"} : At(t, label)
  /\ ~parser_object
  /\ Answer(t, NullPointer)
  /\ UNCHANGED <<initialised, registry, told, issued>>
-----------------------------------------------------------------------------
(* init_plugin                                                             *)

Enters(t) == At(t, "init") /\ parser_object /\ once = Unset

(* Fault: no flag keeps a later call from starting over with no manager.   *)
ReadConfigAgain(t) ==
  /\ At(t, "init") /\ parser_object /\ once \notin Threads
  /\ arg[t] \notin BadConfigs
  /\ once' = t
  /\ Goto(t, "loading")
  /\ todo' = [todo EXCEPT ![t] = PluginList[arg[t]]]
  /\ plugin_manager' = 0
  /\ UNCHANGED <<parser_object, ready, loaded, made, present, registry, arg, outcome, clients,
                 status>>

ReadConfig(t) ==
  /\ Enters(t)
  /\ arg[t] \notin BadConfigs
  /\ once' = t
  /\ Goto(t, "loading")
  /\ todo' = [todo EXCEPT ![t] = PluginList[arg[t]]]
  /\ UNCHANGED <<parser_object, ready, loaded, plugin_manager, made, present, registry, arg,
                 outcome, clients, status>>

(* An exception leaves call_once, and leaves the flag unset.               *)
ConfigFails(t) ==
  /\ Enters(t)
  /\ arg[t] \in BadConfigs
  /\ Answer(t, Cross("exception"))
  /\ UNCHANGED <<initialised, registry, told, issued>>

LoadModule(t) ==
  /\ At(t, "loading")
  /\ todo[t] # <<>> /\ Head(todo[t]) \in present
  /\ loaded' = loaded \cup {Head(todo[t])}
  /\ todo' = [todo EXCEPT ![t] = Tail(@)]
  /\ UNCHANGED <<parser_object, once, ready, plugin_manager, made, present, registry, pc, arg,
                 outcome, clients, status>>

(* Faults: the failure counts as an initialisation; the flag stays taken.  *)
LoadFailsDone(t) ==
  /\ At(t, "loading")
  /\ todo[t] # <<>> /\ Head(todo[t]) \in Libs \ present
  /\ ready' = FALSE
  /\ once' = Done
  /\ Answer(t, Cross("format_error"))
  /\ UNCHANGED <<loaded, plugin_manager, made, registry, told, issued>>

LoadFailsStuck(t) ==
  /\ At(t, "loading")
  /\ todo[t] # <<>> /\ Head(todo[t]) \in Libs \ present
  /\ ready' = FALSE
  /\ Answer(t, Cross("format_error"))
  /\ UNCHANGED <<once, loaded, plugin_manager, made, registry, told, issued>>

(* A module is missing.  The message for it is never made: the format      *)
(* string begins with a brace and a quote, which fmt takes for a malformed *)
(* replacement field, so the exception is fmt's and not the parser's.      *)
LoadFails(t) ==
  /\ At(t, "loading")
  /\ todo[t] # <<>> /\ Head(todo[t]) \in Libs \ present
  /\ ready' = FALSE
  /\ once' = Unset
  /\ Answer(t, Cross("format_error"))
  /\ UNCHANGED <<loaded, plugin_manager, made, registry, told, issued>>

(* An item that is no text is found only when its turn comes.              *)
ItemFails(t) ==
  /\ At(t, "loading")
  /\ todo[t] # <<>> /\ Head(todo[t]) = NoText
  /\ once' = Unset
  /\ Answer(t, Cross("exception"))
  /\ UNCHANGED <<ready, loaded, plugin_manager, made, registry, told, issued>>

(* Nothing is left to load: the loader makes the manager and plugin_manager_*)
(* is assigned, in view of threads that do not look at the flag.           *)
MakeManager(t) ==
  /\ At(t, "loading")
  /\ todo[t] = <<>>
  /\ Registrar \in loaded
  /\ made' = made + 1
  /\ plugin_manager' = made + 1
  /\ ready' = TRUE
  /\ Goto(t, "leaving")
  /\ UNCHANGED <<parser_object, once, loaded, present, registry, arg, todo, outcome, clients,
                 status>>

MakeManagerFails(t) ==
  /\ At(t, "loading")
  /\ todo[t] = <<>>
  /\ Registrar \notin loaded
  /\ once' = Unset
  /\ \E code \in ManagerCodes : Answer(t, Rethrow(Rethrow(code)))
  /\ UNCHANGED <<ready, loaded, plugin_manager, made, registry, told, issued>>

(* What follows call_once.                                                 *)
CheckReady(t) ==
  /\ IF ready THEN Answer(t, 0) /\ told' = TRUE
              ELSE Answer(t, Cross("exception")) /\ UNCHANGED told
  /\ UNCHANGED <<ready, loaded, plugin_manager, made, registry, issued>>

LeaveOnce(t) == At(t, "leaving") /\ once' = Done /\ CheckReady(t)

(* Fault: a thread that finds the flag taken does not wait, and ready is   *)
(* not looked at.                                                          *)
PassOnceEarly(t) ==
  /\ At(t, "init") /\ parser_object
  /\ once # Unset /\ UNCHANGED once
  /\ Answer(t, 0) /\ told' = TRUE
  /\ UNCHANGED <<ready, loaded, plugin_manager, made, registry, issued>>

(* The work was done by an earlier call, whatever its configuration.       *)
PassOnce(t) ==
  /\ At(t, "init") /\ parser_object
  /\ once = Done /\ UNCHANGED once
  /\ CheckReady(t)
-----------------------------------------------------------------------------
(* create_instance, execute, release_instance                              *)

Through(t, label) == At(t, label) /\ parser_object /\ plugin_manager # 0
Unanswered(t, label) ==
  /\ Goto(t, label)
  /\ UNCHANGED <<parser_object, initialised, present, arg, todo, outcome, clients, status>>

(* plugin_manager_ is null: an exception inside the parser.                *)
NullManager(t) ==
  /\ \E label \in {"create", "execute"} : At(t, label)
  /\ parser_object /\ plugin_manager = 0
  /\ Answer(t, Rethrow(NullPointer))
  /\ UNCHANGED <<initialised, registry, told, issued>>

Fails(t) ==
  /\ \E code \in ManagerCodes : Answer(t, Rethrow(Rethrow(code)))
  /\ UNCHANGED <<initialised, told, issued>>

CreateFails(t) == Through(t, "create") /\ Fails(t) /\ UNCHANGED registry

Construct(t, i) ==
  /\ Through(t, "create")
  /\ Registry!Construct(t, i)
  /\ Unanswered(t, "init plugin")

InitPluginFails(t) ==
  /\ At(t, "init plugin")
  /\ Registry!Drop(t)
  /\ Fails(t)

(* Fault: the identifier is answered and the registration forgotten.       *)
RegisterNothing(t) ==
  /\ At(t, "init plugin")
  /\ UNCHANGED registry
  /\ Unanswered(t, "publish")

Register(t) ==
  /\ At(t, "init plugin")
  /\ Registry!Register(t, holds[t])
  /\ Unanswered(t, "publish")

(* The identifier reaches the client.                                      *)
CreateReturns(t) ==
  /\ At(t, "publish")
  /\ issued' = issued \cup {IdOf(holds[t])}
  /\ Registry!Drop(t)
  /\ Answer(t, 0)
  /\ UNCHANGED <<initialised, told>>

(* The parameters do not parse, or the image cannot be converted.          *)
ExecuteRejected(t) ==
  /\ At(t, "execute") /\ parser_object
  /\ \E type \in {"exception", "bad_alloc"} : Answer(t, Cross(type))
  /\ UNCHANGED <<initialised, registry, told, issued>>

ExecuteFinds(t, i) ==
  /\ Through(t, "execute")
  /\ IdOf(i) = arg[t]
  /\ Registry!Acquire(t, i)
  /\ Unanswered(t, "running")

ExecuteMisses(t) ==
  /\ Through(t, "execute")
  /\ \A i \in registered : IdOf(i) # arg[t]
  /\ Answer(t, Rethrow(Rethrow(KeyNotFound)))
  /\ UNCHANGED <<initialised, registry, told, issued>>

ExecuteReturns(t) ==
  /\ At(t, "running")
  /\ Registry!Drop(t)
  /\ \/ Answer(t, 0) /\ UNCHANGED <<initialised, told, issued>>
     \/ Fails(t)

ReleaseReturns(t) ==
  /\ Goto(t, "idle")
  /\ arg' = [arg EXCEPT ![t] = NoArg]
  /\ UNCHANGED <<parser_object, initialised, present, todo, outcome, clients, status>>

ReleaseErases(t, i) ==
  /\ Through(t, "release")
  /\ IdOf(i) = arg[t]
  /\ Registry!Unregister(i)
  /\ ReleaseReturns(t)

ReleaseMisses(t) ==
  /\ Through(t, "release")
  /\ \A i \in registered : IdOf(i) # arg[t]
  /\ UNCHANGED registry
  /\ ReleaseReturns(t)

(* An exception leaves a C function that has no handler.                   *)
ReleaseThrows(t) ==
  /\ At(t, "release")
  /\ ~parser_object \/ plugin_manager = 0
  /\ status' = "terminated"
  /\ UNCHANGED <<parser_object, initialised, present, registry, pc, arg, todo, outcome, clients>>
-----------------------------------------------------------------------------
(* The manager destroys what nobody can reach any more.                    *)
DestroyInstance(i) ==
  /\ status = "running"
  /\ Registry!Destroy(i)
  /\ UNCHANGED <<parser_object, initialised, present, pc, arg, todo, outcome, clients, status>>

(* A missing module is put in place.                                       *)
InstallModule(l) ==
  /\ status = "running"
  /\ l \notin present
  /\ present' = present \cup {l}
  /\ UNCHANGED <<parser_object, initialised, registry, pc, arg, todo, outcome, clients, status>>

InitStep(t) ==
  \/ LicenseFails(t) \/ LicenseThrows(t) \/ LicenseHolds(t) \/ NoParser(t)
  \/ ReadConfig(t) \/ ConfigFails(t) \/ LoadModule(t) \/ LoadFails(t) \/ ItemFails(t)
  \/ MakeManager(t) \/ MakeManagerFails(t) \/ LeaveOnce(t) \/ PassOnce(t)

UseStep(t) ==
  \/ NullManager(t) \/ CreateFails(t) \/ InitPluginFails(t) \/ Register(t) \/ CreateReturns(t)
  \/ ExecuteRejected(t) \/ ExecuteMisses(t) \/ ExecuteReturns(t)
  \/ ReleaseMisses(t) \/ ReleaseThrows(t)
  \/ \E i \in Instances : Construct(t, i) \/ ExecuteFinds(t, i) \/ ReleaseErases(t, i)

ClientStep(t) ==
  \/ CallCreate(t)
  \/ \E c \in Configs : CallInit(t, c)
  \/ \E x \in Ids : CallExecute(t, x) \/ CallRelease(t, x)

Next ==
  \/ \E t \in Threads : InitStep(t) \/ UseStep(t) \/ ClientStep(t)
  \/ \E i \in Instances : DestroyInstance(i)
  \/ \E l \in Libs : InstallModule(l)

Spec == Init /\ [][Next]_vars
FairSpec == Spec /\ \A t \in Threads : WF_vars(InitStep(t))
-----------------------------------------------------------------------------
(* Properties.                                                             *)

(* plugin_manager_ is assigned once: those who read it take no reference,  *)
(* and a second assignment would free the manager under them.              *)
ManagerIsStable == [][plugin_manager # 0 => plugin_manager' = plugin_manager]_vars

(* A call that begins after some thread's init returned 0 never finds the  *)
(* manager null, although it looks at no flag.                             *)
NullOnlyBeforeInit ==
  \A t \in Threads : promised[t] => answer[t] # NullPointer

(* Nobody is told 0 before the flag is set.  It is set only by an          *)
(* initialisation that finished, never by one that failed, which a later   *)
(* call can repair: then the manager is there, everything some             *)
(* configuration lists is loaded, and the check after call_once holds.     *)
InitMeansReady ==
  /\ told => once = Done
  /\ once = Done =>
       /\ ready /\ plugin_manager # 0 /\ Registrar \in loaded
       /\ \E c \in Configs \ BadConfigs : Listed(c) \subseteq loaded

(* parser_release_instance ends the process only for a client that         *)
(* releases what it was not given.                                         *)
PoliteClientsSurvive == status = "terminated" => impolite

(* An identifier in a client's hands finds its instance, whatever other    *)
(* threads create, execute and release.                                    *)
IssuedIsRegistered ==
  ~impolite => \A x \in issued : \E i \in registered : IdOf(i) = x

(* Every init call returns: a thread that waits on the flag runs the       *)
(* initialisation itself when the one before it failed.                    *)
InitCallsReturn ==
  \A t \in Threads : pc[t] = "license" ~> (pc[t] = "idle" \/ status # "running")

(* The exception the parser means to throw when a module is missing is an  *)
(* internal function failure (INTERNAL_FUNCTION_FAILURE = -1), whose       *)
(* message names the module.                                               *)
MissingModuleIsReported ==
  [][\A t \in Threads : LoadFails(t) => answer'[t] = Cross("exception")]_vars

(* The handlers of parser_init_plugin answer a parser_exception with its   *)
(* own code, which is JsonException for a configuration that does not      *)
(* parse.                                                                  *)
ParserCodesAreAnswered ==
  [][\A t \in Threads : ConfigFails(t) => answer'[t] = JsonException]_vars
=============================================================================
