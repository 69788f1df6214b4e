# Nessus in TLA+

Nessus is a plugin host for recognition algorithms.  A client calls a small C interface; behind it a
parser object loads the modules a configuration lists and passes every call to a plugin manager,
which constructs algorithm instances, hands out identifiers for them, executes them from any thread
and releases them.  Objects live behind a binary interface (an "ABI") with reference counts, status
codes instead of exceptions, and counted strings and containers.  Around it the repository has a
library of primitives: a bounded blocking queue over a circular buffer, a pool allocator, delegates,
a profiler, a logger.

This directory holds TLA+ modules of the parts that carry this program's own logic, the TLC
configurations that check them, and the theorems TLAPS proves about them.  `PROJECT.json` lists, for
each definition, the source lines it stands for.

| file | what it is |
|---|---|
| `PluginManager`, `InstanceRegistry` | the plugin manager and what it promises |
| `PluginManagerProofs` | proofs about the manager |
| `ObjectLifetime`, `ObjectLifetimeProofs` | counted objects, smart pointers and the Java binding's handle, proofs |
| `ParserFrontEnd`, `AbiErrors`, `ParserFrontEndProofs` | the C interface and the parser over an abstract manager, error codes, proofs |
| `BoundedBlockingQueue`, `CircularQueue`, `BoundedFifo` | the queue, its ring buffer and what it promises |
| `CircularQueueProofs`, `BoundedBlockingQueueProofs` | proofs about the queue |
| `PoolAllocator`, `BlockStore`, `PoolAllocatorProofs` | the pool allocator, what it promises, proofs |
| `Delegate`, `ListenerList`, `DelegateProofs` | delegates and tokens, what they promise, proofs |
| `ImageConversion`, `ImageConversionProofs` | the conversion of images inside the parser's `execute`, proofs |
| `MC*.tla`, `*.cfg` | instances for TLC |

Run `tlc -config manager_any.cfg MCPluginManager` and the like; `tlapm PluginManagerProofs.tla` and
the like.

## 1. Inventory

Paths are relative to `src/`; `Primitives/` is `common/include/Primitives/`.

### Plugin manager (`register/cpp/PluginRegister/plugin_manager_impl.cpp`)
*State*: one mutex, a map from identifier to a counted pointer; every plugin object with its counter.
*Operations*: `create_algo_instance`, `lookup`, `execute`, `release_algo_instance`.
*Interaction*: calls into plugins: `init` and `execute` outside the mutex, the destructor inside it when
`erase` drops the last reference.
*Hard*: an identifier is a hash of an address, so it comes back; threads execute an instance while
another releases it; counters are dropped concurrently; a destructor runs inside the mutex.
*Correct if*: no pointer dangles, counters are exact, an unreleased identifier keeps denoting its
instance, a new instance never displaces an entry, every call returns.

### Parser front end (`parser/cpp/parser_impl.cpp`) and C interface (`parser/cpp/parser_c.cpp`)
*State*: the static `parser_object`; the statics `ready`, `message` and the `once_flag` of
`init_plugin`; `plugin_manager_`, which is written inside `call_once` and read by everybody without it.
*Operations*: `parser_init_plugin`, `parser_create_instance`, `parser_execute`,
`parser_release_instance`.
*Interaction*: the license library, the component loader (both outside the repository), the manager.
*Hard*: initialisation may fail at any module and be repeated by the next caller; calls may begin
before or during it; `parser_release_instance` has no exception handler.
*Correct if*: the manager is made once and is there for those who were told so, a failed
initialisation can be repaired, no polite client ends the process, identifiers work.

### Exceptions across the ABI (`Primitives/abi/exceptions.hpp`)
*State*: none that the model keeps (the message is kept by a library outside the repository).  A callee
turns the current exception into a code, the caller turns the code into an exception again.
*Correct if*: the code a caller gets is the one the code base means it to get.

### Bounded blocking queue and circular queue (`Primitives/bounded_blocking_queue.hpp`, `Primitives/circular_queue.hpp`)
*State*: ring, head, tail, overrun counter; a mutex and two condition variables.
*Operations*: `enqueue`, `enqueue_for`, `enqueue_nowait`, `dequeue`, `dequeue_for`, observers.
*Hard*: which waiter a `notify_one` reaches; time-outs and spurious wake-ups that race it;
`enqueue_nowait` overwrites the oldest item; index arithmetic modulo capacity + 1.
*Correct if*: it is a bounded FIFO, only `enqueue_nowait` loses items, no wake-up is lost, nobody
sleeps on for ever while what he waits for is there.

### Pool allocator (`Primitives/pool_allocator.hpp`)
*State*: the lists `budgets` and `payouts`, each with its lock; a ratio, a plain
`unsigned int` that is written and read without a lock.
*Operations*: `fastMalloc`, `fastFree`, `clear`, `set_size_compare_ratio`, the destructor.
*Hard*: the two locks are taken one after the other, so a block is in neither list in between; the
ratio changes while blocks kept under another one are reused.
*Correct if*: each block has one owner, is large enough, and is given back at the end.

### Object lifetime (`Primitives/abi/`: `base_abi.hpp`, `implements.hpp`, `fundamental_semantics.hpp`)
*State*: a counter in every object, a counter of objects in the module, the pointers of the smart
pointer variables, and those that objects hold themselves.
*Operations*: construction, copy, move, assignment and destruction of `unknown_object`; `add_ref`,
`release`, and the destruction that the last `release` starts.
*Interaction*: every object of the manager and the parser lives by it; the module's counter is what
`dll_can_unload_now` reads.
*Hard*: an assignment lets go of the left side, with all that this destroys, before it reads the right
one; the destruction of an object releases what it holds, link by link, while other threads count.
*Correct if*: counters equal owners, nothing destroyed is used, nothing that exists is out of reach, an
assignment ends with what its right side was, destruction ends.

### JNI interface (`parser/cpp/jni/parser_jni.cpp`, `parser/java/.../Parser.java`)
*State*: the field `mObject` of each Java parser, one counted reference kept as a number.
*Operations*: `init`, `release`, and the native calls that make a smart pointer of their own out of it.
*Hard*: the field is read and counted in two steps; `release` clears it and then releases.
*Correct if*: no call ever counts an object that is gone.

### Delegate (`Primitives/delegate.hpp`)
*State*: a list of listeners with ids, a buffer of their functions that calls read, a lifetime observer,
one global counter; tokens with an id, a weak pointer to an observer and the address of a delegate.
*Operations*: `+=` of a callable or of a delegate, `add_listener_auto_removal`, `remove_listener`, calls;
copying, moving and destroying delegates; clearing, moving and destroying tokens.
*Hard*: calls run while the list changes; a token outlives its delegate; a copy shares the observer by
which a token recognises its delegate, but has another address.
*Correct if*: a token reaches a living delegate or nothing, its listener is called exactly as long as
it is kept, and to a call each change is one step.

### Image conversion (`decode_and_convert`, `convert_to_bgr` in `parser_impl.cpp`)
*State*: none beyond one call: an image, the counters of the loops, the frame.
*Hard*: loops whose bounds come from the caller's shape and size, a case without a `break`.
*Correct if*: an image in a supported format becomes a frame of its pixels.

### Parts that are not modelled
* **Init-once** (`Primitives/singleton.hpp`): a plain bool that is checked and set; no class of the
  repository derives from `init_once`, so there is no state it would protect.  `singleton`, from which the
  parser and the manager derive, is a function-local static.
* **Profiler** (`Primitives/profiler.hpp`): a stack of scopes for one thread, used nowhere.
* **Parameter strings** (`abi/param_string.hpp`): the counter and the buffer behind the handle are in a
  library outside the repository.
* **Parameter containers** (`abi/param_vector.hpp`, ...): adapters of standard containers.  As objects
  they are covered by the object lifetime.
* **Class factory, component loader**: the loader is a library outside the repository.  The front
  end uses it as `add_module_by_name` (true for a module that is present) and
  `make_exported_interface`.
* **Identifiers, array buffer, allocators, scope guards, logger**: no protocol of their own; where
  they matter (the logger's fatal path ends the process, an identifier is a function of the address)
  the other modules say so.
* **Tensors, BLAS, SIMD, GPU headers**: declarations of a numerical library outside the repository.
  **Vendored libraries** (nearly all of the repository's lines), **tests**: not this program's logic.

## 2. How the models correspond to the code

Every module keeps all of the control of its component; names are those of the code where TLA+
allows it.  Definitions marked as faults (in a comment that begins "Fault" or "fault") are deliberate
mistakes, used to show that each property can fail; no specification uses them.

### PluginManager
`heap`, `gen`, `rc` are the memory at each address and the `ref_count_` there; `registry` is
`plugin_instances_map_`; `mutex` names the thread that is inside the lock *across* steps; `pc`, `ref`,
`doomed`, `held`, `arg` are the frames of the calls.  An instance is a pair of address and generation: the
program knows the address only; the generation lets a property tell two objects at one address apart.
`CreateObject` ... `Publish` are `create_algo_instance`, with a failing `init` (`InitThrows`, also for an
object that turns out to be no `algo_plugin_interface` and is destroyed again; `CreateUnsupported` is a
class that does not exist) and a failing insertion (`PublishThrows`); `CallExecute`, `LookupExecute`,
`PluginExecute`, `DropLocal` are `execute`; `Erase` and `Destroy` are `release_algo_instance`, whose
destructor runs with the mutex held.  A step is a critical section, an atomic operation on a counter or a
call into a plugin.  `issued`, `released` and `ClientRule` describe the clients:

* `any`: they pass any identifier ever issued;
* `once`: they never use an identifier after they began to release it;
* `quiescent`: they also begin to release it only when no call is using it.

`InstanceRegistry` is the promise: instances are constructed, registered, acquired, dropped,
unregistered, and destroyed *only* when neither registered nor held.

### ParserFrontEnd, AbiErrors
Threads make calls; `pc` says where a call is.  `license`, `init`, `loading`, `leaving` are the stages of
`init_plugin`: `ReadConfig` enters `call_once`, `LoadModule`/`LoadFails` are the loop over `plugin_list`,
`MakeManager` assigns `plugin_manager_` and `ready` *before* the flag is set (`LeaveOnce`).  Any
exception leaves the flag `Unset`, so that the next thread runs the callable itself (`ConfigFails`,
`LoadFails`, `ItemFails` for an item of the list that is not text, `MakeManagerFails`).  The license check
in front of it answers -99 for a `std::exception`; an `abi_error`, which is none, leaves the C function
(`LicenseThrows`: the process is gone).  The other calls look at `plugin_manager_` only, at no flag.  What
happens inside the manager are steps of `InstanceRegistry`, which `PluginManager` is proved to
implement.  `parser_release_instance` answers nothing: with a null interface it throws out of a C
function, `ReleaseThrows`.  Modules can be missing at the start and be installed at any time.

`answer` holds the status code.  `AbiErrors` says how codes come about: `StandardCode` is
`translate_current_exception`, `Rethrow` what `check_abi_result` makes of a code.  Observations:

* the codes -98 and -99 that a `parser_exception` carries never reach a caller, because the exception
  is thrown below the vtable; -99 is answered only by the license check (run `frontend_code`);
* a missing module answers -4 "invalid format string", not the message that line 299 spells, because
  the format string begins with a brace and a quote (run `frontend_missing`);
* a second `parser_init_plugin` with another configuration answers 0 and loads nothing.
  `InitMeansReady` therefore speaks of *some* configuration.

`told`, `promised`, `issued` and `impolite` are history: some init has answered 0; it had when this
call began; identifiers clients hold; somebody released an identifier he did not hold.  They assume
that clients order their own calls properly: that a thread that begins a call after another thread's
init returned learned of it by a synchronised route.

### CircularQueue, BoundedBlockingQueue, BoundedFifo
A ring is a record with the fields of `circular_queue`; its operations are functions from ring to
ring.  In the queue a critical section never blocks while it holds the mutex, so it is one action;
`notify_one` comes after the mutex is released and is an action of its own (`NotifyOne`).  A waiting
thread may be notified, time out (`Timeout`) or wake for no reason (`SpuriousWakeup`), and then takes
the mutex again.  `BoundedFifo` is a sequence with `Put`, `Displace` (the overrun), `Take` and `Deliver`.

### PoolAllocator
`budgets` and `payouts` are sets of <<size, address>>.  `FindBudget`, `FindNone`, `HeapAlloc`, `PayOut`
are `fastMalloc`, with one action per critical section; `FreeFound`/`FreeWild`, `ReturnBudget`, `HeapFree`
are `fastFree`.  `held` is what clients have in use, with the size they asked for; `foreign` are blocks
of the same heap that did not come from the pool, which `fastFree` gives to the heap.  `Destroy`
requires that no call is under way, and ends the process if `payouts` is not empty.  `Aborts` are the other
fatal messages: an invalid ratio (`InvalidRatio`), and a device named in a build without CUDA, where a
call gets to the heap (`NoGPU`).  `SetRatio` is one step, and a search compares every budget with one
ratio; the data race on it is left out.  Clients free what they have in use, once (`InUse`).  `peak` is
history.

`BlockStore` is the promise, and knows nothing of lists, locks or ratios: the bytes behind each address,
and the blocks somebody has.  A block is handed out only while nobody has it and only if it is large
enough, and its memory changes or goes away only while nobody has it.  The mapping takes `block` for the
bytes, and `held` with the foreign blocks for what is in use: `PayOut` hands out, `FreeFound` and `FreeWild`
take back, the heap's steps and `clear` grow and shrink the rest, and everything else is invisible.

### ObjectLifetime
`heap`, `ref_count` and `member` are the objects: each holds one smart pointer, which it gets when it is
constructed: enough for chains and shared parts, not for cycles.  `local` are the pointer variables of
each thread, `mObject` the fields of the Java parsers.  `doing` is an assignment between its steps:
`CopyAssign`, `AssignMember` and `JavaCall` let go of the left side, `Take` reads the right one, `Count`
adds the reference.  `dying` is the stack of destructors a thread is in: `Release` pushes, `DestroyMember`
releases what the object holds (and may push again), `DestroyObject` counts the object off the module and
frees it.  A copy, or a successful cast with `as<>`, is the case of a left side that was null;
`JavaRelease` and `JavaClears` are the binding's `release`.  `status` is `undefined` when something
destroyed was counted, read or released.

Clients: a variable belongs to one thread and changes hands only by `HandOver`.  Two rules are in
guards of their own, because without them the properties fail:
* `NotItsOwn`: nobody writes `p = p->member`.  Without it `NoDanglingPointer` is violated: `p` lets go
  of the last reference, the object dies with its member, and then the member is read.
* `Quiet`, `InUse`: `release` overlaps no other call of the same Java parser.  Without it `CountsExact` is
  violated: a call counts an object that `release` has just let go of.
  `Parser.java` does not synchronise its methods, so this is up to its users.

### Delegate, ListenerList
A listener is its id and its function, named by the id it was first added under.  `d += e` is a `Merge` if
`e` is `const`: it adds the functions of `e` under new ids.  If `e` is not, overload resolution prefers
the template for callables, and one listener joins that holds a copy of `e`, its observer included
(`AddDelegate`, `copied`: such a copy may live for ever).  Each change is two steps,
`AddListener`/`Merge`/`RemoveListener` on the list and `UpdateReadableBuffer` on what calls read; `change`
is the one under way. `CallBegins` loads the buffer, `CallRuns` runs one function of it.  `Locks` is
`observer_.lock()`: it succeeds while *any* delegate with the token's observer lives, also one inside a
listener, whereas the handler is bound to the address of one.  `CopyTo`, `MoveTo` and `Destroy` are what
the compiler generates from the members.

Clients: changes are serialised, and no call begins while a whole delegate is assigned, moved or
destroyed; a delegate is not merged into itself, which would grow the vector that is being iterated over;
a callable is never empty, because the loop of a call takes the first empty function for its end.
`MayDestroy` and `MayMove` forbid what would leave a token with the address of a delegate
that is gone although a copy still shows it the observer; the comment at delegate.hpp:50 assumes the same.  So
what the properties say of tokens they say of delegates that are not moved while they have some, and
not destroyed before their tokens while a copy lives: without `MayDestroy` TLC finds
`TokenReachesLivingDelegate` violated, without `MayMove` `TokenOwnsListener`.

`ListenerList` is the promise: a list for each delegate, changed as a whole, and calls that run what was in
it at one moment.  The mapping takes the list to be the readable buffer.

### ImageConversion
One call: `Decode` checks, `FromNCHW`, `FromNHWC` and `FromNV21` are the cases, `CopyRow` and
`ConvertFrame` the bodies of the loops, with the counters `n`, `i` and `y` of the code.  Of the pixels
only whether the frame has those of the image in their places is kept (`content`; pixels of one channel
have no order to lose).  Divisions by zero, copies that overrun a buffer (`FirstFrameFits` says when
libyuv stays inside both, `RowBytes` is what a row's copy takes), the overflow of a counter and products
of a shape beyond `MaxInt` (`Overflows`, multiplied in the order of the code) end in `undefined`.  The
loop of the NV21 case tests `i` and advances `n` (run `conversion`).  Two more observations, about images
with padding, of which the repository says nothing: an NHWC image of two rows or more overruns the frame
(the offset at line 146 uses the frame's number), and an NCHW image is packed and then converted again as
if it were NHWC, because line 126 has no `break`.

## 3. What the runs check

Every property of a passing run has a mutant of the code (`PROJECT.json`, "mutants") that violates
it under the same configuration.

| run | instance | what it shows |
|---|---|---|
| `manager_any` | 2 threads, 2 addresses, 2 objects at each | `NoDanglingReference`, `RefCountExact`, `NoOverwrite` whatever identifiers clients use; `ImplementsRegistry` |
| `manager_once` | 3 threads, 1 address, 2 objects | `UnreleasedIsRegistered`: an address that is used again never confuses a polite client |
| `manager_quiescent` | 2 threads, 2 addresses, 2 objects, fair | `ExecutesOwnInstance`, `EveryCallReturns` |
| `frontend` | 2 threads, 3 calls each, 2 modules, 4 configurations, 3 instances at 2 addresses, fair | see below |
| `frontend_missing`, `frontend_code` | the same | the two violations described above |
| `queue_fifo` | 3 threads, 2 items, capacity 2, 1 overrun | `ImplementsFifo`, `OnlyNowaitOverruns`, `NoLostItemWakeup`, `NoLostRoomWakeup` |
| `queue_progress` | 3 threads, 1 item, capacity 1, fair | `NoStandoff`, `ConsumersAreServed`, `ProducersAreServed` |
| `pool_owner` | 3 threads, 4 addresses, 3 sizes, 3 ratios | `OneOwner`, `LargeEnough`, `CleanExit`, `FootprintIsPeakUse`, `ImplementsStore` |
| `objects` | 2 threads, 2 variables each, 3 objects, 1 Java parser, fair | `CountsExact`, `NoDanglingPointer`, `AssignmentKeepsItsSource`, `NothingIsLost`, `DestructionEnds` |
| `delegate` | 2 delegates, 3 observers, 2 tokens, 4 listeners, 1 calling thread | `TokenReachesLivingDelegate`, `PublishedIsCurrent`, `TokenOwnsListener`, `ImplementsListenerList` |
| `conversion` | one image of up to 2 frames of 2 by 3 pixels, fair | the violation described above |

`frontend` checks that the manager is assigned once (`ManagerIsStable`), that a call which begins after a
successful init never meets a null interface (`NullOnlyBeforeInit`), that nobody is told 0 before the flag
is set, which no failed initialisation does, and that a set flag means the manager and the modules of some
configuration are there (`InitMeansReady`), that the process ends in `parser_release_instance` only if
somebody released what was not his (`PoliteClientsSurvive`), that an identifier a client holds is
registered (`IssuedIsRegistered`), and that every init call returns (`InitCallsReturn`).

**Bounds.**  `MaxGen` (objects at one address): two are needed for an address to come back, and a third
repeats the situation.  With one address and three threads one can create while a second releases and a
third executes; two addresses let two instances be destroyed at once.  Three queue threads give two
waiters on one side and a notifier on the other, or one of each and one that times out; capacity 2 lets
head and tail wrap past each other, capacity 1 makes full and empty adjacent; `MaxOverruns` bounds the
counter only.  In the pool two threads already cross their critical sections, and a third asks for a block
meanwhile; three sizes and the ratios 0, 192, 256 give blocks that fit exactly, with slack, and not. Three
calls per thread (`MaxCalls`) allow a failed init, a second one and a call that uses it, or create,
execute and release, on each side. Three objects make a chain of two links with somebody else's pointer
into its middle; two variables are the two sides of an assignment, and a second thread drops or counts
what the first one's assignment destroys.  Two delegates are a copy and its original; three observers let
one address be used again for another delegate; two tokens are the two sides of a token's assignment;
calls do not see each other, so that one thread can make them all; `MaxCallables` 2 and `MaxListeners` 4
let two listeners be merged once, with ids left.  For the conversion two rows, two pixels and two frames
are the least with a second turn of each loop; `MaxInt` (24) is as large as two frames of 2 by 2 pixels,
so that their shape still fits and that of wider ones does not. The proofs do without any of these bounds.

**Fairness.**  Each thread's own steps are weakly fair: the operating system runs threads that can
run.  Clients are not fair: nobody has to call anything.
* The manager: a thread waits only for the mutex, and the mutex is held across steps only by a
  destructor, which ends.  `MaxGen` bounds the destructors that can come in between, so weak
  fairness suffices for the instance checked; in general the mutex would have to be fair.
* The queue: time-outs and spurious wake-ups are not fair; being notified and taking the mutex
  are.  That assumes that a thread contending for a mutex that is held only for a moment gets it.
  `ConsumersAreServed` and `ProducersAreServed` do not say that a waiter gets its turn: others may
  empty or fill the queue before it looks, any number of times, in the model as in the code.
* The front end: only the steps of `init_plugin` are fair.  A thread that waits for the flag is let in
  when the flag is set, or runs the callable itself after a failure; `MaxCalls` bounds how often
  others can be faster.
* Objects: a thread that has begun an assignment or a destruction goes on with it (`Continue`); nothing in
  it waits for anybody.
* The conversion is one sequential call, and its steps are fair.

**Deadlock** is checked for the manager, the queue and the objects.  The pool (destroyed), the front end
(all calls made, or terminated), a conversion (returned) and the delegates (ids used up) really stop, so
their configurations say so.

## 4. What is proved

`tlapm` checks these for every value of the constants, under the assumptions the modules name
(finite sets of threads, constants that are distinct from ordinary values, bounds that are naturals).

**Manager.**  `PluginManagerProofs` proves `TypeOK`, `NoDanglingReference`, `RefCountExact` and
`NoOverwrite`.  None is inductive alone.  A counter is exact only if no object dies while referenced, an
object dies only when its counter is exact, and a new object's address is free only because the map holds
a counted reference.  `IInv` is their conjunction with: which pointer a thread has set at which place
(`FramesOK`), that an entry is stored under its own address (`KeyIsAddress`), that a dying object has one
destructor (`DoomedDying`), and that an unpublished object is referenced by its creator only
(`CreatorAlone`).  Each action is followed by the sets of holders it adds to or takes from. For polite
clients the module adds that two threads never release or create the same instance (`ReleaseInv`,
`CreateInv`) and derives `UnreleasedIsRegistered`, then `ExecutesOwnInstance`. `ManagerImplementsRegistry`
shows each step to be a step of `InstanceRegistry`, or to change nothing of it.

**Queue.**  `CircularQueueProofs` proves what push and pop do to the contents, at every position of head
and tail and every capacity.  `BoundedBlockingQueueProofs` proves the two counting invariants: while a
consumer waits, the wake-ups under way are at least as many as the items stored; the same for producers
and room.  They are inductive together with `FramesOK`, and they imply `NoStandoff`: with a capacity above
zero, whenever a producer and a consumer both sleep, some third thread in a call is awake.
`OnlyNowaitOverruns` and `QueueImplementsFifo` follow.

**Pool.**  `PoolInv` adds to `OneOwner` and `LargeEnough` what a thread carries between the lists
(`Travelling`) and that a gone allocator has no call under way (`Gone`).  Ownership is restated for one
address at a time (`Apart`, `Accounted`, `HeldOnce`), which is what each action changes.  `CleanExit`
follows. `FootprintIsBounded` holds because a call asks the heap only after it found no budget: at that
moment every block of its size is in use or carried by a call, and `peak` counts both; any other step adds
nothing of any size.  `PoolImplementsStore` is the refinement of `BlockStore`: what the store has in use
is exactly the payouts and the foreign blocks (`InUseFacts`), so that nothing a thread carries and no
budget is among them. `WildIsForeign` is an action property: a block of the pool is never mistaken for a
wild pointer, because it is in the payouts before its owner can free it.

**Objects.**  `IInv` has the types; `Bookkeeping` (an object is counted exactly if it lives, one that is
dying is in one destructor, the module counts what exists); `MembersExist`, `Counted` (the counter is the
number of owners); and for each thread `Halfway` and `SourceKept`: an assignment under way reads from
something that stays what it was when the assignment began.  The owners of an object change by one slot in
each step, and three lemmas (`LocalWritten`, `MemberWritten`, `FieldWritten`) say what that does to their
number; everything else is arithmetic.  `NothingIsLost` needs `Acyclic` as well: no set of objects is held
by its own members only, which is true because an object gets its member when it is constructed.
`ModuleUnloadsSafely` draws from the invariant what `dll_can_unload_now` relies on: while the module's
counter is zero, no pointer, Java field, destruction or assignment under way has anything to do with an
object.

**Delegates.**  A token reaches a living delegate because the one it names is alive as long as its
observer can be locked, which is the clients' rule kept by every action.  `TokenOwnsListener` needs that
ids are never used twice (`TypeOK`) and that what a token has not given up is in the list; it follows
tokens wherever they are moved, of delegates that stay where they are (`MayMove`).  A listener that holds
a copy of a delegate adds an observer that can be locked for ever, of a delegate that is alive then and,
while it has tokens, later. `DelegateImplementsLists` shows each step of the delegate to be one of
`ListenerList`, or to change nothing of it: only `UpdateReadableBuffer` is a change of the list, and it is
`Add`, `Merge` or `Leave` by what came before.

**Front end.**  `FrontEndInv` is type correctness, with the flag owned by exactly the thread that is
inside `call_once`; `Phase`: `ready`, the manager and the flag agree; `Listings`: everything a
configuration lists is loaded or still to do; `Reached`: without a manager nobody was told, promised or
given anything; `Owned`: what is registered or held is alive, and a thread that creates has its instance
to itself; `Polite`: while nobody was impolite, a registered identifier is with one client, on its way to
one, or being released by one thread.  `Polite` is what makes `IssuedIsRegistered` inductive: without it a
release under way could take the entry of an identifier somebody still holds.  `Finished`, inductive on
top of it, says that 0 is answered only after the flag is set, and gives `InitMeansReady`.  The six safety
properties of the run follow, and two action properties of its clients: an execution misses its instance
only if its identifier was released (`IssuedIsNeverMissed`), and a new identifier is one that no client
has (`IdentifiersAreFresh`).

**Conversion.**  `ConversionInv` has, besides types, what has been checked at each place of the call (`Path`),
where the loops stand (`Loops`), and what comes of it (`Outcome`).  The only assumption, `Legal`, is that the
size is an `int`, that the numbers of frames and channels are not negative, and that height and width are any
integers at all.  Products and quotients of four unknowns are beyond the provers as they stand, so a chain of
lemmas treats two factors at a time (`Exact`, `Quotient` and those after them).  Of every shape and every
largest `int` it is proved that packed BGR images become frames of their pixels, without overflow
(`PackedImagesSucceedTheorem`); that no NV21 image ever becomes a frame (`NV21Theorem`: the violation TLC finds
on a small image is there for all of them); that a padded image becomes a frame only if it has a single row
(`PaddedBatchesTheorem`); and that no frame is shorter than its shape (`FramesHoldEveryPixelTheorem`).

**Only model-checked.**  The liveness properties `EveryCallReturns`, `ConsumersAreServed`, `ProducersAreServed`,
`InitCallsReturn` and `DestructionEnds` (TLAPS does not reason about fairness), and the three violations.
That a supported image *ends up* as a frame is a liveness property too; what is proved of it is the safety half.
Every safety property and every refinement that a passing run checks is also a theorem.

## 5. What the models leave out

* Manager: two threads that execute one plugin
  at once (the plugin's own matter).
* Front end: JSON text, messages and buffers, `parser_free`; how a conversion fails before `execute`; text
  that is not a well-formed identifier; plugins that throw something that is neither a `std::exception`
  nor an `abi_error`, for which `translate_current_exception` has no handler and the process ends.
  Whether the license library throws anything but a `std::exception` cannot be told from here; the model
  allows both.  Manager codes exclude -3 and -8 so that a plugin's code is told apart from the front end's
  own.
* Queue: observers; copying and moving the ring; exceptions from copying an item.
* Pool: a heap that returns null; the order of entries within a list; a ratio that changes in the
  middle of one search, and the data race on it; a second free of the same block, against which the code has no
  defence; a build with CUDA, where blocks for a device come from another heap (`cudaMallocHost`, lines 96-103
  and 135-142) and both kinds mix in one list of budgets.
* Objects: more than one member (a second one is released in the same way); members that are assigned
  later, as containers allow: with them a program can close a cycle of references, which counting never
  frees; a cast that fails, which touches no counter; `unique_release`, which nothing calls; garbage
  collection on the Java side.
* Delegates: data races on the list; exceptions of listeners, which end a call early; empty callables,
  which hide the listeners behind them; a delegate that is moved while it has tokens (`MayMove`); that
  copies held by listeners go with them; the nested calls they make.
* Conversion: Base64, whose result is a size like any other; negative numbers of frames and of
  channels.
* Everywhere: memory exhaustion inside the containers, except where an action says so.

## 6. Order of work, and what could follow

The modules were written in this order: the plugin manager with its registry, the queue, the pool, the
front end, the delegates, the objects, the conversion; each with its instance first, then its proofs.
Every part of the repository that has a protocol of its own and is used, or can be used, by its clients is
among them.  What could follow:

* copies and moves of the ring, once something uses them;
* the composition of the front end with the detailed manager instead of its registry (the refinement
  proved makes it unnecessary for safety);
* the counted strings and the component loader, if their library joins the repository;
* a passing run of the conversion, when the loop at `parser_impl.cpp:166` is corrected.
