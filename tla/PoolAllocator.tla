---------------------------- MODULE PoolAllocator ----------------------------
(***************************************************************************)
(* pool_allocator: fastMalloc serves a request from the budgets, the       *)
(* blocks returned earlier, when one fits, and from the heap otherwise;    *)
(* what it hands out is recorded in the payouts until fastFree.  Each list *)
(* has a lock of its own and the two are never held together, so a block   *)
(* on its way from one list to the other is in neither.                    *)
(*                                                                         *)
(* One action is one critical section or one call of the heap.  A list is  *)
(* a set of entries <<size, address>>; the scan of the budgets takes any   *)
(* entry that fits, the code takes the first.  The build is one without    *)
(* CUDA: a caller that names a device is refused where the heap is needed. *)
(***************************************************************************)
EXTENDS Integers, FiniteSets

CONSTANTS Threads,
          Addrs,     (* what the heap hands out; bounds the blocks alive    *)
          Sizes,     (* sizes requested                                     *)
          Ratios,    (* values of size_compare_ratio, in 256ths             *)
          NoAddr

ASSUME PoolAllocatorAssumption ==
  /\ IsFiniteSet(Threads) /\ IsFiniteSet(Addrs)
  /\ Sizes \subseteq Nat \ {0}
  /\ Ratios \subseteq 0..256
  /\ 192 \in Ratios
  /\ NoAddr \notin Addrs

VARIABLES block,    (* heap: the size of the block at an address, or 0      *)
          budgets,
          payouts,
          ratio,    (* size_compare_ratio                                   *)
          pc,       (* where each thread is                                 *)
          moving,   (* the entry <<size, address>> its call works on        *)
          request,  (* the size its fastMalloc was asked for                *)
          held,     (* <<requested size, address>> of blocks in use         *)
          foreign,  (* blocks in use that never came from the pool          *)
          status,   (* of the allocator object                              *)
          peak      (* most blocks in use or being served at one time       *)

calls == <<pc, moving, request>>
vars == <<block, budgets, payouts, ratio, calls, held, foreign, status, peak>>

Entries == Sizes \X Addrs
AddrsOf(entries) == {e[2] : e \in entries}

TypeOK ==
  /\ block \in [Addrs -> Sizes \cup {0}]
  /\ budgets \subseteq Entries
  /\ payouts \subseteq Entries
  /\ ratio \in Ratios
  /\ pc \in [Threads -> {"idle", "alloc", "payout", "budget", "wild"}]
  /\ moving \in [Threads -> (Sizes \cup {0}) \X (Addrs \cup {NoAddr})]
  /\ request \in [Threads -> Sizes \cup {0}]
  /\ held \subseteq Entries
  /\ foreign \subseteq Addrs
  /\ status \in {"alive", "destroyed", "terminated", "aborted"}
  /\ peak \in Nat

NoEntry == <<0, NoAddr>>

Init ==
  /\ block = [a \in Addrs |-> 0]
  /\ budgets = {}
  /\ payouts = {}
  /\ ratio = 192
  /\ pc = [t \in Threads |-> "idle"]
  /\ moving = [t \in Threads |-> NoEntry]
  /\ request = [t \in Threads |-> 0]
  /\ held = {}
  /\ foreign = {}
  /\ status = "alive"
  /\ peak = 0
-----------------------------------------------------------------------------
Move(t, label, entry) ==
  /\ pc' = [pc EXCEPT ![t] = label]
  /\ moving' = [moving EXCEPT ![t] = entry]

Finish(t) ==
  /\ Move(t, "idle", NoEntry)
  /\ request' = [request EXCEPT ![t] = 0]

Allocated == {a \in Addrs : block[a] # 0}
Allocating == {t \in Threads : pc[t] = "alloc"}
Busy == {t \in Threads : pc[t] \in {"alloc", "payout", "budget"}}

(* Faults: the size is not compared; the ratio excludes an exact match.    *)
FitsRatioOnly(bs, n) == (bs * ratio) \div 256 <= n
FitsStrictly(bs, n)  == bs >= n /\ (bs * ratio) \div 256 < n

Fits(bs, n) == bs >= n /\ (bs * ratio) \div 256 <= n

(* The call of fastMalloc takes up one more block than are in use.         *)
NotePeak == LET used == Cardinality(held) + Cardinality(Busy) + 1
            IN peak' = IF used > peak THEN used ELSE peak
-----------------------------------------------------------------------------
(* fastMalloc                                                              *)

(* Fault: the pair is read through the iterator that was just erased.      *)
FindBudgetErased(t, n, e) ==
  /\ pc[t] = "idle" /\ status = "alive"
  /\ e \in budgets
  /\ Fits(e[1], n)
  /\ budgets' = budgets \ {e}
  /\ Move(t, "payout", <<e[1], NoAddr>>)
  /\ request' = [request EXCEPT ![t] = n]
  /\ NotePeak
  /\ UNCHANGED <<block, payouts, ratio, held, foreign, status>>

FindBudget(t, n, e) ==
  /\ pc[t] = "idle" /\ status = "alive"
  /\ e \in budgets
  /\ Fits(e[1], n)
  /\ budgets' = budgets \ {e}
  /\ Move(t, "payout", e)
  /\ request' = [request EXCEPT ![t] = n]
  /\ NotePeak
  /\ UNCHANGED <<block, payouts, ratio, held, foreign, status>>

(* No budget fits; the bound leaves an address for every allocation begun. *)
FindNone(t, n) ==
  /\ pc[t] = "idle" /\ status = "alive"
  /\ \A e \in budgets : ~Fits(e[1], n)
  /\ Cardinality(Allocated) + Cardinality(Allocating) < Cardinality(Addrs)
  /\ Move(t, "alloc", <<n, NoAddr>>)
  /\ request' = [request EXCEPT ![t] = n]
  /\ NotePeak
  /\ UNCHANGED <<block, budgets, payouts, ratio, held, foreign, status>>

HeapAlloc(t, a) ==
  /\ pc[t] = "alloc" /\ status = "alive"
  /\ block[a] = 0
  /\ block' = [block EXCEPT ![a] = moving[t][1]]
  /\ Move(t, "payout", <<moving[t][1], a>>)
  /\ UNCHANGED <<budgets, payouts, ratio, request, held, foreign, status, peak>>

(* The block is recorded and the caller has it.                            *)
PayOut(t) ==
  /\ pc[t] = "payout" /\ status = "alive"
  /\ payouts' = payouts \cup {moving[t]}
  /\ held' = held \cup {<<request[t], moving[t][2]>>}
  /\ Finish(t)
  /\ UNCHANGED <<block, budgets, ratio, foreign, status, peak>>
-----------------------------------------------------------------------------
(* fastFree of an address somebody has in use, by any thread.              *)

InUse(a) == a \in AddrsOf(held) \cup foreign

GiveUp(a) == /\ held' = {h \in held : h[2] # a}
             /\ foreign' = foreign \ {a}

(* Fault: the entry stays in the payouts.                                  *)
FreeKeepsPayout(t, e) ==
  /\ pc[t] = "idle" /\ status = "alive"
  /\ e \in payouts
  /\ InUse(e[2])
  /\ GiveUp(e[2])
  /\ Move(t, "budget", e)
  /\ UNCHANGED <<block, budgets, payouts, ratio, request, status, peak>>

FreeFound(t, e) ==
  /\ pc[t] = "idle" /\ status = "alive"
  /\ e \in payouts
  /\ InUse(e[2])
  /\ GiveUp(e[2])
  /\ payouts' = payouts \ {e}
  /\ Move(t, "budget", e)
  /\ UNCHANGED <<block, budgets, ratio, request, status, peak>>

(* Not in the payouts: "pool allocator get wild".                          *)
FreeWild(t, a) ==
  /\ pc[t] = "idle" /\ status = "alive"
  /\ InUse(a)
  /\ a \notin AddrsOf(payouts)
  /\ GiveUp(a)
  /\ Move(t, "wild", <<0, a>>)
  /\ UNCHANGED <<block, budgets, payouts, ratio, request, status, peak>>

ReturnBudget(t) ==
  /\ pc[t] = "budget" /\ status = "alive"
  /\ budgets' = budgets \cup {moving[t]}
  /\ Finish(t)
  /\ UNCHANGED <<block, payouts, ratio, held, foreign, status, peak>>

HeapFree(t) ==
  /\ pc[t] = "wild" /\ status = "alive"
  /\ block' = [block EXCEPT ![moving[t][2]] = 0]
  /\ Finish(t)
  /\ UNCHANGED <<budgets, payouts, ratio, held, foreign, status, peak>>
-----------------------------------------------------------------------------
(* Faults: the list is emptied and its blocks are forgotten; the blocks    *)
(* that were paid out go back to the heap as well.                         *)
ForgetBudgets == budgets' = {} /\ UNCHANGED block
ReleaseEverything ==
  /\ block' = [a \in Addrs |-> IF a \in AddrsOf(budgets \cup payouts) THEN 0 ELSE block[a]]
  /\ budgets' = {}

(* Every block in the budgets goes back to the heap.                       *)
ReleaseBudgets ==
  /\ block' = [a \in Addrs |-> IF a \in AddrsOf(budgets) THEN 0 ELSE block[a]]
  /\ budgets' = {}

Clear(t) ==
  /\ pc[t] = "idle" /\ status = "alive"
  /\ ReleaseBudgets
  /\ UNCHANGED <<payouts, ratio, calls, held, foreign, status, peak>>

(* set_size_compare_ratio takes no lock, and nothing makes the ratio       *)
(* atomic; a search is taken to see one value of it.                       *)
SetRatio(r) ==
  /\ status = "alive"
  /\ ratio' = r
  /\ UNCHANGED <<block, budgets, payouts, calls, held, foreign, status, peak>>

(* A fatal log record ends the process whatever other threads are doing:   *)
(* for a ratio outside 0..1, and for a device in a build that has none.    *)
Aborts ==
  /\ status = "alive"
  /\ status' = "aborted"
  /\ UNCHANGED <<block, budgets, payouts, ratio, calls, held, foreign, peak>>

InvalidRatio == Aborts
NoGPU(t) == pc[t] \in {"alloc", "wild"} /\ Aborts

(* Somebody takes a block from the heap past the pool.                     *)
AllocForeign(a) ==
  /\ status = "alive"
  /\ block[a] = 0
  /\ Cardinality(Allocated) + Cardinality(Allocating) < Cardinality(Addrs)
  /\ \E n \in Sizes : block' = [block EXCEPT ![a] = n]
  /\ foreign' = foreign \cup {a}
  /\ UNCHANGED <<budgets, payouts, ratio, calls, held, status, peak>>

(* The destructor runs when no call is under way; a payout left over is a  *)
(* fatal log record, which terminates the process.                         *)
Destroy ==
  /\ status = "alive"
  /\ \A t \in Threads : pc[t] = "idle"
  /\ ReleaseBudgets
  /\ status' = IF payouts = {} THEN "destroyed" ELSE "terminated"
  /\ UNCHANGED <<payouts, ratio, calls, held, foreign, peak>>
-----------------------------------------------------------------------------
Next ==
  \/ \E t \in Threads :
       \/ \E n \in Sizes : FindNone(t, n) \/ \E e \in Entries : FindBudget(t, n, e)
       \/ \E a \in Addrs : HeapAlloc(t, a) \/ FreeWild(t, a)
       \/ \E e \in Entries : FreeFound(t, e)
       \/ PayOut(t) \/ ReturnBudget(t) \/ HeapFree(t) \/ Clear(t) \/ NoGPU(t)
  \/ InvalidRatio \/ \E r \in Ratios : SetRatio(r)
  \/ \E a \in Addrs : AllocForeign(a)
  \/ Destroy

Spec == Init /\ [][Next]_vars
-----------------------------------------------------------------------------
(* Properties.                                                             *)

(* Where a block can be: a list, a call, or in use past the pool.          *)
Carried(t) == IF pc[t] \in {"payout", "budget", "wild"} THEN {moving[t][2]} ELSE {}

(* Every allocated block is in exactly one place, however calls on the two *)
(* lists interleave: it is never handed out twice, never returned to the   *)
(* heap while in use, never lost between the lists.                        *)
OneOwner ==
  /\ AddrsOf(budgets) \cap AddrsOf(payouts) = {}
  /\ \A t \in Threads :
       /\ Carried(t) \cap (AddrsOf(budgets) \cup AddrsOf(payouts) \cup foreign) = {}
       /\ \A u \in Threads \ {t} : Carried(t) \cap Carried(u) = {}
  /\ foreign \cap (AddrsOf(budgets) \cup AddrsOf(payouts)) = {}
  /\ AddrsOf(held) = AddrsOf(payouts)
  /\ \A g, h \in held : g[2] = h[2] => g = h
  /\ \A e \in budgets \cup payouts : block[e[2]] = e[1]
  /\ Allocated = AddrsOf(budgets) \cup AddrsOf(payouts) \cup foreign
                   \cup UNION {Carried(t) : t \in Threads}

(* A block in use is at least as large as was asked for, although it may   *)
(* have been allocated for another request under another ratio.            *)
LargeEnough == \A h \in held : block[h[2]] >= h[1]

(* When the allocator is gone no block of it is left in the heap, and it   *)
(* complains of a block in use only if there is one.                       *)
CleanExit ==
  /\ status = "destroyed" => Allocated = foreign
  /\ status = "terminated" => held # {}

(* What the pool has, or is about to get from the heap, for one size.      *)
Footprint(n) ==
  {e \in Entries : /\ e[1] = n
                   /\ \/ e \in budgets \cup payouts
                      \/ \E t \in Threads : pc[t] \in {"payout", "budget"} /\ moving[t] = e}

Asking(n) == {t \in Threads : pc[t] = "alloc" /\ moving[t][1] = n}

(* Of no size does the pool ever get more blocks than were in use, or      *)
(* being served, at one time: the moments when a block is in neither list  *)
(* cost no memory beyond that, and no ratio makes a budget of the very     *)
(* size asked for go unused.                                               *)
FootprintIsPeakUse ==
  \A n \in Sizes : Cardinality(Footprint(n)) + Cardinality(Asking(n)) <= peak

(* What callers see of the pool is a store of blocks: between the two      *)
(* locks, in the lists and under any ratio, a block somebody has is not    *)
(* handed out again, resized or returned to the heap.  Foreign blocks are  *)
(* in use with the size they were made with.                               *)
Store == INSTANCE BlockStore WITH
  room <- block,
  used <- held \cup {<<block[a], a>> : a \in foreign}

ImplementsStore == Store!Spec
=============================================================================
