-------------------------- MODULE FlushAccounting --------------------------
(***************************************************************************)
(* Durability accounting of a ReadWrite MemoryMappedFile (src/mmap.rs,     *)
(* src/flush.rs, src/atomic.rs, src/iterator.rs): which write paths count  *)
(* their bytes, when the flush policy acts on the counters, and what a     *)
(* flush takes from them and gives back when msync fails.                  *)
(*                                                                         *)
(* A member of Op is one call at a time of a thread, or one view that the  *)
(* call returned, until it is dropped.  The worker of EveryMillis is such  *)
(* a thread, which calls flush() when it finds bytes pending; when it does *)
(* is the matter of FlusherLifecycle.  Bytes are blocks, dirty while       *)
(* memory and disk differ.  A critical section of the mapping's write lock *)
(* in which no counter is touched is one step; every access to a counter   *)
(* is a step of its own, because update_region counts after it released    *)
(* the lock and a flush runs under a read guard it shares with the stores  *)
(* of atomic views.                                                        *)
(***************************************************************************)
EXTENDS Naturals, FiniteSets, RwLock

CONSTANTS
  Op,             (* concurrent calls and views                            *)
  Block,          (* the bytes of the mapping                              *)
  Policies,       (* the flush policies to choose from: [kind, n]          *)
  MaxPending,     (* bound on the pending bytes when a call starts         *)
  MaxFailures     (* bound on the number of failing msync calls            *)

PolicyKind == {"Never", "Always", "EveryBytes", "EveryWrites", "EveryMillis"}

ASSUME BlockAssumption   == IsFiniteSet(Block) /\ Block # {}
ASSUME PolicyAssumption  == Policies \subseteq [kind : PolicyKind, n : Nat]
ASSUME BoundsAssumption  == MaxPending \in Nat /\ MaxFailures \in Nat

VARIABLES
  flush_policy,               (* Inner.flush_policy, fixed by the builder  *)
  map,                        (* the RwLock around the mapping             *)
  dirty,                      (* blocks whose bytes in memory are not yet  *)
                              (* on disk                                   *)
  written_since_last_flush,   (* pending bytes                             *)
  writes_since_last_flush,    (* update_region calls                       *)
  pc, call, range,            (* step, call and blocks of each Op          *)
  seen,                       (* the sum fetch_add gave count_update       *)
  saved,                      (* what flush_mapped took from the counters  *)
  todo,                       (* blocks its msync has yet to write         *)
  failures,                   (* msync calls that failed so far            *)
  due,                        (* history: blocks whose bytes of the moment *)
                              (* of the call are not yet on disk           *)
  abandoned,                  (* history: dirty blocks that were handed to *)
                              (* a closure which panicked                  *)
  owed_bytes, owed_writes     (* history: counts no policy has looked at   *)

owed == <<owed_bytes, owed_writes>>
locals == <<pc, call, range, seen, saved, todo, due>>
vars == <<flush_policy, map, dirty, written_since_last_flush,
          writes_since_last_flush, locals, failures, abandoned, owed>>

NoSaved == [bytes |-> 0, writes |-> 0]

Init ==
  /\ flush_policy \in Policies
  /\ map = Unlocked
  /\ dirty = {}
  /\ written_since_last_flush = 0
  /\ writes_since_last_flush = 0
  /\ pc = [o \in Op |-> "idle"]
  /\ call = [o \in Op |-> "none"]
  /\ range = [o \in Op |-> {}]
  /\ seen = [o \in Op |-> 0]
  /\ saved = [o \in Op |-> NoSaved]
  /\ todo = [o \in Op |-> {}]
  /\ failures = 0
  /\ abandoned = {}
  /\ due = [o \in Op |-> {}]
  /\ owed_bytes = FALSE
  /\ owed_writes = FALSE

Goto(o, label) == pc' = [pc EXCEPT ![o] = label]

(* Defect: one per view instead of one per byte                            *)
record_write_CountsCalls(blocks) ==
  /\ written_since_last_flush' = written_since_last_flush + 1
  /\ owed_bytes' = TRUE

(* record_write, and the Drop of MappedSliceMut and of the atomic views:   *)
(* the bytes are counted and no policy is evaluated.                       *)
record_write(blocks) ==
  /\ written_since_last_flush' = written_since_last_flush + Cardinality(blocks)
  /\ owed_bytes' = TRUE

Begin(o, name, blocks, label) ==
  /\ Goto(o, label)
  /\ call' = [call EXCEPT ![o] = name]
  /\ range' = [range EXCEPT ![o] = blocks]

(* The locals of the call are gone.                                        *)
Forget(o) ==
  /\ range' = [range EXCEPT ![o] = {}]
  /\ seen' = [seen EXCEPT ![o] = 0]
  /\ saved' = [saved EXCEPT ![o] = NoSaved]
  /\ todo' = [todo EXCEPT ![o] = {}]

(* The call returns an error, or nothing.                                  *)
End(o) ==
  /\ Goto(o, "idle")
  /\ call' = [call EXCEPT ![o] = "none"]
  /\ due' = [due EXCEPT ![o] = {}]
  /\ Forget(o)

(* The call returns Ok; update_region_async still has to flush.            *)
Succeed(o) ==
  /\ Forget(o)
  /\ UNCHANGED due
  /\ IF call[o] = "async"
     THEN Goto(o, "f_lock") /\ call' = [call EXCEPT ![o] = "flush"]
     ELSE Goto(o, "ok") /\ UNCHANGED call

-----------------------------------------------------------------------------
(***************************************************************************)
(* update_region, try_update_region, update_region_async                   *)
(***************************************************************************)

(* The copy under the write lock.  update_region releases the lock before  *)
(* it counts; try_update_region keeps it (and returns false, having done   *)
(* nothing, where update_region waits for the lock).                       *)
WriteRegion(o, name, blocks) ==
  /\ pc[o] = "idle"
  /\ CanWrite(map)
  /\ written_since_last_flush < MaxPending
  /\ Begin(o, name, blocks, "u_count")
  /\ dirty' = dirty \union blocks
  /\ due' = [due EXCEPT ![o] = dirty']
  /\ map' = IF name = "try" THEN LockWrite(map, o) ELSE map
  /\ UNCHANGED <<flush_policy, written_since_last_flush, writes_since_last_flush,
                 seen, saved, todo, failures, abandoned, owed>>

(* count_update, first half: the pending bytes                             *)
CountBytes(o) ==
  /\ pc[o] = "u_count"
  /\ written_since_last_flush' = written_since_last_flush + Cardinality(range[o])
  /\ seen' = [seen EXCEPT ![o] = written_since_last_flush']
  /\ range' = [range EXCEPT ![o] = {}]
  /\ owed_bytes' = FALSE
  /\ Goto(o, "u_writes")
  /\ UNCHANGED <<flush_policy, map, dirty, writes_since_last_flush,
                 call, saved, todo, failures, abandoned, due, owed_writes>>

(* Defect: the thresholds are exclusive                                    *)
FlushNow_Above(pending, writes) ==
  \/ flush_policy.kind = "Always"
  \/ flush_policy.kind = "EveryBytes" /\ flush_policy.n > 0 /\ pending > flush_policy.n
  \/ flush_policy.kind = "EveryWrites" /\ flush_policy.n > 0 /\ writes > flush_policy.n

FlushNow(pending, writes) ==
  \/ flush_policy.kind = "Always"
  \/ flush_policy.kind = "EveryBytes" /\ flush_policy.n > 0 /\ pending >= flush_policy.n
  \/ flush_policy.kind = "EveryWrites" /\ flush_policy.n > 0 /\ writes >= flush_policy.n

(* count_update, second half: the number of writes, and the policy.        *)
(* try_update_region goes on under its own guard, downgraded.              *)
CountWrites(o) ==
  /\ pc[o] = "u_writes"
  /\ writes_since_last_flush' = writes_since_last_flush + 1
  /\ owed_writes' = FALSE
  /\ \/ /\ FlushNow(seen[o], writes_since_last_flush')
        /\ map' = IF call[o] = "try" THEN Downgrade(map, o) ELSE map
        /\ Goto(o, IF call[o] = "try" THEN "f_bytes" ELSE "f_lock")
        /\ seen' = [seen EXCEPT ![o] = 0]
        /\ UNCHANGED <<call, range, saved, todo, due>>
     \/ /\ ~FlushNow(seen[o], writes_since_last_flush')
        /\ map' = UnlockWrite(map, o)
        /\ Succeed(o)
  /\ UNCHANGED <<flush_policy, dirty, written_since_last_flush, failures, abandoned, owed_bytes>>

-----------------------------------------------------------------------------
(***************************************************************************)
(* flush and flush_mapped                                                  *)
(***************************************************************************)

CallFlush(o) ==
  /\ pc[o] = "idle"
  /\ Begin(o, "flush", {}, "f_lock")
  /\ due' = [due EXCEPT ![o] = dirty]
  /\ UNCHANGED <<flush_policy, map, dirty, written_since_last_flush,
                 writes_since_last_flush, seen, saved, todo, failures, abandoned, owed>>

LockForFlush(o) ==
  /\ pc[o] = "f_lock"
  /\ CanRead(map)
  /\ map' = LockRead(map, o)
  /\ Goto(o, "f_bytes")
  /\ UNCHANGED <<flush_policy, dirty, written_since_last_flush,
                 writes_since_last_flush, call, range, seen, saved, todo, failures,
                 abandoned, due, owed>>

(* Defect: msync is skipped when nothing is counted                        *)
SwapBytes_SkipsClean(o) ==
  /\ pc[o] = "f_bytes"
  /\ saved' = [saved EXCEPT ![o].bytes = written_since_last_flush]
  /\ written_since_last_flush' = 0
  /\ owed_bytes' = FALSE
  /\ todo' = [todo EXCEPT ![o] = IF written_since_last_flush = 0 THEN {} ELSE Block]
  /\ Goto(o, "f_writes")
  /\ UNCHANGED <<flush_policy, map, dirty, writes_since_last_flush,
                 call, range, seen, failures, abandoned, due, owed_writes>>

SwapBytes(o) ==
  /\ pc[o] = "f_bytes"
  /\ saved' = [saved EXCEPT ![o].bytes = written_since_last_flush]
  /\ written_since_last_flush' = 0
  /\ owed_bytes' = FALSE
  /\ todo' = [todo EXCEPT ![o] = Block]
  /\ Goto(o, "f_writes")
  /\ UNCHANGED <<flush_policy, map, dirty, writes_since_last_flush,
                 call, range, seen, failures, abandoned, due, owed_writes>>

SwapWrites(o) ==
  /\ pc[o] = "f_writes"
  /\ saved' = [saved EXCEPT ![o].writes = writes_since_last_flush]
  /\ writes_since_last_flush' = 0
  /\ owed_writes' = FALSE
  /\ Goto(o, "f_sync")
  /\ UNCHANGED <<flush_policy, map, dirty, written_since_last_flush,
                 call, range, seen, todo, failures, abandoned, due, owed_bytes>>

(* msync writes the blocks back one by one while atomic stores go on.      *)
SyncBlock(o, b) ==
  /\ pc[o] \in {"f_sync", "g_sync"}
  /\ b \in todo[o]
  /\ dirty' = dirty \ {b}
  /\ abandoned' = abandoned \ {b}
  /\ due' = [p \in Op |-> due[p] \ {b}]
  /\ todo' = [todo EXCEPT ![o] = @ \ {b}]
  /\ UNCHANGED <<flush_policy, map, written_since_last_flush, writes_since_last_flush,
                 pc, call, range, seen, saved, failures, owed>>

(* Defect: what the swap took is subtracted once more                      *)
SyncDone_Subtracts(o) ==
  /\ pc[o] \in {"f_sync", "g_sync"}
  /\ todo[o] = {}
  /\ written_since_last_flush' = written_since_last_flush - saved[o].bytes
  /\ map' = UnlockRead(map, o)
  /\ Succeed(o)
  /\ UNCHANGED <<flush_policy, dirty, writes_since_last_flush, failures, abandoned, owed>>

SyncDone(o) ==
  /\ pc[o] \in {"f_sync", "g_sync"}
  /\ todo[o] = {}
  /\ map' = UnlockRead(map, o)
  /\ Succeed(o)
  /\ UNCHANGED <<flush_policy, dirty, written_since_last_flush,
                 writes_since_last_flush, failures, abandoned, owed>>

SyncFails(o) ==
  /\ pc[o] = "f_sync"
  /\ failures < MaxFailures
  /\ failures' = failures + 1
  /\ Goto(o, "r_bytes")
  /\ UNCHANGED <<flush_policy, map, dirty, written_since_last_flush,
                 writes_since_last_flush, call, range, seen, saved, todo, due, abandoned, owed>>

(* Defect: a failed flush does not put the pending bytes back              *)
RestoreBytes_Forgets(o) ==
  /\ pc[o] = "r_bytes"
  /\ owed_bytes' = TRUE
  /\ Goto(o, "r_writes")
  /\ UNCHANGED <<flush_policy, map, dirty, written_since_last_flush, writes_since_last_flush,
                 call, range, seen, saved, todo, failures, abandoned, due, owed_writes>>

RestoreBytes(o) ==
  /\ pc[o] = "r_bytes"
  /\ written_since_last_flush' = written_since_last_flush + saved[o].bytes
  /\ owed_bytes' = TRUE
  /\ Goto(o, "r_writes")
  /\ UNCHANGED <<flush_policy, map, dirty, writes_since_last_flush,
                 call, range, seen, saved, todo, failures, abandoned, due, owed_writes>>

(* The second counter, then the guard is dropped and FlushFailed returned  *)
RestoreWrites(o) ==
  /\ pc[o] = "r_writes"
  /\ writes_since_last_flush' = writes_since_last_flush + saved[o].writes
  /\ owed_writes' = TRUE
  /\ map' = UnlockRead(map, o)
  /\ End(o)
  /\ UNCHANGED <<flush_policy, dirty, written_since_last_flush, failures, abandoned, owed_bytes>>

(* The caller sees Ok and goes on.                                         *)
Resume(o) ==
  /\ pc[o] = "ok"
  /\ End(o)
  /\ UNCHANGED <<flush_policy, map, dirty, written_since_last_flush,
                 writes_since_last_flush, failures, abandoned, owed>>

-----------------------------------------------------------------------------
(***************************************************************************)
(* flush_range: a range that is the whole mapping releases its guard and   *)
(* becomes flush(); a part leaves the counters alone.                      *)
(***************************************************************************)

FlushRange(o, blocks) ==
  /\ pc[o] = "idle"
  /\ CanRead(map)
  /\ \/ /\ blocks = Block
        /\ Begin(o, "flush", {}, "f_lock")
        /\ due' = [due EXCEPT ![o] = dirty]
        /\ UNCHANGED <<map, todo>>
     \/ /\ blocks # Block
        /\ map' = LockRead(map, o)
        /\ Begin(o, "range", {}, "g_sync")
        /\ todo' = [todo EXCEPT ![o] = blocks]
        /\ due' = [due EXCEPT ![o] = dirty \intersect blocks]
  /\ UNCHANGED <<flush_policy, dirty, written_since_last_flush,
                 writes_since_last_flush, seen, saved, failures, abandoned, owed>>

RangeFails(o) ==
  /\ pc[o] = "g_sync"
  /\ failures < MaxFailures
  /\ failures' = failures + 1
  /\ map' = UnlockRead(map, o)
  /\ End(o)
  /\ UNCHANGED <<flush_policy, dirty, written_since_last_flush,
                 writes_since_last_flush, abandoned, owed>>

-----------------------------------------------------------------------------
(***************************************************************************)
(* Views that write: as_slice_mut and for_each_mut under the write lock,   *)
(* atomic views under a read guard.  They count when they end.             *)
(***************************************************************************)

(* for_each_mut starts with no block handed to the closure.                *)
OpenView(o, name, blocks) ==
  /\ pc[o] = "idle"
  /\ written_since_last_flush < MaxPending
  /\ \/ name = "atomic" /\ CanRead(map) /\ map' = LockRead(map, o)
     \/ name \in {"mut", "drive"} /\ CanWrite(map) /\ map' = LockWrite(map, o)
  /\ Begin(o, name, IF name = "drive" THEN {} ELSE blocks, "v_live")
  /\ UNCHANGED <<flush_policy, dirty, written_since_last_flush, writes_since_last_flush,
                 seen, saved, todo, failures, abandoned, due, owed>>

(* The user stores through the view.                                       *)
StoreView(o, b) ==
  /\ pc[o] = "v_live"
  /\ b \in range[o]
  /\ dirty' = dirty \union {b}
  /\ UNCHANGED <<flush_policy, map, written_since_last_flush, writes_since_last_flush,
                 locals, failures, abandoned, owed>>

(* drive hands the next chunk to the closure.                              *)
NextChunk(o, b) ==
  /\ pc[o] = "v_live"
  /\ call[o] = "drive"
  /\ b \in Block \ range[o]
  /\ range' = [range EXCEPT ![o] = @ \union {b}]
  /\ UNCHANGED <<flush_policy, map, dirty, written_since_last_flush,
                 writes_since_last_flush, pc, call, seen, saved, todo, due, failures,
                 abandoned, owed>>

Unlock(o) == map' = UnlockRead(UnlockWrite(map, o), o)

(* Drop of a view, or the end of drive (all chunks, or an Err closure):    *)
(* counted before the guard is released.                                   *)
EndView(o) ==
  /\ pc[o] = "v_live"
  /\ record_write(range[o])
  /\ Unlock(o)
  /\ End(o)
  /\ UNCHANGED <<flush_policy, dirty, writes_since_last_flush, failures, abandoned, owed_writes>>

(* The closure of for_each_mut panics: unwinding drops the guard and skips *)
(* the rest of drive.                                                      *)
PanicInDrive(o) ==
  /\ pc[o] = "v_live"
  /\ call[o] = "drive"
  /\ abandoned' = abandoned \union (range[o] \intersect dirty)
  /\ Unlock(o)
  /\ End(o)
  /\ UNCHANGED <<flush_policy, dirty, written_since_last_flush,
                 writes_since_last_flush, failures, owed>>

(* as_mut_ptr counts the whole mapping when the pointer is handed out.     *)
as_mut_ptr(o) ==
  /\ pc[o] = "idle"
  /\ CanRead(map)
  /\ written_since_last_flush < MaxPending
  /\ record_write(Block)
  /\ UNCHANGED <<flush_policy, map, dirty, writes_since_last_flush, locals, failures,
                 abandoned, owed_writes>>

-----------------------------------------------------------------------------

(* Steps of a call that has been made, failures excepted                   *)
Step(o) ==
  \/ CountBytes(o) \/ CountWrites(o)
  \/ LockForFlush(o) \/ SwapBytes(o) \/ SwapWrites(o)
  \/ (\E b \in Block : SyncBlock(o, b)) \/ SyncDone(o)
  \/ RestoreBytes(o) \/ RestoreWrites(o) \/ Resume(o)

Fail(o) == SyncFails(o) \/ RangeFails(o) \/ PanicInDrive(o)

(* What the user of the crate decides on                                   *)
UserCall(o) ==
  \/ \E name \in {"update", "try", "async"}, blocks \in SUBSET Block \ {{}} :
       WriteRegion(o, name, blocks)
  \/ CallFlush(o)
  \/ \E blocks \in SUBSET Block \ {{}} : FlushRange(o, blocks)
  \/ \E name \in {"mut", "drive", "atomic"}, blocks \in SUBSET Block \ {{}} :
       OpenView(o, name, blocks)
  \/ \E b \in Block : StoreView(o, b) \/ NextChunk(o, b)
  \/ as_mut_ptr(o)

Next == \E o \in Op : Step(o) \/ Fail(o) \/ UserCall(o) \/ EndView(o)

Spec == Init /\ [][Next]_vars

-----------------------------------------------------------------------------
(***************************************************************************)
(* Properties                                                              *)
(***************************************************************************)

Pc == {"idle", "ok", "u_count", "u_writes", "f_lock", "f_bytes", "f_writes",
       "f_sync", "r_bytes", "r_writes", "g_sync", "v_live"}

CallName == {"none", "update", "try", "async", "flush", "range", "mut", "drive", "atomic"}

(* Types of the mapping, its counters and the locals of the calls.         *)
TypeOK ==
  /\ flush_policy \in Policies
  /\ map \in LockType(Op)
  /\ dirty \subseteq Block
  /\ written_since_last_flush \in Nat /\ writes_since_last_flush \in Nat
  /\ pc \in [Op -> Pc] /\ call \in [Op -> CallName]
  /\ range \in [Op -> SUBSET Block] /\ todo \in [Op -> SUBSET Block]
  /\ seen \in [Op -> Nat]
  /\ saved \in [Op -> [bytes : Nat, writes : Nat]]
  /\ failures \in Nat /\ abandoned \subseteq Block
  /\ due \in [Op -> SUBSET Block]
  /\ owed_bytes \in BOOLEAN /\ owed_writes \in BOOLEAN

(* Somebody still answers for block b: a writer that has yet to count it,  *)
(* or a flush that took the pending bytes and has yet to write b back, or  *)
(* to restore them.                                                        *)
Carries(o, b) ==
  \/ pc[o] \in {"u_count", "v_live"} /\ b \in range[o]
  \/ pc[o] \in {"f_writes", "f_sync"} /\ saved[o].bytes > 0 /\ b \in todo[o]
  \/ pc[o] = "r_bytes" /\ saved[o].bytes > 0

(* A dirty byte is forgotten only by a closure that panics: while memory   *)
(* and disk differ, pending bytes are counted or somebody still answers    *)
(* for the block, whatever flushes, failing flushes, atomic stores and     *)
(* late counts interleave.  The EveryMillis worker skips its flush when    *)
(* nothing is pending, so it would never write a forgotten byte.           *)
ForgottenOnlyByPanic ==
  \A b \in dirty \ abandoned :
    written_since_last_flush > 0 \/ \E o \in Op : Carries(o, b)

(* An Ok answer of flush(), of update_region_async or, under Always, of    *)
(* update_region and try_update_region means that everything written       *)
(* before, the call's own bytes included, is on disk; that of flush_range  *)
(* means it of the bytes of the range.                                     *)
DurableOnOk ==
  \A o \in Op :
    /\ pc[o] = "ok"
    /\ \/ call[o] \in {"flush", "range"}
       \/ flush_policy.kind = "Always" /\ call[o] \in {"update", "try"}
    => due[o] = {}

(* EveryBytes(n) and EveryWrites(n): a counter at its threshold is about   *)
(* to be taken by a flush, unless what it holds came from a path that does *)
(* not evaluate the policy (a dropped view, a failed flush).  The two      *)
(* counters are swapped one after the other and counted one after the      *)
(* other, by threads that do not exclude each other.                       *)
PolicyActs ==
  /\ flush_policy.kind = "EveryWrites" /\ flush_policy.n > 0
     /\ writes_since_last_flush >= flush_policy.n
     => owed_writes \/ \E o \in Op : pc[o] \in {"f_lock", "f_bytes", "f_writes"}
  /\ flush_policy.kind = "EveryBytes" /\ flush_policy.n > 0
     /\ written_since_last_flush >= flush_policy.n
     => \/ owed_bytes
        \/ \E o \in Op : \/ pc[o] \in {"f_lock", "f_bytes"}
                         \/ pc[o] = "u_writes" /\ seen[o] >= flush_policy.n

(* Once nobody is inside a call or holds a view, the pending bytes are at  *)
(* least the number of dirty bytes: the counter never undercounts, but for *)
(* those that a panicking closure has left.                                *)
NeverUndercounts ==
  (\A o \in Op : pc[o] = "idle") =>
    Cardinality(dirty \ abandoned) <= written_since_last_flush

-----------------------------------------------------------------------------
(***************************************************************************)
(* The inductive invariant                                                 *)
(***************************************************************************)

(* What a running flush still owes its caller it has yet to write back;    *)
(* an update promises durability only under Always or when it is async.    *)
DueInv ==
  \A o \in Op :
    /\ pc[o] \in {"f_writes", "f_sync", "g_sync"} => due[o] \subseteq todo[o]
    /\ pc[o] \in {"u_count", "u_writes"} => call[o] \in {"update", "try", "async"}

(* The strengthening of DurableOnOk and PolicyActs; ForgottenOnlyByPanic   *)
(* is inductive by itself.                                                 *)
IInv == TypeOK /\ DueInv /\ DurableOnOk /\ PolicyActs

=============================================================================
