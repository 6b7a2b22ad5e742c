-------------------------- MODULE FlusherLifecycle --------------------------
(***************************************************************************)
(* The life of a mapping with FlushPolicy::EveryMillis: the handles that   *)
(* share it, the worker thread of its TimeBasedFlusher, which upgrades a   *)
(* weak reference for every flush, and the three ways it ends: the last    *)
(* handle is dropped, the worker itself drops the last reference, or       *)
(* unmap takes the mapping apart (src/flush.rs, src/mmap.rs).              *)
(*                                                                         *)
(* A member of User is a thread with at most one handle, which it writes   *)
(* and flushes through.  Which bytes are dirty, the lock of the mapping    *)
(* and the other counter are the matter of FlushAccounting; here there are *)
(* unwritten bytes or not, the counter is zero or not, and stores go on    *)
(* during a flush, as those of atomic views do.                            *)
(***************************************************************************)
EXTENDS Naturals

CONSTANTS
  User,         (* user threads                                            *)
  Worker,       (* the worker thread of the flusher                        *)
  MaxFailures   (* bound on the number of failing msync calls              *)

ASSUME WorkerAssumption == Worker \notin User
ASSUME BoundsAssumption == MaxFailures \in Nat

VARIABLES
  strong,    (* strong count of the Arc around Inner                       *)
  mapped,    (* Inner.map has not been dropped                             *)
  mutex,     (* who holds the mutex of the flag stop: {} or a singleton    *)
  stop,      (* asks the worker to exit                                    *)
  pc,        (* what each thread does                                      *)
  unmapping, (* users whose drop of the flusher is part of unmap           *)
  dirty,     (* memory and disk differ                                     *)
  pending,   (* written_since_last_flush is not zero                       *)
  taken,     (* threads whose flush has found it so, and reset it          *)
  failures   (* msync calls that failed so far                             *)

life == <<strong, mapped, mutex, stop, unmapping>>
data == <<dirty, pending, taken, failures>>
vars == <<life, pc, data>>

Proc == User \union {Worker}

(* finish_rw has just returned the first handle to one of the users.       *)
Init ==
  /\ strong = 1
  /\ mapped = TRUE
  /\ mutex = {}
  /\ stop = FALSE
  /\ \E u \in User : pc = [p \in Proc |-> IF p = u THEN "has"
                                          ELSE IF p = Worker THEN "lock" ELSE "none"]
  /\ unmapping = {}
  /\ dirty = FALSE /\ pending = FALSE /\ taken = {} /\ failures = 0

Goto(p, label) == pc' = [pc EXCEPT ![p] = label]

-----------------------------------------------------------------------------
(***************************************************************************)
(* Handles                                                                 *)
(***************************************************************************)

(* A handle is cloned for another thread.                                  *)
Clone(u, v) ==
  /\ pc[u] = "has" /\ pc[v] = "none"
  /\ strong' = strong + 1
  /\ Goto(v, "has")
  /\ UNCHANGED <<mapped, mutex, stop, unmapping, data>>

(* Arc::drop: whoever takes the count to zero drops Inner, whose field map *)
(* goes before its field flusher.                                          *)
Release(p, otherwise) ==
  /\ strong' = strong - 1
  /\ Goto(p, IF strong = 1 THEN "drop_map" ELSE otherwise)

DropHandle(u) ==
  /\ pc[u] = "has"
  /\ Release(u, "none")
  /\ UNCHANGED <<mapped, mutex, stop, unmapping, data>>

(* unmap: Arc::try_unwrap succeeds only for the last reference; then the   *)
(* flusher is dropped, the map, and the file is returned.                  *)
Unmap(u) ==
  /\ pc[u] = "has"
  /\ \/ /\ strong = 1
        /\ strong' = 0
        /\ unmapping' = unmapping \union {u}
        /\ Goto(u, "set_stop")
     \/ /\ strong # 1
        /\ Goto(u, "refused")
        /\ UNCHANGED <<strong, unmapping>>
  /\ UNCHANGED <<mapped, mutex, stop, data>>

(* unmap returned Err(self): the caller still has its handle.              *)
Resume(u) ==
  /\ pc[u] = "refused"
  /\ Goto(u, "has")
  /\ UNCHANGED <<life, data>>

-----------------------------------------------------------------------------
(***************************************************************************)
(* Writes, and the flush of a user or of the worker                        *)
(***************************************************************************)

(* A store, through update_region or a view; a view may store again.       *)
Store(u) ==
  /\ pc[u] \in {"has", "count"}
  /\ dirty' = TRUE
  /\ Goto(u, "count")
  /\ UNCHANGED <<life, pending, taken, failures>>

(* The bytes are counted after the store, by count_update or when the view *)
(* is dropped.                                                             *)
Count(u) ==
  /\ pc[u] = "count"
  /\ pending' = TRUE
  /\ Goto(u, "has")
  /\ UNCHANGED <<life, dirty, taken, failures>>

CallFlush(u) ==
  /\ pc[u] = "has"
  /\ Goto(u, "swap")
  /\ UNCHANGED <<life, data>>

(* Where a thread goes when flush returns                                  *)
AfterFlush(p) == IF p = Worker THEN "release" ELSE "has"

(* flush_mapped: take the counter first, ...                               *)
Swap(p) ==
  /\ pc[p] = "swap"
  /\ taken' = IF pending THEN taken \union {p} ELSE taken
  /\ pending' = FALSE
  /\ Goto(p, "sync")
  /\ UNCHANGED <<life, dirty, failures>>

(* ... write back, ...                                                     *)
Sync(p) ==
  /\ pc[p] = "sync"
  /\ dirty' = FALSE
  /\ taken' = taken \ {p}
  /\ Goto(p, AfterFlush(p))
  /\ UNCHANGED <<life, pending, failures>>

SyncFails(p) ==
  /\ pc[p] = "sync"
  /\ failures < MaxFailures
  /\ failures' = failures + 1
  /\ Goto(p, "restore")
  /\ UNCHANGED <<life, dirty, pending, taken>>

(* Defect: a failed flush keeps what it took                               *)
Restore_Forgets(p) ==
  /\ pc[p] = "restore"
  /\ taken' = taken \ {p}
  /\ Goto(p, AfterFlush(p))
  /\ UNCHANGED <<life, dirty, pending, failures>>

(* ... and give back what was taken if that failed.                        *)
Restore(p) ==
  /\ pc[p] = "restore"
  /\ pending' = (pending \/ p \in taken)
  /\ taken' = taken \ {p}
  /\ Goto(p, AfterFlush(p))
  /\ UNCHANGED <<life, dirty, failures>>

-----------------------------------------------------------------------------
(***************************************************************************)
(* Dropping Inner, or its parts in unmap                                   *)
(***************************************************************************)

DropMap(p) ==
  /\ pc[p] = "drop_map"
  /\ mapped' = FALSE
  /\ Goto(p, IF p \in unmapping THEN "file" ELSE "set_stop")
  /\ UNCHANGED <<strong, mutex, stop, unmapping, data>>

(* Defect: the flag is set without its mutex                               *)
SetStop_Unlocked(p) ==
  /\ pc[p] = "set_stop"
  /\ stop' = TRUE
  /\ Goto(p, "notify")
  /\ UNCHANGED <<strong, mapped, mutex, unmapping, data>>

(* Drop of TimeBasedFlusher: set the flag under its mutex, ...             *)
SetStop(p) ==
  /\ pc[p] = "set_stop"
  /\ mutex = {}
  /\ stop' = TRUE
  /\ Goto(p, "notify")
  /\ UNCHANGED <<strong, mapped, mutex, unmapping, data>>

(* Where a thread goes when the flusher has been dropped                   *)
AfterFlusher(p) ==
  CASE p = Worker -> "lock"
    [] p \in unmapping -> "drop_map"
    [] OTHER -> "none"

Wake(p, label) ==
  pc' = [pc EXCEPT ![Worker] = IF @ = "wait" THEN "lock" ELSE @, ![p] = label]

(* Defects: nobody joins the worker, or it is joined by itself             *)
Notify_NoJoin(p) ==
  /\ pc[p] = "notify"
  /\ Wake(p, AfterFlusher(p))
  /\ UNCHANGED <<life, data>>

Notify_SelfJoin(p) ==
  /\ pc[p] = "notify"
  /\ Wake(p, "join")
  /\ UNCHANGED <<life, data>>

(* ... wake the worker, and join it unless this is the worker.             *)
Notify(p) ==
  /\ pc[p] = "notify"
  /\ Wake(p, IF p = Worker THEN AfterFlusher(p) ELSE "join")
  /\ UNCHANGED <<life, data>>

Join(p) ==
  /\ pc[p] = "join"
  /\ pc[Worker] = "exited"
  /\ Goto(p, AfterFlusher(p))
  /\ UNCHANGED <<life, data>>

-----------------------------------------------------------------------------
(***************************************************************************)
(* The worker.  It holds the mutex except while it waits on the condition  *)
(* variable and while it runs the callback.                                *)
(***************************************************************************)

Lock ==
  /\ pc[Worker] \in {"lock", "timed_out"}
  /\ mutex = {}
  /\ mutex' = {Worker}
  /\ Goto(Worker, IF pc[Worker] = "lock" THEN "check" ELSE "elapsed")
  /\ UNCHANGED <<strong, mapped, stop, unmapping, data>>

(* while !*stop && ...                                                     *)
Check ==
  /\ pc[Worker] = "check"
  /\ Goto(Worker, IF stop THEN "elapsed" ELSE "park")
  /\ UNCHANGED <<life, data>>

(* wait_until releases the mutex and waits, in one step ...                *)
Park ==
  /\ pc[Worker] = "park"
  /\ mutex' = {}
  /\ Goto(Worker, "wait")
  /\ UNCHANGED <<strong, mapped, stop, unmapping, data>>

(* ... until the deadline, if no notification comes before.                *)
Timeout ==
  /\ pc[Worker] = "wait"
  /\ Goto(Worker, "timed_out")
  /\ UNCHANGED <<life, data>>

(* After the wait: exit, or release the mutex and run the callback.        *)
Elapsed ==
  /\ pc[Worker] = "elapsed"
  /\ mutex' = {}
  /\ Goto(Worker, IF stop THEN "exited" ELSE "tick")
  /\ UNCHANGED <<strong, mapped, stop, unmapping, data>>

(* Defect: a reference that does not count                                 *)
Upgrade_Uncounted ==
  /\ pc[Worker] = "tick"
  /\ Goto(Worker, IF strong > 0 THEN "load" ELSE "lock")
  /\ UNCHANGED <<life, data>>

(* Weak::upgrade                                                           *)
Upgrade ==
  /\ pc[Worker] = "tick"
  /\ strong' = IF strong > 0 THEN strong + 1 ELSE 0
  /\ Goto(Worker, IF strong > 0 THEN "load" ELSE "lock")
  /\ UNCHANGED <<mapped, mutex, stop, unmapping, data>>

(* Nothing to do if no bytes are pending.                                  *)
LoadPending ==
  /\ pc[Worker] = "load"
  /\ Goto(Worker, IF pending THEN "swap" ELSE "release")
  /\ UNCHANGED <<life, data>>

(* The callback's reference goes; it may be the last one.                  *)
DropUpgraded ==
  /\ pc[Worker] = "release"
  /\ Release(Worker, "lock")
  /\ UNCHANGED <<mapped, mutex, stop, unmapping, data>>

-----------------------------------------------------------------------------

WorkerStep ==
  Lock \/ Check \/ Park \/ Elapsed \/ Upgrade \/ LoadPending \/ DropUpgraded

FlushStep(p) == Swap(p) \/ Sync(p) \/ Restore(p)

DropStep(p) == DropMap(p) \/ SetStop(p) \/ Notify(p) \/ Join(p)

UserCall(u) ==
  \/ DropHandle(u) \/ Unmap(u) \/ Resume(u) \/ \E v \in User : Clone(u, v)
  \/ Store(u) \/ CallFlush(u)

Next ==
  \/ WorkerStep \/ Timeout
  \/ \E p \in Proc : FlushStep(p) \/ SyncFails(p) \/ DropStep(p)
  \/ \E u \in User : UserCall(u) \/ Count(u)

Spec == Init /\ [][Next]_vars

(* Threads run, a call of the crate returns, views are dropped, and        *)
(* parking_lot does not starve a thread that waits for the mutex.  No      *)
(* fairness for Timeout: shutting down must not depend on the interval.    *)
(* None for the calls of the user.                                         *)
Fairness ==
  /\ WF_vars(WorkerStep) /\ SF_vars(Lock)
  /\ \A p \in Proc : WF_vars(DropStep(p)) /\ SF_vars(SetStop(p)) /\ WF_vars(FlushStep(p))
  /\ \A u \in User : WF_vars(Count(u))

FairSpec == Spec /\ Fairness

-----------------------------------------------------------------------------
(***************************************************************************)
(* Properties                                                              *)
(***************************************************************************)

DropPc   == {"drop_map", "set_stop", "notify", "join"}
FlushPc  == {"swap", "sync", "restore"}
UserPc   == DropPc \union FlushPc \union {"none", "has", "count", "refused", "file"}
WorkerPc == (DropPc \ {"join"}) \union FlushPc \union
  {"lock", "check", "park", "wait", "timed_out", "elapsed", "tick", "load", "release",
   "exited"}

(* Types of the shared state and of the threads.                           *)
TypeOK ==
  /\ strong \in Nat
  /\ mapped \in BOOLEAN /\ stop \in BOOLEAN
  /\ mutex \in SUBSET {Worker}
  /\ pc \in [Proc -> UserPc \union WorkerPc]
  /\ unmapping \subseteq User
  /\ dirty \in BOOLEAN /\ pending \in BOOLEAN
  /\ taken \subseteq Proc /\ failures \in 0 .. MaxFailures

(* The worker never flushes a mapping that is gone, whoever drops the last *)
(* handle while its callback runs; neither does a user.                    *)
FlushOnMapped == \A p \in Proc : pc[p] \in FlushPc => mapped

(* unmap: "The mapping is dropped (memory unmapped, background flusher     *)
(* stopped) before the file is returned".                                  *)
FileReturnedAlone ==
  \A u \in User : pc[u] = "file" => ~mapped /\ pc[Worker] = "exited"

(* Dropping the last handle, and unmap, return without waiting for the     *)
(* interval: the worker "is woken immediately on shutdown" and never       *)
(* misses the notification, and no thread waits for itself.                *)
DropReturns ==
  \A u \in User : pc[u] \in DropPc ~> pc[u] \in {"none", "file"}

(* The worker lives no longer than the mapping, also when it is the one    *)
(* that drops the last reference.                                          *)
WorkerStops == strong = 0 ~> pc[Worker] = "exited"

(* FlushPolicy::EveryMillis: "Flush automatically every N milliseconds     *)
(* when there are pending writes".  If the interval passes again and       *)
(* again, what is written reaches the disk while the mapping lives: the    *)
(* worker that finds nothing pending is not put off for ever by a store    *)
(* counted late or by a flush, its own or a user's, that took the count    *)
(* and failed.  Closing the mapping does not flush.                        *)
EventuallyDurable ==
  WF_vars(Timeout) => (dirty ~> ~dirty \/ strong = 0)

=============================================================================
