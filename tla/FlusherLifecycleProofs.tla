----------------------- MODULE FlusherLifecycleProofs -----------------------
(***************************************************************************)
(* Proofs about FlusherLifecycle for any set of threads, finite or not:    *)
(* the strong count counts the references that exist, so nobody flushes a  *)
(* mapping that is gone, unmap returns the file only when the worker is,   *)
(* and no thread joins a worker that sleeps through its shutdown.          *)
(***************************************************************************)
EXTENDS FlusherLifecycle, FiniteSetTheorems, TLAPS

-----------------------------------------------------------------------------
(***************************************************************************)
(* The inductive invariant                                                 *)
(***************************************************************************)

(* The threads with a strong reference: a handle of a user, also one that  *)
(* unmap has refused, and the upgraded reference of the callback.          *)
Holders ==
  {p \in Proc : pc[p] \in {"has", "count", "refused", "load", "swap", "sync", "restore",
                           "release"}}

(* The strong count is the number of references.                           *)
Counted == IsFiniteSet(Holders) /\ strong = Cardinality(Holders)

(* Only users are at the steps of a user, only the worker at its own.      *)
Places ==
  /\ \A u \in User : pc[u] \in UserPc
  /\ pc[Worker] \in WorkerPc

(* Inner is dropped, and the map with it, after the last reference; unmap  *)
(* takes Inner apart when it has the last one.                             *)
DroppedLast ==
  /\ ~mapped \/ unmapping # {} => strong = 0
  /\ \A p \in Proc : pc[p] = "drop_map" => strong = 0

(* unmap drops the map when the worker has exited, and returns the file    *)
(* when the map is dropped.                                                *)
UnmapOrder ==
  /\ \A u \in unmapping :
       /\ pc[u] \in {"set_stop", "notify", "join", "drop_map", "file"}
       /\ pc[u] \in {"drop_map", "file"} => pc[Worker] = "exited"
  /\ \A u \in User : pc[u] = "file" => u \in unmapping /\ ~mapped

(* The worker holds the mutex when it decides whether to wait, and who     *)
(* sets the flag finds it outside of that.                                 *)
Shutdown ==
  /\ mutex = {Worker} <=> pc[Worker] \in {"check", "park", "elapsed"}
  /\ \A p \in Proc : pc[p] \in {"notify", "join"} => stop
  /\ stop => pc[Worker] # "park"
  /\ \A p \in Proc : pc[p] = "join" => pc[Worker] # "wait"

IInv == TypeOK /\ Places /\ Counted /\ DroppedLast /\ UnmapOrder /\ Shutdown

(* Nobody joins a worker that waits on the condition variable or is about  *)
(* to: the notification of Drop for TimeBasedFlusher is never lost.        *)
NoLostWakeup ==
  \A p \in Proc : pc[p] = "join" => stop /\ pc[Worker] \notin {"park", "wait"}

-----------------------------------------------------------------------------
(***************************************************************************)
(* Counting references                                                     *)
(***************************************************************************)

(* Where a thread holds a strong reference.                                *)
HolderPc == {"has", "count", "refused", "load", "swap", "sync", "restore", "release"}

(* A reference that exists is counted.                                     *)
LEMMA HolderCounted ==
  ASSUME Counted, NEW p \in Proc, pc[p] \in HolderPc
  PROVE  strong \in Nat /\ strong > 0
  <1>1. p \in Holders
    BY DEF Holders, HolderPc
  <1> QED BY <1>1, FS_CardinalityType, FS_EmptySet DEF Counted

(* At zero nobody has a reference.                                         *)
LEMMA ZeroNobody ==
  ASSUME Counted, strong = 0
  PROVE  \A p \in Proc : pc[p] \notin HolderPc
  BY HolderCounted

(* A step of one thread that neither takes nor drops a reference.          *)
LEMMA SameCount ==
  ASSUME TypeOK, Counted, NEW p \in Proc, NEW label, Goto(p, label), strong' = strong,
         pc[p] \in HolderPc <=> label \in HolderPc
  PROVE  Counted'
  <1>1. \A q \in Proc : pc'[q] = IF q = p THEN label ELSE pc[q]
    BY DEF TypeOK, Goto
  <1>2. Holders' = Holders
    BY <1>1 DEF Holders, HolderPc
  <1> QED BY <1>2 DEF Counted

(* Clone and Weak::upgrade: one reference more, counted.                   *)
LEMMA OneMore ==
  ASSUME TypeOK, Counted, NEW p \in Proc, NEW label \in HolderPc, Goto(p, label),
         pc[p] \notin HolderPc, strong' = strong + 1
  PROVE  Counted'
  <1>1. \A q \in Proc : pc'[q] = IF q = p THEN label ELSE pc[q]
    BY DEF TypeOK, Goto
  <1>2. Holders' = Holders \union {p} /\ p \notin Holders
    BY <1>1 DEF Holders, HolderPc
  <1> QED BY <1>2, FS_AddElement DEF Counted

(* Arc::drop: one reference less, counted.                                 *)
LEMMA OneLess ==
  ASSUME TypeOK, Counted, NEW p \in Proc, NEW label, Goto(p, label),
         pc[p] \in HolderPc, label \notin HolderPc, strong' = strong - 1
  PROVE  Counted'
  <1>1. \A q \in Proc : pc'[q] = IF q = p THEN label ELSE pc[q]
    BY DEF TypeOK, Goto
  <1>2. Holders' = Holders \ {p} /\ p \in Holders
    BY <1>1 DEF Holders, HolderPc
  <1> QED BY <1>2, FS_RemoveElement DEF Counted

(* The first handle is the only reference.                                 *)
LEMMA InitInv == Init => IInv
  <1> SUFFICES ASSUME Init PROVE IInv
    OBVIOUS
  <1>1. PICK u \in User : pc = [p \in Proc |-> IF p = u THEN "has"
                                               ELSE IF p = Worker THEN "lock" ELSE "none"]
    BY DEF Init
  <1>2. u # Worker /\ Worker \in Proc /\ u \in Proc
    BY WorkerAssumption DEF Proc
  <1>3. TypeOK /\ Places
    <2>1. \A p \in Proc : pc[p] = IF p = u THEN "has" ELSE IF p = Worker THEN "lock" ELSE "none"
      BY <1>1
    <2>2. pc \in [Proc -> {"has", "lock", "none"}]
      BY <1>1
    <2>3. pc \in [Proc -> UserPc \union WorkerPc]
      BY <2>2 DEF UserPc, WorkerPc
    <2>4. TypeOK
      <3>1. /\ strong \in Nat /\ mutex \in SUBSET {Worker} /\ unmapping \subseteq User
            /\ taken \subseteq Proc /\ failures \in 0 .. MaxFailures
        BY BoundsAssumption DEF Init
      <3>2. mapped \in BOOLEAN /\ stop \in BOOLEAN /\ dirty \in BOOLEAN /\ pending \in BOOLEAN
        BY DEF Init
      <3> QED BY <2>3, <3>1, <3>2 DEF TypeOK
    <2>5. Places
      BY <1>2, <2>1, WorkerAssumption DEF Places, UserPc, WorkerPc, Proc
    <2> QED BY <2>4, <2>5
  <1>4. Counted
    <2>1. Holders = {u}
      BY <1>1, <1>2 DEF Holders
    <2> QED BY <2>1, FS_Singleton DEF Init, Counted
  <1>5. DroppedLast /\ UnmapOrder /\ Shutdown
    BY <1>1, <1>2 DEF Init, DroppedLast, UnmapOrder, Shutdown, Proc
  <1> QED BY <1>3, <1>4, <1>5 DEF IInv

-----------------------------------------------------------------------------
(***************************************************************************)
(* Handles                                                                 *)
(***************************************************************************)

(* A clone is a reference that the count knows.                            *)
LEMMA CloneInv ==
  ASSUME IInv, NEW u \in User, NEW v \in User, Clone(u, v)
  PROVE  IInv'
  <1>1. /\ u \in Proc /\ v \in Proc /\ v # Worker /\ pc[v] = "none" /\ Goto(v, "has")
        /\ UNCHANGED <<mapped, mutex, stop, unmapping, data>> /\ strong' = strong + 1
    BY WorkerAssumption DEF Clone, Proc
  <1>2. \A q \in Proc : pc'[q] = IF q = v THEN "has" ELSE pc[q]
    BY <1>1 DEF IInv, TypeOK, Goto
  <1>3. strong > 0
    BY <1>1, HolderCounted DEF IInv, Clone, HolderPc
  <1>4. TypeOK' /\ Places'
    BY <1>1, <1>2 DEF IInv, TypeOK, data, Places, Goto, UserPc, DropPc, FlushPc, Proc
  <1>5. Counted'
    BY <1>1, OneMore DEF IInv, HolderPc
  <1>6. DroppedLast'
    BY <1>1, <1>2, <1>3 DEF IInv, DroppedLast
  <1>7. UnmapOrder'
    BY <1>1, <1>2 DEF IInv, TypeOK, UnmapOrder, Proc
  <1>8. Shutdown'
    BY <1>1, <1>2 DEF IInv, Shutdown, Proc
  <1> QED BY <1>4, <1>5, <1>6, <1>7, <1>8 DEF IInv

(* Arc::drop by a user or by the callback of the worker: the last one goes *)
(* on to drop Inner.                                                       *)
LEMMA ReleaseInv ==
  ASSUME IInv, NEW p \in Proc, NEW otherwise, Release(p, otherwise),
         pc[p] \in HolderPc, UNCHANGED <<mapped, mutex, stop, unmapping, data>>,
         \/ p \in User /\ otherwise = "none"
         \/ p = Worker /\ otherwise = "lock"
  PROVE  IInv'
  <1> DEFINE label == IF strong = 1 THEN "drop_map" ELSE otherwise
  <1>1. /\ label \in {"drop_map", "none", "lock"} /\ (label = "drop_map" => strong = 1)
        /\ (p \in User => label \in UserPc) /\ (p = Worker => label \in WorkerPc)
    BY WorkerAssumption DEF UserPc, WorkerPc, DropPc
  <1>2. Goto(p, label) /\ strong' = strong - 1
    BY DEF Release
  <1> HIDE DEF label
  <1>3. \A q \in Proc : pc'[q] = IF q = p THEN label ELSE pc[q]
    BY <1>2 DEF IInv, TypeOK, Goto
  <1>4. strong \in Nat /\ strong > 0 /\ mapped /\ unmapping = {}
    BY HolderCounted DEF IInv, DroppedLast
  <1>5. TypeOK' /\ Places'
    <2>1. label \in UserPc \union WorkerPc
      BY <1>1 DEF UserPc, WorkerPc, DropPc
    <2>2. TypeOK'
      BY <1>2, <1>4, <2>1 DEF IInv, TypeOK, data, Goto
    <2>3. Places'
      BY <1>1, <1>3 DEF IInv, Places, Proc
    <2> QED BY <2>2, <2>3
  <1>6. Counted'
    BY <1>1, <1>2, OneLess DEF IInv, HolderPc
  <1>7. DroppedLast'
    <2>1. \A q \in Proc : pc[q] # "drop_map"
      BY <1>4 DEF IInv, DroppedLast
    <2> QED BY <1>1, <1>2, <1>3, <1>4, <2>1 DEF DroppedLast
  <1>8. UnmapOrder'
    BY <1>1, <1>3 DEF IInv, TypeOK, UnmapOrder, HolderPc, Proc
  <1>9. Shutdown'
    BY <1>1, <1>3 DEF IInv, Shutdown, HolderPc, Proc
  <1> QED BY <1>5, <1>6, <1>7, <1>8, <1>9 DEF IInv

(* unmap takes the mapping apart if this is the last reference, and hands  *)
(* the handle back if not.                                                 *)
LEMMA UnmapInv ==
  ASSUME IInv, NEW u \in User, Unmap(u)
  PROVE  IInv'
  <1>1. u \in Proc /\ u # Worker /\ pc[u] = "has" /\ UNCHANGED <<mapped, mutex, stop, data>>
    BY WorkerAssumption DEF Unmap, Proc
  <1>2. strong \in Nat /\ strong > 0 /\ mapped /\ u \notin unmapping
    BY <1>1, HolderCounted DEF IInv, DroppedLast, UnmapOrder, HolderPc
  <1>3. CASE strong = 1 /\ strong' = 0 /\ unmapping' = unmapping \union {u} /\ Goto(u, "set_stop")
    <2>1. \A q \in Proc : pc'[q] = IF q = u THEN "set_stop" ELSE pc[q]
      BY <1>1, <1>3 DEF IInv, TypeOK, Goto
    <2>2. TypeOK' /\ Places'
      BY <1>1, <1>3, <2>1 DEF IInv, TypeOK, data, Places, Goto, UserPc, DropPc, FlushPc, Proc
    <2>3. Counted'
      BY <1>1, <1>3, OneLess DEF IInv, HolderPc
    <2>4. DroppedLast'
      BY <1>1, <1>3, <2>1 DEF DroppedLast
    <2>5. UnmapOrder'
      BY <1>1, <1>3, <2>1 DEF IInv, TypeOK, UnmapOrder, Proc
    <2>6. Shutdown'
      BY <1>1, <2>1 DEF IInv, Shutdown, Proc
    <2> QED BY <2>2, <2>3, <2>4, <2>5, <2>6 DEF IInv
  <1>4. CASE Goto(u, "refused") /\ UNCHANGED <<strong, unmapping, data>>
    <2>1. \A q \in Proc : pc'[q] = IF q = u THEN "refused" ELSE pc[q]
      BY <1>1, <1>4 DEF IInv, TypeOK, Goto
    <2>2. TypeOK' /\ Places'
      BY <1>1, <1>4, <2>1 DEF IInv, TypeOK, data, Places, Goto, UserPc, Proc
    <2>3. Counted'
      BY <1>1, <1>4, SameCount DEF IInv, HolderPc
    <2>4. DroppedLast'
      BY <1>1, <1>4, <2>1 DEF IInv, DroppedLast
    <2>5. UnmapOrder' /\ Shutdown'
      BY <1>1, <1>2, <1>4, <2>1 DEF IInv, TypeOK, UnmapOrder, Shutdown, Proc
    <2> QED BY <2>2, <2>3, <2>4, <2>5 DEF IInv
  <1> QED BY <1>3, <1>4 DEF Unmap

(* The caller of a refused unmap goes on with its handle.                  *)
LEMMA ResumeInv ==
  ASSUME IInv, NEW u \in User, Resume(u)
  PROVE  IInv'
  <1>1. /\ u \in Proc /\ u # Worker /\ pc[u] = "refused" /\ Goto(u, "has")
        /\ UNCHANGED <<strong, mapped, mutex, stop, unmapping, data>> /\ u \notin unmapping
    BY WorkerAssumption DEF life, IInv, UnmapOrder, Resume, Proc
  <1>2. \A q \in Proc : pc'[q] = IF q = u THEN "has" ELSE pc[q]
    BY <1>1 DEF IInv, TypeOK, Goto
  <1>3. TypeOK' /\ Places'
    BY <1>1, <1>2 DEF IInv, TypeOK, data, Places, Goto, UserPc, Proc
  <1>4. Counted'
    BY <1>1, SameCount DEF IInv, HolderPc
  <1>5. DroppedLast' /\ UnmapOrder' /\ Shutdown'
    BY <1>1, <1>2 DEF IInv, TypeOK, DroppedLast, UnmapOrder, Shutdown, Proc
  <1> QED BY <1>3, <1>4, <1>5 DEF IInv

-----------------------------------------------------------------------------
(***************************************************************************)
(* Writes and flushes                                                      *)
(***************************************************************************)

(* Steps of a thread that keeps its reference and may change the data.     *)
LEMMA DataInv ==
  ASSUME IInv, NEW p \in Proc, NEW label, Goto(p, label), UNCHANGED life,
         pc[p] \in HolderPc, label \in HolderPc,
         p \in User => label \in UserPc,
         p = Worker => label \in WorkerPc,
         dirty' \in BOOLEAN, pending' \in BOOLEAN, taken' \subseteq Proc,
         failures' \in 0 .. MaxFailures
  PROVE  IInv'
  <1>1. \A q \in Proc : pc'[q] = IF q = p THEN label ELSE pc[q]
    BY DEF IInv, TypeOK, Goto
  <1>2. UNCHANGED <<strong, mapped, mutex, stop, unmapping>>
    BY DEF life
  <1>3. label \in UserPc \union WorkerPc
    BY DEF Proc
  <1>4. TypeOK'
    BY <1>2, <1>3 DEF IInv, TypeOK, Goto
  <1>5. Places'
    BY <1>1, WorkerAssumption DEF IInv, Places, Proc
  <1>6. Counted'
    BY <1>2, SameCount DEF IInv
  <1>7. DroppedLast'
    BY <1>1, <1>2 DEF IInv, DroppedLast, HolderPc
  <1>8. UnmapOrder'
    BY <1>1, <1>2, WorkerAssumption DEF IInv, TypeOK, UnmapOrder, HolderPc, Proc
  <1>9. Shutdown'
    BY <1>1, <1>2 DEF IInv, Shutdown, HolderPc, Proc
  <1> QED BY <1>4, <1>5, <1>6, <1>7, <1>8, <1>9 DEF IInv

(* A store, its count and a call of flush keep the handle.                 *)
LEMMA WriteInv ==
  ASSUME IInv, NEW u \in User, Store(u) \/ Count(u) \/ CallFlush(u)
  PROVE  IInv'
  <1> USE DEF UserPc, FlushPc, HolderPc
  <1>1. u \in Proc /\ u # Worker
    BY WorkerAssumption DEF Proc
  <1>2. ASSUME Store(u) PROVE IInv'
    BY <1>1, <1>2, DataInv DEF Store, IInv, TypeOK
  <1>3. ASSUME Count(u) PROVE IInv'
    BY <1>1, <1>3, DataInv DEF Count, IInv, TypeOK
  <1>4. ASSUME CallFlush(u) PROVE IInv'
    BY <1>1, <1>4, DataInv DEF CallFlush, data, IInv, TypeOK
  <1> QED BY <1>2, <1>3, <1>4

(* A flush, failing or not, keeps the reference it runs under.             *)
LEMMA FlushInv ==
  ASSUME IInv, NEW p \in Proc, FlushStep(p) \/ SyncFails(p)
  PROVE  IInv'
  <1>1. AfterFlush(p) \in HolderPc
    BY DEF AfterFlush, HolderPc
  <1>2. /\ p \in User => AfterFlush(p) \in UserPc
        /\ p = Worker => AfterFlush(p) \in WorkerPc
    BY WorkerAssumption DEF AfterFlush, UserPc, WorkerPc
  <1>3. {"swap", "sync", "restore"} \subseteq HolderPc \intersect UserPc \intersect WorkerPc
    BY DEF HolderPc, UserPc, WorkerPc, FlushPc
  <1>4. ASSUME Swap(p) PROVE IInv'
    BY <1>3, <1>4, DataInv DEF Swap, IInv, TypeOK
  <1>5. ASSUME Sync(p) PROVE IInv'
    BY <1>1, <1>2, <1>3, <1>5, DataInv DEF Sync, IInv, TypeOK
  <1>6. ASSUME Restore(p) PROVE IInv'
    BY <1>1, <1>2, <1>3, <1>6, DataInv DEF Restore, IInv, TypeOK
  <1>7. ASSUME SyncFails(p) PROVE IInv'
    <2>1. failures' \in 0 .. MaxFailures
      BY <1>7, BoundsAssumption DEF SyncFails, IInv, TypeOK
    <2> QED BY <1>3, <1>7, <2>1, DataInv DEF SyncFails, IInv, TypeOK
  <1> QED BY <1>4, <1>5, <1>6, <1>7 DEF FlushStep

-----------------------------------------------------------------------------
(***************************************************************************)
(* Dropping Inner                                                          *)
(***************************************************************************)

(* The map is dropped after the last reference; in unmap after the worker. *)
LEMMA DropMapInv ==
  ASSUME IInv, NEW p \in Proc, DropMap(p)
  PROVE  IInv'
  <1> DEFINE label == IF p \in unmapping THEN "file" ELSE "set_stop"
  <1>1. /\ pc[p] = "drop_map" /\ strong = 0 /\ Goto(p, label) /\ mapped' = FALSE
        /\ UNCHANGED <<strong, mutex, stop, unmapping, data>>
    BY DEF IInv, DroppedLast, DropMap
  <1>2. /\ label \in {"file", "set_stop"}
        /\ label = "file" => p \in unmapping /\ p \in User /\ p # Worker
        /\ p \in unmapping => label = "file" /\ pc[Worker] = "exited"
    BY <1>1, WorkerAssumption DEF IInv, TypeOK, UnmapOrder
  <1> HIDE DEF label
  <1>3. \A q \in Proc : pc'[q] = IF q = p THEN label ELSE pc[q]
    BY <1>1 DEF IInv, TypeOK, Goto
  <1>4. TypeOK'
    BY <1>1, <1>2 DEF IInv, TypeOK, data, Goto, UserPc, DropPc, FlushPc
  <1>5. Places'
    BY <1>2, <1>3 DEF IInv, Places, UserPc, WorkerPc, DropPc, FlushPc, Proc
  <1>6. Counted'
    BY <1>1, <1>2, SameCount DEF IInv, HolderPc
  <1>7. DroppedLast'
    BY <1>1 DEF DroppedLast
  <1>8. UnmapOrder'
    BY <1>1, <1>2, <1>3 DEF IInv, TypeOK, UnmapOrder, Proc
  <1>9. Shutdown'
    BY <1>1, <1>2, <1>3 DEF IInv, Shutdown, Proc
  <1> QED BY <1>4, <1>5, <1>6, <1>7, <1>8, <1>9 DEF IInv

(* The flag is set under its mutex, so not while the worker decides        *)
(* whether to wait.                                                        *)
LEMMA SetStopInv ==
  ASSUME IInv, NEW p \in Proc, SetStop(p)
  PROVE  IInv'
  <1>1. /\ pc[p] = "set_stop" /\ mutex = {} /\ stop' = TRUE /\ Goto(p, "notify")
        /\ UNCHANGED <<strong, mapped, mutex, unmapping, data>> /\ Worker \in Proc
    BY DEF SetStop, Proc
  <1>2. \A q \in Proc : pc'[q] = IF q = p THEN "notify" ELSE pc[q]
    BY <1>1 DEF IInv, TypeOK, Goto
  <1>3. TypeOK' /\ Places'
    BY <1>1, <1>2 DEF IInv, TypeOK, data, Places, Goto, UserPc, WorkerPc, DropPc, FlushPc, Proc
  <1>4. Counted'
    BY <1>1, SameCount DEF IInv, HolderPc
  <1>5. DroppedLast' /\ UnmapOrder'
    BY <1>1, <1>2, WorkerAssumption DEF IInv, TypeOK, DroppedLast, UnmapOrder, Proc
  <1>6. Shutdown'
    BY <1>1, <1>2 DEF IInv, Shutdown, Proc
  <1> QED BY <1>3, <1>4, <1>5, <1>6 DEF IInv

(* The notification wakes the worker if it waits; the worker itself goes   *)
(* back to its loop, everybody else joins it.                              *)
LEMMA NotifyInv ==
  ASSUME IInv, NEW p \in Proc, Notify(p)
  PROVE  IInv'
  <1> DEFINE label == IF p = Worker THEN AfterFlusher(p) ELSE "join"
  <1>1. /\ pc[p] = "notify" /\ Worker \in Proc /\ stop
        /\ UNCHANGED <<strong, mapped, mutex, stop, unmapping, data>>
    BY DEF life, IInv, Shutdown, Notify, Proc
  <1>2. IF p = Worker THEN label = "lock" ELSE label = "join" /\ p \in User
    BY WorkerAssumption DEF IInv, TypeOK, AfterFlusher, Proc
  <1>3. pc' = [pc EXCEPT ![Worker] = IF @ = "wait" THEN "lock" ELSE @, ![p] = label]
    BY DEF life, Notify, Wake
  <1> HIDE DEF label
  <1>4. \A q \in Proc : pc'[q] = IF q = p THEN label
                                 ELSE IF q = Worker /\ pc[q] = "wait" THEN "lock" ELSE pc[q]
    BY <1>1, <1>3 DEF IInv, TypeOK
  <1>5. TypeOK'
    <2>1. pc' \in [Proc -> UserPc \union WorkerPc]
      BY <1>1, <1>2, <1>3 DEF IInv, TypeOK, UserPc, WorkerPc, DropPc
    <2> QED BY <1>1, <2>1 DEF IInv, TypeOK, data
  <1>6. Places'
    BY <1>1, <1>2, <1>4, WorkerAssumption DEF IInv, Places, UserPc, WorkerPc, DropPc, FlushPc, Proc
  <1>7. Counted'
    <2>1. Holders' = Holders
      BY <1>1, <1>2, <1>4 DEF Holders
    <2> QED BY <1>1, <2>1 DEF IInv, Counted
  <1>8. DroppedLast'
    BY <1>1, <1>2, <1>4 DEF IInv, DroppedLast
  <1>9. UnmapOrder'
    BY <1>1, <1>2, <1>4, WorkerAssumption DEF IInv, TypeOK, UnmapOrder, Proc
  <1>10. Shutdown'
    BY <1>1, <1>2, <1>4 DEF IInv, Shutdown
  <1> QED BY <1>5, <1>6, <1>7, <1>8, <1>9, <1>10 DEF IInv

(* A thread that joined goes on when the worker has exited: in unmap to    *)
(* drop the map, which the last reference let go of.                       *)
LEMMA JoinInv ==
  ASSUME IInv, NEW p \in Proc, Join(p)
  PROVE  IInv'
  <1>1. /\ pc[p] = "join" /\ pc[Worker] = "exited" /\ Goto(p, AfterFlusher(p))
        /\ UNCHANGED <<strong, mapped, mutex, stop, unmapping, data>>
        /\ p \in User /\ p # Worker /\ Worker \in Proc
    BY DEF life, Join, Proc
  <1> DEFINE label == AfterFlusher(p)
  <1>2. \/ label = "drop_map" /\ p \in unmapping
        \/ label = "none" /\ p \notin unmapping
    BY <1>1 DEF AfterFlusher
  <1>3. Goto(p, label)
    BY <1>1
  <1> HIDE DEF label
  <1>4. \A q \in Proc : pc'[q] = IF q = p THEN label ELSE pc[q]
    BY <1>3 DEF IInv, TypeOK, Goto
  <1>5. TypeOK' /\ Places'
    BY <1>1, <1>2, <1>3, <1>4 DEF IInv, TypeOK, data, Places, Goto, UserPc, DropPc, FlushPc, Proc
  <1>6. Counted'
    BY <1>1, <1>2, <1>3, SameCount DEF IInv, HolderPc
  <1>7. DroppedLast'
    BY <1>1, <1>2, <1>4 DEF IInv, DroppedLast, UnmapOrder
  <1>8. UnmapOrder'
    BY <1>1, <1>2, <1>4 DEF IInv, TypeOK, UnmapOrder, Proc
  <1>9. Shutdown'
    BY <1>1, <1>2, <1>4 DEF IInv, Shutdown
  <1> QED BY <1>5, <1>6, <1>7, <1>8, <1>9 DEF IInv

-----------------------------------------------------------------------------
(***************************************************************************)
(* The worker                                                              *)
(***************************************************************************)

(* Steps of the worker's loop that touch no reference and not the flag.    *)
LEMMA LoopInv ==
  ASSUME IInv, NEW label \in WorkerPc, Goto(Worker, label),
         UNCHANGED <<strong, mapped, stop, unmapping, data>>, mutex' \in SUBSET {Worker},
         pc[Worker] # "exited", label \notin {"drop_map", "notify"},
         pc[Worker] \in HolderPc <=> label \in HolderPc,
         mutex' = {Worker} <=> label \in {"check", "park", "elapsed"},
         label = "park" => ~stop,
         label = "wait" => pc[Worker] = "park"
  PROVE  IInv'
  <1>1. Worker \in Proc /\ \A q \in Proc : pc'[q] = IF q = Worker THEN label ELSE pc[q]
    BY DEF IInv, TypeOK, Goto, Proc
  <1>2. label # "join"
    BY DEF WorkerPc, DropPc, FlushPc
  <1>3. TypeOK'
    BY DEF IInv, TypeOK, data, Goto
  <1>4. Places'
    BY <1>1, WorkerAssumption DEF IInv, Places, Proc
  <1>5. Counted'
    BY <1>1, SameCount DEF IInv
  <1>6. DroppedLast'
    BY <1>1 DEF IInv, DroppedLast
  <1>7. UnmapOrder'
    BY <1>1, WorkerAssumption DEF IInv, TypeOK, UnmapOrder, Proc
  <1>8. Shutdown'
    BY <1>1, <1>2 DEF IInv, Shutdown
  <1> QED BY <1>3, <1>4, <1>5, <1>6, <1>7, <1>8 DEF IInv

(* Every step of the worker, and its timeout, keeps the invariant.         *)
LEMMA WorkerInv ==
  ASSUME IInv, WorkerStep \/ Timeout
  PROVE  IInv'
  <1> USE DEF WorkerPc, DropPc, FlushPc, HolderPc
  <1>1. ASSUME Lock PROVE IInv'
    <2>1. CASE pc[Worker] = "lock"
      BY <1>1, <2>1, LoopInv DEF Lock
    <2>2. CASE pc[Worker] = "timed_out"
      BY <1>1, <2>2, LoopInv DEF Lock
    <2> QED BY <1>1, <2>1, <2>2 DEF Lock
  <1>2. ASSUME Check PROVE IInv'
    <2>1. mutex' = mutex /\ mutex = {Worker}
      BY <1>2 DEF life, IInv, Shutdown, Check
    <2>2. CASE stop
      BY <1>2, <2>1, <2>2, LoopInv DEF life, Check
    <2>3. CASE ~stop
      BY <1>2, <2>1, <2>3, LoopInv DEF life, Check
    <2> QED BY <2>2, <2>3
  <1>3. ASSUME Park PROVE IInv'
    BY <1>3, LoopInv DEF Park
  <1>4. ASSUME Timeout PROVE IInv'
    BY <1>4, LoopInv DEF life, Timeout, IInv, TypeOK, Shutdown
  <1>5. ASSUME Elapsed PROVE IInv'
    <2>1. CASE stop
      BY <1>5, <2>1, LoopInv DEF Elapsed
    <2>2. CASE ~stop
      BY <1>5, <2>2, LoopInv DEF Elapsed
    <2> QED BY <2>1, <2>2
  <1>6. ASSUME LoadPending PROVE IInv'
    <2>1. CASE pending
      BY <1>6, <2>1, LoopInv DEF LoadPending, life, IInv, TypeOK, Shutdown
    <2>2. CASE ~pending
      BY <1>6, <2>2, LoopInv DEF LoadPending, life, IInv, TypeOK, Shutdown
    <2> QED BY <2>1, <2>2
  <1>7. ASSUME DropUpgraded PROVE IInv'
    BY <1>7, ReleaseInv DEF DropUpgraded, Proc
  <1>8. ASSUME Upgrade PROVE IInv'
    <2>1. CASE strong = 0
      <3>1. UNCHANGED <<strong, mapped, mutex, stop, unmapping, data>> /\ Goto(Worker, "lock")
        BY <1>8, <2>1 DEF Upgrade
      <3> QED BY <1>8, <3>1, LoopInv DEF Upgrade, IInv, TypeOK, Shutdown
    <2>2. CASE strong # 0
      <3>1. /\ strong' = strong + 1 /\ Goto(Worker, "load") /\ pc[Worker] = "tick"
            /\ UNCHANGED <<mapped, mutex, stop, unmapping, data>> /\ strong > 0 /\ strong \in Nat
            /\ Worker \in Proc
        BY <1>8, <2>2 DEF Upgrade, IInv, TypeOK, Proc
      <3>2. \A q \in Proc : pc'[q] = IF q = Worker THEN "load" ELSE pc[q]
        BY <3>1 DEF IInv, TypeOK, Goto
      <3>3. TypeOK'
        BY <3>1 DEF IInv, TypeOK, data, Goto
      <3>4. Places'
        BY <3>1, <3>2, WorkerAssumption DEF IInv, Places, Proc
      <3>5. Counted'
        BY <3>1, OneMore DEF IInv
      <3>6. DroppedLast'
        BY <3>1, <3>2 DEF IInv, DroppedLast
      <3>7. UnmapOrder'
        BY <3>1, <3>2, WorkerAssumption DEF IInv, TypeOK, UnmapOrder, Proc
      <3>8. Shutdown'
        BY <3>1, <3>2 DEF IInv, Shutdown
      <3> QED BY <3>3, <3>4, <3>5, <3>6, <3>7, <3>8 DEF IInv
    <2> QED BY <2>1, <2>2
  <1> QED BY <1>1, <1>2, <1>3, <1>4, <1>5, <1>6, <1>7, <1>8 DEF WorkerStep

-----------------------------------------------------------------------------
(***************************************************************************)
(* The theorems                                                            *)
(***************************************************************************)

(* The inductive invariant holds in every reachable state.                 *)
THEOREM Invariance == Spec => []IInv
  <1>1. IInv /\ [Next]_vars => IInv'
    <2> SUFFICES ASSUME IInv, [Next]_vars PROVE IInv'
      OBVIOUS
    <2>1. ASSUME NEW p \in Proc, DropStep(p) PROVE IInv'
      BY <2>1, DropMapInv, SetStopInv, NotifyInv, JoinInv DEF DropStep
    <2>2. ASSUME NEW u \in User, DropHandle(u) PROVE IInv'
      BY <2>2, ReleaseInv DEF DropHandle, Proc, HolderPc
    <2>3. ASSUME NEW u \in User, UserCall(u) PROVE IInv'
      BY <2>2, <2>3, UnmapInv, ResumeInv, CloneInv, WriteInv DEF UserCall
    <2>4. CASE UNCHANGED vars
      BY <2>4 DEF vars, life, data, IInv, TypeOK, Places, Counted, Holders, DroppedLast, UnmapOrder,
         Shutdown
    <2> QED BY <2>1, <2>3, <2>4, WriteInv, FlushInv, WorkerInv DEF Next
  <1> QED BY <1>1, InitInv, PTL DEF Spec

(* Types: the strong count is a natural number, Arc never counts below     *)
(* zero, and only the worker holds the mutex between steps.                *)
THEOREM TypeCorrect == Spec => []TypeOK
  <1>1. IInv => TypeOK
    BY DEF IInv
  <1> QED BY <1>1, Invariance, PTL

(* The worker's callback flushes only a mapping that exists, whoever drops *)
(* the last handle meanwhile: its upgraded reference is counted.           *)
THEOREM FlushSafe == Spec => []FlushOnMapped
  <1>1. IInv => FlushOnMapped
    BY HolderCounted DEF IInv, DroppedLast, FlushOnMapped, FlushPc, HolderPc, Proc
  <1> QED BY <1>1, Invariance, PTL

(* unmap returns the file when the map is dropped and the worker has       *)
(* exited: nobody else can touch the file through this mapping.            *)
THEOREM FileAlone == Spec => []FileReturnedAlone
  <1>1. IInv => FileReturnedAlone
    BY DEF IInv, UnmapOrder, FileReturnedAlone
  <1> QED BY <1>1, Invariance, PTL

(* The safety part of a prompt shutdown: whoever joins the worker has set  *)
(* the flag and woken it, and the worker will not wait again.              *)
THEOREM WakeupNotLost == Spec => []NoLostWakeup
  <1>1. IInv => NoLostWakeup
    BY DEF IInv, Shutdown, NoLostWakeup
  <1> QED BY <1>1, Invariance, PTL

=============================================================================
