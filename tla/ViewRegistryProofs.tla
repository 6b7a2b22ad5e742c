------------------------ MODULE ViewRegistryProofs ------------------------
(***************************************************************************)
(* Proofs, for every set of views, ranges, element sizes and number of     *)
(* shards, that the registry protocol of src/views.rs is safe.  IInv of    *)
(* ViewRegistry is inductive: one lemma per action, one step per conjunct. *)
(***************************************************************************)
EXTENDS ViewRegistry, FiniteSetTheorems, FunctionTheorems, TLAPS

(* The record that stands for "no request" is a request.                   *)
LEMMA NoRequestType == NoRequest \in Request
  BY ShardsAssumption DEF NoRequest, Request, Shard

(* The views that atomic_live counts are finitely many.                    *)
LEMMA AnnouncedFinite == IsFiniteSet(Announced)
  BY ViewAssumption, FS_Subset DEF Announced, Registered

(* The counter the fast path of register_plain loads is not zero while an  *)
(* atomic view is announced or registered.                                 *)
LEMMA LiveNonZero ==
  ASSUME IInv, NEW v \in Announced
  PROVE  atomic_live # 0
  BY AnnouncedFinite, FS_EmptySet DEF IInv, CountInv

(* The initial state satisfies the inductive invariant.                    *)
LEMMA InitInv == Init => IInv
  <1> SUFFICES ASSUME Init PROVE IInv
    OBVIOUS
  <1>1. TypeOK
    BY NoRequestType, ShardsAssumption DEF Init, TypeOK, LockType, Unlocked, Shard
  <1>2. RangeInv /\ NonEmptyEntries /\ PlainInv /\ NoLeakedEntry
    BY DEF Init, RangeInv, NonEmptyEntries, PlainInv, NoLeakedEntry, PlainPc, WriterPc
  <1>3. LockInv
    BY DEF Init, LockInv, Unlocked, WriterPc
  <1>4. Announced = {} /\ Registered = {}
    BY DEF Init, Announced, Registered
  <1>5. EntryInv /\ CountInv
    BY <1>4, FS_EmptySet DEF Init, EntryInv, CountInv
  <1>6. ScanStart /\ ScanInv /\ SizeInv /\ CopyInv
    BY DEF Init, ScanStart, ScanInv, SizeInv, CopyInv
  <1> QED BY <1>1, <1>2, <1>3, <1>5, <1>6 DEF IInv

(* A plain view publishes its range: nothing is live yet.                   *)
LEMMA InsertPlainInv ==
  ASSUME IInv, NEW v \in View,
         NEW kind \in {"slice", "item"}, NEW span \in PlainSpan, NEW shard \in Shard, InsertPlain(v, kind, span, shard)
  PROVE  IInv'
  <1>1. TypeOK
    BY DEF IInv
  <1>2. TypeOK'
    BY <1>1, ShardsAssumption, SpanAssumption DEF TypeOK, InsertPlain, Goto, Request, Kind, PlainPc
  <1> USE <1>1 DEF TypeOK, InsertPlain, Goto
  <1>3. RangeInv'
    BY SpanAssumption DEF IInv, RangeInv, Request, PlainPc, WriterPc
  <1>4. NonEmptyEntries'
    BY DEF IInv, NonEmptyEntries
  <1>5. LockInv'
    BY DEF IInv, LockInv, PlainPc, WriterPc, LockType
  <1>6. PlainInv'
    BY SpanAssumption DEF IInv, PlainInv, PlainPc, PlainEntry, Request
  <1>7. EntryInv'
    BY DEF IInv, EntryInv, Registered, AtomicEntry
  <1>8. NoLeakedEntry'
    BY SpanAssumption DEF IInv, NoLeakedEntry, PlainEntry, AtomicEntry, PlainPc, Request
  <1>9. CountInv'
    <2>1. Announced' = Announced
      BY DEF Announced, Registered
    <2> QED BY <2>1 DEF IInv, CountInv
  <1>10. ScanStart'
    BY DEF IInv, ScanStart
  <1>11. ScanInv'
    BY DEF IInv, ScanInv, Registered, overlaps
  <1>12. SizeInv'
    BY DEF IInv, SizeInv, overlaps
  <1>13. CopyInv'
    BY DEF IInv, CopyInv, LockInv, WriterPc, overlaps
  <1> QED BY <1>2, <1>3, <1>4, <1>5, <1>6, <1>7, <1>8,
            <1>9, <1>10, <1>11, <1>12, <1>13 DEF IInv

(* The fast path: with a zero counter no atomic view is announced.          *)
LEMMA LoadAtomicLiveInv ==
  ASSUME IInv, NEW v \in View, LoadAtomicLive(v)
  PROVE  IInv'
  <1>1. TypeOK
    BY DEF IInv
  <1>2. TypeOK'
    BY <1>1 DEF TypeOK, LoadAtomicLive, Goto, PlainPc
  <1> USE <1>1 DEF TypeOK, LoadAtomicLive, Goto
  <1>3. RangeInv'
    BY DEF IInv, RangeInv, Request, PlainPc, WriterPc
  <1>4. NonEmptyEntries'
    BY DEF IInv, NonEmptyEntries
  <1>5. LockInv'
    BY DEF IInv, LockInv, PlainPc, WriterPc, LockType
  <1>6. PlainInv'
    BY DEF IInv, PlainInv, PlainPc, PlainEntry, Request
  <1>7. EntryInv'
    BY DEF IInv, EntryInv, Registered, AtomicEntry
  <1>8. NoLeakedEntry'
    BY DEF IInv, NoLeakedEntry, PlainEntry, AtomicEntry, PlainPc, Request
  <1>9. CountInv'
    <2>1. Announced' = Announced
      BY DEF Announced, Registered
    <2> QED BY <2>1 DEF IInv, CountInv
  <1>10. ScanStart'
    BY DEF IInv, ScanStart
  <1>11. ScanInv'
    BY LiveNonZero DEF IInv, ScanInv, Registered, overlaps, Announced
  <1>12. SizeInv'
    BY DEF IInv, SizeInv, overlaps
  <1>13. CopyInv'
    BY DEF IInv, CopyInv, LockInv, WriterPc, overlaps
  <1> QED BY <1>2, <1>3, <1>4, <1>5, <1>6, <1>7, <1>8,
            <1>9, <1>10, <1>11, <1>12, <1>13 DEF IInv

(* The slow path: no writer is active, so the atomic set is complete.       *)
LEMMA CheckAtomicsInv ==
  ASSUME IInv, NEW v \in View, CheckAtomics(v)
  PROVE  IInv'
  <1>1. TypeOK
    BY DEF IInv
  <1>2. TypeOK'
    BY <1>1 DEF TypeOK, CheckAtomics, Goto, PlainPc
  <1> USE <1>1 DEF TypeOK, CheckAtomics, Goto
  <1>3. RangeInv'
    BY DEF IInv, RangeInv, Request, PlainPc, WriterPc
  <1>4. NonEmptyEntries'
    BY DEF IInv, NonEmptyEntries
  <1>5. LockInv'
    BY DEF IInv, LockInv, PlainPc, WriterPc, LockType, CanRead
  <1>6. PlainInv'
    BY DEF IInv, PlainInv, PlainPc, PlainEntry, Request
  <1>7. EntryInv'
    BY DEF IInv, EntryInv, Registered, AtomicEntry
  <1>8. NoLeakedEntry'
    BY DEF IInv, NoLeakedEntry, PlainEntry, AtomicEntry, PlainPc, Request
  <1>9. CountInv'
    <2>1. Announced' = Announced
      BY DEF Announced, Registered
    <2> QED BY <2>1 DEF IInv, CountInv
  <1>10. ScanStart'
    BY DEF IInv, ScanStart
  <1>11. ScanInv'
    <2>1. SUFFICES ASSUME NEW a \in View, pc'[v] = "p_live", overlaps(req[v], req[a])
                   PROVE  pc[a] # "a_scan" /\ pc[a] # "a_insert" /\ a \notin Registered
      BY DEF IInv, ScanInv, Registered
    <2>2. \A e \in entries : ~overlaps(e, req[v])
      BY <2>1
    <2>3. a \notin Registered
      <3>1. SUFFICES ASSUME a \in Registered PROVE overlaps(AtomicEntry(a), req[v])
        BY <2>2 DEF IInv, EntryInv
      <3> QED BY <2>1 DEF AtomicEntry, overlaps
    <2> QED BY <2>3 DEF IInv, LockInv, CanRead, WriterPc
  <1>12. SizeInv'
    BY DEF IInv, SizeInv, overlaps
  <1>13. CopyInv'
    BY DEF IInv, CopyInv, LockInv, WriterPc, overlaps
  <1> QED BY <1>2, <1>3, <1>4, <1>5, <1>6, <1>7, <1>8,
            <1>9, <1>10, <1>11, <1>12, <1>13 DEF IInv

(* A refused plain view takes its entry back.                               *)
LEMMA UndoPlainInv ==
  ASSUME IInv, NEW v \in View, UndoPlain(v)
  PROVE  IInv'
  <1>1. TypeOK
    BY DEF IInv
  <1>2. TypeOK'
    BY <1>1, NoRequestType DEF TypeOK, UndoPlain, Goto, Return, RemovePlain
  <1> USE <1>1 DEF TypeOK, UndoPlain, Goto, Return, NoRequest, RemovePlain
  <1>3. RangeInv'
    BY DEF IInv, RangeInv, Request, PlainPc, WriterPc
  <1>4. NonEmptyEntries'
    BY DEF IInv, NonEmptyEntries
  <1>5. LockInv'
    BY DEF IInv, LockInv, PlainPc, WriterPc, LockType
  <1>6. PlainInv'
    BY DEF IInv, PlainInv, PlainPc, PlainEntry, Request
  <1>7. EntryInv'
    BY DEF IInv, EntryInv, Registered, AtomicEntry
  <1>8. NoLeakedEntry'
    BY DEF IInv, NoLeakedEntry, PlainEntry, AtomicEntry, PlainPc, Request
  <1>9. CountInv'
    <2>1. Announced' = Announced
      BY DEF Announced, Registered
    <2> QED BY <2>1 DEF IInv, CountInv
  <1>10. ScanStart'
    BY DEF IInv, ScanStart
  <1>11. ScanInv'
    BY DEF IInv, ScanInv, Registered, overlaps
  <1>12. SizeInv'
    BY DEF IInv, SizeInv, overlaps
  <1>13. CopyInv'
    BY DEF IInv, CopyInv, LockInv, WriterPc, overlaps
  <1> QED BY <1>2, <1>3, <1>4, <1>5, <1>6, <1>7, <1>8,
            <1>9, <1>10, <1>11, <1>12, <1>13 DEF IInv

(* A plain view is dropped.                                                 *)
LEMMA DropPlainInv ==
  ASSUME IInv, NEW v \in View, DropPlain(v)
  PROVE  IInv'
  <1>1. TypeOK
    BY DEF IInv
  <1>2. TypeOK'
    BY <1>1, NoRequestType DEF TypeOK, DropPlain, Goto, Return, RemovePlain
  <1> USE <1>1 DEF TypeOK, DropPlain, Goto, Return, NoRequest, RemovePlain
  <1>3. RangeInv'
    BY DEF IInv, RangeInv, Request, PlainPc, WriterPc
  <1>4. NonEmptyEntries'
    BY DEF IInv, NonEmptyEntries
  <1>5. LockInv'
    BY DEF IInv, LockInv, PlainPc, WriterPc, LockType
  <1>6. PlainInv'
    BY DEF IInv, PlainInv, PlainPc, PlainEntry, Request
  <1>7. EntryInv'
    BY DEF IInv, EntryInv, Registered, AtomicEntry
  <1>8. NoLeakedEntry'
    BY DEF IInv, NoLeakedEntry, PlainEntry, AtomicEntry, PlainPc, Request
  <1>9. CountInv'
    <2>1. Announced' = Announced
      BY DEF Announced, Registered
    <2> QED BY <2>1 DEF IInv, CountInv
  <1>10. ScanStart'
    BY DEF IInv, ScanStart
  <1>11. ScanInv'
    BY DEF IInv, ScanInv, Registered, overlaps
  <1>12. SizeInv'
    BY DEF IInv, SizeInv, overlaps
  <1>13. CopyInv'
    BY DEF IInv, CopyInv, LockInv, WriterPc, overlaps
  <1> QED BY <1>2, <1>3, <1>4, <1>5, <1>6, <1>7, <1>8,
            <1>9, <1>10, <1>11, <1>12, <1>13 DEF IInv

(* An atomic view is requested; an empty one is live at once.               *)
LEMMA RequestAtomicInv ==
  ASSUME IInv, NEW v \in View, NEW span \in AtomicSpan, RequestAtomic(v, span)
  PROVE  IInv'
  <1>1. TypeOK
    BY DEF IInv
  <1>2. TypeOK'
    BY <1>1, ShardsAssumption, SpanAssumption DEF TypeOK, RequestAtomic, Goto, Request, Shard, Kind
  <1> USE <1>1 DEF TypeOK, RequestAtomic, Goto
  <1>3. RangeInv'
    BY SpanAssumption DEF IInv, RangeInv, Request, PlainPc, WriterPc
  <1>4. NonEmptyEntries'
    BY DEF IInv, NonEmptyEntries
  <1>5. LockInv'
    BY DEF IInv, LockInv, PlainPc, WriterPc, LockType
  <1>6. PlainInv'
    BY SpanAssumption DEF IInv, PlainInv, PlainPc, PlainEntry, Request
  <1>7. EntryInv'
    BY DEF IInv, EntryInv, Registered, AtomicEntry
  <1>8. NoLeakedEntry'
    BY SpanAssumption DEF IInv, NoLeakedEntry, PlainEntry, AtomicEntry, PlainPc, Request
  <1>9. CountInv'
    <2>1. Announced' = Announced
      BY DEF Announced, Registered
    <2> QED BY <2>1 DEF IInv, CountInv
  <1>10. ScanStart'
    BY DEF IInv, ScanStart
  <1>11. ScanInv'
    BY DEF IInv, ScanInv, Registered, overlaps
  <1>12. SizeInv'
    BY DEF IInv, SizeInv, overlaps
  <1>13. CopyInv'
    BY DEF IInv, CopyInv, LockInv, WriterPc, overlaps
  <1> QED BY <1>2, <1>3, <1>4, <1>5, <1>6, <1>7, <1>8,
            <1>9, <1>10, <1>11, <1>12, <1>13 DEF IInv

(* The write lock is free and the sizes agree, or the call will fail.       *)
LEMMA LockAtomicsInv ==
  ASSUME IInv, NEW v \in View, LockAtomics(v)
  PROVE  IInv'
  <1>1. TypeOK
    BY DEF IInv
  <1>2. TypeOK'
    BY <1>1 DEF TypeOK, LockAtomics, Goto, LockType, LockWrite, WriterPc
  <1> USE <1>1 DEF TypeOK, LockAtomics, Goto
  <1>3. RangeInv'
    BY DEF IInv, RangeInv, Request, PlainPc, WriterPc
  <1>4. NonEmptyEntries'
    BY DEF IInv, NonEmptyEntries
  <1>5. LockInv'
    BY DEF IInv, LockInv, PlainPc, WriterPc, LockType, CanWrite, LockWrite
  <1>6. PlainInv'
    BY DEF IInv, PlainInv, PlainPc, PlainEntry, Request
  <1>7. EntryInv'
    BY DEF IInv, EntryInv, Registered, AtomicEntry
  <1>8. NoLeakedEntry'
    BY DEF IInv, NoLeakedEntry, PlainEntry, AtomicEntry, PlainPc, Request
  <1>9. CountInv'
    <2>1. Announced' = Announced
      BY DEF Announced, Registered
    <2> QED BY <2>1 DEF IInv, CountInv
  <1>10. ScanStart'
    BY DEF IInv, ScanStart
  <1>11. ScanInv'
    BY DEF IInv, ScanInv, Registered, overlaps
  <1>12. SizeInv'
    BY DEF IInv, SizeInv, overlaps
  <1>13. CopyInv'
    BY DEF IInv, CopyInv, LockInv, WriterPc, overlaps
  <1> QED BY <1>2, <1>3, <1>4, <1>5, <1>6, <1>7, <1>8,
            <1>9, <1>10, <1>11, <1>12, <1>13 DEF IInv

(* The counter goes up before the first shard is scanned.                   *)
LEMMA AnnounceInv ==
  ASSUME IInv, NEW v \in View, Announce(v)
  PROVE  IInv'
  <1>1. TypeOK
    BY DEF IInv
  <1>2. TypeOK'
    BY <1>1 DEF TypeOK, Announce, Goto, WriterPc
  <1> USE <1>1 DEF TypeOK, Announce, Goto
  <1>3. RangeInv'
    BY DEF IInv, RangeInv, Request, PlainPc, WriterPc
  <1>4. NonEmptyEntries'
    BY DEF IInv, NonEmptyEntries
  <1>5. LockInv'
    BY DEF IInv, LockInv, PlainPc, WriterPc, LockType
  <1>6. PlainInv'
    BY DEF IInv, PlainInv, PlainPc, PlainEntry, Request
  <1>7. EntryInv'
    BY DEF IInv, EntryInv, Registered, AtomicEntry
  <1>8. NoLeakedEntry'
    BY DEF IInv, NoLeakedEntry, PlainEntry, AtomicEntry, PlainPc, Request
  <1>9. CountInv'
    <2>1. v \notin Announced /\ Announced' = Announced \union {v}
      BY DEF Announced, Registered
    <2> QED BY <2>1, AnnouncedFinite, FS_AddElement DEF IInv, CountInv
  <1>10. ScanStart'
    BY DEF IInv, ScanStart
  <1>11. ScanInv'
    <2>1. SUFFICES ASSUME NEW p \in View PROVE scan[v] <= req[p].shard
      BY DEF IInv, ScanInv, Registered
    <2>2. scan[v] = 0 /\ req[p].shard \in Shard
      BY DEF IInv, ScanStart, Request
    <2> QED BY <2>2, ShardsAssumption DEF Shard
  <1>12. SizeInv'
    BY DEF IInv, SizeInv, overlaps
  <1>13. CopyInv'
    BY DEF IInv, CopyInv, LockInv, WriterPc, overlaps
  <1> QED BY <1>2, <1>3, <1>4, <1>5, <1>6, <1>7, <1>8,
            <1>9, <1>10, <1>11, <1>12, <1>13 DEF IInv

(* One shard is scanned; a plain view in it stops the registration.         *)
LEMMA ScanShardInv ==
  ASSUME IInv, NEW v \in View, ScanShard(v)
  PROVE  IInv'
  <1>1. TypeOK
    BY DEF IInv
  <1>2. /\ pc'[v] \in {"a_scan", "a_abort", "a_insert"}
        /\ \A w \in View \ {v} : pc'[w] = pc[w]
    BY <1>1 DEF TypeOK, ScanShard, Goto
  <1>1a. \/ scan' = [scan EXCEPT ![v] = 0]
         \/ scan[v] + 1 < SHARDS /\ scan' = [scan EXCEPT ![v] = @ + 1]
    BY SMT DEF ScanShard
  <1>3. TypeOK'
    <2>1. scan' \in [View -> Shard]
      <3>1. 0 \in Shard /\ (scan[v] + 1 < SHARDS => scan[v] + 1 \in Shard)
        BY <1>1, ShardsAssumption DEF TypeOK, Shard
      <3> QED BY <1>1, <1>1a, <3>1 DEF TypeOK
    <2> QED BY <2>1, <1>1 DEF TypeOK, ScanShard, Goto, WriterPc
  <1>4. NoLeakedEntry'
    BY <1>1, <1>2 DEF TypeOK, ScanShard, IInv, NoLeakedEntry, PlainEntry, AtomicEntry, PlainPc
  <1> USE <1>1 DEF TypeOK, ScanShard, Goto
  <1>5. RangeInv'
    BY DEF IInv, RangeInv, Request, PlainPc, WriterPc
  <1>6. NonEmptyEntries'
    BY DEF IInv, NonEmptyEntries
  <1>7. LockInv'
    BY DEF IInv, LockInv, PlainPc, WriterPc, LockType
  <1>8. PlainInv'
    BY DEF IInv, PlainInv, PlainPc, PlainEntry, Request
  <1>9. EntryInv'
    BY DEF IInv, EntryInv, Registered, AtomicEntry
  <1>10. CountInv'
    <2>1. Announced' = Announced
      BY DEF Announced, Registered
    <2> QED BY <2>1 DEF IInv, CountInv
  <1>11. ScanStart'
    BY DEF IInv, ScanStart
  <1>12. ScanInv'
    <2>1. SUFFICES ASSUME NEW p \in View, pc[p] = "p_live", overlaps(req[p], req[v])
                   PROVE  /\ pc'[v] = "a_scan" => scan'[v] <= req[p].shard
                          /\ pc'[v] # "a_insert"
      BY DEF IInv, ScanInv, Registered
    <2>2. req[p].shard \in Shard /\ scan[v] <= req[p].shard
      BY <2>1 DEF IInv, ScanInv, Request
    <2>3. CASE \E q \in plain[scan[v]] : overlaps(q, req[v])
      BY <2>3
    <2>4. CASE \A q \in plain[scan[v]] : ~overlaps(q, req[v])
      <3>1. PlainEntry(p) \in plain[req[p].shard] /\ overlaps(PlainEntry(p), req[v])
        BY <2>1 DEF IInv, PlainInv, PlainPc, PlainEntry, overlaps
      <3>2. scan[v] # req[p].shard
        BY <2>4, <3>1
      <3> QED BY <2>2, <2>4, <3>2, ShardsAssumption DEF Shard
    <2> QED BY <2>3, <2>4
  <1>13. SizeInv'
    BY DEF IInv, SizeInv, overlaps
  <1>14. CopyInv'
    BY DEF IInv, CopyInv, LockInv, WriterPc, overlaps
  <1> QED BY <1>3, <1>5, <1>6, <1>7, <1>8, <1>9, <1>4,
            <1>10, <1>11, <1>12, <1>13, <1>14 DEF IInv

(* A refused atomic registration takes its announcement back.               *)
LEMMA AbortInv ==
  ASSUME IInv, NEW v \in View, Abort(v)
  PROVE  IInv'
  <1>1. TypeOK
    BY DEF IInv
  <1>2. v \in Announced /\ atomic_live # 0
    BY LiveNonZero DEF Abort, Announced
  <1>3. TypeOK'
    BY <1>1, <1>2 DEF TypeOK, Abort, Goto, WriterPc
  <1> USE <1>1 DEF TypeOK, Abort, Goto
  <1>4. RangeInv'
    BY DEF IInv, RangeInv, Request, PlainPc, WriterPc
  <1>5. NonEmptyEntries'
    BY DEF IInv, NonEmptyEntries
  <1>6. LockInv'
    BY DEF IInv, LockInv, PlainPc, WriterPc, LockType
  <1>7. PlainInv'
    BY DEF IInv, PlainInv, PlainPc, PlainEntry, Request
  <1>8. EntryInv'
    BY DEF IInv, EntryInv, Registered, AtomicEntry
  <1>9. NoLeakedEntry'
    BY DEF IInv, NoLeakedEntry, PlainEntry, AtomicEntry, PlainPc, Request
  <1>10. CountInv'
    <2>1. Announced' = Announced \ {v}
      BY DEF Announced, Registered
    <2> QED BY <1>2, <2>1, AnnouncedFinite, FS_RemoveElement DEF IInv, CountInv
  <1>11. ScanStart'
    BY DEF IInv, ScanStart
  <1>12. ScanInv'
    BY DEF IInv, ScanInv, Registered, overlaps
  <1>13. SizeInv'
    BY DEF IInv, SizeInv, overlaps
  <1>14. CopyInv'
    BY DEF IInv, CopyInv, LockInv, WriterPc, overlaps
  <1> QED BY <1>3, <1>4, <1>5, <1>6, <1>7, <1>8, <1>9,
            <1>10, <1>11, <1>12, <1>13, <1>14 DEF IInv

(* A refused atomic registration releases the lock.                         *)
LEMMA UnlockFailedInv ==
  ASSUME IInv, NEW v \in View, UnlockFailed(v)
  PROVE  IInv'
  <1>1. TypeOK
    BY DEF IInv
  <1>2. TypeOK'
    BY <1>1, NoRequestType DEF TypeOK, UnlockFailed, Goto, Return, LockType, UnlockWrite
  <1> USE <1>1 DEF TypeOK, UnlockFailed, Goto, Return, NoRequest
  <1>3. RangeInv'
    BY DEF IInv, RangeInv, Request, PlainPc, WriterPc
  <1>4. NonEmptyEntries'
    BY DEF IInv, NonEmptyEntries
  <1>5. LockInv'
    BY DEF IInv, LockInv, PlainPc, WriterPc, LockType, UnlockWrite
  <1>6. PlainInv'
    BY DEF IInv, PlainInv, PlainPc, PlainEntry, Request
  <1>7. EntryInv'
    BY DEF IInv, EntryInv, Registered, AtomicEntry
  <1>8. NoLeakedEntry'
    BY DEF IInv, NoLeakedEntry, PlainEntry, AtomicEntry, PlainPc, Request
  <1>9. CountInv'
    <2>1. Announced' = Announced
      BY DEF Announced, Registered
    <2> QED BY <2>1 DEF IInv, CountInv
  <1>10. ScanStart'
    BY DEF IInv, ScanStart
  <1>11. ScanInv'
    BY DEF IInv, ScanInv, Registered, overlaps
  <1>12. SizeInv'
    BY DEF IInv, SizeInv, overlaps
  <1>13. CopyInv'
    BY DEF IInv, CopyInv, LockInv, WriterPc, overlaps
  <1> QED BY <1>2, <1>3, <1>4, <1>5, <1>6, <1>7, <1>8,
            <1>9, <1>10, <1>11, <1>12, <1>13 DEF IInv

(* Every shard was scanned: the entry is added, the lock released.          *)
LEMMA InsertAtomicInv ==
  ASSUME IInv, NEW v \in View, InsertAtomic(v)
  PROVE  IInv'
  <1>1. TypeOK
    BY DEF IInv
  <1>2. TypeOK'
    BY <1>1 DEF TypeOK, InsertAtomic, Goto, LockType, UnlockWrite, AtomicEntry, IInv, RangeInv, Request, WriterPc
  <1> USE <1>1 DEF TypeOK, InsertAtomic, Goto
  <1>3. RangeInv'
    BY DEF IInv, RangeInv, Request, PlainPc, WriterPc
  <1>4. NonEmptyEntries'
    BY DEF IInv, NonEmptyEntries, AtomicEntry, RangeInv, WriterPc
  <1>5. LockInv'
    BY DEF IInv, LockInv, PlainPc, WriterPc, LockType, UnlockWrite
  <1>6. PlainInv'
    BY DEF IInv, PlainInv, PlainPc, PlainEntry, Request
  <1>7. EntryInv'
    BY DEF IInv, EntryInv, Registered, AtomicEntry
  <1>8. NoLeakedEntry'
    BY DEF IInv, NoLeakedEntry, PlainEntry, AtomicEntry, PlainPc, Request
  <1>9. CountInv'
    <2>1. Announced' = Announced
      BY DEF IInv, RangeInv, WriterPc, Request, Announced, Registered
    <2> QED BY <2>1 DEF IInv, CountInv
  <1>10. ScanStart'
    BY DEF IInv, ScanStart
  <1>11. ScanInv'
    BY DEF IInv, ScanInv, Registered, overlaps
  <1>12. SizeInv'
    BY DEF IInv, SizeInv, overlaps, AtomicEntry, LockInv, WriterPc
  <1>13. CopyInv'
    BY DEF IInv, CopyInv, LockInv, WriterPc, overlaps, UnlockWrite, LockType
  <1> QED BY <1>2, <1>3, <1>4, <1>5, <1>6, <1>7, <1>8,
            <1>9, <1>10, <1>11, <1>12, <1>13 DEF IInv

(* What RangeInv says of one view.                                          *)
RangeOf(w) ==
  /\ pc[w] \in PlainPc \union {"c_lock", "c_copy"} => req[w].start < req[w].end
  /\ pc[w] \in (WriterPc \ {"d_dec"}) \union {"a_lock", "d_lock"} =>
       req[w].start < req[w].end /\ req[w].size \in ElemSize
  /\ pc[w] = "a_live" => req[w].start <= req[w].end /\ req[w].size \in ElemSize

(* The drop of an atomic view; an empty one has nothing to remove.          *)
LEMMA BeginDropAtomicInv ==
  ASSUME IInv, NEW v \in View, BeginDropAtomic(v)
  PROVE  IInv'
  <1>1. TypeOK
    BY DEF IInv
  <1>2. TypeOK'
    BY <1>1, NoRequestType DEF TypeOK, BeginDropAtomic, Goto, Return
  <1> USE <1>1 DEF TypeOK, BeginDropAtomic, Goto, Return, NoRequest, EmptyRange
  <1>3. RangeInv'
    <2> SUFFICES ASSUME NEW w \in View PROVE RangeOf(w)'
      BY DEF RangeInv, RangeOf
    <2>1. RangeOf(w) /\ RangeOf(v)
      BY DEF IInv, RangeInv, RangeOf
    <2>2. CASE w # v
      <3>1. pc'[w] = pc[w] /\ req'[w] = req[w]
        BY <2>2
      <3> QED BY <2>1, <3>1 DEF RangeOf
    <2>3. CASE w = v /\ EmptyRange(v)
      <3>1. pc'[w] = "idle"
        BY <2>3
      <3> QED BY <3>1 DEF RangeOf, PlainPc, WriterPc
    <2>4. CASE w = v /\ ~EmptyRange(v)
      <3>1. pc'[w] = "d_lock" /\ req'[w] = req[w]
        BY <2>4
      <3>2. req[w].start < req[w].end /\ req[w].size \in ElemSize
        <4>1. req[w].start \in Nat /\ req[w].end \in Nat
          BY DEF Request
        <4> QED BY <2>1, <2>4, <4>1 DEF RangeOf
      <3> QED BY <3>1, <3>2 DEF RangeOf, PlainPc
    <2> QED BY <2>2, <2>3, <2>4
  <1>4. NonEmptyEntries'
    BY DEF IInv, NonEmptyEntries
  <1>5. LockInv'
    BY DEF IInv, LockInv, PlainPc, WriterPc, LockType
  <1>6. PlainInv'
    BY DEF IInv, PlainInv, PlainPc, PlainEntry, Request
  <1>7. EntryInv'
    BY DEF IInv, EntryInv, Registered, AtomicEntry
  <1>8. NoLeakedEntry'
    <2>1. CASE EmptyRange(v)
      <3>1. \A e \in entries : e.id # v
        BY <2>1 DEF IInv, NoLeakedEntry, NonEmptyEntries, AtomicEntry
      <3> QED BY <2>1, <3>1 DEF IInv, NoLeakedEntry, PlainEntry, AtomicEntry, PlainPc
    <2>2. CASE ~EmptyRange(v)
      BY <2>2 DEF IInv, NoLeakedEntry, PlainEntry, AtomicEntry, PlainPc
    <2> QED BY <2>1, <2>2
  <1>9. CountInv'
    <2>1. Announced' = Announced
      BY DEF Announced, Registered
    <2> QED BY <2>1 DEF IInv, CountInv
  <1>10. ScanStart'
    BY DEF IInv, ScanStart
  <1>11. ScanInv'
    BY DEF IInv, ScanInv, Registered, overlaps
  <1>12. SizeInv'
    BY DEF IInv, SizeInv, overlaps
  <1>13. CopyInv'
    BY DEF IInv, CopyInv, LockInv, WriterPc, overlaps
  <1> QED BY <1>2, <1>3, <1>4, <1>5, <1>6, <1>7, <1>8,
            <1>9, <1>10, <1>11, <1>12, <1>13 DEF IInv

(* The entry is removed under the write lock.                               *)
LEMMA RemoveAtomicInv ==
  ASSUME IInv, NEW v \in View, RemoveAtomic(v)
  PROVE  IInv'
  <1>1. TypeOK
    BY DEF IInv
  <1>2. TypeOK'
    BY <1>1 DEF TypeOK, RemoveAtomic, Goto, LockType, LockWrite, WriterPc
  <1> USE <1>1 DEF TypeOK, RemoveAtomic, Goto
  <1>3. RangeInv'
    BY DEF IInv, RangeInv, Request, PlainPc, WriterPc
  <1>4. NonEmptyEntries'
    BY DEF IInv, NonEmptyEntries
  <1>5. LockInv'
    BY DEF IInv, LockInv, PlainPc, WriterPc, LockType, CanWrite, LockWrite
  <1>6. PlainInv'
    BY DEF IInv, PlainInv, PlainPc, PlainEntry, Request
  <1>7. EntryInv'
    BY DEF IInv, EntryInv, Registered, AtomicEntry
  <1>8. NoLeakedEntry'
    BY DEF IInv, NoLeakedEntry, PlainEntry, AtomicEntry, PlainPc, Request
  <1>9. CountInv'
    <2>1. Announced' = Announced
      BY DEF IInv, RangeInv, Request, Announced, Registered
    <2> QED BY <2>1 DEF IInv, CountInv
  <1>10. ScanStart'
    BY DEF IInv, ScanStart
  <1>11. ScanInv'
    BY DEF IInv, ScanInv, Registered, overlaps
  <1>12. SizeInv'
    BY DEF IInv, SizeInv, overlaps
  <1>13. CopyInv'
    BY DEF IInv, CopyInv, LockInv, WriterPc, overlaps, CanWrite, LockWrite
  <1> QED BY <1>2, <1>3, <1>4, <1>5, <1>6, <1>7, <1>8,
            <1>9, <1>10, <1>11, <1>12, <1>13 DEF IInv

(* The counter follows, and the lock is released.                           *)
LEMMA FinishDropAtomicInv ==
  ASSUME IInv, NEW v \in View, FinishDropAtomic(v)
  PROVE  IInv'
  <1>1. TypeOK
    BY DEF IInv
  <1>2. v \in Announced /\ atomic_live # 0
    BY LiveNonZero DEF FinishDropAtomic, Announced
  <1>3. TypeOK'
    BY <1>1, <1>2, NoRequestType DEF TypeOK, FinishDropAtomic, Goto, Return, LockType, UnlockWrite
  <1> USE <1>1 DEF TypeOK, FinishDropAtomic, Goto, Return, NoRequest
  <1>4. RangeInv'
    BY DEF IInv, RangeInv, Request, PlainPc, WriterPc
  <1>5. NonEmptyEntries'
    BY DEF IInv, NonEmptyEntries
  <1>6. LockInv'
    BY DEF IInv, LockInv, PlainPc, WriterPc, LockType, UnlockWrite
  <1>7. PlainInv'
    BY DEF IInv, PlainInv, PlainPc, PlainEntry, Request
  <1>8. EntryInv'
    BY DEF IInv, EntryInv, Registered, AtomicEntry
  <1>9. NoLeakedEntry'
    BY DEF IInv, NoLeakedEntry, PlainEntry, AtomicEntry, PlainPc, Request
  <1>10. CountInv'
    <2>1. Announced' = Announced \ {v}
      BY DEF Announced, Registered
    <2> QED BY <1>2, <2>1, AnnouncedFinite, FS_RemoveElement DEF IInv, CountInv
  <1>11. ScanStart'
    BY DEF IInv, ScanStart
  <1>12. ScanInv'
    BY DEF IInv, ScanInv, Registered, overlaps
  <1>13. SizeInv'
    BY DEF IInv, SizeInv, overlaps
  <1>14. CopyInv'
    BY DEF IInv, CopyInv, LockInv, WriterPc, overlaps
  <1> QED BY <1>3, <1>4, <1>5, <1>6, <1>7, <1>8, <1>9,
            <1>10, <1>11, <1>12, <1>13, <1>14 DEF IInv

(* A copying read is called.                                                *)
LEMMA RequestCopyInv ==
  ASSUME IInv, NEW v \in View, NEW span \in PlainSpan, RequestCopy(v, span)
  PROVE  IInv'
  <1>1. TypeOK
    BY DEF IInv
  <1>2. TypeOK'
    BY <1>1, ShardsAssumption, SpanAssumption DEF TypeOK, RequestCopy, Goto, Request, Shard, Kind
  <1> USE <1>1 DEF TypeOK, RequestCopy, Goto
  <1>3. RangeInv'
    BY SpanAssumption DEF IInv, RangeInv, Request, PlainPc, WriterPc
  <1>4. NonEmptyEntries'
    BY DEF IInv, NonEmptyEntries
  <1>5. LockInv'
    BY DEF IInv, LockInv, PlainPc, WriterPc, LockType
  <1>6. PlainInv'
    BY SpanAssumption DEF IInv, PlainInv, PlainPc, PlainEntry, Request
  <1>7. EntryInv'
    BY DEF IInv, EntryInv, Registered, AtomicEntry
  <1>8. NoLeakedEntry'
    BY SpanAssumption DEF IInv, NoLeakedEntry, PlainEntry, AtomicEntry, PlainPc, Request
  <1>9. CountInv'
    <2>1. Announced' = Announced
      BY DEF Announced, Registered
    <2> QED BY <2>1 DEF IInv, CountInv
  <1>10. ScanStart'
    BY DEF IInv, ScanStart
  <1>11. ScanInv'
    BY DEF IInv, ScanInv, Registered, overlaps
  <1>12. SizeInv'
    BY DEF IInv, SizeInv, overlaps
  <1>13. CopyInv'
    BY DEF IInv, CopyInv, LockInv, WriterPc, overlaps
  <1> QED BY <1>2, <1>3, <1>4, <1>5, <1>6, <1>7, <1>8,
            <1>9, <1>10, <1>11, <1>12, <1>13 DEF IInv

(* It takes the read lock and collects the entries on its range.            *)
LEMMA BeginCopyInv ==
  ASSUME IInv, NEW v \in View, BeginCopy(v)
  PROVE  IInv'
  <1>1. TypeOK
    BY DEF IInv
  <1>2. TypeOK'
    BY <1>1 DEF TypeOK, BeginCopy, Goto, LockType, LockRead
  <1> USE <1>1 DEF TypeOK, BeginCopy, Goto
  <1>3. RangeInv'
    BY DEF IInv, RangeInv, Request, PlainPc, WriterPc
  <1>4. NonEmptyEntries'
    BY DEF IInv, NonEmptyEntries
  <1>5. LockInv'
    BY DEF IInv, LockInv, PlainPc, WriterPc, LockType, CanRead, LockRead
  <1>6. PlainInv'
    BY DEF IInv, PlainInv, PlainPc, PlainEntry, Request
  <1>7. EntryInv'
    BY DEF IInv, EntryInv, Registered, AtomicEntry
  <1>8. NoLeakedEntry'
    BY DEF IInv, NoLeakedEntry, PlainEntry, AtomicEntry, PlainPc, Request
  <1>9. CountInv'
    <2>1. Announced' = Announced
      BY DEF Announced, Registered
    <2> QED BY <2>1 DEF IInv, CountInv
  <1>10. ScanStart'
    BY DEF IInv, ScanStart
  <1>11. ScanInv'
    BY DEF IInv, ScanInv, Registered, overlaps
  <1>12. SizeInv'
    BY DEF IInv, SizeInv, overlaps
  <1>13. CopyInv'
    BY DEF IInv, CopyInv, LockInv, WriterPc, overlaps, CanRead, LockRead
  <1> QED BY <1>2, <1>3, <1>4, <1>5, <1>6, <1>7, <1>8,
            <1>9, <1>10, <1>11, <1>12, <1>13 DEF IInv

(* It releases the lock.                                                    *)
LEMMA EndCopyInv ==
  ASSUME IInv, NEW v \in View, EndCopy(v)
  PROVE  IInv'
  <1>1. TypeOK
    BY DEF IInv
  <1>2. TypeOK'
    BY <1>1, NoRequestType DEF TypeOK, EndCopy, Goto, Return, LockType, UnlockRead
  <1> USE <1>1 DEF TypeOK, EndCopy, Goto, Return, NoRequest
  <1>3. RangeInv'
    BY DEF IInv, RangeInv, Request, PlainPc, WriterPc
  <1>4. NonEmptyEntries'
    BY DEF IInv, NonEmptyEntries
  <1>5. LockInv'
    BY DEF IInv, LockInv, PlainPc, WriterPc, LockType, UnlockRead
  <1>6. PlainInv'
    BY DEF IInv, PlainInv, PlainPc, PlainEntry, Request
  <1>7. EntryInv'
    BY DEF IInv, EntryInv, Registered, AtomicEntry
  <1>8. NoLeakedEntry'
    BY DEF IInv, NoLeakedEntry, PlainEntry, AtomicEntry, PlainPc, Request
  <1>9. CountInv'
    <2>1. Announced' = Announced
      BY DEF Announced, Registered
    <2> QED BY <2>1 DEF IInv, CountInv
  <1>10. ScanStart'
    BY DEF IInv, ScanStart
  <1>11. ScanInv'
    BY DEF IInv, ScanInv, Registered, overlaps
  <1>12. SizeInv'
    BY DEF IInv, SizeInv, overlaps
  <1>13. CopyInv'
    BY DEF IInv, CopyInv, LockInv, WriterPc, overlaps
  <1> QED BY <1>2, <1>3, <1>4, <1>5, <1>6, <1>7, <1>8,
            <1>9, <1>10, <1>11, <1>12, <1>13 DEF IInv

(* IInv is an inductive invariant of the protocol.                         *)
THEOREM Invariance == Spec => []IInv
  <1>1. ASSUME IInv, [Next]_vars PROVE IInv'
    <2>1. CASE UNCHANGED vars
      BY <1>1, <2>1 DEF vars, IInv, TypeOK, RangeInv, NonEmptyEntries, LockInv, PlainInv,
         EntryInv, NoLeakedEntry, CountInv, ScanStart, ScanInv, SizeInv, CopyInv,
         PlainEntry, AtomicEntry, Registered, Announced
    <2>2. ASSUME NEW v \in View, Step(v) PROVE IInv'
      BY <1>1, <2>2, LoadAtomicLiveInv, CheckAtomicsInv, UndoPlainInv, LockAtomicsInv,
         AnnounceInv, ScanShardInv, AbortInv, UnlockFailedInv, InsertAtomicInv,
         RemoveAtomicInv, FinishDropAtomicInv, BeginCopyInv, EndCopyInv DEF Step
    <2>3. ASSUME NEW v \in View, Call(v) PROVE IInv'
      BY <1>1, <2>3, InsertPlainInv, RequestAtomicInv, RequestCopyInv, DropPlainInv,
         BeginDropAtomicInv DEF Call
    <2> QED BY <1>1, <2>1, <2>2, <2>3 DEF Next
  <1> QED BY InitInv, <1>1, PTL DEF Spec

(* The variables of the registry keep their types.                         *)
THEOREM TypeCorrect == Spec => []TypeOK
  <1>1. IInv => TypeOK
    BY DEF IInv
  <1> QED BY Invariance, <1>1, PTL

(* Ranges that share a byte overlap in the sense of the code.              *)
LEMMA SharedByteOverlaps ==
  ASSUME NEW r, NEW s, r.start \in Nat, r.end \in Nat, s.start \in Nat, s.end \in Nat,
         ShareByte(r, s)
  PROVE  overlaps(r, s) /\ overlaps(s, r) /\ r.start # r.end /\ s.start # s.end
  BY DEF ShareByte, Covers, overlaps

(* No byte slice ever aliases a live atomic view: the promise of the       *)
(* registry, whichever of register_plain and register_atomic came first.   *)
THEOREM Exclusion == Spec => []PlainAtomicExclusion
  <1>1. IInv => PlainAtomicExclusion
    <2>1. SUFFICES ASSUME IInv, NEW p \in View, NEW a \in View, pc[p] = "p_live",
                          pc[a] = "a_live", ShareByte(req[p], req[a])
                   PROVE  FALSE
      BY DEF PlainAtomicExclusion
    <2>2. overlaps(req[p], req[a]) /\ req[a].start # req[a].end
      BY <2>1, SharedByteOverlaps DEF IInv, TypeOK, Request
    <2> QED BY <2>1, <2>2 DEF IInv, ScanInv, Registered
  <1> QED BY Invariance, <1>1, PTL

(* Two live atomic views of different element sizes never share a byte.    *)
THEOREM SameSize == Spec => []NoMixedSize
  <1>1. IInv => NoMixedSize
    <2>1. SUFFICES ASSUME IInv, NEW a \in View, NEW b \in View, pc[a] = "a_live",
                          pc[b] = "a_live", ShareByte(req[a], req[b])
                   PROVE  req[a].size = req[b].size
      BY DEF NoMixedSize
    <2>2. overlaps(req[a], req[b]) /\ a \in Registered /\ b \in Registered
      BY <2>1, SharedByteOverlaps DEF IInv, TypeOK, Request, Registered
    <2>3. AtomicEntry(a) \in entries /\ AtomicEntry(b) \in entries
      BY <2>1, <2>2 DEF IInv, EntryInv
    <2> QED BY <2>1, <2>2, <2>3 DEF IInv, SizeInv, AtomicEntry, overlaps
  <1> QED BY Invariance, <1>1, PTL

(* A copying read never reads plainly, or with another element size, a     *)
(* byte of a live atomic view.                                             *)
THEOREM CopySafe == Spec => []CopyRaceFree
  <1>1. IInv => CopyRaceFree
    <2>1. SUFFICES ASSUME IInv, NEW c \in View, NEW a \in View, pc[c] = "c_copy",
                          pc[a] = "a_live", NEW b \in req[c].start .. req[c].end,
                          Covers(req[c], b), Covers(req[a], b)
                   PROVE  \E e \in spans[c] : Covers(e, b) /\ e.size = req[a].size
      BY DEF CopyRaceFree
    <2>2. ShareByte(req[c], req[a])
      BY <2>1 DEF ShareByte
    <2>3. overlaps(req[a], req[c]) /\ a \in Registered
      BY <2>1, <2>2, SharedByteOverlaps DEF IInv, TypeOK, Request, Registered
    <2>4. AtomicEntry(a) \in entries
      BY <2>1, <2>3 DEF IInv, EntryInv
    <2>5. AtomicEntry(a) \in spans[c]
      BY <2>1, <2>3, <2>4 DEF IInv, CopyInv, AtomicEntry, overlaps
    <2>6. Covers(AtomicEntry(a), b) /\ AtomicEntry(a).size = req[a].size
      BY <2>1 DEF AtomicEntry, Covers
    <2> QED BY <2>5, <2>6
  <1> QED BY Invariance, <1>1, PTL

(* No refused or dropped view leaves an entry behind.                      *)
THEOREM NoLeak == Spec => []NoLeakedEntry
  <1>1. IInv => NoLeakedEntry
    BY DEF IInv
  <1> QED BY Invariance, <1>1, PTL

(* With no writer inside, atomic_live is the number of entries: entries    *)
(* and registered views are in bijection.                                  *)
THEOREM CountExact == Spec => []LiveCountExact
  <1>1. IInv => LiveCountExact
    <2>1. SUFFICES ASSUME IInv, atomics.writer = {}
                   PROVE  Cardinality(Announced) = Cardinality(entries)
      BY DEF LiveCountExact, IInv, CountInv
    <2>2. Announced = Registered
      BY <2>1 DEF IInv, LockInv, WriterPc, Announced, Registered
    <2> DEFINE f == [v \in Registered |-> AtomicEntry(v)]
    <2>3. \A v \in Registered : AtomicEntry(v) \in entries
      BY <2>1 DEF IInv, EntryInv
    <2>4. \A e \in entries : e.id \in Registered /\ e = AtomicEntry(e.id)
      <3>1. TAKE e \in entries
      <3>2. e.id \in View /\ e = AtomicEntry(e.id) /\ pc[e.id] \in {"a_live", "d_lock"}
        BY <2>1 DEF IInv, TypeOK, NoLeakedEntry
      <3>3. e.start < e.end /\ e.start \in Nat /\ e.end \in Nat
        BY <2>1 DEF IInv, TypeOK, NonEmptyEntries
      <3>4. req[e.id].start = e.start /\ req[e.id].end = e.end
        BY <3>2 DEF AtomicEntry
      <3> QED BY <3>2, <3>3, <3>4 DEF Registered
    <2>5. f \in Bijection(Registered, entries)
      <3>1. f \in [Registered -> entries]
        BY <2>3
      <3>2. \A v, w \in Registered : f[v] = f[w] => v = w
        BY DEF AtomicEntry
      <3>3. \A e \in entries : \E v \in Registered : f[v] = e
        BY <2>4
      <3> HIDE DEF f
      <3> QED BY <3>1, <3>2, <3>3, Fun_IsBij
    <2> QED BY <2>2, <2>5, AnnouncedFinite, FS_Bijection, Fun_ExistsBij
  <1> QED BY Invariance, <1>1, PTL

=============================================================================
