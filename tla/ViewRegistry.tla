---------------------------- MODULE ViewRegistry ----------------------------
(***************************************************************************)
(* The registry of live views of one writable mapping (src/views.rs): it   *)
(* lets plain byte views (&[u8]) and atomic views coexist on disjoint      *)
(* bytes, and refuses every overlapping pair.                              *)
(*                                                                         *)
(* A member of View is one view object, or one copying read, from the call *)
(* that creates it to its drop; all of them run concurrently.  A critical  *)
(* section of a shard mutex is one step, because nothing else is touched   *)
(* inside it; everything else the protocol does is a step of its own: the  *)
(* load and the two updates of the counter atomic_live, the acquisition    *)
(* and the release of the lock of the atomic set, the scan of each shard.  *)
(* The counter is accessed with SeqCst and everything else under a lock,   *)
(* so interleaving of steps is the right memory model.                     *)
(***************************************************************************)
EXTENDS Naturals, FiniteSets, RwLock

CONSTANTS
  View,        (* view objects and copying reads                           *)
  SHARDS,      (* number of shards of the plain views                      *)
  PlainSpan,   (* the non-empty <<start, end>> plain requests may cover    *)
  ElemSize,    (* element sizes of atomic views, in bytes                  *)
  AtomicSpan   (* the <<start, end, size>> of atomic requests              *)

ASSUME ViewAssumption   == IsFiniteSet(View)
ASSUME ShardsAssumption == SHARDS \in Nat \ {0}
ASSUME SpanAssumption   ==
  /\ PlainSpan \subseteq {s \in Nat \X Nat : s[1] < s[2]}
  /\ AtomicSpan \subseteq {s \in Nat \X Nat \X ElemSize : s[1] <= s[2]}
ASSUME SizeAssumption   == ElemSize \subseteq Nat \ {0}

VARIABLES
  atomics,      (* RwLock around the atomic set                            *)
  entries,      (* AtomicSet.entries: the registered atomic views          *)
  atomic_live,  (* counter read without the lock by the plain fast path    *)
  plain,        (* plain[s]: the live entries of the slab of shard s       *)
  pc,           (* what each view is doing                                 *)
  req,          (* its range, element size and shard                       *)
  scan,         (* the next shard an atomic registration scans             *)
  spans         (* the atomic entries a copying read found on its range    *)

vars == <<atomics, entries, atomic_live, plain, pc, req, scan, spans>>

Shard == 0 .. SHARDS - 1

(* The kinds of requests: a MappedSlice, an item of a chunk iterator (the  *)
(* same registration, but a refusal turns into a copying read), a copying  *)
(* read (read_into, read_bytes, page touching) and an atomic view.         *)
Kind == {"slice", "item", "copy", "atomic"}

(* size is 0 where the request has no element size.                        *)
Request == [kind : Kind \union {"none"}, start : Nat, end : Nat,
            size : ElemSize \union {0}, shard : Shard]

NoRequest == [kind |-> "none", start |-> 0, end |-> 0, size |-> 0, shard |-> 0]

overlaps(a, b) == a.start < b.end /\ b.start < a.end

Covers(e, b) == e.start <= b /\ b < e.end

PlainEntry(v)  == [owner |-> v, start |-> req[v].start, end |-> req[v].end]
AtomicEntry(v) == [id |-> v, start |-> req[v].start, end |-> req[v].end,
                   size |-> req[v].size]

EmptyRange(v) == req[v].start = req[v].end

-----------------------------------------------------------------------------

Init ==
  /\ atomics = Unlocked
  /\ entries = {}
  /\ atomic_live = 0
  /\ plain = [s \in Shard |-> {}]
  /\ pc = [v \in View |-> "idle"]
  /\ req = [v \in View |-> NoRequest]
  /\ scan = [v \in View |-> 0]
  /\ spans = [v \in View |-> {}]

Goto(v, label) == pc' = [pc EXCEPT ![v] = label]

Return(v) ==
  /\ Goto(v, "idle")
  /\ req' = [req EXCEPT ![v] = NoRequest]

(***************************************************************************)
(* register_plain: publish the range in the shard of the calling thread,   *)
(* then look whether an atomic view may be in the way.                     *)
(***************************************************************************)
InsertPlain(v, kind, span, shard) ==
  /\ pc[v] = "idle"
  /\ req' = [req EXCEPT ![v] = [kind |-> kind, start |-> span[1], end |-> span[2],
                                size |-> 0, shard |-> shard]]
  /\ plain' = [plain EXCEPT ![shard] =
                 @ \union {[owner |-> v, start |-> span[1], end |-> span[2]]}]
  /\ Goto(v, "p_load")
  /\ UNCHANGED <<atomics, entries, atomic_live, scan, spans>>

LoadAtomicLive(v) ==
  /\ pc[v] = "p_load"
  /\ Goto(v, IF atomic_live = 0 THEN "p_live" ELSE "p_check")
  /\ UNCHANGED <<atomics, entries, atomic_live, plain, req, scan, spans>>

(* The scan of the atomic set under its read lock, which is released       *)
(* before register_plain returns or drops its registration.                *)
CheckAtomics(v) ==
  /\ pc[v] = "p_check"
  /\ CanRead(atomics)
  /\ Goto(v, IF \E e \in entries : overlaps(e, req[v]) THEN "p_undo" ELSE "p_live")
  /\ UNCHANGED <<atomics, entries, atomic_live, plain, req, scan, spans>>

RemovePlain(v) == plain' = [plain EXCEPT ![req[v].shard] = @ \ {PlainEntry(v)}]

(* Defect: a refused registration is not dropped                           *)
UndoPlain_KeepsEntry(v) ==
  /\ pc[v] = "p_undo"
  /\ IF req[v].kind = "item" THEN Goto(v, "c_lock") /\ UNCHANGED req
                             ELSE Return(v)
  /\ UNCHANGED <<atomics, entries, atomic_live, plain, scan, spans>>

(* Refused: dropping the registration removes the entry again; as_slice    *)
(* returns InvalidMode, an iterator copies the item instead.               *)
UndoPlain(v) ==
  /\ pc[v] = "p_undo"
  /\ RemovePlain(v)
  /\ IF req[v].kind = "item" THEN Goto(v, "c_lock") /\ UNCHANGED req
                             ELSE Return(v)
  /\ UNCHANGED <<atomics, entries, atomic_live, scan, spans>>

DropPlain(v) ==
  /\ pc[v] = "p_live"
  /\ RemovePlain(v)
  /\ Return(v)
  /\ UNCHANGED <<atomics, entries, atomic_live, scan, spans>>

(***************************************************************************)
(* register_atomic: everything happens under the write lock of the atomic  *)
(* set; the counter is raised before the shards are scanned.               *)
(***************************************************************************)
RequestAtomic(v, span) ==
  /\ pc[v] = "idle"
  /\ req' = [req EXCEPT ![v] = [kind |-> "atomic", start |-> span[1], end |-> span[2],
                                size |-> span[3], shard |-> 0]]
  /\ Goto(v, IF span[1] = span[2] THEN "a_live" ELSE "a_lock")
  /\ UNCHANGED <<atomics, entries, atomic_live, plain, scan, spans>>

(* Defect: the element sizes of overlapping views are not compared         *)
LockAtomics_AnySize(v) ==
  /\ pc[v] = "a_lock"
  /\ CanWrite(atomics)
  /\ atomics' = LockWrite(atomics, v)
  /\ Goto(v, "a_announce")
  /\ UNCHANGED <<entries, atomic_live, plain, req, scan, spans>>

LockAtomics(v) ==
  /\ pc[v] = "a_lock"
  /\ CanWrite(atomics)
  /\ atomics' = LockWrite(atomics, v)
  /\ Goto(v, IF \E e \in entries : e.size # req[v].size /\ overlaps(e, req[v])
             THEN "a_unlock" ELSE "a_announce")
  /\ UNCHANGED <<entries, atomic_live, plain, req, scan, spans>>

Announce(v) ==
  /\ pc[v] = "a_announce"
  /\ atomic_live' = atomic_live + 1
  /\ Goto(v, "a_scan")
  /\ UNCHANGED <<atomics, entries, plain, req, scan, spans>>

(* Defect: the last shard is not scanned                                   *)
ScanShard_SkipsLast(v) ==
  /\ pc[v] = "a_scan"
  /\ IF \E p \in plain[scan[v]] : overlaps(p, req[v])
     THEN Goto(v, "a_abort") /\ scan' = [scan EXCEPT ![v] = 0]
     ELSE IF scan[v] + 2 >= SHARDS
          THEN Goto(v, "a_insert") /\ scan' = [scan EXCEPT ![v] = 0]
          ELSE scan' = [scan EXCEPT ![v] = @ + 1] /\ UNCHANGED pc
  /\ UNCHANGED <<atomics, entries, atomic_live, plain, req, spans>>

ScanShard(v) ==
  /\ pc[v] = "a_scan"
  /\ \/ /\ \E p \in plain[scan[v]] : overlaps(p, req[v])
        /\ Goto(v, "a_abort")
        /\ scan' = [scan EXCEPT ![v] = 0]
     \/ /\ \A p \in plain[scan[v]] : ~overlaps(p, req[v])
        /\ scan[v] + 1 = SHARDS
        /\ Goto(v, "a_insert")
        /\ scan' = [scan EXCEPT ![v] = 0]
     \/ /\ \A p \in plain[scan[v]] : ~overlaps(p, req[v])
        /\ scan[v] + 1 < SHARDS
        /\ scan' = [scan EXCEPT ![v] = @ + 1]
        /\ UNCHANGED pc
  /\ UNCHANGED <<atomics, entries, atomic_live, plain, req, spans>>

(* Defect: a refused registration does not take its announcement back      *)
Abort_KeepsCount(v) ==
  /\ pc[v] = "a_abort"
  /\ Goto(v, "a_unlock")
  /\ UNCHANGED <<atomics, entries, atomic_live, plain, req, scan, spans>>

Abort(v) ==
  /\ pc[v] = "a_abort"
  /\ atomic_live' = atomic_live - 1
  /\ Goto(v, "a_unlock")
  /\ UNCHANGED <<atomics, entries, plain, req, scan, spans>>

(* Defect: every error path takes an announcement back, MixedSize too      *)
UnlockFailed_Decrements(v) ==
  /\ pc[v] = "a_unlock"
  /\ atomic_live' = atomic_live - 1
  /\ atomics' = UnlockWrite(atomics, v)
  /\ Return(v)
  /\ UNCHANGED <<entries, plain, scan, spans>>

(* The write guard is dropped on an early return: MixedSize, PlainLive.    *)
UnlockFailed(v) ==
  /\ pc[v] = "a_unlock"
  /\ atomics' = UnlockWrite(atomics, v)
  /\ Return(v)
  /\ UNCHANGED <<entries, atomic_live, plain, scan, spans>>

InsertAtomic(v) ==
  /\ pc[v] = "a_insert"
  /\ entries' = entries \union {AtomicEntry(v)}
  /\ atomics' = UnlockWrite(atomics, v)
  /\ Goto(v, "a_live")
  /\ UNCHANGED <<atomic_live, plain, req, scan, spans>>

(* Drop for AtomicReg.  A view of an empty range never registered.         *)
BeginDropAtomic(v) ==
  /\ pc[v] = "a_live"
  /\ IF EmptyRange(v) THEN Return(v) ELSE Goto(v, "d_lock") /\ UNCHANGED req
  /\ UNCHANGED <<atomics, entries, atomic_live, plain, scan, spans>>

RemoveAtomic(v) ==
  /\ pc[v] = "d_lock"
  /\ CanWrite(atomics)
  /\ atomics' = LockWrite(atomics, v)
  /\ entries' = {e \in entries : e.id # v}
  /\ Goto(v, "d_dec")
  /\ UNCHANGED <<atomic_live, plain, req, scan, spans>>

FinishDropAtomic(v) ==
  /\ pc[v] = "d_dec"
  /\ atomic_live' = atomic_live - 1
  /\ atomics' = UnlockWrite(atomics, v)
  /\ Return(v)
  /\ UNCHANGED <<entries, plain, scan, spans>>

(***************************************************************************)
(* copy_out and touch: hold the read lock of the atomic set for the whole  *)
(* copy; bytes under an entry are read atomically with the element size of *)
(* that entry, all others plainly.                                         *)
(***************************************************************************)
RequestCopy(v, span) ==
  /\ pc[v] = "idle"
  /\ req' = [req EXCEPT ![v] = [kind |-> "copy", start |-> span[1], end |-> span[2],
                                size |-> 0, shard |-> 0]]
  /\ Goto(v, "c_lock")
  /\ UNCHANGED <<atomics, entries, atomic_live, plain, scan, spans>>

(* Defect: the read lock is released once the spans are collected          *)
BeginCopy_Unlocked(v) ==
  /\ pc[v] = "c_lock"
  /\ CanRead(atomics)
  /\ spans' = [spans EXCEPT ![v] = {e \in entries : overlaps(e, req[v])}]
  /\ Goto(v, "c_copy")
  /\ UNCHANGED <<atomics, entries, atomic_live, plain, req, scan>>

BeginCopy(v) ==
  /\ pc[v] = "c_lock"
  /\ CanRead(atomics)
  /\ atomics' = LockRead(atomics, v)
  /\ spans' = [spans EXCEPT ![v] = {e \in entries : overlaps(e, req[v])}]
  /\ Goto(v, "c_copy")
  /\ UNCHANGED <<entries, atomic_live, plain, req, scan>>

(* Defect: the read guard outlives the copy                                *)
EndCopy_KeepsLock(v) ==
  /\ pc[v] = "c_copy"
  /\ spans' = [spans EXCEPT ![v] = {}]
  /\ Return(v)
  /\ UNCHANGED <<atomics, entries, atomic_live, plain, scan>>

EndCopy(v) ==
  /\ pc[v] = "c_copy"
  /\ atomics' = UnlockRead(atomics, v)
  /\ spans' = [spans EXCEPT ![v] = {}]
  /\ Return(v)
  /\ UNCHANGED <<entries, atomic_live, plain, scan>>

-----------------------------------------------------------------------------

(* The steps a call takes by itself once it has been made                  *)
Step(v) ==
  \/ LoadAtomicLive(v) \/ CheckAtomics(v) \/ UndoPlain(v)
  \/ LockAtomics(v) \/ Announce(v) \/ ScanShard(v) \/ Abort(v)
  \/ UnlockFailed(v) \/ InsertAtomic(v)
  \/ RemoveAtomic(v) \/ FinishDropAtomic(v)
  \/ BeginCopy(v) \/ EndCopy(v)

(* The calls and drops the user of the crate decides on                    *)
Call(v) ==
  \/ \E kind \in {"slice", "item"}, span \in PlainSpan, shard \in Shard :
       InsertPlain(v, kind, span, shard)
  \/ \E span \in AtomicSpan : RequestAtomic(v, span)
  \/ \E span \in PlainSpan : RequestCopy(v, span)
  \/ DropPlain(v)
  \/ BeginDropAtomic(v)

Next == \E v \in View : Step(v) \/ Call(v)

Spec == Init /\ [][Next]_vars

(* Threads run, and parking_lot starves no waiting thread: strong fairness *)
(* for the steps, of which only those that take the lock of the atomic set *)
(* wait.  A waiting writer sets a bit that keeps later plain read() calls  *)
(* out, so while it waits it is not overtaken by copies again and again.   *)
(* Nothing is assumed about calls and drops: they are the user's.          *)
Fairness ==
  /\ \A v \in View : SF_vars(Step(v))
  /\ \/ \A v \in View : []<>(pc[v] \notin {"a_lock", "d_lock"})
     \/ <>[][\A v \in View : ~BeginCopy(v)]_vars

FairSpec == Spec /\ Fairness

-----------------------------------------------------------------------------
(***************************************************************************)
(* Properties                                                              *)
(***************************************************************************)

PlainPc  == {"p_load", "p_check", "p_undo", "p_live"}
WriterPc == {"a_announce", "a_scan", "a_abort", "a_unlock", "a_insert", "d_dec"}

(* Types of the variables: the registry, its lock and the local variables  *)
(* of register_plain, register_atomic and copy_out.                        *)
TypeOK ==
  /\ atomics \in LockType(View)
  /\ entries \subseteq [id : View, start : Nat, end : Nat, size : ElemSize]
  /\ atomic_live \in Nat
  /\ plain \in [Shard -> SUBSET [owner : View, start : Nat, end : Nat]]
  /\ pc \in [View -> PlainPc \union WriterPc \union
                     {"idle", "a_lock", "a_live", "d_lock", "c_lock", "c_copy"}]
  /\ req \in [View -> Request]
  /\ scan \in [View -> Shard]
  /\ spans \in [View -> SUBSET [id : View, start : Nat, end : Nat, size : ElemSize]]

ShareByte(r, s) == \E b \in r.start .. r.end : Covers(r, b) /\ Covers(s, b)

(* No &[u8] handed out by as_slice or an iterator shares a byte with a     *)
(* live atomic view, whatever the order of the two registrations           *)
(* (register_plain, register_atomic; "Protocol" in src/views.rs).          *)
PlainAtomicExclusion ==
  \A p, a \in View :
    pc[p] = "p_live" /\ pc[a] = "a_live" => ~ShareByte(req[p], req[a])

(* Two live atomic views that share a byte have the same element size:     *)
(* register_atomic never allows mixed-size atomic access.                  *)
NoMixedSize ==
  \A a, b \in View :
    pc[a] = "a_live" /\ pc[b] = "a_live" /\ ShareByte(req[a], req[b])
      => req[a].size = req[b].size

(* While copy_out or touch runs, every byte of its range under a live      *)
(* atomic view is one it reads with atomic loads of exactly the element    *)
(* size of that view: a copy made from the spans it collected first never  *)
(* races with a store.                                                     *)
CopyRaceFree ==
  \A c, a \in View :
    pc[c] = "c_copy" /\ pc[a] = "a_live" =>
      \A b \in req[c].start .. req[c].end : Covers(req[c], b) /\ Covers(req[a], b) =>
        \E e \in spans[c] : Covers(e, b) /\ e.size = req[a].size

(* atomic_live is the number of entries of the atomic set whenever nobody  *)
(* holds its write lock (the field comment in ViewRegistry): refused       *)
(* registrations and drops give back exactly what they announced, so the   *)
(* fast path of register_plain comes back once all atomic views are gone.  *)
LiveCountExact == atomics.writer = {} => atomic_live = Cardinality(entries)

(* Every entry of a shard belongs to a view that is registered or being    *)
(* registered, and every entry of the atomic set to a live atomic view or  *)
(* one being dropped: no refusal and no drop leaves an entry behind that   *)
(* would refuse later views of those bytes for ever.                       *)
NoLeakedEntry ==
  /\ \A s \in Shard : \A p \in plain[s] :
       pc[p.owner] \in PlainPc /\ req[p.owner].shard = s /\ p = PlainEntry(p.owner)
  /\ \A e \in entries : pc[e.id] \in {"a_live", "d_lock"} /\ e = AtomicEntry(e.id)

(* Every call returns: no order of registrations, drops and copies makes   *)
(* the locks of the registry wait for each other (lock order in the module *)
(* comment of src/views.rs).                                               *)
CallsReturn ==
  \A v \in View : pc[v] # "idle" ~> pc[v] \in {"idle", "p_live", "a_live"}

-----------------------------------------------------------------------------
(***************************************************************************)
(* The inductive invariant                                                 *)
(***************************************************************************)

(* Ranges are non-empty except for the empty atomic view, and have an      *)
(* element size where one is used.                                         *)
RangeInv ==
  \A v \in View :
    /\ pc[v] \in PlainPc \union {"c_lock", "c_copy"} => req[v].start < req[v].end
    /\ pc[v] \in (WriterPc \ {"d_dec"}) \union {"a_lock", "d_lock"} =>
         req[v].start < req[v].end /\ req[v].size \in ElemSize
    /\ pc[v] = "a_live" => req[v].start <= req[v].end /\ req[v].size \in ElemSize

(* An empty atomic view has no entry.                                      *)
NonEmptyEntries == \A e \in entries : e.start < e.end

(* Who holds the lock of the atomic set, and that it is a lock.            *)
LockInv ==
  /\ \A v \in View : (pc[v] \in WriterPc) <=> (v \in atomics.writer)
  /\ \A v \in View : (pc[v] = "c_copy") <=> (v \in atomics.readers)
  /\ \A v, w \in atomics.writer : v = w
  /\ atomics.writer = {} \/ atomics.readers = {}

(* A plain view is in its shard from its insertion to its removal.         *)
PlainInv ==
  \A v \in View : pc[v] \in PlainPc => PlainEntry(v) \in plain[req[v].shard]

Registered ==
  {v \in View : pc[v] \in {"a_live", "d_lock"} /\ req[v].start # req[v].end}

EntryInv == \A v \in Registered : AtomicEntry(v) \in entries

(* The views atomic_live counts: announced, registered or being dropped.   *)
Announced == Registered \union {v \in View : pc[v] \in {"a_scan", "a_abort", "a_insert", "d_dec"}}

CountInv == atomic_live = Cardinality(Announced)

(* A scan starts at the first shard.                                       *)
ScanStart == \A a \in View : pc[a] # "a_scan" => scan[a] = 0

(* The heart of the protocol: a live plain view that overlaps an atomic    *)
(* registration is in a shard the registration has yet to scan.            *)
ScanInv ==
  \A p, a \in View :
    pc[p] = "p_live" /\ overlaps(req[p], req[a]) =>
      /\ pc[a] = "a_scan" => scan[a] <= req[p].shard
      /\ pc[a] # "a_insert"
      /\ a \notin Registered

SizeInv ==
  /\ \A a \in View : pc[a] \in {"a_announce", "a_scan", "a_insert"} =>
       \A e \in entries : overlaps(e, req[a]) => e.size = req[a].size
  /\ \A e, f \in entries : overlaps(e, f) => e.size = f.size

CopyInv ==
  \A c \in View : pc[c] = "c_copy" => spans[c] = {e \in entries : overlaps(e, req[c])}

(* The strengthening of the five safety properties that every step of the  *)
(* protocol preserves.                                                     *)
IInv ==
  /\ TypeOK /\ RangeInv /\ NonEmptyEntries /\ LockInv /\ PlainInv /\ EntryInv
  /\ NoLeakedEntry /\ CountInv /\ ScanStart /\ ScanInv /\ SizeInv /\ CopyInv

=============================================================================
