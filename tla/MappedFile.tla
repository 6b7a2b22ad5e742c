----------------------------- MODULE MappedFile -----------------------------
(***************************************************************************)
(* The mapping of a ReadWrite MemoryMappedFile, the views that hold guards *)
(* on it, and resize (src/mmap.rs).  Every view and every copying read     *)
(* keeps a guard of the mapping's lock for as long as it lives, and resize *)
(* changes the file and the mapping under the write lock, one fallible     *)
(* system call after the other.                                            *)
(*                                                                         *)
(* A thread owns at most one view at a time and makes one call at a time;  *)
(* it may make reading calls while it owns a reading view.  The file is    *)
(* changed by nobody else (the crate's documented requirement).            *)
(***************************************************************************)
EXTENDS Integers, RwLock

CONSTANTS
  Thread,
  MaxLen,       (* lengths of the file are 0 .. MaxLen                     *)
  Platforms     (* subset of {"unix", "windows"}                           *)

ASSUME LenAssumption      == MaxLen \in Nat \ {0}
ASSUME PlatformAssumption == Platforms \subseteq {"unix", "windows"}

VARIABLES
  platform,    (* which shrink_locked was compiled                         *)
  map,         (* the RwLock around the mapping                            *)
  map_len,     (* length of the mapping: RawMmapMut::len                   *)
  cached_len,  (* Inner.cached_len, what len() returns without the lock    *)
  file_len,    (* length of the file                                       *)
  content,     (* content[i]: byte i was written; FALSE past the end       *)
  view,        (* the view each thread owns                                *)
  pc,          (* the call each thread is in                               *)
  req,         (* its range, or the new size of resize                     *)
  old          (* the mapping and the file when resize got the lock        *)

vars == <<platform, map, map_len, cached_len, file_len, content, view, pc, req, old>>

Len   == 0 .. MaxLen
Size  == 1 .. MaxLen
Byte  == 0 .. MaxLen - 1
Range == {r \in Len \X Len : r[1] < r[2]}

(* A guard belongs to a view or to a running call.                         *)
Guard == Thread \X {"view", "call"}

NoView  == [kind |-> "none", start |-> 0, end |-> 0]
NoRange == <<0, 0>>

Empty == [b \in Byte |-> FALSE]

(* A mapping just created with create_rw: the file is new and all zeros.   *)
Init ==
  /\ platform \in Platforms
  /\ map = Unlocked
  /\ map_len \in Size
  /\ cached_len = map_len
  /\ file_len = map_len
  /\ content = Empty
  /\ view = [t \in Thread |-> NoView]
  /\ pc = [t \in Thread |-> "idle"]
  /\ req = [t \in Thread |-> NoRange]
  /\ old = [map_len |-> 0, file_len |-> 0, content |-> Empty]

Goto(t, label) == pc' = [pc EXCEPT ![t] = label]

(* slice_range: the range is inside the mapping of the guard that is held. *)
slice_range(r) == r[2] <= map_len

-----------------------------------------------------------------------------
(***************************************************************************)
(* Views and reads                                                         *)
(***************************************************************************)

(* as_slice, try_as_slice and the atomic views: a read guard for the life  *)
(* of the view.  OutOfBounds releases the guard again and changes nothing. *)
OpenView(t, r) ==
  /\ pc[t] = "idle" /\ view[t] = NoView
  /\ CanRead(map)
  /\ slice_range(r)
  /\ map' = LockRead(map, <<t, "view">>)
  /\ view' = [view EXCEPT ![t] = [kind |-> "read", start |-> r[1], end |-> r[2]]]
  /\ UNCHANGED <<platform, map_len, cached_len, file_len, content, pc, req, old>>

(* as_slice_mut, try_as_slice_mut                                          *)
OpenMut(t, r) ==
  /\ pc[t] = "idle" /\ view[t] = NoView
  /\ CanWrite(map)
  /\ slice_range(r)
  /\ map' = LockWrite(map, <<t, "view">>)
  /\ view' = [view EXCEPT ![t] = [kind |-> "mut", start |-> r[1], end |-> r[2]]]
  /\ UNCHANGED <<platform, map_len, cached_len, file_len, content, pc, req, old>>

StoreMut(t, i) ==
  /\ pc[t] = "idle" /\ view[t].kind = "mut"
  /\ i \in view[t].start .. view[t].end - 1
  /\ content' = [content EXCEPT ![i] = TRUE]
  /\ UNCHANGED <<platform, map, map_len, cached_len, file_len, view, pc, req, old>>

DropView(t) ==
  /\ pc[t] = "idle" /\ view[t] # NoView
  /\ map' = UnlockWrite(UnlockRead(map, <<t, "view">>), <<t, "view">>)
  /\ view' = [view EXCEPT ![t] = NoView]
  /\ UNCHANGED <<platform, map_len, cached_len, file_len, content, pc, req, old>>

(* update_region: the copy under the write lock                            *)
update_region(t, r) ==
  /\ pc[t] = "idle" /\ view[t] = NoView
  /\ CanWrite(map)
  /\ slice_range(r)
  /\ content' = [b \in Byte |-> content[b] \/ b \in r[1] .. r[2] - 1]
  /\ UNCHANGED <<platform, map, map_len, cached_len, file_len, view, pc, req, old>>

(* read_into, read_bytes, the iterators, page touching and flush: a read   *)
(* guard for the duration of the call, also while the thread owns a view.  *)
CallRead(t, r) ==
  /\ pc[t] = "idle" /\ view[t].kind # "mut"
  /\ Goto(t, "r_wait")
  /\ req' = [req EXCEPT ![t] = r]
  /\ UNCHANGED <<platform, map, map_len, cached_len, file_len, content, view, old>>

(* Defect: the lock is taken with read(), behind a queued resize           *)
BeginRead_Queues(t) ==
  /\ pc[t] = "r_wait"
  /\ CanRead(map)
  /\ \A u \in Thread : pc[u] # "z_wait"
  /\ \/ /\ slice_range(req[t])
        /\ map' = LockRead(map, <<t, "call">>)
        /\ Goto(t, "r_copy")
     \/ /\ ~slice_range(req[t])
        /\ Goto(t, "idle")
        /\ UNCHANGED map
  /\ UNCHANGED <<platform, map_len, cached_len, file_len, content, view, req, old>>

(* map_read takes the lock with read_recursive: a writer that waits (here  *)
(* a thread at "z_wait") does not hold the reader back.                    *)
BeginRead(t) ==
  /\ pc[t] = "r_wait"
  /\ CanRead(map)
  /\ \/ /\ slice_range(req[t])
        /\ map' = LockRead(map, <<t, "call">>)
        /\ Goto(t, "r_copy")
     \/ /\ ~slice_range(req[t])
        /\ Goto(t, "idle")
        /\ UNCHANGED map
  /\ UNCHANGED <<platform, map_len, cached_len, file_len, content, view, req, old>>

EndRead(t) ==
  /\ pc[t] = "r_copy"
  /\ map' = UnlockRead(map, <<t, "call">>)
  /\ Goto(t, "idle")
  /\ UNCHANGED <<platform, map_len, cached_len, file_len, content, view, req, old>>

-----------------------------------------------------------------------------
(***************************************************************************)
(* resize.  req[t][2] is the new size.                                     *)
(***************************************************************************)

(* File::set_len: cuts bytes off, or adds zeros                            *)
set_len(n) ==
  /\ file_len' = n
  /\ content' = [b \in Byte |-> content[b] /\ b < n]

new_len(t) == req[t][2]

(* Size 0 is refused before the lock is taken, sizes above the limit too.  *)
CallResize(t, n) ==
  /\ pc[t] = "idle" /\ view[t] = NoView
  /\ Goto(t, "z_wait")
  /\ req' = [req EXCEPT ![t] = <<0, n>>]
  /\ UNCHANGED <<platform, map, map_len, cached_len, file_len, content, view, old>>

(* Defect: resize does not wait for the readers                            *)
LockResize_IgnoresReaders(t) ==
  /\ pc[t] = "z_wait"
  /\ CanRead(map)
  /\ map' = LockWrite(map, <<t, "call">>)
  /\ old' = [map_len |-> map_len, file_len |-> file_len, content |-> content]
  /\ Goto(t, CASE new_len(t) = map_len -> "z_ok"
               [] new_len(t) > map_len -> "g_set_len"
               [] new_len(t) < map_len ->
                    IF platform = "unix" THEN "s_map" ELSE "w_unmap")
  /\ UNCHANGED <<platform, map_len, cached_len, file_len, content, view, req>>

LockResize(t) ==
  /\ pc[t] = "z_wait"
  /\ CanWrite(map)
  /\ map' = LockWrite(map, <<t, "call">>)
  /\ old' = [map_len |-> map_len, file_len |-> file_len, content |-> content]
  /\ Goto(t, CASE new_len(t) = map_len -> "z_ok"
               [] new_len(t) > map_len -> "g_set_len"
               [] new_len(t) < map_len ->
                    IF platform = "unix" THEN "s_map" ELSE "w_unmap")
  /\ UNCHANGED <<platform, map_len, cached_len, file_len, content, view, req>>

(* A step of resize is a system call that works or fails.                  *)
SysCall(t, label, ok, effect, err) ==
  /\ pc[t] = label
  /\ \/ effect /\ Goto(t, ok)
     \/ UNCHANGED <<map_len, file_len, content>> /\ Goto(t, err)
  /\ UNCHANGED <<platform, map, cached_len, view, req, old>>

Remap(n) == map_len' = n /\ UNCHANGED <<file_len, content>>
Truncate(n) == set_len(n) /\ UNCHANGED map_len

(* Defect: the file is not put back when it cannot be mapped               *)
GrowMap_NoUndo(t) == SysCall(t, "g_map", "z_ok", Remap(new_len(t)), "z_err")

(* grow_locked: extend the file, map it; if that fails put the file back,  *)
(* unless that fails too                                                   *)
GrowSetLen(t) == SysCall(t, "g_set_len", "g_map", Truncate(new_len(t)), "z_err")
GrowMap(t)    == SysCall(t, "g_map", "z_ok", Remap(new_len(t)), "g_undo")
GrowUndo(t)   == SysCall(t, "g_undo", "z_err", Truncate(old.map_len), "z_longer")

(* Defect: the file is truncated before the last call that can fail        *)
ShrinkMap_TruncatesFirst(t) ==
  SysCall(t, "s_map", "s_set_len", Truncate(new_len(t)), "z_err")

(* shrink_locked on unix: map the prefix, truncate, replace the mapping    *)
ShrinkMap(t)    == SysCall(t, "s_map", "s_set_len", UNCHANGED <<map_len, file_len, content>>,
                           "z_err")
ShrinkSetLen(t) == SysCall(t, "s_set_len", "z_ok",
                           set_len(new_len(t)) /\ map_len' = new_len(t), "z_err")

(* shrink_locked on Windows: a mapped file cannot be truncated, so the old *)
(* mapping goes first; an empty placeholder takes its place.               *)
WinUnmap(t) ==
  /\ pc[t] = "w_unmap"
  /\ map_len' = 0
  /\ Goto(t, "w_set_len")
  /\ UNCHANGED <<platform, map, cached_len, file_len, content, view, req, old>>

WinSetLen(t)  == SysCall(t, "w_set_len", "w_map", Truncate(new_len(t)), "w_restore")
WinMap(t)     == SysCall(t, "w_map", "z_ok", Remap(new_len(t)), "z_empty")
WinRestore(t) == SysCall(t, "w_restore", "z_err", Remap(old.map_len), "z_lost")

(* The ways in which resize ends: Ok; Err with everything undone; Err with *)
(* the file left longer, with an empty mapping of the truncated file, or   *)
(* with an empty mapping of a file that was not truncated.                 *)
Outcome == {"z_ok", "z_err", "z_longer", "z_empty", "z_lost"}

(* Defects: the length is published on success only, or as a difference    *)
StoreLen_OnSuccess(t) ==
  /\ pc[t] \in Outcome
  /\ cached_len' = IF pc[t] = "z_ok" THEN map_len ELSE cached_len
  /\ map' = UnlockWrite(map, <<t, "call">>)
  /\ Goto(t, "idle")
  /\ UNCHANGED <<platform, map_len, file_len, content, view, req, old>>

(* The length is published before the write guard is dropped.              *)
StoreLen(t) ==
  /\ pc[t] \in Outcome
  /\ cached_len' = map_len
  /\ map' = UnlockWrite(map, <<t, "call">>)
  /\ Goto(t, "idle")
  /\ UNCHANGED <<platform, map_len, file_len, content, view, req, old>>

-----------------------------------------------------------------------------

Resize(t) ==
  \/ LockResize(t) \/ GrowSetLen(t) \/ GrowMap(t) \/ GrowUndo(t)
  \/ ShrinkMap(t) \/ ShrinkSetLen(t)
  \/ WinUnmap(t) \/ WinSetLen(t) \/ WinMap(t) \/ WinRestore(t)
  \/ StoreLen(t)

UserCall(t) ==
  \/ \E r \in Range : OpenView(t, r) \/ OpenMut(t, r) \/ update_region(t, r) \/ CallRead(t, r)
  \/ \E i \in Byte : StoreMut(t, i)
  \/ \E n \in Size : CallResize(t, n)

Next == \E t \in Thread :
  UserCall(t) \/ DropView(t) \/ BeginRead(t) \/ EndRead(t) \/ Resize(t)

Spec == Init /\ [][Next]_vars

(* A running call goes on, and who owns a mutable slice drops it.  Nobody  *)
(* has to drop a reading view, and nobody has to make a call.              *)
Fairness == \A t \in Thread :
  /\ SF_vars(BeginRead(t)) /\ WF_vars(EndRead(t))
  /\ WF_vars(Resize(t))
  /\ WF_vars(view[t].kind = "mut" /\ DropView(t))

FairSpec == Spec /\ Fairness

-----------------------------------------------------------------------------
(***************************************************************************)
(* Properties                                                              *)
(***************************************************************************)

ResizePc == Outcome \union {"g_set_len", "g_map", "g_undo", "s_map", "s_set_len",
                            "w_unmap", "w_set_len", "w_map", "w_restore"}

(* Types of the mapping, the file and the calls.                           *)
TypeOK ==
  /\ platform \in Platforms
  /\ map \in LockType(Guard)
  /\ map_len \in Len /\ cached_len \in Len /\ file_len \in Len
  /\ content \in [Byte -> BOOLEAN]
  /\ view \in [Thread -> [kind : {"none", "read", "mut"}, start : Len, end : Len]]
  /\ pc \in [Thread -> ResizePc \union {"idle", "r_wait", "r_copy", "z_wait"}]
  /\ req \in [Thread -> Len \X Len]
  /\ old \in [map_len : Len, file_len : Len, content : [Byte -> BOOLEAN]]

(* Memory safety of views: as long as a view or a copying read can touch   *)
(* its bytes they are inside the mapping, and the mapping is inside the    *)
(* file (a mapped page past the end of the file faults).  Resize must not  *)
(* truncate or unmap under anybody's feet, whichever call of it fails.     *)
ViewsBacked ==
  /\ \A t \in Thread : view[t] # NoView => view[t].end <= map_len /\ map_len <= file_len
  /\ \A t \in Thread : pc[t] = "r_copy" => req[t][2] <= map_len /\ map_len <= file_len

(* len() is the length of the mapping whenever no writer is inside, and    *)
(* the mapping never outgrows the file, after failed resizes too.          *)
LenConsistent == map.writer = {} => cached_len = map_len /\ map_len <= file_len

(* The first n bytes are those from when resize took the lock.             *)
Kept(n) == \A b \in Byte : b < n => content[b] = old.content[b]

(* What resize leaves behind.  Ok: mapping and file have the new length,   *)
(* and every byte below it is as it was (zero where the file had none).    *)
(* Err: the old mapping over its bytes, and the file is as it was or, when *)
(* a grow was undone, as long as the mapping; only if the undo itself      *)
(* failed is it longer.  On Windows the mapping may be left empty: over a  *)
(* truncated file (documented), or over the untouched file when it could   *)
(* not be restored (the subject of the run MappedFileWindows).             *)
ResizeOutcome ==
  \A t \in Thread :
    /\ pc[t] = "z_ok" =>
         /\ map_len = new_len(t) /\ Kept(new_len(t))
         /\ file_len = IF new_len(t) = old.map_len THEN old.file_len ELSE new_len(t)
    /\ pc[t] = "z_err" =>
         /\ map_len = old.map_len /\ Kept(old.map_len)
         /\ \/ file_len = old.file_len /\ content = old.content
            \/ file_len = old.map_len /\ new_len(t) > old.map_len
    /\ pc[t] = "z_longer" =>
         map_len = old.map_len /\ Kept(new_len(t)) /\ file_len = new_len(t)
    /\ pc[t] \in {"z_err", "z_longer"} /\ platform = "unix" => content = old.content
    /\ pc[t] \in {"z_empty", "z_lost"} => platform = "windows" /\ map_len = 0
    /\ pc[t] = "z_empty" => Kept(new_len(t)) /\ file_len = new_len(t)
    /\ pc[t] = "z_lost" => content = old.content /\ file_len = old.file_len

(* Every reading call returns, also the call of a thread that owns a view  *)
(* while another thread waits in resize for that view to be dropped.       *)
ReadsReturn == \A t \in Thread : pc[t] = "r_wait" ~> pc[t] = "idle"

(* A grow that fails loses no byte of the file: "put the file back to the  *)
(* size the live mapping covers" (grow_locked), as the failure-injection   *)
(* test asserts.                                                           *)
FailedGrowKeepsBytes ==
  \A t \in Thread :
    pc[t] \in {"z_err", "z_longer"} /\ new_len(t) > old.map_len => content = old.content

=============================================================================
