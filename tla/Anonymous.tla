------------------------------ MODULE Anonymous ------------------------------
(***************************************************************************)
(* An anonymous mapping (src/anonymous.rs) with its slices, its atomic     *)
(* views (src/atomic.rs) and its view registry (src/views.rs) as the data  *)
(* structures it consists of: slabs of plain ranges whose slots are used   *)
(* again, a vector of atomic entries, and the sweep over them that copies  *)
(* bytes out.  Atomic views of a file mapping take the same way.           *)
(*                                                                         *)
(* Here a call is one step: ViewRegistry has the steps inside it.  Views   *)
(* are dropped in any order, by any thread; whose slab a slice is in       *)
(* depends on the thread that made it, and is a choice here.               *)
(***************************************************************************)
EXTENDS ByteSeq, FiniteSets, SequencesExt, RwLock

CONSTANTS
  View,       (* view objects                                              *)
  SHARDS,
  MaxLen,     (* MAX_MMAP_SIZE                                             *)
  UMax,       (* u64::MAX                                                  *)
  ElemSize,   (* the sizes of atomic elements, equal to their alignment    *)
  PageSize

ASSUME ViewAssumption == IsFiniteSet(View)
ASSUME SizeAssumption == /\ SHARDS \in Nat \ {0} /\ MaxLen \in Nat \ {0} /\ UMax \in Nat
                         /\ UMax > MaxLen
                         /\ ElemSize \subseteq Nat \ {0} /\ PageSize \in Nat \ {0}

VARIABLES
  map,       (* the lock of the mapping                                    *)
  len,       (* its length, fixed when it is made; 0 before                *)
  plain,     (* plain[s]: the slab of shard s                              *)
  atomics,   (* the vector of atomic entries                               *)
  next_id,
  view,      (* the view objects, each with its registration               *)
  answer     (* the last call and its result                               *)

registry == <<plain, atomics, next_id>>
vars     == <<map, len, registry, view, answer>>

Shard == 0 .. SHARDS - 1
U64   == 0 .. UMax
Free  == <<>>    (* an empty slot; a used one is a pair                    *)

NoView    == [kind |-> "none", start |-> 0, end |-> 0, size |-> 0,
              shard |-> 0, slot |-> 0, id |-> 0]
EmptySlab == [entries |-> <<>>, free |-> <<>>]

Init ==
  /\ map = Unlocked /\ len = 0
  /\ plain = [s \in Shard |-> EmptySlab]
  /\ atomics = <<>> /\ next_id = 0
  /\ view = [v \in View |-> NoView]
  /\ answer = [op |-> "none", off |-> 0, len |-> 0, size |-> 0, res |-> "Ok",
               val |-> <<>>, loads |-> {}]

Result(op, off, n, size, res, val, loads) ==
  answer' = [op |-> op, off |-> off, len |-> n, size |-> size, res |-> res,
             val |-> val, loads |-> loads]
Reply(op, off, n, res) == Result(op, off, n, 0, res, <<>>, {})

saturating_add(a, b) == Smaller(a + b, UMax)
saturating_mul(a, b) == Smaller(a * b, UMax)

slice_range(off, n) == off + n <= UMax /\ off + n <= len

overlaps(a0, a1, b0, b1) == a0 < b1 /\ b0 < a1

-----------------------------------------------------------------------------
(***************************************************************************)
(* Slabs                                                                   *)
(***************************************************************************)

(* Defect: the slot that is used again stays on the free list              *)
SlabInsert_KeepsFree(slab, range) ==
  IF slab.free # <<>>
  THEN [slab EXCEPT !.entries[Last(slab.free)] = range]
  ELSE [slab EXCEPT !.entries = Append(@, range)]

(* The slot freed last is used first; the vector grows if there is none.   *)
SlabInsert(slab, range) ==
  IF slab.free # <<>>
  THEN [entries |-> [slab.entries EXCEPT ![Last(slab.free)] = range], free |-> Front(slab.free)]
  ELSE [slab EXCEPT !.entries = Append(@, range)]

InsertedAt(slab) == IF slab.free # <<>> THEN Last(slab.free) ELSE Len(slab.entries) + 1

(* A slot that is already empty is not freed twice.                        *)
SlabRemove(slab, slot) ==
  IF slot \in DOMAIN slab.entries /\ slab.entries[slot] # Free
  THEN [entries |-> [slab.entries EXCEPT ![slot] = Free], free |-> Append(slab.free, slot)]
  ELSE slab

SlabOverlaps(slab, start, end) ==
  \E i \in DOMAIN slab.entries :
    /\ slab.entries[i] # Free
    /\ overlaps(slab.entries[i][1], slab.entries[i][2], start, end)

-----------------------------------------------------------------------------
(***************************************************************************)
(* The mapping, slices and writes                                          *)
(***************************************************************************)

validated_len(n) == n \in 1 .. MaxLen

new(n) ==
  /\ len = 0
  /\ \/ validated_len(n) /\ len' = n /\ Reply("new", 0, n, "Ok")
     \/ validated_len(n) /\ UNCHANGED len /\ Reply("new", 0, n, "Io")
     \/ ~validated_len(n) /\ UNCHANGED len /\ Reply("new", 0, n, "ResizeFailed")
  /\ UNCHANGED <<map, registry, view>>

(* Huge pages that are refused are no error: base pages take their place.  *)
with_huge_pages(n) == new(n)

(* register_plain: the entry is inserted first and removed again if an     *)
(* atomic view is in the way.                                              *)
RegisterPlain(v, op, off, n, shard) ==
  LET slab == SlabInsert(plain[shard], <<off, off + n>>)
      slot == InsertedAt(plain[shard])
      conflict == \E i \in DOMAIN atomics :
                    overlaps(atomics[i].start, atomics[i].end, off, off + n)
  IN  IF conflict
      THEN /\ plain' = [plain EXCEPT ![shard] = SlabRemove(slab, slot)]
           /\ UNCHANGED <<map, view>>
           /\ Reply(op, off, n, "AtomicLive")
      ELSE /\ plain' = [plain EXCEPT ![shard] = slab]
           /\ map' = LockRead(map, v)
           /\ view' = [view EXCEPT ![v] = [NoView EXCEPT
                         !.kind = "slice", !.start = off, !.end = off + n,
                         !.shard = shard, !.slot = slot]]
           /\ Reply(op, off, n, "Ok")

SliceCall(v, op, off, n, shard) ==
  /\ len > 0 /\ view[v] = NoView
  /\ \/ n = 0 /\ Reply(op, off, n, "Ok") /\ UNCHANGED <<map, plain, view>>
     \/ /\ n > 0 /\ ~slice_range(off, n)
        /\ Reply(op, off, n, "OutOfBounds") /\ UNCHANGED <<map, plain, view>>
     \/ /\ n > 0 /\ slice_range(off, n) /\ op = "try_slice" /\ ~CanRead(map)
        /\ Reply(op, off, n, "Busy") /\ UNCHANGED <<map, plain, view>>
     \/ /\ n > 0 /\ slice_range(off, n) /\ CanRead(map)
        /\ RegisterPlain(v, op, off, n, shard)
  /\ UNCHANGED <<len, atomics, next_id>>

as_slice(v, off, n, shard)     == SliceCall(v, "slice", off, n, shard)
try_as_slice(v, off, n, shard) == SliceCall(v, "try_slice", off, n, shard)

(* An empty slice is <<0, 0>>.                                             *)
MutCall(v, op, off, n) ==
  /\ len > 0 /\ view[v] = NoView
  /\ \/ /\ n > 0 /\ ~slice_range(off, n)
        /\ Reply(op, off, n, "OutOfBounds") /\ UNCHANGED <<map, view>>
     \/ /\ n = 0 \/ slice_range(off, n)
        /\ op = "try_mut" /\ ~CanWrite(map)
        /\ Reply(op, off, n, "Busy") /\ UNCHANGED <<map, view>>
     \/ /\ n = 0 \/ slice_range(off, n)
        /\ CanWrite(map)
        /\ map' = LockWrite(map, v)
        /\ view' = [view EXCEPT ![v] = [NoView EXCEPT !.kind = "mut",
                      !.start = IF n = 0 THEN 0 ELSE off, !.end = IF n = 0 THEN 0 ELSE off + n]]
        /\ Reply(op, off, n, "Ok")
  /\ UNCHANGED <<len, registry>>

as_mut_slice(v, off, n)     == MutCall(v, "mut", off, n)
try_as_mut_slice(v, off, n) == MutCall(v, "try_mut", off, n)

UpdateCall(op, off, n) ==
  /\ len > 0
  /\ \/ n = 0 /\ Reply(op, off, n, "Ok")
     \/ n > 0 /\ ~slice_range(off, n) /\ Reply(op, off, n, "OutOfBounds")
     \/ n > 0 /\ slice_range(off, n) /\ CanWrite(map) /\ Reply(op, off, n, "Ok")
     \/ /\ n > 0 /\ slice_range(off, n) /\ op = "try_update" /\ ~CanWrite(map)
        /\ Reply(op, off, n, "Busy")
  /\ UNCHANGED <<map, len, registry, view>>

update_region(off, n)     == UpdateCall("update", off, n)
try_update_region(off, n) == UpdateCall("try_update", off, n)

-----------------------------------------------------------------------------
(***************************************************************************)
(* Atomic views                                                            *)
(***************************************************************************)

(* Defect: only views that start at the same byte are compared             *)
Mixed_SameStart(off, end, size) ==
  \E i \in DOMAIN atomics : atomics[i].size # size /\ atomics[i].start = off

Mixed(off, end, size) ==
  \E i \in DOMAIN atomics :
    atomics[i].size # size /\ overlaps(atomics[i].start, atomics[i].end, off, end)

(* register_atomic: an empty range gets no entry; ids count up.            *)
RegisterAtomic(v, off, end, size) ==
  /\ atomics' = IF off = end THEN atomics
                ELSE Append(atomics, [start |-> off, end |-> end, size |-> size, id |-> next_id])
  /\ next_id' = IF off = end THEN next_id ELSE next_id + 1
  /\ map' = LockRead(map, v)
  /\ view' = [view EXCEPT ![v] = [NoView EXCEPT !.kind = "atomic", !.start = off, !.end = end,
                !.size = size, !.id = IF off = end THEN -1 ELSE next_id]]

(* view_parts: alignment, then bounds under the guard, then conflicts      *)
view_parts(v, off, count, size) ==
  LET n         == saturating_mul(size, count)
      end       == off + n
      Refuse(w) == /\ Result("atomic", off, count, size, w, <<>>, {})
                   /\ UNCHANGED <<map, atomics, next_id, view>>
  IN  /\ len > 0 /\ view[v] = NoView
      /\ \/ off % size # 0 /\ Refuse("Misaligned")
         \/ /\ off % size = 0 /\ CanRead(map)
            /\ \/ saturating_add(off, n) > len /\ Refuse("OutOfBounds")
               \/ /\ saturating_add(off, n) <= len
                  /\ n > 0 /\ Mixed(off, end, size) /\ Refuse("MixedSize")
               \/ /\ saturating_add(off, n) <= len
                  /\ n > 0 /\ ~Mixed(off, end, size)
                  /\ \E s \in Shard : SlabOverlaps(plain[s], off, end)
                  /\ Refuse("PlainLive")
               \/ /\ saturating_add(off, n) <= len
                  /\ n > 0 => /\ ~Mixed(off, end, size)
                              /\ \A s \in Shard : ~SlabOverlaps(plain[s], off, end)
                  /\ RegisterAtomic(v, off, end, size)
                  /\ Result("atomic", off, count, size, "Ok", <<>>, {})
      /\ UNCHANGED <<len, plain>>

(* atomic_u32, atomic_u64 and the slices of both                           *)
atomic_view(v, off, size)         == view_parts(v, off, 1, size)
atomic_slice(v, off, count, size) == view_parts(v, off, count, size)

(* Vec::swap_remove: the last entry takes the place of the removed one.    *)
SwapRemove(s, i) == Front([s EXCEPT ![i] = Last(s)])

Position(id) == CHOOSE i \in DOMAIN atomics : atomics[i].id = id

(* PlainReg::drop, AtomicReg::drop, and the guard behind them              *)
DropView(v) ==
  /\ view[v] # NoView
  /\ plain' = IF view[v].kind = "slice"
              THEN [plain EXCEPT ![view[v].shard] = SlabRemove(@, view[v].slot)] ELSE plain
  /\ atomics' = IF view[v].kind = "atomic" /\ view[v].id # -1
                THEN SwapRemove(atomics, Position(view[v].id)) ELSE atomics
  /\ map' = UnlockWrite(UnlockRead(map, v), v)
  /\ view' = [view EXCEPT ![v] = NoView]
  /\ UNCHANGED <<len, next_id, answer>>

-----------------------------------------------------------------------------
(***************************************************************************)
(* copy_out and touch                                                      *)
(***************************************************************************)

Times(n, width) == [i \in 1 .. n |-> width]

(* atomic_copy loads every element that [from, to) touches.                *)
atomic_copy(from, to, size) ==
  {[elem |-> e, size |-> size] :
     e \in {x \in from - (from % size) .. to - 1 : from < to /\ x % size = 0}}

(* Defect: an entry that ends before the position takes the position back  *)
Sweep_Restarts(acc, span, end) ==
  LET plain_to  == IF span.start > acc.pos THEN Smaller(span.start, end) ELSE acc.pos
      atomic_to == Smaller(span.end, end)
  IN  [pos   |-> atomic_to,
       val   |-> acc.val \o Times(plain_to - acc.pos, 0)
                         \o Times(atomic_to - plain_to, span.size),
       loads |-> acc.loads \union atomic_copy(plain_to, atomic_to, span.size)]

(* One round of the loop over the atomic entries, sorted by their start:   *)
(* plain bytes up to the entry, atomic elements up to its end.             *)
Sweep(acc, span, end) ==
  LET plain_to  == IF span.start > acc.pos THEN Smaller(span.start, end) ELSE acc.pos
      atomic_to == Larger(Smaller(span.end, end), plain_to)
  IN  [pos   |-> atomic_to,
       val   |-> acc.val \o Times(plain_to - acc.pos, 0)
                         \o Times(atomic_to - plain_to, span.size),
       loads |-> acc.loads \union atomic_copy(plain_to, atomic_to, span.size)]

(* The state of the loop before it and after each of its rounds            *)
Rounds(spans, start, end) ==
  LET round[i \in 0 .. Len(spans)] ==
        IF i = 0 THEN [pos |-> start, val |-> <<>>, loads |-> {}]
        ELSE Sweep(round[i - 1], spans[i], end)
  IN  round

(* sort_unstable_by_key leaves the order of equal starts open.             *)
Sorted(S) ==
  {s \in SetToSeqs(S) : \A i, j \in 1 .. Cardinality(S) : i < j => s[i].start <= s[j].start}

Overlapping(start, end) == {a \in ToSet(atomics) : overlaps(a.start, a.end, start, end)}

copy_out(start, n) ==
  LET end == start + n
  IN  \E spans \in Sorted(Overlapping(start, end)) :
        LET last == Rounds(spans, start, end)[Len(spans)]
        IN  Result("read_into", start, n, 0, "Ok",
                   last.val \o Times(end - last.pos, 0), last.loads)

read_into(off, n) ==
  /\ len > 0
  /\ \/ n = 0 /\ Reply("read_into", off, n, "Ok")
     \/ n > 0 /\ ~slice_range(off, n) /\ Reply("read_into", off, n, "OutOfBounds")
     \/ n > 0 /\ slice_range(off, n) /\ CanRead(map) /\ copy_out(off, n)
  /\ UNCHANGED <<map, len, registry, view>>

(* One byte per page; under an atomic view the element it belongs to, of   *)
(* the first entry that covers it                                          *)
touch(start, n) ==
  /\ len > 0 /\ n > 0 /\ start + n <= len /\ CanRead(map)
  /\ LET pages    == (n + PageSize - 1) \div PageSize
         off(i)   == start + (i - 1) * PageSize
         found(b) == SelectInSeq(atomics, LAMBDA a : a.start <= b /\ b < a.end)
         size(b)  == IF found(b) = 0 THEN 0 ELSE atomics[found(b)].size
         hit      == {off(i) : i \in {j \in 1 .. pages : found(off(j)) # 0}}
     IN  Result("touch", start, n, PageSize, "Ok", [i \in 1 .. pages |-> size(off(i))],
                {[elem |-> b - (b % size(b)), size |-> size(b)] : b \in hit})
  /\ UNCHANGED <<map, len, registry, view>>

-----------------------------------------------------------------------------

Next ==
  \/ \E n \in 0 .. MaxLen + 1 : new(n) \/ with_huge_pages(n)
  \/ \E off \in U64, n \in 0 .. MaxLen + 1 :
       \/ read_into(off, n) \/ touch(off, n)
       \/ update_region(off, n) \/ try_update_region(off, n)
       \/ \E v \in View :
            \/ \E s \in Shard : as_slice(v, off, n, s) \/ try_as_slice(v, off, n, s)
            \/ as_mut_slice(v, off, n) \/ try_as_mut_slice(v, off, n)
            \/ \E size \in ElemSize : atomic_slice(v, off, n, size)
  \/ \E off \in U64, size \in ElemSize, v \in View : atomic_view(v, off, size)
  \/ \E v \in View : DropView(v)

Spec == Init /\ [][Next]_vars

(* No action reads the answer, and an id only says which entry is meant.   *)
Unanswered ==
  <<map, len, plain, [i \in DOMAIN atomics |-> [atomics[i] EXCEPT !.id = 0]],
    [v \in View |-> [view[v] EXCEPT !.id = SelectInSeq(atomics, LAMBDA a : a.id = view[v].id)]]>>

-----------------------------------------------------------------------------
(***************************************************************************)
(* Properties                                                              *)
(***************************************************************************)

Rules == INSTANCE ViewRules WITH
  length <- len,
  live   <- [v \in View |-> [kind |-> view[v].kind, start |-> view[v].start,
                             end |-> view[v].end, size |-> view[v].size]]

(* The mapping keeps the rules for views: each request is granted or       *)
(* refused by what is alive, whatever slots were used and freed before, in *)
(* whatever order the views were dropped, and a copying read or a touched  *)
(* page reads each byte once and in the one way its live views allow.      *)
KeepsRules == Rules!Spec

Meet(v, w) == \E b \in v.start .. v.end - 1 : b \in w.start .. w.end - 1

(* Whatever was granted, refused and dropped before: a mutable slice is    *)
(* alone, and a byte of an atomic view is in no slice and in no atomic     *)
(* view of another element size.  Otherwise a slice would race with an     *)
(* atomic store, or one byte be accessed with two widths, both undefined.  *)
NoConflict ==
  \A v, w \in View : v # w =>
    /\ view[v].kind = "mut" => view[w] = NoView
    /\ view[v].kind = "atomic" /\ Meet(view[v], view[w]) =>
         view[w].kind = "atomic" /\ view[w].size = view[v].size

(* A registration names its view and no other: every live slice has a slot *)
(* of its own that holds its range, every atomic view an entry of its own, *)
(* no slot is both used and on the free list, or on that list twice, and   *)
(* nothing else is registered.  A second removal of a slot, or a removal   *)
(* by a stale slot number, would open another view's bytes.                *)
RegistrationsMatch ==
  LET slices == {v \in View : view[v].kind = "slice"}
      keyed  == {v \in View : view[v].kind = "atomic" /\ view[v].id # -1}
  IN  /\ \A s \in Shard :
           LET slab == plain[s]
               used == {i \in DOMAIN slab.entries : slab.entries[i] # Free}
               mine == {v \in slices : view[v].shard = s}
           IN  /\ used = {view[v].slot : v \in mine}
               /\ \A v \in mine : slab.entries[view[v].slot] = <<view[v].start, view[v].end>>
               /\ Cardinality(mine) = Cardinality(used)
               /\ ToSet(slab.free) = DOMAIN slab.entries \ used
               /\ IsInjective(slab.free)
      /\ Len(atomics) = Cardinality(keyed)
      /\ \A v \in keyed : \E i \in DOMAIN atomics :
           atomics[i] = [start |-> view[v].start, end |-> view[v].end,
                         size |-> view[v].size, id |-> view[v].id]

=============================================================================
