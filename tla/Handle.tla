------------------------------- MODULE Handle -------------------------------
(***************************************************************************)
(* A MemoryMappedFile in its three variants (src/mmap.rs): Ro, Rw and Cow, *)
(* with the calls that read, write, resize, flush and advise through it.   *)
(* A private (Cow) mapping shows the file except for the pages that were   *)
(* written, of which the process has a copy.  Here a call on the handle is *)
(* one step: MappedFile and FlushAccounting have the steps inside resize   *)
(* and flush.  The map lock is kept, for what holds a guard between calls. *)
(*                                                                         *)
(* Unix; the flush policy is Never or Manual; no other process changes the *)
(* file, and no other handle on it is open.                                *)
(***************************************************************************)
EXTENDS ByteSeq, RwLock

CONSTANTS
  Byte,
  MaxLen,      (* MAX_MMAP_SIZE                                            *)
  UMax,        (* u64::MAX: offsets, lengths and positions are 0 .. UMax   *)
  MaxData,     (* the longest buffer that is read or written               *)
  PageSize

ASSUME ByteAssumption == 0 \in Byte /\ Byte \subseteq Nat
ASSUME SizeAssumption == /\ MaxLen \in Nat \ {0} /\ MaxData \in Nat /\ PageSize \in Nat \ {0}
                         /\ UMax \in Nat /\ UMax > MaxLen

VARIABLES
  file,        (* the bytes of the file                                    *)
  variant,     (* Inner.map: "none" (no handle), "Ro", "Rw" or "Cow"       *)
  mode,        (* Inner.mode                                               *)
  map,         (* the lock of the mapping                                  *)
  map_len,     (* its length                                               *)
  cached_len,  (* Inner.cached_len                                         *)
  private,     (* the private copies of pages: page number -> bytes        *)
  pending,     (* written_since_last_flush > 0                             *)
  answer       (* the last call and its result                             *)

mapVars    == <<variant, mode, map, map_len, cached_len>>
handleVars == <<file, mapVars, private, pending>>

U64    == 0 .. UMax
Length == 0 .. MaxLen + 1
Data   == UNION {[1 .. n -> Byte] : n \in 0 .. MaxData}

NoPages  == [p \in {} |-> <<>>]
NoAnswer == [op |-> "none", off |-> 0, len |-> 0, data |-> <<>>, res |-> "Ok", val |-> <<>>]

HandleInit ==
  /\ file = <<>>
  /\ variant = "none" /\ mode = "none"
  /\ map = Unlocked /\ map_len = 0 /\ cached_len = 0
  /\ private = NoPages
  /\ pending = FALSE
  /\ answer = NoAnswer

Reply(op, off, len, data, res, val) ==
  answer' = [op |-> op, off |-> off, len |-> len, data |-> data, res |-> res, val |-> val]

-----------------------------------------------------------------------------
(***************************************************************************)
(* Ranges and bytes                                                        *)
(***************************************************************************)

None == -1
checked_add(a, b)    == IF a + b <= UMax THEN a + b ELSE None
saturating_add(a, b) == Smaller(a + b, UMax)

(* Defect: the sum wraps around                                            *)
slice_range_Wraps(off, len, total) == (off + len) % (UMax + 1) <= total

(* The range is valid: its end neither overflows nor passes total.         *)
slice_range(off, len, total) ==
  LET end == checked_add(off, len) IN end # None /\ end <= total

ensure_in_bounds(off, len, total) ==
  LET end == checked_add(off, len) IN end # None /\ end <= total

PageOf(off) == off \div PageSize
FileByte(off) == IF off < Len(file) THEN file[off + 1] ELSE 0
MappedByte(off) == IF PageOf(off) \in DOMAIN private
                   THEN private[PageOf(off)][(off % PageSize) + 1] ELSE FileByte(off)

(* What the mapping shows                                                  *)
Mapped == [i \in 1 .. map_len |-> MappedByte(i - 1)]

(* What a slice of it lends                                                *)
Lent(off, len) == Bytes(Mapped, off, len)

(* Defect: the private mapping shares its pages                            *)
CopyIn_Shares(start, data) ==
  /\ file' = Splice(file, start, data)
  /\ UNCHANGED private

(* A store through the mapping: the pages of a shared mapping are those of *)
(* the file, the first store to a page of a private one copies it.         *)
CopyIn(start, data) ==
  IF variant = "Rw"
  THEN file' = Splice(file, start, data) /\ UNCHANGED private
  ELSE /\ private' =
            [p \in DOMAIN private \union {PageOf(start + i - 1) : i \in 1 .. Len(data)} |->
               [j \in 1 .. PageSize |->
                  LET off == p * PageSize + j - 1
                  IN  IF off - start \in 0 .. Len(data) - 1
                      THEN data[off - start + 1] ELSE MappedByte(off)]]
       /\ UNCHANGED file

write_lock    == variant \in {"Rw", "Cow"}
tracks_writes == variant = "Rw"
locked        == variant \in {"Rw", "Cow"}

(* record_write and count_update, without the decision to flush            *)
record_write(n) == pending' = (pending \/ (tracks_writes /\ n > 0))

Unchanged == UNCHANGED handleVars

-----------------------------------------------------------------------------
(***************************************************************************)
(* Opening and closing                                                     *)
(***************************************************************************)

NewHandle(m, v, len) ==
  /\ mode' = m /\ variant' = v
  /\ map' = Unlocked /\ map_len' = len /\ cached_len' = len
  /\ private' = NoPages /\ pending' = FALSE

(* A system call of an open fails.                                         *)
OpenFails(op) ==
  /\ variant = "none"
  /\ Unchanged /\ Reply(op, 0, 0, <<>>, "Io", <<>>)

open_ro ==
  /\ variant = "none"
  /\ NewHandle("ReadOnly", "Ro", Len(file))
  /\ Reply("open_ro", 0, 0, <<>>, "Ok", <<>>)
  /\ UNCHANGED file

open_rw ==
  /\ variant = "none"
  /\ \/ /\ Len(file) = 0
        /\ Unchanged /\ Reply("open_rw", 0, 0, <<>>, "ResizeFailed", <<>>)
     \/ /\ Len(file) > 0
        /\ NewHandle("ReadWrite", "Rw", Len(file))
        /\ Reply("open_rw", 0, 0, <<>>, "Ok", <<>>)
        /\ UNCHANGED file

cow_inner(op, writable) ==
  /\ variant = "none"
  /\ \/ /\ Len(file) = 0
        /\ Unchanged /\ Reply(op, 0, 0, <<>>, "ResizeFailed", <<>>)
     \/ /\ Len(file) > 0
        /\ NewHandle("CopyOnWrite", IF writable THEN "Cow" ELSE "Ro", Len(file))
        /\ Reply(op, 0, 0, <<>>, "Ok", <<>>)
        /\ UNCHANGED file

open_cow          == cow_inner("open_cow", FALSE)
open_cow_writable == cow_inner("open_cow_writable", TRUE)

open_existing(m, cow_writable) ==
  CASE m = "ReadOnly"    -> open_ro
    [] m = "ReadWrite"   -> open_rw
    [] m = "CopyOnWrite" ->
         cow_inner(IF cow_writable THEN "open_cow_writable" ELSE "open_cow", cow_writable)

(* The builder's open; the mode need not have been set.                    *)
open(m, cow_writable) == open_existing(IF m = "unset" THEN "ReadOnly" ELSE m, cow_writable)

(* A file that is open already, and the manager's function                 *)
from_file(m) == open_existing(m, FALSE)
load_mmap(m) == CASE m = "ReadOnly" -> open_ro [] m = "ReadWrite" -> open_rw
                  [] m = "CopyOnWrite" -> open_cow

(* The builder's create in ReadWrite mode: the file is truncated, then     *)
(* extended, then mapped; a failure leaves it where it was.                *)
create(n) ==
  /\ variant = "none"
  /\ \/ /\ n = 0 \/ n > MaxLen
        /\ Unchanged /\ Reply("create", 0, n, <<>>, "ResizeFailed", <<>>)
     \/ /\ n \in 1 .. MaxLen
        /\ \/ /\ file' = Zeros(n)
              /\ NewHandle("ReadWrite", "Rw", n)
              /\ Reply("create", 0, n, <<>>, "Ok", <<>>)
           \/ /\ file' \in {file, <<>>, Zeros(n)}
              /\ UNCHANGED <<mapVars, private, pending>>
              /\ Reply("create", 0, n, <<>>, "Io", <<>>)

(* The last clone is dropped.                                              *)
drop_handle ==
  /\ variant # "none" /\ map = Unlocked
  /\ mode' = "none" /\ variant' = "none" /\ map' = Unlocked
  /\ map_len' = 0 /\ cached_len' = 0 /\ private' = NoPages /\ pending' = FALSE
  /\ Reply("close", 0, 0, <<>>, "Ok", <<>>)
  /\ UNCHANGED file

(* manager::write_mmap: open_rw, update_region and the drop                *)
write_mmap(off, data) ==
  /\ variant = "none"
  /\ LET res == IF Len(file) = 0 THEN "ResizeFailed"
                ELSE IF data = <<>> \/ slice_range(off, Len(data), Len(file))
                THEN "Ok" ELSE "OutOfBounds"
     IN  \/ /\ file' = IF res = "Ok" THEN Splice(file, off, data) ELSE file
            /\ Reply("write_file", off, 0, data, res, <<>>)
         \/ UNCHANGED file /\ Reply("write_file", off, 0, data, "Io", <<>>)
  /\ UNCHANGED <<mapVars, private, pending>>

-----------------------------------------------------------------------------
(***************************************************************************)
(* Writing                                                                 *)
(***************************************************************************)

(* data at off, if the span bytes from off on lie inside the mapping       *)
WriteWithin(off, data, span) ==
  IF slice_range(off, Larger(span, Len(data)), map_len)
  THEN CopyIn(off, data) /\ record_write(Len(data)) /\ UNCHANGED mapVars
  ELSE Unchanged

WriteResult(off, len) ==
  IF ~write_lock THEN "InvalidMode"
  ELSE IF slice_range(off, len, map_len) THEN "Ok" ELSE "OutOfBounds"

(* Waits for the write lock, after the test of the mode.                   *)
update_region(off, data) ==
  /\ variant # "none"
  /\ \/ data = <<>> /\ Unchanged /\ Reply("update", off, 0, data, "Ok", <<>>)
     \/ /\ data # <<>>
        /\ write_lock => CanWrite(map)
        /\ IF write_lock THEN WriteWithin(off, data, Len(data)) ELSE Unchanged
        /\ Reply("update", off, 0, data, WriteResult(off, Len(data)), <<>>)

(* Never waits.                                                            *)
try_update_region(off, data) ==
  /\ variant # "none"
  /\ \/ data = <<>> /\ Unchanged /\ Reply("try_update", off, 0, data, "Ok", <<>>)
     \/ /\ data # <<>> /\ write_lock /\ ~CanWrite(map)
        /\ Unchanged /\ Reply("try_update", off, 0, data, "Busy", <<>>)
     \/ /\ data # <<>> /\ (write_lock => CanWrite(map))
        /\ IF write_lock THEN WriteWithin(off, data, Len(data)) ELSE Unchanged
        /\ Reply("try_update", off, 0, data, WriteResult(off, Len(data)), <<>>)

(* A mutable slice is taken, filled with b and dropped.  An empty one is   *)
(* valid anywhere.                                                         *)
FillSlice(op, off, len, b) ==
  LET valid == len = 0 \/ slice_range(off, len, map_len)
  IN  /\ IF write_lock /\ valid
         THEN /\ CopyIn(IF len = 0 THEN 0 ELSE off, [i \in 1 .. len |-> b])
              /\ record_write(len) /\ UNCHANGED mapVars
         ELSE Unchanged
      /\ Reply(op, off, len, <<b>>,
               IF ~write_lock THEN "InvalidMode" ELSE IF valid THEN "Ok" ELSE "OutOfBounds", <<>>)

as_slice_mut(op, off, len, b) ==
  /\ variant # "none"
  /\ write_lock => CanWrite(map)
  /\ FillSlice(op, off, len, b)

try_as_slice_mut(off, len, b) ==
  /\ variant # "none"
  /\ IF write_lock /\ ~CanWrite(map)
     THEN Unchanged /\ Reply("try_slice_mut", off, len, <<b>>, "Busy", <<>>)
     ELSE FillSlice("try_slice_mut", off, len, b)

(* One call of the callback per chunk, from offset on                      *)
ChunkEnd(offset, size) == offset + Smaller(map_len - offset, size)

(* ChunkIteratorMut::drive: the callback fills what it gets with b.  It is *)
(* called until the mapping ends, or fails at call number calls.           *)
drive(size, calls, b) ==
  /\ variant # "none"
  /\ LET reached[k \in Nat] ==
           IF k = 0 THEN 0
           ELSE IF reached[k - 1] < map_len THEN ChunkEnd(reached[k - 1], size)
           ELSE reached[k - 1]
         offset == reached[calls]
         fails  == reached[calls] > reached[calls - 1]
         whole  == ~fails /\ offset = map_len
         args   == <<calls, IF fails THEN 1 ELSE 0, b>>
     IN  \/ /\ ~write_lock
            /\ Unchanged /\ Reply("chunks_mut", 0, size, args, "InvalidMode", <<>>)
         \/ /\ write_lock /\ size = 0
            /\ Unchanged /\ Reply("chunks_mut", 0, size, <<calls, 0, b>>, "Ok", <<>>)
         \/ /\ write_lock /\ size > 0 /\ CanWrite(map)
            /\ fails \/ whole
            /\ CopyIn(0, [i \in 1 .. offset |-> b])
            /\ record_write(offset) /\ UNCHANGED mapVars
            /\ Reply("chunks_mut", 0, size, args, IF fails THEN "Callback" ELSE "Ok", <<>>)

-----------------------------------------------------------------------------
(***************************************************************************)
(* Reading                                                                 *)
(***************************************************************************)

(* Under a read guard, unless nothing can change the mapping, the range is *)
(* checked against it and copied or lent.                                  *)
ReadGuarded(op, off, len) ==
  /\ variant # "none"
  /\ locked => CanRead(map)
  /\ LET valid == len = 0 \/ slice_range(off, len, map_len)
     IN  Reply(op, off, len, <<>>, IF valid THEN "Ok" ELSE "OutOfBounds",
               IF valid THEN Lent(off, len) ELSE <<>>)
  /\ Unchanged

as_slice(off, len)   == ReadGuarded("slice", off, len)
read_into(off, len)  == ReadGuarded("read_into", off, len)
read_bytes(off, len) == ReadGuarded("read_bytes", off, len)

(* Finds the lock taken only while a writer is inside a call: Anonymous    *)
(* has mutable slices that outlive one.                                    *)
try_as_slice(off, len) == ReadGuarded("try_slice", off, len)

as_slice_bytes(off, len) ==
  \/ variant = "Ro" /\ ReadGuarded("slice_bytes", off, len)
  \/ locked /\ Unchanged /\ Reply("slice_bytes", off, len, <<>>, "InvalidMode", <<>>)

(* len, is_empty and current_len take no lock.                             *)
len_of ==
  /\ variant # "none"
  /\ Unchanged /\ Reply("len", 0, 0, <<>>, "Ok", <<cached_len>>)

-----------------------------------------------------------------------------
(***************************************************************************)
(* resize, flush and hints                                                 *)
(***************************************************************************)

(* What a resize that fails leaves of the file: as it was or, if it was to *)
(* grow, cut back to the mapping, or longer when that fails as well        *)
FailedResize(n) ==
  {file} \union (IF n > map_len THEN {Resized(file, map_len), Resized(file, n)} ELSE {})

resize(n) ==
  /\ variant # "none"
  /\ \/ /\ mode # "ReadWrite"
        /\ Unchanged /\ Reply("resize", 0, n, <<>>, "InvalidMode", <<>>)
     \/ /\ mode = "ReadWrite" /\ (n = 0 \/ n > MaxLen)
        /\ Unchanged /\ Reply("resize", 0, n, <<>>, "ResizeFailed", <<>>)
     \/ /\ mode = "ReadWrite" /\ n \in 1 .. MaxLen
        /\ CanWrite(map)
        /\ \/ /\ n = map_len
              /\ Unchanged /\ Reply("resize", 0, n, <<>>, "Ok", <<>>)
           \/ /\ n # map_len
              /\ file' = Resized(file, n) /\ map_len' = n /\ cached_len' = n
              /\ UNCHANGED <<variant, mode, map, private, pending>>
              /\ Reply("resize", 0, n, <<>>, "Ok", <<>>)
           \/ /\ n # map_len
              /\ file' \in FailedResize(n)
              /\ UNCHANGED <<mapVars, private, pending>>
              /\ Reply("resize", 0, n, <<>>, "Io", <<>>)

flush ==
  /\ variant # "none"
  /\ \/ /\ variant # "Rw"
        /\ Unchanged /\ Reply("flush", 0, 0, <<>>, "Ok", <<>>)
     \/ /\ variant = "Rw" /\ CanRead(map)
        /\ \/ pending' = FALSE /\ Reply("flush", 0, 0, <<>>, "Ok", <<>>)
           \/ UNCHANGED pending /\ Reply("flush", 0, 0, <<>>, "Os", <<>>)
        /\ UNCHANGED <<file, mapVars, private>>

(* Touching pages is a read; there is nothing to write back but from Rw.   *)
MakesSystemCall(op) == op # "touch" /\ (op \in {"flush_range", "schedule"} => variant = "Rw")

(* A call that checks its range and changes no byte; the system call       *)
(* behind it may fail.                                                     *)
Checked(op, off, len, valid, effect) ==
  /\ variant # "none"
  /\ locked => CanRead(map)
  /\ \/ /\ len = 0
        /\ Unchanged /\ Reply(op, off, len, <<>>, "Ok", <<>>)
     \/ /\ len > 0 /\ ~valid
        /\ Unchanged /\ Reply(op, off, len, <<>>, "OutOfBounds", <<>>)
     \/ /\ len > 0 /\ valid
        /\ \/ effect /\ Reply(op, off, len, <<>>, "Ok", <<>>)
           \/ MakesSystemCall(op) /\ Unchanged /\ Reply(op, off, len, <<>>, "Os", <<>>)

(* The whole mapping is flushed like flush() does it.                      *)
flush_range(off, len) ==
  Checked("flush_range", off, len, slice_range(off, len, map_len),
    /\ pending' = (pending /\ ~(off = 0 /\ len = map_len))
    /\ UNCHANGED <<file, mapVars, private>>)

(* Nothing to schedule but for Rw                                          *)
schedule_flush == Checked("schedule", 0, map_len, TRUE, Unchanged)

schedule_flush_range(off, len) ==
  Checked("schedule", off, len, slice_range(off, len, map_len), Unchanged)

touch_pages_range(off, len) ==
  Checked("touch", off, len, slice_range(off, len, map_len), Unchanged)

prefetch_range(off, len) ==
  Checked("prefetch", off, len, ensure_in_bounds(off, len, cached_len), Unchanged)

lock_range(off, len) ==
  Checked("lock", off, len, slice_range(off, len, map_len), Unchanged)

(* Defect: the range is not widened to whole pages                         *)
DontNeed_Narrow(off, len) ==
  private' = [p \in {q \in DOMAIN private : q * PageSize \notin off .. off + len - 1} |->
                private[p]]

(* MADV_DONTNEED on private memory: the copies of the pages that the       *)
(* widened range meets are gone.                                           *)
DontNeed(off, len) ==
  private' = [p \in DOMAIN private \ (PageOf(off) .. PageOf(off + len - 1)) |-> private[p]]

(* Dropping private pages changes bytes, so the write lock is taken.  On a *)
(* system that ignores the hint nothing changes.                           *)
advise(off, len, advice) ==
  LET op == IF advice = "DontNeed" THEN "dont_need" ELSE "advise"
  IN  IF advice = "DontNeed" /\ variant = "Cow" /\ len > 0
      THEN /\ CanWrite(map)
           /\ Checked(op, off, len, slice_range(off, len, map_len),
                DontNeed(off, len) /\ UNCHANGED <<file, mapVars, pending>>)
      ELSE Checked(op, off, len, slice_range(off, len, map_len), Unchanged)

-----------------------------------------------------------------------------

Mode == {"ReadOnly", "ReadWrite", "CopyOnWrite"}

HandleCall ==
  \/ \E m \in Mode \union {"unset"}, w \in BOOLEAN : open(m, w)
  \/ \E m \in Mode : from_file(m) \/ load_mmap(m)
  \/ open_cow_writable
  \/ \E op \in {"open_ro", "open_rw", "open_cow", "open_cow_writable"} : OpenFails(op)
  \/ \E n \in Length : create(n) \/ resize(n)
  \/ \E off \in U64, data \in Data :
       write_mmap(off, data) \/ update_region(off, data) \/ try_update_region(off, data)
  \/ \E off \in U64, len \in Length :
       \/ as_slice(off, len) \/ try_as_slice(off, len) \/ as_slice_bytes(off, len)
       \/ read_into(off, len) \/ read_bytes(off, len)
       \/ flush_range(off, len) \/ schedule_flush_range(off, len)
       \/ touch_pages_range(off, len) \/ prefetch_range(off, len) \/ lock_range(off, len)
       \/ \E advice \in {"WillNeed", "DontNeed"} : advise(off, len, advice)
       \/ \E b \in Byte : as_slice_mut("slice_mut", off, len, b) \/ try_as_slice_mut(off, len, b)
  \/ \E size \in Length, calls \in 1 .. MaxLen + 1, b \in Byte : drive(size, calls, b)
  \/ len_of \/ flush \/ schedule_flush

=============================================================================
