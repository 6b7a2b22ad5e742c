------------------------------- MODULE Managed -------------------------------
(***************************************************************************)
(* A MemoryMappedFile together with the objects that live across calls:    *)
(* segments (src/segment.rs), the reader (MmapReader in src/mmap.rs) and   *)
(* the chunk iterators (src/iterator.rs).  The calls of Handle may come    *)
(* from another thread at any time, so a reader works with a length that   *)
(* may be out of date, and a segment with a range that may be gone.        *)
(*                                                                         *)
(* At most one object lives at a time: two of them share nothing but the   *)
(* handle, which the calls of the other thread change in every way.        *)
(***************************************************************************)
EXTENDS Handle

CONSTANTS
  READER_BUF_LEN    (* the size of the reader's buffer                     *)

ASSUME BufAssumption == READER_BUF_LEN \in Nat \ {0}

VARIABLES
  segment,    (* a Segment or SegmentMut                                   *)
  reader,     (* an MmapReader, and how far its running call is            *)
  iterator    (* a ChunkIterator                                           *)

objects == <<segment, reader, iterator>>
vars    == <<handleVars, objects, answer>>

NoSegment  == [offset |-> -1, len |-> 0]
NoReader   == [pc |-> "none", pos |-> -1, buf |-> <<>>, buf_start |-> 0, asked |-> 0, want |-> 0]
NoIterator == [total_len |-> -1, chunk_size |-> 0, current_offset |-> 0]
NoObject   == segment = NoSegment /\ reader = NoReader /\ iterator = NoIterator

Init ==
  /\ HandleInit
  /\ segment = NoSegment /\ reader = NoReader /\ iterator = NoIterator

-----------------------------------------------------------------------------
(***************************************************************************)
(* Segments                                                                *)
(***************************************************************************)

(* Checked against the length without the lock, so it may be out of date.  *)
validate_segment(off, len) == len = 0 \/ slice_range(off, len, cached_len)

SegmentNew(off, len) ==
  /\ variant # "none" /\ NoObject
  /\ segment' = IF validate_segment(off, len) THEN [offset |-> off, len |-> len] ELSE NoSegment
  /\ Reply("segment", off, len, <<>>,
           IF validate_segment(off, len) THEN "Ok" ELSE "OutOfBounds", <<>>)
  /\ UNCHANGED <<handleVars, reader, iterator>>

is_valid ==
  /\ segment # NoSegment
  /\ Reply("segment", segment.offset, segment.len, <<>>,
           IF validate_segment(segment.offset, segment.len) THEN "Ok" ELSE "OutOfBounds", <<>>)
  /\ UNCHANGED <<handleVars, objects>>

SegmentAsSlice ==
  /\ segment # NoSegment
  /\ ReadGuarded("seg_read", segment.offset, segment.len)
  /\ UNCHANGED objects

SegmentAsSliceMut(b) ==
  /\ segment # NoSegment
  /\ as_slice_mut("seg_mut", segment.offset, segment.len, b)
  /\ UNCHANGED objects

(* Defect: only the bytes that are written have to fit                     *)
SegmentWrite_OwnBytes(data) ==
  /\ segment # NoSegment
  /\ \/ /\ Len(data) > segment.len
        /\ Unchanged /\ Reply("seg_write", segment.offset, segment.len, data, "OutOfBounds", <<>>)
     \/ /\ data = <<>>
        /\ Unchanged /\ Reply("seg_write", segment.offset, segment.len, data, "Ok", <<>>)
     \/ /\ Len(data) \in 1 .. segment.len
        /\ write_lock => CanWrite(map)
        /\ IF write_lock THEN WriteWithin(segment.offset, data, Len(data)) ELSE Unchanged
        /\ Reply("seg_write", segment.offset, segment.len, data,
                 WriteResult(segment.offset, Len(data)), <<>>)
  /\ UNCHANGED objects

(* The whole segment must still be there, not only the bytes written.      *)
SegmentWrite(data) ==
  /\ segment # NoSegment
  /\ \/ /\ Len(data) > segment.len
        /\ Unchanged /\ Reply("seg_write", segment.offset, segment.len, data, "OutOfBounds", <<>>)
     \/ /\ data = <<>>
        /\ Unchanged /\ Reply("seg_write", segment.offset, segment.len, data, "Ok", <<>>)
     \/ /\ Len(data) \in 1 .. segment.len
        /\ write_lock => CanWrite(map)
        /\ IF write_lock THEN WriteWithin(segment.offset, data, segment.len) ELSE Unchanged
        /\ Reply("seg_write", segment.offset, segment.len, data,
                 WriteResult(segment.offset, segment.len), <<>>)
  /\ UNCHANGED objects

-----------------------------------------------------------------------------
(***************************************************************************)
(* The reader                                                              *)
(***************************************************************************)

MakeReader ==
  /\ variant # "none" /\ NoObject
  /\ reader' = [NoReader EXCEPT !.pc = "idle", !.pos = 0]
  /\ UNCHANGED <<handleVars, segment, iterator, answer>>

(* read, first half: the length is read without the lock.                  *)
Read(n) ==
  /\ reader.pc = "idle"
  /\ LET total == cached_len
         want  == IF reader.pos >= total THEN 0 ELSE Smaller(n, total - reader.pos)
     IN  IF want = 0
         THEN /\ reader' = [reader EXCEPT !.buf = <<>>]
              /\ Reply("read", 0, n, <<>>, "Ok", <<>>)
         ELSE /\ reader' = [reader EXCEPT !.buf = <<>>, !.pc = "read", !.asked = n, !.want = want]
              /\ UNCHANGED answer
  /\ UNCHANGED <<handleVars, segment, iterator>>

Idle == [reader EXCEPT !.pc = "idle", !.asked = 0, !.want = 0]

(* Defect: the position moves before the read is known to work             *)
ReadCopy_MovesFirst ==
  /\ reader.pc = "read" /\ (locked => CanRead(map))
  /\ reader' = [Idle EXCEPT !.pos = @ + reader.want]
  /\ \/ /\ slice_range(reader.pos, reader.want, map_len)
        /\ Reply("read", 0, reader.asked, <<>>, "Ok", Lent(reader.pos, reader.want))
     \/ /\ ~slice_range(reader.pos, reader.want, map_len)
        /\ Reply("read", 0, reader.asked, <<>>, "Other", <<>>)
  /\ UNCHANGED <<handleVars, segment, iterator>>

(* Second half: read_into checks the range again, under the lock.          *)
ReadCopy ==
  /\ reader.pc = "read" /\ (locked => CanRead(map))
  /\ \/ /\ slice_range(reader.pos, reader.want, map_len)
        /\ reader' = [Idle EXCEPT !.pos = @ + reader.want]
        /\ Reply("read", 0, reader.asked, <<>>, "Ok", Lent(reader.pos, reader.want))
     \/ /\ ~slice_range(reader.pos, reader.want, map_len)
        /\ reader' = Idle
        /\ Reply("read", 0, reader.asked, <<>>, "Other", <<>>)
  /\ UNCHANGED <<handleVars, segment, iterator>>

(* checked_add and checked_sub of the distance                             *)
Moved(base, delta) ==
  IF delta >= 0 THEN checked_add(base, delta) ELSE IF base + delta < 0 THEN None ELSE base + delta

(* SeekFrom::End and SeekFrom::Current                                     *)
Seek(op, base, delta) ==
  /\ reader.pc = "idle"
  /\ LET new_pos == Moved(base, delta)
     IN  /\ reader' = [reader EXCEPT !.buf = <<>>,
                                     !.pos = IF new_pos = None THEN @ ELSE new_pos]
         /\ Reply(op, delta, 0, <<>>, IF new_pos = None THEN "InvalidInput" ELSE "Ok",
                  IF new_pos = None THEN <<>> ELSE <<new_pos>>)
  /\ UNCHANGED <<handleVars, segment, iterator>>

(* SeekFrom::Start and set_position take any position.                     *)
set_position(n) ==
  /\ reader.pc = "idle"
  /\ reader' = [reader EXCEPT !.buf = <<>>, !.pos = n]
  /\ Reply("seek_start", n, 0, <<>>, "Ok", <<n>>)
  /\ UNCHANGED <<handleVars, segment, iterator>>

(* What of the buffer lies at or after the position                        *)
InBuffer == reader.pos \in reader.buf_start .. reader.buf_start + Len(reader.buf) - 1
Buffered == IF InBuffer
            THEN SubSeq(reader.buf, reader.pos - reader.buf_start + 1, Len(reader.buf)) ELSE <<>>

(* fill_buf: the mapping itself when nothing can change it, the buffer     *)
(* while the position is in it, else the first half of filling it again    *)
fill_buf ==
  /\ reader.pc = "idle"
  /\ \/ /\ variant = "Ro"
        /\ UNCHANGED reader
        /\ LET start == Smaller(reader.pos, map_len)
           IN  Reply("fill_buf", 0, 0, <<>>, "Ok", Lent(start, map_len - start))
     \/ /\ variant # "Ro" /\ InBuffer
        /\ UNCHANGED reader
        /\ Reply("fill_buf", 0, 0, <<>>, "Ok", Buffered)
     \/ /\ variant # "Ro" /\ ~InBuffer
        /\ IF reader.pos >= cached_len
           THEN /\ reader' = [reader EXCEPT !.buf = <<>>]
                /\ Reply("fill_buf", 0, 0, <<>>, "Ok", <<>>)
           ELSE /\ reader' = [reader EXCEPT !.buf = <<>>, !.pc = "fill",
                                !.want = Smaller(cached_len - reader.pos, READER_BUF_LEN)]
                /\ UNCHANGED answer
  /\ UNCHANGED <<handleVars, segment, iterator>>

FillCopy ==
  /\ reader.pc = "fill" /\ (locked => CanRead(map))
  /\ \/ /\ slice_range(reader.pos, reader.want, map_len)
        /\ reader' = [Idle EXCEPT !.buf = Lent(reader.pos, reader.want),
                                  !.buf_start = reader.pos]
        /\ Reply("fill_buf", 0, 0, <<>>, "Ok", reader'.buf)
     \/ /\ ~slice_range(reader.pos, reader.want, map_len)
        /\ reader' = Idle
        /\ Reply("fill_buf", 0, reader.want, <<>>, "Other", <<>>)
  /\ UNCHANGED <<handleVars, segment, iterator>>

consume(amt) ==
  /\ reader.pc = "idle"
  /\ reader' = [reader EXCEPT !.pos = saturating_add(@, amt)]
  /\ UNCHANGED <<handleVars, segment, iterator, answer>>

-----------------------------------------------------------------------------
(***************************************************************************)
(* Chunk and page iterators                                                *)
(***************************************************************************)

(* Defect: the iterator remembers the length and keeps no guard            *)
ChunkIteratorNew_NoPin(chunk_size) ==
  /\ variant # "none" /\ NoObject
  /\ locked => CanRead(map)
  /\ iterator' = [total_len |-> map_len, chunk_size |-> chunk_size, current_offset |-> 0]
  /\ UNCHANGED <<handleVars, segment, reader, answer>>

(* A guard is held as long as the iterator lives, unless nothing can write *)
(* anyway.                                                                 *)
ChunkIteratorNew(chunk_size) ==
  /\ variant # "none" /\ NoObject
  /\ locked => CanRead(map)
  /\ iterator' = [total_len |-> map_len, chunk_size |-> chunk_size, current_offset |-> 0]
  /\ map' = IF locked THEN LockRead(map, "iterator") ELSE map
  /\ UNCHANGED <<file, variant, mode, map_len, cached_len, private, pending,
                 segment, reader, answer>>

(* Their owned forms copy what these lend.                                 *)
ChunkIterator(chunk_size) == ChunkIteratorNew(chunk_size)
PageIterator              == ChunkIteratorNew(PageSize)

ChunkIteratorNext ==
  /\ iterator # NoIterator
  /\ LET start == iterator.current_offset
         end   == start + Smaller(iterator.total_len - start, iterator.chunk_size)
     IN  IF iterator.chunk_size = 0 \/ start >= iterator.total_len
         THEN UNCHANGED iterator /\ Reply("chunk", 0, 0, <<>>, "None", <<>>)
         ELSE /\ iterator' = [iterator EXCEPT !.current_offset = end]
              /\ Reply("chunk", 0, 0, <<>>, "Ok", Lent(start, end - start))
  /\ UNCHANGED <<handleVars, segment, reader>>

div_ceil(a, b) == (a + b - 1) \div b

size_hint ==
  /\ iterator # NoIterator
  /\ LET remaining == Larger(iterator.total_len - iterator.current_offset, 0)
     IN  Reply("size_hint", 0, 0, <<>>, "Ok",
               <<IF iterator.chunk_size = 0 THEN 0 ELSE div_ceil(remaining, iterator.chunk_size)>>)
  /\ UNCHANGED <<handleVars, objects>>

-----------------------------------------------------------------------------

(* An object that is not in a call is dropped, an iterator with its guard. *)
DropObject ==
  /\ ~NoObject /\ reader.pc \in {"none", "idle"}
  /\ segment' = NoSegment /\ reader' = NoReader /\ iterator' = NoIterator
  /\ map' = UnlockRead(map, "iterator")
  /\ UNCHANGED <<file, variant, mode, map_len, cached_len, private, pending, answer>>

(* Every object borrows the mapping or shares its ownership.               *)
CloseHandle == NoObject /\ drop_handle /\ UNCHANGED objects

SegmentCall ==
  \/ \E off \in U64, len \in Length : SegmentNew(off, len)
  \/ is_valid \/ SegmentAsSlice
  \/ \E b \in Byte : SegmentAsSliceMut(b)
  \/ \E data \in Data : SegmentWrite(data)

ReaderCall ==
  \/ MakeReader
  \/ (\E n \in 0 .. MaxData : Read(n)) \/ ReadCopy
  \/ \E delta \in -UMax .. UMax :
       Seek("seek_end", cached_len, delta) \/ Seek("seek_current", reader.pos, delta)
  \/ \E n \in U64 : set_position(n)
  \/ fill_buf \/ FillCopy
  \/ \E amt \in 0 .. MaxData : consume(amt)

IteratorCall ==
  \/ (\E chunk_size \in Length : ChunkIterator(chunk_size)) \/ PageIterator
  \/ ChunkIteratorNext \/ size_hint

Next ==
  \/ HandleCall /\ UNCHANGED objects
  \/ SegmentCall \/ ReaderCall \/ IteratorCall
  \/ DropObject \/ CloseHandle

Spec == Init /\ [][Next]_vars

(* No action reads the answer: states that differ in nothing else are one. *)
Unanswered == <<handleVars, objects>>

-----------------------------------------------------------------------------
(***************************************************************************)
(* Properties                                                              *)
(***************************************************************************)

(* Types of the handle and of the objects.                                 *)
TypeOK ==
  /\ file \in Seq(Byte) /\ Len(file) <= MaxLen
  /\ variant \in {"none", "Ro", "Rw", "Cow"}
  /\ mode \in {"none", "ReadOnly", "ReadWrite", "CopyOnWrite"}
  /\ map \in LockType({"iterator"})
  /\ map_len \in 0 .. MaxLen /\ cached_len \in 0 .. MaxLen
  /\ \A p \in DOMAIN private : p \in 0 .. MaxLen /\ private[p] \in [1 .. PageSize -> Byte]
  /\ pending \in BOOLEAN
  /\ reader.pos \in U64 \union {-1}

(* What a caller sees of the handle, its mode included                     *)
Model == INSTANCE FileModel WITH
  MaxOffset <- UMax,
  model     <- Mapped,
  saved     <- file,
  mode      <- CASE variant = "none" -> "closed" [] variant = "Ro" -> "ro"
                 [] variant = "Rw" -> "rw" [] variant = "Cow" -> "cow",
  cursor    <- [pos |-> reader.pos, buffered |-> Buffered],
  chunks    <- IF iterator = NoIterator THEN [size |-> -1, at |-> 0]
               ELSE [size |-> iterator.chunk_size, at |-> iterator.current_offset]

(* The handle and its objects implement the reference model of the fuzz    *)
(* target: every answer, error or byte, is the one the model gives, also   *)
(* where an offset is close to u64::MAX, where a segment or a reader meets *)
(* a mapping that was resized since, or between the two halves of a read,  *)
(* and where a private mapping has pages of its own.                       *)
ImplementsModel == Model!Spec

(* What is written through a handle that is not ReadWrite stays private:   *)
(* as long as it is open no call, write, segment, chunk callback or hint,  *)
(* changes the file or counts as bytes to be flushed.                      *)
PrivateStaysPrivate ==
  [][(variant \in {"Ro", "Cow"}) => UNCHANGED <<file, pending>>]_vars

=============================================================================
