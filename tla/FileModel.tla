------------------------------ MODULE FileModel ------------------------------
(***************************************************************************)
(* What a MemoryMappedFile promises its callers, as the fuzz target        *)
(* managed_ops.rs states it: the mapping is a vector of bytes, and a call  *)
(* succeeds exactly when its range lies inside that vector.  The target    *)
(* drives one ReadWrite handle; here the handle has a mode, the file is    *)
(* kept apart from the bytes the handle shows, and a reader (compared by   *)
(* the target with std::io::Cursor) and a chunk iterator outlive a call.   *)
(*                                                                         *)
(* Numbers are unbounded here: no sum wraps.  An answer records the call   *)
(* and what it returned.                                                   *)
(***************************************************************************)
EXTENDS ByteSeq

CONSTANTS
  MaxLen,      (* the largest size a file may be given                     *)
  MaxOffset,   (* positions of a reader are 0 .. MaxOffset                 *)
  MaxData,     (* the most bytes consumed at a time                        *)
  PageSize

VARIABLES
  model,       (* the bytes the handle shows, <<>> without one             *)
  saved,       (* the bytes of the file                                    *)
  mode,        (* "closed", "ro", "rw" or "cow"                            *)
  pending,     (* bytes are recorded as written and not flushed            *)
  cursor,      (* the reader: its position and the bytes it has buffered   *)
  chunks,      (* the chunk iterator                                       *)
  answer       (* the last call and its result                             *)

modelVars == <<model, saved, mode, pending>>
vars      == <<model, saved, mode, pending, cursor, chunks, answer>>

NoCursor == [pos |-> -1, buffered |-> <<>>]
NoChunks == [size |-> -1, at |-> 0]
NoAnswer == [op |-> "none", off |-> 0, len |-> 0, data |-> <<>>, res |-> "Ok", val |-> <<>>]

Init ==
  /\ model = <<>> /\ saved = <<>> /\ mode = "closed" /\ pending = FALSE
  /\ cursor = NoCursor /\ chunks = NoChunks
  /\ answer = NoAnswer

Reply(op, off, len, data, res, val) ==
  answer' = [op |-> op, off |-> off, len |-> len, data |-> data, res |-> res, val |-> val]

in_bounds(off, len) == len = 0 \/ off + len <= Len(model)

(* A chunk iterator on a mapping that can be written keeps writers out.    *)
Pinned == chunks # NoChunks /\ mode # "ro"

-----------------------------------------------------------------------------
(***************************************************************************)
(* Opening and closing                                                     *)
(***************************************************************************)

(* A file of length 0 can only be opened with open_ro.                     *)
Open(op, m) ==
  /\ mode = "closed"
  /\ \/ /\ saved # <<>> \/ op = "open_ro"
        /\ mode' = m /\ model' = saved /\ pending' = FALSE
        /\ Reply(op, 0, 0, <<>>, "Ok", <<>>)
     \/ /\ saved = <<>> /\ op # "open_ro"
        /\ UNCHANGED <<model, mode, pending>>
        /\ Reply(op, 0, 0, <<>>, "ResizeFailed", <<>>)
     \/ UNCHANGED <<model, mode, pending>> /\ Reply(op, 0, 0, <<>>, "Io", <<>>)
  /\ UNCHANGED <<saved, cursor, chunks>>

GoodSize(n) == n \in 1 .. MaxLen

(* A create that fails may have truncated the file.                        *)
Create(n) ==
  /\ mode = "closed"
  /\ \/ /\ GoodSize(n)
        /\ mode' = "rw" /\ model' = Zeros(n) /\ saved' = model' /\ pending' = FALSE
        /\ Reply("create", 0, n, <<>>, "Ok", <<>>)
     \/ /\ ~GoodSize(n)
        /\ UNCHANGED modelVars
        /\ Reply("create", 0, n, <<>>, "ResizeFailed", <<>>)
     \/ /\ GoodSize(n)
        /\ saved' \in {saved, <<>>, Zeros(n)}
        /\ UNCHANGED <<model, mode, pending>>
        /\ Reply("create", 0, n, <<>>, "Io", <<>>)
  /\ UNCHANGED <<cursor, chunks>>

Close ==
  /\ mode # "closed" /\ cursor = NoCursor /\ chunks = NoChunks
  /\ mode' = "closed" /\ model' = <<>> /\ pending' = FALSE
  /\ Reply("close", 0, 0, <<>>, "Ok", <<>>)
  /\ UNCHANGED <<saved, cursor, chunks>>

(* manager::write_mmap: the whole life of a handle in one call             *)
WriteFile(off, data) ==
  /\ mode = "closed"
  /\ \/ /\ data = <<>> \/ off + Len(data) <= Len(saved)
        /\ saved # <<>>
        /\ saved' = Splice(saved, off, data)
        /\ Reply("write_file", off, 0, data, "Ok", <<>>)
     \/ /\ saved # <<>> /\ data # <<>> /\ off + Len(data) > Len(saved)
        /\ UNCHANGED saved
        /\ Reply("write_file", off, 0, data, "OutOfBounds", <<>>)
     \/ /\ saved = <<>>
        /\ UNCHANGED saved
        /\ Reply("write_file", off, 0, data, "ResizeFailed", <<>>)
     \/ UNCHANGED saved /\ Reply("write_file", off, 0, data, "Io", <<>>)
  /\ UNCHANGED <<model, mode, pending, cursor, chunks>>

-----------------------------------------------------------------------------
(***************************************************************************)
(* Calls on an open handle                                                 *)
(***************************************************************************)

(* The bytes the handle shows become new; only ReadWrite changes the file, *)
(* which a resize that failed may have left longer.                        *)
Store(new, touched) ==
  /\ model' = new
  /\ saved' = IF mode = "rw" THEN Splice(saved, 0, new) ELSE saved
  /\ pending' = (pending \/ (mode = "rw" /\ touched))
  /\ UNCHANGED mode

(* What a call answers, in the order in which the reasons count            *)
Verdict(off, len) ==
  IF mode = "ro" THEN "InvalidMode" ELSE IF in_bounds(off, len) THEN "Ok" ELSE "OutOfBounds"

Update(op, off, data) ==
  /\ mode # "closed"
  /\ \/ /\ data = <<>>
        /\ UNCHANGED modelVars /\ Reply(op, off, 0, data, "Ok", <<>>)
     \/ /\ data # <<>> /\ Pinned
        /\ op = "try_update"
        /\ UNCHANGED modelVars /\ Reply(op, off, 0, data, "Busy", <<>>)
     \/ /\ data # <<>> /\ ~Pinned
        /\ IF Verdict(off, Len(data)) = "Ok"
           THEN Store(Splice(model, off, data), TRUE) ELSE UNCHANGED modelVars
        /\ Reply(op, off, 0, data, Verdict(off, Len(data)), <<>>)
  /\ UNCHANGED <<cursor, chunks>>

SliceMutFill(op, off, len, b) ==
  /\ mode # "closed"
  /\ \/ /\ Pinned /\ op = "try_slice_mut"
        /\ UNCHANGED modelVars /\ Reply(op, off, len, <<b>>, "Busy", <<>>)
     \/ /\ ~Pinned
        /\ IF Verdict(off, len) = "Ok"
           THEN Store(Splice(model, off, [i \in 1 .. len |-> b]), len > 0)
           ELSE UNCHANGED modelVars
        /\ Reply(op, off, len, <<b>>, Verdict(off, len), <<>>)
  /\ UNCHANGED <<cursor, chunks>>

Read(op, off, len) ==
  /\ mode # "closed"
  /\ op = "slice_bytes" => mode = "ro"
  /\ Reply(op, off, len, <<>>, IF in_bounds(off, len) THEN "Ok" ELSE "OutOfBounds",
           IF in_bounds(off, len) THEN Bytes(model, off, len) ELSE <<>>)
  /\ UNCHANGED <<modelVars, cursor, chunks>>

(* After each operation of the target the lengths are the same.            *)
Length ==
  /\ mode # "closed"
  /\ Reply("len", 0, 0, <<>>, "Ok", <<Len(model)>>)
  /\ UNCHANGED <<modelVars, cursor, chunks>>

(* Borrowed bytes without a guard: only of a mapping nothing can change    *)
SliceBytes(off, len) ==
  /\ mode \in {"rw", "cow"}
  /\ Reply("slice_bytes", off, len, <<>>, "InvalidMode", <<>>)
  /\ UNCHANGED <<modelVars, cursor, chunks>>

(* The handle shows the same bytes after a resize that failed; the file    *)
(* behind it may end with bytes that are zero.                             *)
Resize(n) ==
  /\ mode # "closed"
  /\ \/ /\ mode = "rw" /\ GoodSize(n) /\ ~Pinned
        /\ model' = Resized(model, n)
        /\ saved' = IF n = Len(model) THEN saved ELSE model'
        /\ UNCHANGED <<mode, pending>>
        /\ Reply("resize", 0, n, <<>>, "Ok", <<>>)
     \/ /\ mode = "rw" /\ GoodSize(n) /\ ~Pinned /\ n # Len(model)
        /\ saved' \in {saved} \union
              (IF n > Len(model) THEN {model, Resized(model, n)} ELSE {})
        /\ UNCHANGED <<model, mode, pending>>
        /\ Reply("resize", 0, n, <<>>, "Io", <<>>)
     \/ /\ mode = "rw" /\ ~GoodSize(n)
        /\ UNCHANGED modelVars
        /\ Reply("resize", 0, n, <<>>, "ResizeFailed", <<>>)
     \/ /\ mode # "rw"
        /\ UNCHANGED modelVars
        /\ Reply("resize", 0, n, <<>>, "InvalidMode", <<>>)
  /\ UNCHANGED <<cursor, chunks>>

(* Nothing recorded is left after a flush that worked.                     *)
Flush ==
  /\ mode # "closed"
  /\ \/ pending' = FALSE /\ Reply("flush", 0, 0, <<>>, "Ok", <<>>)
     \/ mode = "rw" /\ UNCHANGED pending /\ Reply("flush", 0, 0, <<>>, "Os", <<>>)
  /\ UNCHANGED <<model, saved, mode, cursor, chunks>>

(* flush_range, schedule_flush_range, advise, touch, prefetch, lock, and   *)
(* the check of a segment: the bytes stay, and so does what is pending,    *)
(* unless everything was flushed.                                          *)
Hint(op, off, len) ==
  /\ mode # "closed"
  /\ \/ /\ Reply(op, off, len, <<>>, IF in_bounds(off, len) THEN "Ok" ELSE "OutOfBounds", <<>>)
        /\ pending' = (pending /\ ~(op = "flush_range" /\ off = 0 /\ len = Len(model) /\ len > 0))
     \/ /\ in_bounds(off, len) /\ len > 0 /\ op # "segment"
        /\ Reply(op, off, len, <<>>, "Os", <<>>)
        /\ UNCHANGED pending
  /\ UNCHANGED <<model, saved, mode, cursor, chunks>>

(* DontNeed on private pages: they may show the file again, whole pages at *)
(* a time.                                                                 *)
Discard(off, len) ==
  /\ mode = "cow" /\ ~Pinned /\ len > 0 /\ in_bounds(off, len)
  /\ LET page(i) == (i - 1) \div PageSize
     IN  model' = [i \in 1 .. Len(model) |->
                     IF page(i) \in page(off + 1) .. page(off + len) THEN saved[i] ELSE model[i]]
  /\ Reply("dont_need", off, len, <<>>, "Ok", <<>>)
  /\ UNCHANGED <<saved, mode, pending, cursor, chunks>>

(* A segment is a range that is checked again at each use.                 *)
SegmentWrite(off, len, data) ==
  /\ mode # "closed"
  /\ LET verdict == CASE Len(data) > len -> "OutOfBounds"
                      [] data = <<>>     -> "Ok"
                      [] OTHER           -> Verdict(off, len)
     IN  /\ Len(data) \in 1 .. len /\ verdict # "InvalidMode" => ~Pinned
         /\ IF verdict = "Ok" /\ data # <<>>
            THEN Store(Splice(model, off, data), TRUE) ELSE UNCHANGED modelVars
         /\ Reply("seg_write", off, len, data, verdict, <<>>)
  /\ UNCHANGED <<cursor, chunks>>

(* chunks_mut: the callback fills chunks with b and fails at the last, if  *)
(* fail is set                                                             *)
ChunksMutFill(size, calls, fail, b) ==
  /\ mode # "closed"
  /\ LET done == IF size = 0 THEN 0 ELSE Smaller(calls * size, Len(model))
         args == <<calls, IF fail THEN 1 ELSE 0, b>>
     IN  \/ /\ mode = "ro"
            /\ UNCHANGED modelVars /\ Reply("chunks_mut", 0, size, args, "InvalidMode", <<>>)
         \/ /\ mode # "ro"
            /\ size = 0 \/ ~Pinned
            /\ Store(Splice(model, 0, [i \in 1 .. done |-> b]), done > 0)
            /\ Reply("chunks_mut", 0, size, args, IF fail THEN "Callback" ELSE "Ok", <<>>)
  /\ UNCHANGED <<cursor, chunks>>

-----------------------------------------------------------------------------
(***************************************************************************)
(* The reader, compared with std::io::Cursor and BufReader                 *)
(***************************************************************************)

MakeReader ==
  /\ mode # "closed" /\ cursor = NoCursor
  /\ cursor' = [pos |-> 0, buffered |-> <<>>]
  /\ UNCHANGED <<modelVars, chunks, answer>>

DropReader ==
  /\ cursor' = NoCursor
  /\ UNCHANGED <<modelVars, chunks, answer>>

(* What was buffered is dropped before anything is read.                   *)
DropBuffer ==
  /\ cursor # NoCursor
  /\ cursor' = [cursor EXCEPT !.buffered = <<>>]
  /\ UNCHANGED <<modelVars, chunks, answer>>

(* The next k bytes of the mapping as it is now: none only at its end.     *)
Piece(n, k) ==
  /\ k <= n /\ cursor.pos + k <= Larger(Len(model), cursor.pos)
  /\ k = 0 => n = 0 \/ cursor.pos >= Len(model)

ReaderRead(n, k) ==
  /\ cursor # NoCursor
  /\ Piece(n, k)
  /\ cursor' = [pos |-> cursor.pos + k, buffered |-> <<>>]
  /\ Reply("read", 0, n, <<>>, "Ok", Bytes(model, cursor.pos, k))
  /\ UNCHANGED <<modelVars, chunks>>

(* A reader fails only where the mapping ended under it.                   *)
ReaderFails(op, n) ==
  /\ cursor # NoCursor /\ cursor.buffered = <<>>
  /\ mode = "rw" /\ cursor.pos + n > Len(model)
  /\ Reply(op, 0, n, <<>>, "Other", <<>>)
  /\ UNCHANGED <<modelVars, cursor, chunks>>

(* The position does not leave the unsigned numbers.                       *)
Seek(op, base, delta) ==
  /\ cursor # NoCursor
  /\ LET to == base + delta
         ok == to \in 0 .. MaxOffset
     IN  /\ cursor' = [pos |-> IF ok THEN to ELSE cursor.pos, buffered |-> <<>>]
         /\ Reply(op, delta, 0, <<>>, IF ok THEN "Ok" ELSE "InvalidInput",
                  IF ok THEN <<to>> ELSE <<>>)
  /\ UNCHANGED <<modelVars, chunks>>

(* The bytes buffered before, if any are left, else the next of the        *)
(* mapping, which are buffered unless nothing can change them              *)
FillBuf(k) ==
  /\ cursor # NoCursor
  /\ \/ /\ cursor.buffered # <<>>
        /\ UNCHANGED cursor
        /\ Reply("fill_buf", 0, 0, <<>>, "Ok", cursor.buffered)
     \/ /\ cursor.buffered = <<>>
        /\ Piece(Larger(1, k), k)
        /\ mode = "ro" => cursor.pos + k >= Len(model)
        /\ cursor' = [cursor EXCEPT !.buffered =
                        IF mode = "ro" THEN <<>> ELSE Bytes(model, cursor.pos, k)]
        /\ Reply("fill_buf", 0, 0, <<>>, "Ok", Bytes(model, cursor.pos, k))
  /\ UNCHANGED <<modelVars, chunks>>

Consume(n) ==
  /\ cursor # NoCursor
  /\ cursor' = [pos      |-> Smaller(cursor.pos + n, MaxOffset),
                buffered |-> SubSeq(cursor.buffered, n + 1, Len(cursor.buffered))]
  /\ UNCHANGED <<modelVars, chunks, answer>>

-----------------------------------------------------------------------------
(***************************************************************************)
(* Chunks: model.chunks(size) of the bytes at the time of the call         *)
(***************************************************************************)

MakeChunks(size) ==
  /\ mode # "closed" /\ chunks = NoChunks
  /\ chunks' = [size |-> size, at |-> 0]
  /\ UNCHANGED <<modelVars, cursor, answer>>

DropChunks ==
  /\ chunks' = NoChunks
  /\ UNCHANGED <<modelVars, cursor, answer>>

NextChunk ==
  /\ chunks # NoChunks
  /\ LET left == Len(model) - chunks.at
         n    == Smaller(chunks.size, left)
     IN  /\ chunks' = [chunks EXCEPT !.at = @ + n]
         /\ Reply("chunk", 0, 0, <<>>, IF n = 0 THEN "None" ELSE "Ok",
                  Bytes(model, chunks.at, n))
  /\ UNCHANGED <<modelVars, cursor>>

(* As many chunks as cover what is left: k do, and k - 1 do not            *)
SizeHint(k) ==
  /\ chunks # NoChunks
  /\ LET left == Len(model) - chunks.at
     IN  IF chunks.size = 0 THEN k = 0
         ELSE k * chunks.size >= left /\ (k > 0 => (k - 1) * chunks.size < left)
  /\ Reply("size_hint", 0, 0, <<>>, "Ok", <<k>>)
  /\ UNCHANGED <<modelVars, cursor, chunks>>

-----------------------------------------------------------------------------

ReadOp == {"slice", "try_slice", "read_into", "read_bytes", "slice_bytes", "seg_read"}
HintOp == {"flush_range", "schedule", "advise", "dont_need", "touch", "prefetch", "lock",
           "segment"}

(* The arguments of a call are the ones its answer names.                  *)
HandleCall ==
  LET op == answer'.op  off == answer'.off  len == answer'.len  data == answer'.data
  IN  \/ op \in {"open_ro", "open_cow"} /\ Open(op, "ro")
      \/ op = "open_rw" /\ Open(op, "rw")
      \/ op = "open_cow_writable" /\ Open(op, "cow")
      \/ op = "create" /\ Create(len)
      \/ op = "close" /\ Close
      \/ op = "write_file" /\ WriteFile(off, data)
      \/ op \in {"update", "try_update"} /\ Update(op, off, data)
      \/ op \in {"slice_mut", "try_slice_mut", "seg_mut"} /\ SliceMutFill(op, off, len, data[1])
      \/ op \in ReadOp /\ Read(op, off, len)
      \/ op = "slice_bytes" /\ SliceBytes(off, len)
      \/ op = "len" /\ Length
      \/ op = "resize" /\ Resize(len)
      \/ op = "flush" /\ Flush
      \/ op \in HintOp /\ Hint(op, off, len)
      \/ op = "dont_need" /\ Discard(off, len)
      \/ op = "seg_write" /\ SegmentWrite(off, len, data)
      \/ op = "chunks_mut" /\ ChunksMutFill(len, data[1], data[2] = 1, data[3])

ReaderCall ==
  LET op == answer'.op  delta == answer'.off  n == answer'.len  got == Len(answer'.val)
  IN  \/ MakeReader \/ DropReader \/ DropBuffer
      \/ op = "read" /\ ReaderRead(n, got)
      \/ op \in {"read", "fill_buf"} /\ ReaderFails(op, n)
      \/ op = "seek_start" /\ Seek(op, 0, delta)
      \/ op = "seek_end" /\ Seek(op, Len(model), delta)
      \/ op = "seek_current" /\ Seek(op, cursor.pos, delta)
      \/ op = "fill_buf" /\ FillBuf(got)
      \/ \E k \in 0 .. MaxData : Consume(k)

ChunksCall ==
  \/ \E size \in 0 .. MaxLen + 1 : MakeChunks(size)
  \/ DropChunks \/ NextChunk
  \/ answer'.op = "size_hint" /\ SizeHint(answer'.val[1])

Next == HandleCall \/ ReaderCall \/ ChunksCall

Spec == Init /\ [][Next]_vars

=============================================================================
