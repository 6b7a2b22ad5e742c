------------------------------ MODULE ViewRules ------------------------------
(***************************************************************************)
(* Which views of a mapping may live together, and how its bytes may be    *)
(* read meanwhile: the rules that AnonymousMmap and the view registry      *)
(* promise, stated over the views that are alive and nothing else.         *)
(* Numbers are unbounded here.                                             *)
(***************************************************************************)
EXTENDS Integers, Sequences

CONSTANTS
  View,      (* view objects                                               *)
  MaxLen     (* the largest mapping                                        *)

VARIABLES
  length,    (* the length of the mapping, 0 before it is made             *)
  live,      (* live[v]: what view v is                                    *)
  answer     (* the last call and its result                               *)

vars == <<length, live, answer>>

NoView   == [kind |-> "none", start |-> 0, end |-> 0, size |-> 0]
NoAnswer == [op |-> "none", off |-> 0, len |-> 0, size |-> 0, res |-> "Ok",
             val |-> <<>>, loads |-> {}]

Init ==
  /\ length = 0
  /\ live = [v \in View |-> NoView]
  /\ answer = NoAnswer

Reply(op, off, len, res) ==
  answer' = [op |-> op, off |-> off, len |-> len, size |-> 0, res |-> res,
             val |-> <<>>, loads |-> {}]

Is(kind) == {v \in View : live[v].kind = kind}

(* Views of the kind that share a byte with [start, end)                   *)
Over(kind, start, end) ==
  {v \in Is(kind) : \E b \in start .. end - 1 : b \in live[v].start .. live[v].end - 1}

(* A mutable slice excludes every other view; other views only that.       *)
Exclusive == Is("mut") # {}
Occupied  == \E v \in View : live[v].kind # "none"

InBounds(off, len) == off + len <= length

Make(v, kind, start, end, size) ==
  live' = [live EXCEPT ![v] = [kind |-> kind, start |-> start, end |-> end, size |-> size]]

-----------------------------------------------------------------------------

New(n) ==
  /\ length = 0
  /\ \/ n \in 1 .. MaxLen /\ length' = n /\ Reply("new", 0, n, "Ok")
     \/ n \in 1 .. MaxLen /\ UNCHANGED length /\ Reply("new", 0, n, "Io")
     \/ n \notin 1 .. MaxLen /\ UNCHANGED length /\ Reply("new", 0, n, "ResizeFailed")
  /\ UNCHANGED live

(* A plain slice.  An empty one refers to nothing.                         *)
Slice(op, off, len) ==
  /\ length > 0
  /\ \/ len = 0 /\ Reply(op, off, len, "Ok") /\ UNCHANGED live
     \/ /\ len > 0 /\ ~InBounds(off, len)
        /\ Reply(op, off, len, "OutOfBounds") /\ UNCHANGED live
     \/ /\ len > 0 /\ InBounds(off, len) /\ Exclusive
        /\ op = "try_slice"
        /\ Reply(op, off, len, "Busy") /\ UNCHANGED live
     \/ /\ len > 0 /\ InBounds(off, len) /\ ~Exclusive
        /\ Over("atomic", off, off + len) # {}
        /\ Reply(op, off, len, "AtomicLive") /\ UNCHANGED live
     \/ /\ len > 0 /\ InBounds(off, len) /\ ~Exclusive
        /\ Over("atomic", off, off + len) = {}
        /\ \E v \in View : live[v] = NoView /\ Make(v, "slice", off, off + len, 0)
        /\ Reply(op, off, len, "Ok")
  /\ UNCHANGED length

(* A mutable slice; the empty one still excludes the others.               *)
MutSlice(op, off, len) ==
  /\ length > 0
  /\ \/ /\ len > 0 /\ ~InBounds(off, len)
        /\ Reply(op, off, len, "OutOfBounds") /\ UNCHANGED live
     \/ /\ len = 0 \/ InBounds(off, len)
        /\ Occupied /\ op = "try_mut"
        /\ Reply(op, off, len, "Busy") /\ UNCHANGED live
     \/ /\ len = 0 \/ InBounds(off, len)
        /\ ~Occupied
        /\ \E v \in View :
             IF len = 0 THEN Make(v, "mut", 0, 0, 0) ELSE Make(v, "mut", off, off + len, 0)
        /\ Reply(op, off, len, "Ok")
  /\ UNCHANGED length

Update(op, off, len) ==
  /\ length > 0
  /\ \/ len = 0 /\ Reply(op, off, len, "Ok")
     \/ len > 0 /\ ~InBounds(off, len) /\ Reply(op, off, len, "OutOfBounds")
     \/ len > 0 /\ InBounds(off, len) /\ ~Occupied /\ Reply(op, off, len, "Ok")
     \/ /\ len > 0 /\ InBounds(off, len) /\ Occupied /\ op = "try_update"
        /\ Reply(op, off, len, "Busy")
  /\ UNCHANGED <<length, live>>

(* count elements of size bytes from off on.  Views of one element size    *)
(* may overlap; an empty view meets nothing.                               *)
Atomic(off, count, size) ==
  LET end  == off + count * size
      Result(res) == answer' = [op |-> "atomic", off |-> off, len |-> count, size |-> size,
                                res |-> res, val |-> <<>>, loads |-> {}]
      Refuse(why) == Result(why) /\ UNCHANGED live
  IN  /\ length > 0
      /\ \/ off % size # 0 /\ Refuse("Misaligned")
         \/ /\ off % size = 0 /\ ~Exclusive
            /\ \/ end > length /\ Refuse("OutOfBounds")
               \/ /\ end <= length /\ count > 0
                  /\ \E v \in Over("atomic", off, end) : live[v].size # size
                  /\ Refuse("MixedSize")
               \/ /\ end <= length /\ count > 0
                  /\ \A v \in Over("atomic", off, end) : live[v].size = size
                  /\ Over("slice", off, end) # {}
                  /\ Refuse("PlainLive")
               \/ /\ end <= length
                  /\ count > 0 => /\ \A v \in Over("atomic", off, end) : live[v].size = size
                                  /\ Over("slice", off, end) = {}
                  /\ \E v \in View : live[v] = NoView /\ Make(v, "atomic", off, end, size)
                  /\ Result("Ok")
      /\ UNCHANGED length

(* Any view, in any order, by any thread                                   *)
Drop(v) ==
  /\ live[v] # NoView
  /\ live' = [live EXCEPT ![v] = NoView]
  /\ UNCHANGED <<length, answer>>

-----------------------------------------------------------------------------

(* How byte b must be read: 0 stands for a plain read.                     *)
Width(b) ==
  LET over == Over("atomic", b, b + 1)
  IN  IF over = {} THEN 0 ELSE live[CHOOSE v \in over : TRUE].size

(* An atomic load reads one element of a live view, whole.                 *)
Element(l) ==
  \E v \in Is("atomic") :
    /\ live[v].size = l.size /\ (l.elem - live[v].start) % l.size = 0
    /\ live[v].start <= l.elem /\ l.elem + l.size <= live[v].end

(* A copying read meets every byte once, in order, plainly exactly where   *)
(* no atomic view lives.                                                   *)
ReadInto(off, len) ==
  /\ length > 0
  /\ \/ len = 0 /\ Reply("read_into", off, len, "Ok")
     \/ len > 0 /\ ~InBounds(off, len) /\ Reply("read_into", off, len, "OutOfBounds")
     \/ /\ len > 0 /\ InBounds(off, len) /\ ~Exclusive
        /\ \A l \in answer'.loads : Element(l)
        /\ answer'.res = "Ok"
        /\ answer'.val = [i \in 1 .. len |-> Width(off + i - 1)]
  /\ UNCHANGED <<length, live>>

(* One byte of every page of the range is read, with its whole element.    *)
Touch(off, len, page) ==
  /\ length > 0 /\ ~Exclusive
  /\ \A l \in answer'.loads : Element(l)
  /\ Len(answer'.val) * page >= len /\ (Len(answer'.val) - 1) * page < len
  /\ \A i \in DOMAIN answer'.val : answer'.val[i] = Width(off + (i - 1) * page)
  /\ UNCHANGED <<length, live>>

-----------------------------------------------------------------------------

(* The arguments of a call are the ones its answer names.                  *)
Next ==
  LET op == answer'.op  off == answer'.off  len == answer'.len
  IN  \/ op = "new" /\ New(len)
      \/ op \in {"slice", "try_slice"} /\ Slice(op, off, len)
      \/ op \in {"mut", "try_mut"} /\ MutSlice(op, off, len)
      \/ op \in {"update", "try_update"} /\ Update(op, off, len)
      \/ op = "atomic" /\ Atomic(off, len, answer'.size)
      \/ \E v \in View : Drop(v)
      \/ op = "read_into" /\ ReadInto(off, len)
      \/ op = "touch" /\ Touch(off, len, answer'.size)

Spec == Init /\ [][Next]_vars

=============================================================================
