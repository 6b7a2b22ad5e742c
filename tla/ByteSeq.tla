------------------------------- MODULE ByteSeq -------------------------------
(***************************************************************************)
(* Sequences of bytes: the content of a file or of a mapping.  Offsets     *)
(* count from 0 as in the code: byte off is s[off + 1].                    *)
(***************************************************************************)
EXTENDS Integers, Sequences

Zeros(n) == [i \in 1 .. n |-> 0]

(* The len bytes from off on                                               *)
Bytes(s, off, len) == SubSeq(s, off + 1, off + len)

(* s with data copied over it at off                                       *)
Splice(s, off, data) ==
  [i \in 1 .. Len(s) |-> IF i - off \in 1 .. Len(data) THEN data[i - off] ELSE s[i]]

(* s cut, or extended with zeros, to n bytes                               *)
Resized(s, n) == [i \in 1 .. n |-> IF i <= Len(s) THEN s[i] ELSE 0]

Smaller(a, b) == IF a < b THEN a ELSE b
Larger(a, b)  == IF a > b THEN a ELSE b

=============================================================================
