-------------------------- MODULE MappedFileProofs --------------------------
(***************************************************************************)
(* Proofs about MappedFile, for any set of threads, any length of the file *)
(* and both platforms: the views stay inside the mapping and the mapping   *)
(* inside the file, len() tells the truth whenever nobody writes, and a    *)
(* resize leaves behind what it promises, whichever of its calls fails.    *)
(***************************************************************************)
EXTENDS MappedFile, TLAPS

-----------------------------------------------------------------------------
(***************************************************************************)
(* The inductive invariant                                                 *)
(***************************************************************************)

(* The guards that are out are exactly those of the views and of the calls *)
(* inside the lock, at most one of them writes, and then nobody reads.     *)
GuardsMatch ==
  /\ \A t \in Thread :
       /\ <<t, "view">> \in map.readers <=> view[t].kind = "read"
       /\ <<t, "call">> \in map.readers <=> pc[t] = "r_copy"
       /\ <<t, "view">> \in map.writer <=> view[t].kind = "mut"
       /\ <<t, "call">> \in map.writer <=> pc[t] \in ResizePc
  /\ \A g, h \in map.writer : g = h
  /\ map.writer # {} => map.readers = {}

(* A range that somebody holds a guard for was checked against the mapping *)
(* that is still there.                                                    *)
RangesInside ==
  \A t \in Thread :
    /\ view[t].kind = "none" => view[t] = NoView
    /\ view[t] # NoView => view[t].end <= map_len
    /\ pc[t] = "r_copy" => req[t][2] <= map_len

(* No byte past the end of the file is set, and on unix none past the      *)
(* mapping: the tail a failed grow may leave behind is all zeros.          *)
ZeroTail ==
  \A b \in Byte :
    /\ b >= file_len => ~content[b]
    /\ platform = "unix" /\ b >= map_len => ~content[b]

(* While no resize is inside the lock, length and file fit the mapping.    *)
Settled ==
  (\A t \in Thread : pc[t] \notin ResizePc) => cached_len = map_len /\ map_len <= file_len

(* Nothing has happened to mapping and file since resize took the lock.    *)
Untouched ==
  /\ map_len = old.map_len /\ map_len <= file_len
  /\ file_len = old.file_len /\ content = old.content

(* Where a resize stands at each of its steps, and so what the call that   *)
(* fails there leaves behind.                                              *)
ResizeStep(t) ==
  /\ pc[t] = "g_set_len" => Untouched /\ new_len(t) > map_len
  /\ pc[t] \in {"g_map", "g_undo", "z_longer"} =>
       /\ map_len = old.map_len /\ new_len(t) > map_len
       /\ file_len = new_len(t)
       /\ Kept(new_len(t))
       /\ platform = "unix" => content = old.content
  /\ pc[t] \in {"s_map", "s_set_len"} => Untouched /\ new_len(t) < map_len
  /\ pc[t] = "w_unmap" => platform # "unix" /\ Untouched /\ new_len(t) < map_len
  /\ pc[t] \in {"w_set_len", "w_restore", "z_lost"} =>
       /\ platform # "unix" /\ map_len = 0
       /\ file_len = old.file_len /\ content = old.content
       /\ new_len(t) < old.map_len /\ old.map_len <= file_len
  /\ pc[t] \in {"w_map", "z_empty"} =>
       /\ platform # "unix" /\ map_len = 0
       /\ file_len = new_len(t) /\ Kept(new_len(t))
       /\ new_len(t) < old.map_len
  /\ pc[t] = "z_ok" =>
       /\ map_len = new_len(t) /\ map_len <= file_len /\ Kept(new_len(t))
       /\ file_len = IF new_len(t) = old.map_len THEN old.file_len ELSE new_len(t)
  /\ pc[t] = "z_err" =>
       /\ map_len = old.map_len /\ map_len <= file_len /\ Kept(old.map_len)
       /\ \/ file_len = old.file_len /\ content = old.content
          \/ file_len = old.map_len /\ new_len(t) > old.map_len
       /\ platform = "unix" => content = old.content

IInv ==
  /\ TypeOK
  /\ GuardsMatch
  /\ RangesInside
  /\ ZeroTail
  /\ Settled
  /\ \A t \in Thread : ResizeStep(t)

-----------------------------------------------------------------------------
(***************************************************************************)
(* The initial state and the lock                                          *)
(***************************************************************************)

(* A mapping just created satisfies the invariant.                         *)
LEMMA InitInv == Init => IInv
  <1> SUFFICES ASSUME Init PROVE IInv
    OBVIOUS
  <1>1. TypeOK
    BY LenAssumption DEF Init, TypeOK, Unlocked, LockType, Guard, Len, Size, Byte, Empty,
       NoView, NoRange
  <1>2. GuardsMatch
    BY DEF Init, GuardsMatch, Unlocked, NoView, ResizePc, Outcome
  <1>3. RangesInside /\ ZeroTail
    BY DEF Init, RangesInside, ZeroTail, NoView, Empty
  <1>4. Settled /\ \A t \in Thread : ResizeStep(t)
    BY LenAssumption DEF Init, Settled, ResizeStep, Size
  <1> QED BY <1>1, <1>2, <1>3, <1>4 DEF IInv

(* The write guard excludes everybody else: a resize inside the lock is    *)
(* alone there, and no view and no copying read exists.                    *)
LEMMA WriterAlone ==
  ASSUME IInv, NEW t \in Thread, pc[t] \in ResizePc
  PROVE  \A u \in Thread :
           /\ view[u] = NoView /\ pc[u] # "r_copy"
           /\ pc[u] \in ResizePc => u = t
  <1>1. GuardsMatch /\ RangesInside /\ TypeOK
    BY DEF IInv
  <1>2. <<t, "call">> \in map.writer /\ map.readers = {}
    BY <1>1 DEF GuardsMatch
  <1> SUFFICES ASSUME NEW u \in Thread
               PROVE  /\ view[u] = NoView /\ pc[u] # "r_copy"
                      /\ pc[u] \in ResizePc => u = t
    OBVIOUS
  <1>3. pc[u] \in ResizePc => u = t
    BY <1>1, <1>2 DEF GuardsMatch
  <1>4. <<u, "view">> \notin map.writer
    BY <1>1, <1>2 DEF GuardsMatch
  <1>5. view[u].kind = "none" /\ pc[u] # "r_copy"
    BY <1>1, <1>2, <1>4 DEF GuardsMatch, TypeOK
  <1> QED BY <1>1, <1>3, <1>5 DEF RangesInside

(* With the lock free, or only readers in it, nobody is inside a resize    *)
(* and nobody owns a mutable view.                                         *)
LEMMA NoWriter ==
  ASSUME IInv, CanRead(map)
  PROVE  /\ \A u \in Thread : pc[u] \notin ResizePc /\ view[u].kind # "mut"
         /\ cached_len = map_len /\ map_len <= file_len
  BY DEF IInv, GuardsMatch, Settled, CanRead

(* Who holds a view is not in the way of a resize: none is inside.         *)
LEMMA NoResizeUnderView ==
  ASSUME IInv, NEW t \in Thread, view[t] # NoView
  PROVE  \A u \in Thread : pc[u] \notin ResizePc
  BY WriterAlone

-----------------------------------------------------------------------------
(***************************************************************************)
(* Views and reads                                                         *)
(***************************************************************************)

(* A reading view: as_slice and the atomic views keep the invariant.       *)
LEMMA OpenViewInv ==
  ASSUME IInv, NEW t \in Thread, NEW r \in Range, OpenView(t, r)
  PROVE  IInv'
  <1>1. TypeOK'
    BY SMTT(30) DEF IInv, TypeOK, OpenView, LockType, LockRead, Guard, Range
  <1>2. GuardsMatch'
    BY NoWriter DEF IInv, TypeOK, GuardsMatch, OpenView, LockType, LockRead, CanRead,
       ResizePc, Outcome
  <1>3. RangesInside'
    BY DEF IInv, TypeOK, RangesInside, OpenView, slice_range
  <1>4. ZeroTail' /\ Settled' /\ \A u \in Thread : ResizeStep(u)'
    BY DEF IInv, ZeroTail, Settled, ResizeStep, Untouched, Kept, new_len, OpenView
  <1> QED BY <1>1, <1>2, <1>3, <1>4 DEF IInv

(* A mutable view: as_slice_mut and try_as_slice_mut.                      *)
LEMMA OpenMutInv ==
  ASSUME IInv, NEW t \in Thread, NEW r \in Range, OpenMut(t, r)
  PROVE  IInv'
  <1>1. TypeOK'
    BY DEF IInv, TypeOK, OpenMut, LockType, LockWrite, Guard, Range
  <1>2. GuardsMatch'
    BY NoWriter DEF IInv, TypeOK, GuardsMatch, OpenMut, LockType, LockWrite, CanRead,
       CanWrite, ResizePc, Outcome
  <1>3. RangesInside'
    BY DEF IInv, TypeOK, RangesInside, OpenMut, slice_range
  <1>4. ZeroTail' /\ Settled' /\ \A u \in Thread : ResizeStep(u)'
    BY DEF IInv, ZeroTail, Settled, ResizeStep, Untouched, Kept, new_len, OpenMut
  <1> QED BY <1>1, <1>2, <1>3, <1>4 DEF IInv

(* A store through a mutable view stays below the end of the mapping.      *)
LEMMA StoreMutInv ==
  ASSUME IInv, NEW t \in Thread, NEW i \in Byte, StoreMut(t, i)
  PROVE  IInv'
  <1>1. view[t] # NoView
    BY DEF StoreMut, NoView
  <1>2. \A u \in Thread : pc[u] \notin ResizePc
    BY <1>1, NoResizeUnderView
  <1>3. i < map_len /\ map_len <= file_len
    BY <1>1, <1>2, LenAssumption
       DEF IInv, TypeOK, RangesInside, Settled, StoreMut, Len, Byte
  <1>4. TypeOK'
    BY DEF IInv, TypeOK, StoreMut
  <1>5. GuardsMatch' /\ RangesInside' /\ Settled'
    BY DEF IInv, GuardsMatch, RangesInside, Settled, StoreMut
  <1>6. ZeroTail'
    BY <1>3, LenAssumption DEF IInv, TypeOK, ZeroTail, StoreMut, Len, Byte
  <1>7. \A u \in Thread : ResizeStep(u)'
    BY <1>2 DEF ResizeStep, ResizePc, Outcome, StoreMut
  <1> QED BY <1>4, <1>5, <1>6, <1>7 DEF IInv

(* Dropping a view gives back its guard and no other.                      *)
LEMMA DropViewInv ==
  ASSUME IInv, NEW t \in Thread, DropView(t)
  PROVE  IInv'
  <1>1. TypeOK'
    <2>1. map' \in LockType(Guard)
      BY DEF IInv, TypeOK, DropView, LockType, UnlockRead, UnlockWrite
    <2>2. NoView \in [kind : {"none", "read", "mut"}, start : Len, end : Len]
      BY LenAssumption DEF NoView, Len
    <2> QED BY <2>1, <2>2 DEF IInv, TypeOK, DropView
  <1>2. GuardsMatch'
    <2>1. /\ map'.readers = map.readers \ {<<t, "view">>}
          /\ map'.writer = map.writer \ {<<t, "view">>}
      BY DEF IInv, TypeOK, DropView, LockType, UnlockRead, UnlockWrite
    <2>2. view' = [view EXCEPT ![t] = NoView] /\ pc' = pc
      BY DEF DropView
    <2> QED BY <2>1, <2>2 DEF IInv, TypeOK, GuardsMatch, NoView
  <1>3. RangesInside'
    BY DEF IInv, TypeOK, RangesInside, DropView, NoView
  <1>4. ZeroTail' /\ Settled' /\ \A u \in Thread : ResizeStep(u)'
    BY DEF IInv, ZeroTail, Settled, ResizeStep, Untouched, Kept, new_len, DropView
  <1> QED BY <1>1, <1>2, <1>3, <1>4 DEF IInv

(* update_region writes inside the mapping, alone under the write lock.    *)
LEMMA UpdateRegionInv ==
  ASSUME IInv, NEW t \in Thread, NEW r \in Range, update_region(t, r)
  PROVE  IInv'
  <1>1. /\ \A u \in Thread : pc[u] \notin ResizePc
        /\ map_len <= file_len
    BY NoWriter DEF update_region, CanRead, CanWrite
  <1>2. TypeOK'
    BY DEF IInv, TypeOK, update_region
  <1>3. GuardsMatch' /\ RangesInside' /\ Settled'
    BY DEF IInv, GuardsMatch, RangesInside, Settled, update_region
  <1>4. ZeroTail'
    <2> SUFFICES ASSUME NEW b \in Byte, b >= file_len \/ (platform = "unix" /\ b >= map_len)
                 PROVE  ~content'[b]
      BY DEF ZeroTail, update_region
    <2>1. b >= map_len /\ ~content[b]
      BY <1>1, LenAssumption DEF IInv, TypeOK, ZeroTail, Byte, Len
    <2>2. b \notin r[1] .. r[2] - 1
      BY <2>1, LenAssumption DEF IInv, TypeOK, update_region, slice_range, Range, Len, Byte
    <2> QED BY <2>1, <2>2 DEF update_region
  <1>5. \A u \in Thread : ResizeStep(u)'
    BY <1>1 DEF ResizeStep, ResizePc, Outcome, update_region
  <1> QED BY <1>2, <1>3, <1>4, <1>5 DEF IInv

(* A reading call starts: nothing is held yet.                             *)
LEMMA CallReadInv ==
  ASSUME IInv, NEW t \in Thread, NEW r \in Range, CallRead(t, r)
  PROVE  IInv'
  <1>1. TypeOK'
    BY DEF IInv, TypeOK, CallRead, Goto, Range
  <1>2. GuardsMatch' /\ RangesInside' /\ Settled'
    BY DEF IInv, TypeOK, GuardsMatch, RangesInside, Settled, CallRead, Goto, ResizePc,
       Outcome
  <1>3. ZeroTail' /\ \A u \in Thread : ResizeStep(u)'
    BY DEF IInv, TypeOK, ZeroTail, ResizeStep, Untouched, Kept, new_len, CallRead, Goto
  <1> QED BY <1>1, <1>2, <1>3 DEF IInv

(* A reading call is let in, and checks its range against the mapping its  *)
(* guard protects.                                                         *)
LEMMA BeginReadInv ==
  ASSUME IInv, NEW t \in Thread, BeginRead(t)
  PROVE  IInv'
  <1>1. TypeOK'
    <2>1. map' \in LockType(Guard)
      BY DEF IInv, TypeOK, BeginRead, LockType, LockRead, Guard
    <2>2. pc' \in [Thread -> ResizePc \union {"idle", "r_wait", "r_copy", "z_wait"}]
      BY DEF IInv, TypeOK, BeginRead, Goto
    <2> QED BY <2>1, <2>2 DEF IInv, TypeOK, BeginRead
  <1>2. GuardsMatch'
    BY NoWriter DEF IInv, TypeOK, GuardsMatch, BeginRead, Goto, LockType, LockRead, CanRead,
       ResizePc, Outcome
  <1>3. RangesInside' /\ Settled'
    BY DEF IInv, TypeOK, RangesInside, Settled, BeginRead, Goto, slice_range, ResizePc,
       Outcome
  <1>4. ZeroTail' /\ \A u \in Thread : ResizeStep(u)'
    BY DEF IInv, TypeOK, ZeroTail, ResizeStep, Untouched, Kept, new_len, BeginRead, Goto
  <1> QED BY <1>1, <1>2, <1>3, <1>4 DEF IInv

(* A reading call returns its guard.                                       *)
LEMMA EndReadInv ==
  ASSUME IInv, NEW t \in Thread, EndRead(t)
  PROVE  IInv'
  <1>1. TypeOK'
    BY DEF IInv, TypeOK, EndRead, Goto, LockType, UnlockRead
  <1>2. GuardsMatch'
    BY DEF IInv, TypeOK, GuardsMatch, EndRead, Goto, LockType, UnlockRead, ResizePc, Outcome
  <1>3. RangesInside' /\ Settled'
    BY DEF IInv, TypeOK, RangesInside, Settled, EndRead, Goto, ResizePc, Outcome
  <1>4. ZeroTail' /\ \A u \in Thread : ResizeStep(u)'
    BY DEF IInv, TypeOK, ZeroTail, ResizeStep, Untouched, Kept, new_len, EndRead, Goto
  <1> QED BY <1>1, <1>2, <1>3, <1>4 DEF IInv

-----------------------------------------------------------------------------
(***************************************************************************)
(* Resize                                                                  *)
(***************************************************************************)

(* resize waits for the lock: nothing is held yet.                         *)
LEMMA CallResizeInv ==
  ASSUME IInv, NEW t \in Thread, NEW n \in Size, CallResize(t, n)
  PROVE  IInv'
  <1>1. TypeOK'
    BY LenAssumption DEF IInv, TypeOK, CallResize, Goto, Size, Len
  <1>2. GuardsMatch' /\ RangesInside' /\ Settled'
    BY DEF IInv, TypeOK, GuardsMatch, RangesInside, Settled, CallResize, Goto, ResizePc,
       Outcome
  <1>3. ZeroTail' /\ \A u \in Thread : ResizeStep(u)'
    BY DEF IInv, TypeOK, ZeroTail, ResizeStep, Untouched, Kept, new_len, CallResize, Goto
  <1> QED BY <1>1, <1>2, <1>3 DEF IInv

(* resize has the lock: whatever branch it takes starts from mapping and   *)
(* bytes as they are.                                                      *)
LEMMA LockResizeInv ==
  ASSUME IInv, NEW t \in Thread, LockResize(t)
  PROVE  IInv'
  <1> DEFINE label == CASE new_len(t) = map_len -> "z_ok"
                        [] new_len(t) > map_len -> "g_set_len"
                        [] new_len(t) < map_len ->
                             IF platform = "unix" THEN "s_map" ELSE "w_unmap"
  <1>1. new_len(t) \in Int /\ map_len \in Int
    BY DEF IInv, TypeOK, new_len, Len
  <1>2. \/ new_len(t) = map_len /\ label = "z_ok"
        \/ new_len(t) > map_len /\ label = "g_set_len"
        \/ new_len(t) < map_len /\ platform = "unix" /\ label = "s_map"
        \/ new_len(t) < map_len /\ platform # "unix" /\ label = "w_unmap"
    BY <1>1
  <1>3. pc' = [pc EXCEPT ![t] = label]
    BY DEF LockResize, Goto
  <1> HIDE DEF label
  <1>4. label \in ResizePc
    BY <1>2 DEF ResizePc, Outcome
  <1>5. /\ \A u \in Thread : pc[u] \notin ResizePc
        /\ map_len <= file_len
    BY NoWriter DEF LockResize, CanRead, CanWrite
  <1>6. TypeOK'
    BY <1>3, <1>4 DEF IInv, TypeOK, LockResize, LockType, LockWrite, Guard
  <1>7. GuardsMatch'
    <2>1. map' = [readers |-> {}, writer |-> {<<t, "call">>}]
      BY DEF IInv, TypeOK, LockResize, LockType, LockWrite, CanWrite
    <2>2. \A u \in Thread : view[u].kind \notin {"read", "mut"} /\ pc[u] # "r_copy"
      BY DEF IInv, GuardsMatch, LockResize, CanWrite
    <2>3. view' = view /\ \A u \in Thread : pc'[u] = IF u = t THEN label ELSE pc[u]
      BY <1>3 DEF IInv, TypeOK, LockResize
    <2> QED BY <1>4, <1>5, <2>1, <2>2, <2>3 DEF GuardsMatch, ResizePc, Outcome
  <1>8. RangesInside'
    BY <1>3, <1>4 DEF IInv, TypeOK, RangesInside, LockResize, ResizePc, Outcome
  <1>9. ZeroTail'
    BY DEF IInv, ZeroTail, LockResize
  <1>10. Settled'
    BY <1>3, <1>4 DEF IInv, TypeOK, Settled
  <1>11. \A u \in Thread : ResizeStep(u)'
    <2>1. ASSUME NEW u \in Thread, u # t PROVE ResizeStep(u)'
      BY <1>3, <1>5, <2>1 DEF IInv, TypeOK, ResizeStep, ResizePc, Outcome
    <2>2. Untouched' /\ \A n : Kept(n)'
      BY <1>5 DEF LockResize, Untouched, Kept
    <2>3. /\ new_len(t)' = new_len(t) /\ map_len' = map_len /\ file_len' = file_len
          /\ platform' = platform /\ pc'[t] = label
      BY <1>3 DEF IInv, TypeOK, LockResize, new_len
    <2>4. ResizeStep(t)'
      BY <1>2, <1>5, <2>2, <2>3 DEF ResizeStep, Untouched
    <2> QED BY <2>1, <2>4
  <1> QED BY <1>6, <1>7, <1>8, <1>9, <1>10, <1>11 DEF IInv

(* What every step of a resize inside the lock has in common: it changes   *)
(* nothing that guards, views or other calls depend on, so it keeps the    *)
(* invariant if it goes where its own bookkeeping holds.                   *)
LEMMA InsideInv ==
  ASSUME IInv, NEW t \in Thread, pc[t] \in ResizePc,
         NEW label \in ResizePc, Goto(t, label),
         UNCHANGED <<platform, map, cached_len, view, req, old>>,
         map_len' \in Len, file_len' \in Len, content' \in [Byte -> BOOLEAN],
         ZeroTail', ResizeStep(t)'
  PROVE  IInv'
  <1>1. \A u \in Thread : pc'[u] = IF u = t THEN label ELSE pc[u]
    BY DEF IInv, TypeOK, Goto
  <1>2. \A u \in Thread :
          /\ view[u] = NoView /\ pc[u] # "r_copy"
          /\ pc[u] \in ResizePc => u = t
    BY WriterAlone
  <1>3. TypeOK'
    BY DEF IInv, TypeOK, Goto
  <1>4. GuardsMatch'
    BY <1>1 DEF IInv, GuardsMatch, ResizePc, Outcome
  <1>5. RangesInside'
    BY <1>1, <1>2 DEF RangesInside, ResizePc, Outcome
  <1>6. Settled'
    BY <1>1 DEF Settled
  <1>7. \A u \in Thread : ResizeStep(u)'
    <2>1. ASSUME NEW u \in Thread, u # t PROVE ResizeStep(u)'
      BY <1>1, <1>2, <2>1 DEF ResizeStep, ResizePc, Outcome
    <2> QED BY <2>1
  <1> QED BY <1>3, <1>4, <1>5, <1>6, <1>7 DEF IInv

(* File::set_len keeps the bytes below the new length and the zeros past   *)
(* it.                                                                     *)
LEMMA SetLen ==
  ASSUME IInv, NEW n \in Len, set_len(n)
  PROVE  /\ file_len' \in Len /\ content' \in [Byte -> BOOLEAN]
         /\ \A b \in Byte : b >= file_len' => ~content'[b]
         /\ \A b \in Byte : b < n => content'[b] = content[b]
         /\ \A b \in Byte : content'[b] => content[b]
  <1>1. content \in [Byte -> BOOLEAN]
    BY DEF IInv, TypeOK
  <1>2. file_len' = n /\ content' = [b \in Byte |-> content[b] /\ b < n]
    BY DEF set_len
  <1>3. content' \in [Byte -> BOOLEAN]
    BY <1>2, Zenon
  <1>4. \A b \in Byte : content'[b] = (content[b] /\ b < n)
    BY <1>2
  <1>5. \A b \in Byte : content[b] \in BOOLEAN
    BY <1>1
  <1>6. \A b \in Byte : b >= file_len' => ~(b < n)
    BY <1>2, LenAssumption DEF Len, Byte
  <1>7. \A b \in Byte : b >= file_len' => ~content'[b]
    BY <1>4, <1>6, Zenon
  <1>8. \A b \in Byte : b < n => content'[b] = content[b]
    BY <1>4, <1>5
  <1> QED BY <1>2, <1>3, <1>4, <1>7, <1>8

(* Truncating at or past the last byte that is set changes no byte.        *)
LEMMA SetLenKeeps ==
  ASSUME IInv, NEW n \in Len, set_len(n), \A b \in Byte : b >= n => ~content[b]
  PROVE  content' = content
  <1>1. content \in [Byte -> BOOLEAN] /\ content' = [b \in Byte |-> content[b] /\ b < n]
    BY DEF IInv, TypeOK, set_len
  <1>2. \A b \in Byte : content'[b] = content[b]
    BY <1>1 DEF Byte, Len
  <1> QED BY <1>1, <1>2

(* A system call of resize that fails changes nothing, so it is enough     *)
(* that the bookkeeping of the step it fails at implies that of the error  *)
(* branch.                                                                 *)
LEMMA FailInv ==
  ASSUME IInv, NEW t \in Thread, pc[t] \in ResizePc,
         NEW label \in ResizePc, Goto(t, label),
         UNCHANGED <<platform, map, map_len, cached_len, file_len, content, view, req, old>>,
         ResizeStep(t)'
  PROVE  IInv'
  <1>1. ZeroTail'
    BY DEF IInv, ZeroTail
  <1>2. map_len' \in Len /\ file_len' \in Len /\ content' \in [Byte -> BOOLEAN]
    BY DEF IInv, TypeOK
  <1> QED BY <1>1, <1>2, InsideInv

(* grow_locked: extending the file keeps every byte on unix, and every     *)
(* byte below the new length on Windows.                                   *)
LEMMA GrowSetLenInv ==
  ASSUME IInv, NEW t \in Thread, GrowSetLen(t)
  PROVE  IInv'
  <1>1. /\ pc[t] = "g_set_len" /\ UNCHANGED <<platform, map, cached_len, view, req, old>>
        /\ Untouched /\ new_len(t) > map_len /\ new_len(t)' = new_len(t)
        /\ new_len(t) \in Len
    BY DEF IInv, TypeOK, GrowSetLen, SysCall, ResizeStep, new_len
  <1>2. CASE Truncate(new_len(t)) /\ Goto(t, "g_map")
    <2>1. /\ file_len' \in Len /\ content' \in [Byte -> BOOLEAN]
          /\ file_len' = new_len(t) /\ map_len' = map_len
          /\ \A b \in Byte : b >= file_len' => ~content'[b]
          /\ \A b \in Byte : b < new_len(t) => content'[b] = content[b]
          /\ \A b \in Byte : content'[b] => content[b]
      BY <1>1, <1>2, SetLen DEF Truncate, set_len
    <2>2. platform = "unix" => content' = content
      <3>1. platform = "unix" => \A b \in Byte : b >= new_len(t) => ~content[b]
        BY <1>1, LenAssumption DEF IInv, TypeOK, ZeroTail, Len, Byte
      <3> QED BY <1>1, <1>2, <3>1, SetLenKeeps DEF Truncate
    <2>3. ZeroTail'
      BY <1>1, <2>1 DEF IInv, ZeroTail
    <2>4. pc'[t] = "g_map"
      BY <1>2 DEF IInv, TypeOK, Goto
    <2>5. ResizeStep(t)'
      BY <1>1, <2>1, <2>2, <2>4 DEF ResizeStep, Untouched, Kept
    <2> QED BY <1>1, <1>2, <2>1, <2>3, <2>5, InsideInv DEF IInv, TypeOK, ResizePc, Outcome
  <1>3. CASE UNCHANGED <<map_len, file_len, content>> /\ Goto(t, "z_err")
    <2>1. pc'[t] = "z_err"
      BY <1>3 DEF IInv, TypeOK, Goto
    <2>2. ResizeStep(t)'
      BY <1>1, <1>3, <2>1 DEF ResizeStep, Untouched, Kept
    <2> QED BY <1>1, <1>3, <2>2, FailInv DEF ResizePc, Outcome
  <1> QED BY <1>2, <1>3 DEF GrowSetLen, SysCall

(* grow_locked: the larger file is mapped.                                 *)
LEMMA GrowMapInv ==
  ASSUME IInv, NEW t \in Thread, GrowMap(t)
  PROVE  IInv'
  <1>1. /\ pc[t] = "g_map" /\ UNCHANGED <<platform, map, cached_len, view, req, old>>
        /\ map_len = old.map_len /\ new_len(t) > map_len /\ file_len = new_len(t)
        /\ Kept(new_len(t)) /\ (platform = "unix" => content = old.content)
        /\ new_len(t)' = new_len(t) /\ new_len(t) \in Len
    BY DEF IInv, TypeOK, GrowMap, SysCall, ResizeStep, new_len
  <1>2. CASE Remap(new_len(t)) /\ Goto(t, "z_ok")
    <2>1. map_len' = new_len(t) /\ file_len' = file_len /\ content' = content
      BY <1>2 DEF Remap
    <2>2. ZeroTail'
      BY <1>1, <2>1 DEF IInv, ZeroTail
    <2>3. pc'[t] = "z_ok"
      BY <1>2 DEF IInv, TypeOK, Goto
    <2>4. ResizeStep(t)'
      BY <1>1, <2>1, <2>3 DEF ResizeStep, Kept, Len
    <2> QED BY <1>1, <1>2, <2>1, <2>2, <2>4, InsideInv DEF IInv, TypeOK, ResizePc, Outcome
  <1>3. CASE UNCHANGED <<map_len, file_len, content>> /\ Goto(t, "g_undo")
    <2>1. pc'[t] = "g_undo"
      BY <1>3 DEF IInv, TypeOK, Goto
    <2>2. ResizeStep(t)'
      BY <1>1, <1>3, <2>1 DEF ResizeStep, Kept
    <2> QED BY <1>1, <1>3, <2>2, FailInv DEF ResizePc, Outcome
  <1> QED BY <1>2, <1>3 DEF GrowMap, SysCall

(* grow_locked puts the file back: on unix only zeros are cut off, since   *)
(* nothing past the old mapping was ever written.                          *)
LEMMA GrowUndoInv ==
  ASSUME IInv, NEW t \in Thread, GrowUndo(t)
  PROVE  IInv'
  <1>1. /\ pc[t] = "g_undo" /\ UNCHANGED <<platform, map, cached_len, view, req, old>>
        /\ map_len = old.map_len /\ new_len(t) > map_len /\ file_len = new_len(t)
        /\ Kept(new_len(t)) /\ (platform = "unix" => content = old.content)
        /\ new_len(t)' = new_len(t) /\ map_len \in Len /\ new_len(t) \in Len
    BY DEF IInv, TypeOK, GrowUndo, SysCall, ResizeStep, new_len
  <1>2. CASE Truncate(old.map_len) /\ Goto(t, "z_err")
    <2>1. /\ file_len' \in Len /\ content' \in [Byte -> BOOLEAN]
          /\ file_len' = old.map_len /\ map_len' = map_len
          /\ \A b \in Byte : b >= file_len' => ~content'[b]
          /\ \A b \in Byte : b < old.map_len => content'[b] = content[b]
          /\ \A b \in Byte : content'[b] => content[b]
      BY <1>1, <1>2, SetLen DEF Truncate, set_len
    <2>2. platform = "unix" => content' = content
      <3>1. platform = "unix" => \A b \in Byte : b >= old.map_len => ~content[b]
        BY <1>1 DEF IInv, ZeroTail
      <3> QED BY <1>1, <1>2, <3>1, SetLenKeeps DEF Truncate
    <2>3. ZeroTail'
      BY <1>1, <2>1 DEF IInv, ZeroTail
    <2>4. pc'[t] = "z_err"
      BY <1>2 DEF IInv, TypeOK, Goto
    <2>5. Kept(old.map_len)'
      BY <1>1, <2>1, LenAssumption DEF Kept, Len, Byte
    <2>6. ResizeStep(t)'
      BY <1>1, <2>1, <2>2, <2>4, <2>5 DEF ResizeStep, Len
    <2> QED BY <1>1, <1>2, <2>1, <2>3, <2>6, InsideInv DEF ResizePc, Outcome
  <1>3. CASE UNCHANGED <<map_len, file_len, content>> /\ Goto(t, "z_longer")
    <2>1. pc'[t] = "z_longer"
      BY <1>3 DEF IInv, TypeOK, Goto
    <2>2. ResizeStep(t)'
      BY <1>1, <1>3, <2>1 DEF ResizeStep, Kept, Len
    <2> QED BY <1>1, <1>3, <2>2, FailInv DEF ResizePc, Outcome
  <1> QED BY <1>2, <1>3 DEF GrowUndo, SysCall

(* shrink_locked on unix: mapping the prefix changes nothing yet.          *)
LEMMA ShrinkMapInv ==
  ASSUME IInv, NEW t \in Thread, ShrinkMap(t)
  PROVE  IInv'
  <1>1. /\ pc[t] = "s_map" /\ UNCHANGED <<platform, map, cached_len, view, req, old>>
        /\ UNCHANGED <<map_len, file_len, content>>
        /\ Untouched /\ new_len(t) < map_len /\ new_len(t)' = new_len(t)
    BY DEF IInv, ShrinkMap, SysCall, ResizeStep, new_len
  <1>2. ASSUME NEW label \in {"s_set_len", "z_err"}, Goto(t, label) PROVE IInv'
    <2>1. pc'[t] = label
      BY <1>2 DEF IInv, TypeOK, Goto
    <2>2. ResizeStep(t)'
      BY <1>1, <1>2, <2>1 DEF ResizeStep, Untouched, Kept
    <2> QED BY <1>1, <1>2, <2>2, FailInv DEF ResizePc, Outcome
  <1> QED BY <1>2 DEF ShrinkMap, SysCall

(* shrink_locked on unix: the truncation and the new mapping come last and *)
(* together, so a failure finds everything as it was.                      *)
LEMMA ShrinkSetLenInv ==
  ASSUME IInv, NEW t \in Thread, ShrinkSetLen(t)
  PROVE  IInv'
  <1>1. /\ pc[t] = "s_set_len" /\ UNCHANGED <<platform, map, cached_len, view, req, old>>
        /\ Untouched /\ new_len(t) < map_len /\ new_len(t)' = new_len(t)
        /\ new_len(t) \in Len
    BY DEF IInv, TypeOK, ShrinkSetLen, SysCall, ResizeStep, new_len
  <1>2. CASE set_len(new_len(t)) /\ map_len' = new_len(t) /\ Goto(t, "z_ok")
    <2>1. /\ file_len' \in Len /\ content' \in [Byte -> BOOLEAN]
          /\ file_len' = new_len(t)
          /\ \A b \in Byte : b >= file_len' => ~content'[b]
          /\ \A b \in Byte : b < new_len(t) => content'[b] = content[b]
      BY <1>1, <1>2, SetLen DEF set_len
    <2>2. ZeroTail'
      BY <1>1, <1>2, <2>1 DEF ZeroTail
    <2>3. pc'[t] = "z_ok"
      BY <1>2 DEF IInv, TypeOK, Goto
    <2>4. ResizeStep(t)'
      BY <1>1, <1>2, <2>1, <2>3 DEF ResizeStep, Untouched, Kept, Len
    <2> QED BY <1>1, <1>2, <2>1, <2>2, <2>4, InsideInv DEF ResizePc, Outcome
  <1>3. CASE UNCHANGED <<map_len, file_len, content>> /\ Goto(t, "z_err")
    <2>1. pc'[t] = "z_err"
      BY <1>3 DEF IInv, TypeOK, Goto
    <2>2. ResizeStep(t)'
      BY <1>1, <1>3, <2>1 DEF ResizeStep, Untouched, Kept
    <2> QED BY <1>1, <1>3, <2>2, FailInv DEF ResizePc, Outcome
  <1> QED BY <1>2, <1>3 DEF ShrinkSetLen, SysCall

(* shrink_locked on Windows: the mapping goes first.                       *)
LEMMA WinUnmapInv ==
  ASSUME IInv, NEW t \in Thread, WinUnmap(t)
  PROVE  IInv'
  <1>1. /\ pc[t] = "w_unmap" /\ UNCHANGED <<platform, map, cached_len, view, req, old>>
        /\ map_len' = 0 /\ file_len' = file_len /\ content' = content
        /\ platform # "unix" /\ Untouched /\ new_len(t) < map_len /\ new_len(t)' = new_len(t)
    BY DEF IInv, WinUnmap, ResizeStep, new_len
  <1>2. map_len' \in Len /\ file_len' \in Len /\ content' \in [Byte -> BOOLEAN]
    BY <1>1, LenAssumption DEF IInv, TypeOK, Len
  <1>3. ZeroTail'
    BY <1>1 DEF IInv, ZeroTail
  <1>4. pc'[t] = "w_set_len" /\ Goto(t, "w_set_len")
    BY DEF IInv, TypeOK, WinUnmap, Goto
  <1>5. ResizeStep(t)'
    BY <1>1, <1>4 DEF ResizeStep, Untouched
  <1> QED BY <1>1, <1>2, <1>3, <1>4, <1>5, InsideInv DEF ResizePc, Outcome

(* shrink_locked on Windows: the truncation keeps the bytes below the new  *)
(* length; if it fails the old mapping can come back.                      *)
LEMMA WinSetLenInv ==
  ASSUME IInv, NEW t \in Thread, WinSetLen(t)
  PROVE  IInv'
  <1>1. /\ pc[t] = "w_set_len" /\ UNCHANGED <<platform, map, cached_len, view, req, old>>
        /\ platform # "unix" /\ map_len = 0 /\ content = old.content /\ file_len = old.file_len
        /\ new_len(t) < old.map_len /\ old.map_len <= file_len
        /\ new_len(t)' = new_len(t) /\ new_len(t) \in Len
    BY DEF IInv, TypeOK, WinSetLen, SysCall, ResizeStep, new_len
  <1>2. CASE Truncate(new_len(t)) /\ Goto(t, "w_map")
    <2>1. /\ file_len' \in Len /\ content' \in [Byte -> BOOLEAN]
          /\ file_len' = new_len(t) /\ map_len' = map_len
          /\ \A b \in Byte : b >= file_len' => ~content'[b]
          /\ \A b \in Byte : b < new_len(t) => content'[b] = content[b]
      BY <1>1, <1>2, SetLen DEF Truncate, set_len
    <2>2. ZeroTail'
      BY <1>1, <2>1 DEF ZeroTail
    <2>3. pc'[t] = "w_map"
      BY <1>2 DEF IInv, TypeOK, Goto
    <2>4. ResizeStep(t)'
      BY <1>1, <2>1, <2>3 DEF ResizeStep, Kept
    <2> QED BY <1>1, <1>2, <2>1, <2>2, <2>4, InsideInv DEF IInv, TypeOK, ResizePc, Outcome
  <1>3. CASE UNCHANGED <<map_len, file_len, content>> /\ Goto(t, "w_restore")
    <2>1. pc'[t] = "w_restore"
      BY <1>3 DEF IInv, TypeOK, Goto
    <2>2. ResizeStep(t)'
      BY <1>1, <1>3, <2>1 DEF ResizeStep
    <2> QED BY <1>1, <1>3, <2>2, FailInv DEF ResizePc, Outcome
  <1> QED BY <1>2, <1>3 DEF WinSetLen, SysCall

(* shrink_locked on Windows: the truncated file is mapped, or the mapping  *)
(* stays empty.                                                            *)
LEMMA WinMapInv ==
  ASSUME IInv, NEW t \in Thread, WinMap(t)
  PROVE  IInv'
  <1>1. /\ pc[t] = "w_map" /\ UNCHANGED <<platform, map, cached_len, view, req, old>>
        /\ platform # "unix" /\ map_len = 0 /\ file_len = new_len(t) /\ Kept(new_len(t))
        /\ new_len(t) < old.map_len /\ new_len(t)' = new_len(t) /\ new_len(t) \in Len
    BY DEF IInv, TypeOK, WinMap, SysCall, ResizeStep, new_len
  <1>2. CASE Remap(new_len(t)) /\ Goto(t, "z_ok")
    <2>1. map_len' = new_len(t) /\ file_len' = file_len /\ content' = content
      BY <1>2 DEF Remap
    <2>2. ZeroTail'
      BY <1>1, <2>1 DEF IInv, ZeroTail
    <2>3. pc'[t] = "z_ok"
      BY <1>2 DEF IInv, TypeOK, Goto
    <2>4. ResizeStep(t)'
      BY <1>1, <2>1, <2>3 DEF ResizeStep, Kept, Len
    <2> QED BY <1>1, <1>2, <2>1, <2>2, <2>4, InsideInv DEF IInv, TypeOK, ResizePc, Outcome
  <1>3. CASE UNCHANGED <<map_len, file_len, content>> /\ Goto(t, "z_empty")
    <2>1. pc'[t] = "z_empty"
      BY <1>3 DEF IInv, TypeOK, Goto
    <2>2. ResizeStep(t)'
      BY <1>1, <1>3, <2>1 DEF ResizeStep, Kept, Len
    <2> QED BY <1>1, <1>3, <2>2, FailInv DEF ResizePc, Outcome
  <1> QED BY <1>2, <1>3 DEF WinMap, SysCall

(* shrink_locked on Windows: the old mapping comes back or stays empty.    *)
LEMMA WinRestoreInv ==
  ASSUME IInv, NEW t \in Thread, WinRestore(t)
  PROVE  IInv'
  <1>1. /\ pc[t] = "w_restore" /\ UNCHANGED <<platform, map, cached_len, view, req, old>>
        /\ platform # "unix" /\ map_len = 0 /\ old.map_len <= file_len
        /\ content = old.content /\ file_len = old.file_len
        /\ new_len(t) < old.map_len /\ new_len(t)' = new_len(t)
        /\ old.map_len \in Len /\ file_len \in Len
    BY DEF IInv, TypeOK, WinRestore, SysCall, ResizeStep, new_len
  <1>2. CASE Remap(old.map_len) /\ Goto(t, "z_err")
    <2>1. map_len' = old.map_len /\ file_len' = file_len /\ content' = content
      BY <1>2 DEF Remap
    <2>2. ZeroTail'
      BY <1>1, <2>1 DEF IInv, ZeroTail
    <2>3. pc'[t] = "z_err"
      BY <1>2 DEF IInv, TypeOK, Goto
    <2>4. ResizeStep(t)'
      BY <1>1, <2>1, <2>3 DEF ResizeStep, Kept
    <2> QED BY <1>1, <1>2, <2>1, <2>2, <2>4, InsideInv DEF IInv, TypeOK, ResizePc, Outcome
  <1>3. CASE UNCHANGED <<map_len, file_len, content>> /\ Goto(t, "z_lost")
    <2>1. pc'[t] = "z_lost"
      BY <1>3 DEF IInv, TypeOK, Goto
    <2>2. ResizeStep(t)'
      BY <1>1, <1>3, <2>1 DEF ResizeStep, Len
    <2> QED BY <1>1, <1>3, <2>2, FailInv DEF ResizePc, Outcome
  <1> QED BY <1>2, <1>3 DEF WinRestore, SysCall

(* resize publishes the length before it gives the write guard back.       *)
LEMMA StoreLenInv ==
  ASSUME IInv, NEW t \in Thread, StoreLen(t)
  PROVE  IInv'
  <1>1. /\ pc[t] \in ResizePc /\ map_len <= file_len
        /\ \A u \in Thread : pc'[u] = IF u = t THEN "idle" ELSE pc[u]
    BY DEF IInv, TypeOK, StoreLen, Goto, ResizeStep, ResizePc, Outcome, Len
  <1>2. \A u \in Thread :
          /\ view[u] = NoView /\ pc[u] # "r_copy"
          /\ pc[u] \in ResizePc => u = t
    BY <1>1, WriterAlone
  <1>3. TypeOK'
    BY DEF IInv, TypeOK, StoreLen, Goto, LockType, UnlockWrite
  <1>4. GuardsMatch'
    <2>1. map'.readers = map.readers /\ map'.writer = map.writer \ {<<t, "call">>}
      BY DEF IInv, TypeOK, StoreLen, LockType, UnlockWrite
    <2>2. view' = view
      BY DEF StoreLen
    <2> QED BY <1>1, <2>1, <2>2 DEF IInv, GuardsMatch, ResizePc, Outcome
  <1>5. RangesInside' /\ ZeroTail'
    BY <1>1 DEF IInv, RangesInside, ZeroTail, StoreLen
  <1>6. Settled'
    BY <1>1 DEF Settled, StoreLen
  <1>7. \A u \in Thread : ResizeStep(u)'
    BY <1>1, <1>2 DEF ResizeStep, ResizePc, Outcome
  <1> QED BY <1>3, <1>4, <1>5, <1>6, <1>7 DEF IInv

-----------------------------------------------------------------------------
(***************************************************************************)
(* The theorems                                                            *)
(***************************************************************************)

(* The inductive invariant holds in every reachable state: initially, and  *)
(* after every step of every thread.                                       *)
THEOREM Invariance == Spec => []IInv
  <1>1. Init => IInv
    BY InitInv
  <1>2. IInv /\ [Next]_vars => IInv'
    <2> SUFFICES ASSUME IInv, [Next]_vars PROVE IInv'
      OBVIOUS
    <2>1. ASSUME NEW t \in Thread, UserCall(t) PROVE IInv'
      BY <2>1, OpenViewInv, OpenMutInv, UpdateRegionInv, CallReadInv, StoreMutInv,
         CallResizeInv DEF UserCall
    <2>2. ASSUME NEW t \in Thread, Resize(t) PROVE IInv'
      BY <2>2, LockResizeInv, GrowSetLenInv, GrowMapInv, GrowUndoInv, ShrinkMapInv,
         ShrinkSetLenInv, WinUnmapInv, WinSetLenInv, WinMapInv, WinRestoreInv, StoreLenInv
         DEF Resize
    <2>3. CASE UNCHANGED vars
      BY <2>3 DEF IInv, vars, TypeOK, GuardsMatch, RangesInside, ZeroTail, Settled,
         ResizeStep, Untouched, Kept, new_len
    <2> QED BY <2>1, <2>2, <2>3, DropViewInv, BeginReadInv, EndReadInv DEF Next
  <1> QED BY <1>1, <1>2, PTL DEF Spec

(* Types: lengths stay within the bound, guards belong to threads, and     *)
(* every call is at one of its steps.                                      *)
THEOREM TypeCorrect == Spec => []TypeOK
  <1>1. IInv => TypeOK
    BY DEF IInv
  <1> QED BY <1>1, Invariance, PTL

(* Memory safety of as_slice, as_slice_mut and the copying reads: while    *)
(* one of them can touch its bytes they are mapped and inside the file,    *)
(* whatever resize does and whichever of its system calls fails.           *)
THEOREM MemorySafe == Spec => []ViewsBacked
  <1>1. IInv => ViewsBacked
    <2> SUFFICES ASSUME IInv PROVE ViewsBacked
      OBVIOUS
    <2>1. ASSUME NEW t \in Thread, view[t] # NoView \/ pc[t] = "r_copy"
          PROVE  map_len <= file_len
      BY <2>1, WriterAlone DEF IInv, Settled
    <2> QED BY <2>1 DEF IInv, RangesInside, ViewsBacked
  <1> QED BY <1>1, Invariance, PTL

(* len() reads cached_len without the lock: it is the length of the        *)
(* mapping whenever no writer is inside, after failed resizes too.         *)
THEOREM LenTrue == Spec => []LenConsistent
  <1>1. IInv => LenConsistent
    BY NoWriter DEF LenConsistent, CanRead
  <1> QED BY <1>1, Invariance, PTL

(* What resize leaves behind at its return: on success the new length over *)
(* the old bytes; on failure the old mapping, and the file as it was or as *)
(* long as the mapping, unless the call that should have put one of them   *)
(* back has failed as well.                                                *)
THEOREM ResizeCorrect == Spec => []ResizeOutcome
  <1>1. IInv => ResizeOutcome
    <2> SUFFICES ASSUME IInv PROVE ResizeOutcome
      OBVIOUS
    <2>1. platform # "unix" => platform = "windows"
      BY PlatformAssumption DEF IInv, TypeOK
    <2>2. \A t \in Thread : ResizeStep(t)
      BY DEF IInv
    <2> QED BY <2>1, <2>2 DEF ResizeStep, ResizeOutcome
  <1> QED BY <1>1, Invariance, PTL

=============================================================================
