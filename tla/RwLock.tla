------------------------------- MODULE RwLock -------------------------------
(***************************************************************************)
(* The reader-writer lock of the parking_lot crate, as mmap-io uses it     *)
(* (external code: only the operations the crate calls are modelled).      *)
(* A lock is a record: the set of holders of a read guard and the set,     *)
(* empty or a singleton, of the holder of the write guard.  A holder is    *)
(* whatever owns the guard in the code: a thread inside a critical         *)
(* section, or a view object that stores the guard.                        *)
(***************************************************************************)

Unlocked == [readers |-> {}, writer |-> {}]

LockType(Holder) == [readers : SUBSET Holder, writer : SUBSET Holder]

(* lock.read_recursive() waits for the writer only, never for a queued one; *)
(* lock.read() may also wait for a queued writer, which delays the caller   *)
(* and never lets it in where read_recursive() would not.                   *)
CanRead(l) == l.writer = {}

(* lock.write() and lock.try_write(): wait for (or refuse on) any guard    *)
CanWrite(l) == l.writer = {} /\ l.readers = {}

LockRead(l, h)    == [l EXCEPT !.readers = @ \union {h}]
UnlockRead(l, h)  == [l EXCEPT !.readers = @ \ {h}]
LockWrite(l, h)   == [l EXCEPT !.writer = {h}]
UnlockWrite(l, h) == [l EXCEPT !.writer = @ \ {h}]

(* RwLockWriteGuard::downgrade: the write guard becomes a read guard       *)
(* without the lock ever being free in between                             *)
Downgrade(l, h)   == [readers |-> l.readers \union {h}, writer |-> l.writer \ {h}]

=============================================================================
