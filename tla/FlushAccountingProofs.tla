----------------------- MODULE FlushAccountingProofs -----------------------
(***************************************************************************)
(* Proofs about FlushAccounting for every number of calls, blocks, every   *)
(* policy and any number of failing msync calls.                           *)
(***************************************************************************)
EXTENDS FlushAccounting, FiniteSetTheorems, TLAPS

(* Counting the blocks of a range adds a natural number, and not zero when *)
(* there is a block to count.                                              *)
LEMMA RangeSize ==
  ASSUME NEW S \in SUBSET Block
  PROVE  Cardinality(S) \in Nat /\ (\A b \in S : Cardinality(S) > 0)
  <1>1. IsFiniteSet(S)
    BY BlockAssumption, FS_Subset
  <1> QED BY <1>1, FS_CardinalityType, FS_EmptySet

-----------------------------------------------------------------------------
(* Every step keeps the types.                                             *)
LEMMA TypeStep ==
  ASSUME TypeOK, Next
  PROVE  TypeOK'
  <1>1. ASSUME NEW o \in Op, NEW name \in {"update", "try", "async"},
              NEW blocks \in SUBSET Block \ {{}}, WriteRegion(o, name, blocks)
       PROVE  TypeOK'
    BY <1>1 DEF TypeOK, Pc, CallName, WriteRegion, Goto, Begin, owed, LockType,
       LockWrite
  <1>2. ASSUME NEW o \in Op, CountBytes(o) PROVE TypeOK'
    <2>1. written_since_last_flush' \in Nat
      <3>1. Cardinality(range[o]) \in Nat
        BY RangeSize DEF TypeOK
      <3> QED BY <1>2, <3>1 DEF TypeOK, CountBytes
    <2> QED BY <1>2, <2>1 DEF TypeOK, Pc, CallName, CountBytes, Goto
  <1>3. ASSUME NEW o \in Op, CountWrites(o) PROVE TypeOK'
    <2>1. map' \in LockType(Op) /\ writes_since_last_flush' \in Nat
      BY <1>3 DEF TypeOK, CountWrites, LockType, Downgrade, UnlockWrite
    <2>2. pc' \in [Op -> Pc] /\ call' \in [Op -> CallName]
      BY <1>3 DEF TypeOK, Pc, CallName, CountWrites, Goto, Succeed
    <2>3. /\ range' \in [Op -> SUBSET Block] /\ todo' \in [Op -> SUBSET Block]
          /\ seen' \in [Op -> Nat] /\ due' \in [Op -> SUBSET Block]
          /\ saved' \in [Op -> [bytes : Nat, writes : Nat]]
      <3>1. CASE FlushNow(seen[o], writes_since_last_flush')
        BY <1>3, <3>1 DEF TypeOK, CountWrites
      <3>2. CASE ~FlushNow(seen[o], writes_since_last_flush')
        <4>1. Forget(o) /\ UNCHANGED due
          BY <1>3, <3>2 DEF CountWrites, Succeed
        <4> QED BY <4>1 DEF TypeOK, Forget, NoSaved
      <3> QED BY <3>1, <3>2
    <2> QED BY <1>3, <2>1, <2>2, <2>3 DEF TypeOK, CountWrites
  <1>4. ASSUME NEW o \in Op, CallFlush(o) PROVE TypeOK'
    BY <1>4 DEF TypeOK, Pc, CallName, CallFlush, Goto, Begin, owed
  <1>5. ASSUME NEW o \in Op, LockForFlush(o) PROVE TypeOK'
    BY <1>5 DEF TypeOK, Pc, CallName, LockForFlush, Goto, owed, LockType, LockRead
  <1>6. ASSUME NEW o \in Op, SwapBytes(o) PROVE TypeOK'
    BY <1>6 DEF TypeOK, Pc, CallName, SwapBytes, Goto
  <1>7. ASSUME NEW o \in Op, SwapWrites(o) PROVE TypeOK'
    BY <1>7 DEF TypeOK, Pc, CallName, SwapWrites, Goto
  <1>8. ASSUME NEW o \in Op, NEW b \in Block, SyncBlock(o, b) PROVE TypeOK'
    BY <1>8 DEF TypeOK, Pc, CallName, SyncBlock, owed
  <1>9. ASSUME NEW o \in Op, SyncDone(o) PROVE TypeOK'
    BY <1>9 DEF TypeOK, Pc, CallName, SyncDone, Goto, Succeed, Forget, NoSaved, owed,
       LockType, UnlockRead
  <1>10. ASSUME NEW o \in Op, SyncFails(o) PROVE TypeOK'
    BY <1>10 DEF TypeOK, Pc, CallName, SyncFails, Goto, owed
  <1>11. ASSUME NEW o \in Op, RestoreBytes(o) PROVE TypeOK'
    <2>1. written_since_last_flush' \in Nat
      BY <1>11 DEF TypeOK, RestoreBytes
    <2> QED BY <1>11, <2>1 DEF TypeOK, Pc, CallName, RestoreBytes, Goto
  <1>12. ASSUME NEW o \in Op, RestoreWrites(o) PROVE TypeOK'
    <2>1. writes_since_last_flush' \in Nat
      BY <1>12 DEF TypeOK, RestoreWrites
    <2> QED BY <1>12, <2>1 DEF TypeOK, Pc, CallName, RestoreWrites, Goto, End, Forget,
                                NoSaved, LockType, UnlockRead
  <1>13. ASSUME NEW o \in Op, Resume(o) PROVE TypeOK'
    BY <1>13 DEF TypeOK, Pc, CallName, Resume, Goto, End, Forget, NoSaved, owed
  <1>14. ASSUME NEW o \in Op, NEW blocks \in SUBSET Block \ {{}}, FlushRange(o, blocks)
       PROVE  TypeOK'
    <2>1. CASE blocks = Block
      BY <1>14, <2>1 DEF TypeOK, Pc, CallName, FlushRange, Goto, Begin, owed
    <2>2. CASE blocks # Block
      <3>1. map' \in LockType(Op)
        BY <1>14, <2>2 DEF TypeOK, FlushRange, LockType, LockRead
      <3>2. todo' \in [Op -> SUBSET Block] /\ due' \in [Op -> SUBSET Block]
        BY <1>14, <2>2 DEF TypeOK, FlushRange
      <3> QED BY <1>14, <2>2, <3>1, <3>2 DEF TypeOK, Pc, CallName, FlushRange, Goto, Begin, owed
    <2> QED BY <2>1, <2>2
  <1>15. ASSUME NEW o \in Op, RangeFails(o) PROVE TypeOK'
    BY <1>15 DEF TypeOK, Pc, CallName, RangeFails, Goto, End, Forget, NoSaved, owed,
       LockType, UnlockRead
  <1>16. ASSUME NEW o \in Op, NEW name \in {"mut", "drive", "atomic"},
              NEW blocks \in SUBSET Block \ {{}}, OpenView(o, name, blocks)
       PROVE  TypeOK'
    BY <1>16 DEF TypeOK, Pc, CallName, OpenView, Goto, Begin, owed, LockType, LockRead,
       LockWrite
  <1>17. ASSUME NEW o \in Op, NEW b \in Block, StoreView(o, b) PROVE TypeOK'
    BY <1>17 DEF TypeOK, Pc, CallName, StoreView, locals, owed
  <1>18. ASSUME NEW o \in Op, NEW b \in Block, NextChunk(o, b) PROVE TypeOK'
    BY <1>18 DEF TypeOK, Pc, CallName, NextChunk, owed
  <1>19. ASSUME NEW o \in Op, EndView(o) PROVE TypeOK'
    <2>1. written_since_last_flush' \in Nat
      <3>1. Cardinality(range[o]) \in Nat
        BY RangeSize DEF TypeOK
      <3> QED BY <1>19, <3>1 DEF TypeOK, EndView, record_write
    <2> QED BY <1>19, <2>1 DEF TypeOK, Pc, CallName, EndView, Goto, End, Forget, NoSaved,
                                record_write, LockType, Unlock, UnlockRead, UnlockWrite
  <1>20. ASSUME NEW o \in Op, PanicInDrive(o) PROVE TypeOK'
    BY <1>20 DEF TypeOK, Pc, CallName, PanicInDrive, Goto, End, Forget, NoSaved, owed,
       LockType, Unlock, UnlockRead, UnlockWrite
  <1>21. ASSUME NEW o \in Op, as_mut_ptr(o) PROVE TypeOK'
    <2>1. written_since_last_flush' \in Nat
      <3>1. Cardinality(Block) \in Nat
        BY RangeSize DEF TypeOK
      <3> QED BY <1>21, <3>1 DEF TypeOK, as_mut_ptr, record_write
    <2> QED BY <1>21, <2>1 DEF TypeOK, Pc, CallName, as_mut_ptr, record_write, locals
  <1> QED BY <1>1, <1>2, <1>3, <1>4, <1>5, <1>6, <1>7, <1>8, <1>9,
            <1>10, <1>11, <1>12, <1>13, <1>14, <1>15, <1>16, <1>17, <1>18,
            <1>19, <1>20, <1>21
          DEF Next, Step, Fail, UserCall

(* Every step keeps the dirty blocks covered that no panic has left.       *)
LEMMA CoveredStep ==
  ASSUME TypeOK, ForgottenOnlyByPanic, Next
  PROVE  ForgottenOnlyByPanic'
  <1>1. ASSUME NEW o \in Op, NEW name \in {"update", "try", "async"},
              NEW blocks \in SUBSET Block \ {{}}, WriteRegion(o, name, blocks)
       PROVE  ForgottenOnlyByPanic'
    BY <1>1 DEF TypeOK, ForgottenOnlyByPanic, Carries, WriteRegion, Goto, Begin, owed
  <1>2. ASSUME NEW o \in Op, CountBytes(o) PROVE ForgottenOnlyByPanic'
    BY <1>2, RangeSize DEF TypeOK, ForgottenOnlyByPanic, Carries, CountBytes, Goto
  <1>3. ASSUME NEW o \in Op, CountWrites(o) PROVE ForgottenOnlyByPanic'
    BY <1>3 DEF TypeOK, ForgottenOnlyByPanic, Carries, CountWrites, Goto, Succeed, Forget,
       FlushNow, NoSaved
  <1>4. ASSUME NEW o \in Op, CallFlush(o) PROVE ForgottenOnlyByPanic'
    BY <1>4 DEF TypeOK, ForgottenOnlyByPanic, Carries, CallFlush, Goto, Begin, owed
  <1>5. ASSUME NEW o \in Op, LockForFlush(o) PROVE ForgottenOnlyByPanic'
    BY <1>5 DEF TypeOK, ForgottenOnlyByPanic, Carries, LockForFlush, Goto, owed
  <1>6. ASSUME NEW o \in Op, SwapBytes(o) PROVE ForgottenOnlyByPanic'
    BY <1>6 DEF TypeOK, ForgottenOnlyByPanic, Carries, SwapBytes, Goto
  <1>7. ASSUME NEW o \in Op, SwapWrites(o) PROVE ForgottenOnlyByPanic'
    BY <1>7 DEF TypeOK, ForgottenOnlyByPanic, Carries, SwapWrites, Goto
  <1>8. ASSUME NEW o \in Op, NEW b \in Block, SyncBlock(o, b) PROVE ForgottenOnlyByPanic'
    BY <1>8 DEF TypeOK, ForgottenOnlyByPanic, Carries, SyncBlock, owed
  <1>9. ASSUME NEW o \in Op, SyncDone(o) PROVE ForgottenOnlyByPanic'
    BY <1>9 DEF TypeOK, ForgottenOnlyByPanic, Carries, SyncDone, Goto, Succeed, Forget,
       NoSaved, owed
  <1>10. ASSUME NEW o \in Op, SyncFails(o) PROVE ForgottenOnlyByPanic'
    BY <1>10 DEF TypeOK, ForgottenOnlyByPanic, Carries, SyncFails, Goto, owed
  <1>11. ASSUME NEW o \in Op, RestoreBytes(o) PROVE ForgottenOnlyByPanic'
    BY <1>11 DEF TypeOK, ForgottenOnlyByPanic, Carries, RestoreBytes, Goto
  <1>12. ASSUME NEW o \in Op, RestoreWrites(o) PROVE ForgottenOnlyByPanic'
    BY <1>12 DEF TypeOK, ForgottenOnlyByPanic, Carries, RestoreWrites, Goto, End, Forget,
       NoSaved
  <1>13. ASSUME NEW o \in Op, Resume(o) PROVE ForgottenOnlyByPanic'
    BY <1>13 DEF TypeOK, ForgottenOnlyByPanic, Carries, Resume, Goto, End, Forget, NoSaved,
       owed
  <1>14. ASSUME NEW o \in Op, NEW blocks \in SUBSET Block \ {{}}, FlushRange(o, blocks)
       PROVE  ForgottenOnlyByPanic'
    BY <1>14 DEF TypeOK, ForgottenOnlyByPanic, Carries, FlushRange, Goto, Begin, owed
  <1>15. ASSUME NEW o \in Op, RangeFails(o) PROVE ForgottenOnlyByPanic'
    BY <1>15 DEF TypeOK, ForgottenOnlyByPanic, Carries, RangeFails, Goto, End, Forget,
       NoSaved, owed
  <1>16. ASSUME NEW o \in Op, NEW name \in {"mut", "drive", "atomic"},
              NEW blocks \in SUBSET Block \ {{}}, OpenView(o, name, blocks)
       PROVE  ForgottenOnlyByPanic'
    BY <1>16 DEF TypeOK, ForgottenOnlyByPanic, Carries, OpenView, Goto, Begin, owed
  <1>17. ASSUME NEW o \in Op, NEW b \in Block, StoreView(o, b) PROVE ForgottenOnlyByPanic'
    BY <1>17 DEF TypeOK, ForgottenOnlyByPanic, Carries, StoreView, locals, owed
  <1>18. ASSUME NEW o \in Op, NEW b \in Block, NextChunk(o, b) PROVE ForgottenOnlyByPanic'
    BY <1>18 DEF TypeOK, ForgottenOnlyByPanic, Carries, NextChunk, owed
  <1>19. ASSUME NEW o \in Op, EndView(o) PROVE ForgottenOnlyByPanic'
    BY <1>19, RangeSize DEF TypeOK, ForgottenOnlyByPanic, Carries, EndView, Goto, End,
       Forget, NoSaved, record_write
  <1>20. ASSUME NEW o \in Op, PanicInDrive(o) PROVE ForgottenOnlyByPanic'
    BY <1>20 DEF TypeOK, ForgottenOnlyByPanic, Carries, PanicInDrive, Goto, End, Forget,
       NoSaved, owed
  <1>21. ASSUME NEW o \in Op, as_mut_ptr(o) PROVE ForgottenOnlyByPanic'
    BY <1>21, RangeSize DEF TypeOK, ForgottenOnlyByPanic, Carries, as_mut_ptr, record_write,
       locals
  <1> QED BY <1>1, <1>2, <1>3, <1>4, <1>5, <1>6, <1>7, <1>8, <1>9,
            <1>10, <1>11, <1>12, <1>13, <1>14, <1>15, <1>16, <1>17, <1>18,
            <1>19, <1>20, <1>21
          DEF Next, Step, Fail, UserCall

(* Every step keeps what an Ok answer promises.                            *)
LEMMA DurableStep ==
  ASSUME TypeOK, DueInv, DurableOnOk, Next
  PROVE  DueInv' /\ DurableOnOk'
  <1>1. ASSUME NEW o \in Op, NEW name \in {"update", "try", "async"},
              NEW blocks \in SUBSET Block \ {{}}, WriteRegion(o, name, blocks)
       PROVE  DueInv' /\ DurableOnOk'
    BY <1>1 DEF TypeOK, DueInv, DurableOnOk, WriteRegion, Goto, Begin, owed
  <1>2. ASSUME NEW o \in Op, CountBytes(o) PROVE DueInv' /\ DurableOnOk'
    BY <1>2 DEF TypeOK, DueInv, DurableOnOk, CountBytes, Goto
  <1>3. ASSUME NEW o \in Op, CountWrites(o) PROVE DueInv' /\ DurableOnOk'
    <2>1. DueInv'
      BY <1>3 DEF TypeOK, DueInv, CountWrites, Goto, Succeed, Forget, FlushNow, NoSaved
    <2>2. CASE FlushNow(seen[o], writes_since_last_flush')
      BY <1>3, <2>1, <2>2 DEF TypeOK, DurableOnOk, CountWrites, Goto
    <2>3. CASE ~FlushNow(seen[o], writes_since_last_flush')
      <3>1. flush_policy.kind # "Always"
        BY <2>3 DEF FlushNow
      <3>2. call[o] \notin {"flush", "range"}
        BY <1>3 DEF DueInv, CountWrites
      <3> QED BY <1>3, <2>1, <2>3, <3>1, <3>2 DEF TypeOK, DurableOnOk, CountWrites, Goto, Succeed, Forget
    <2> QED BY <2>2, <2>3
  <1>4. ASSUME NEW o \in Op, CallFlush(o) PROVE DueInv' /\ DurableOnOk'
    BY <1>4 DEF TypeOK, DueInv, DurableOnOk, CallFlush, Goto, Begin, owed
  <1>5. ASSUME NEW o \in Op, LockForFlush(o) PROVE DueInv' /\ DurableOnOk'
    BY <1>5 DEF TypeOK, DueInv, DurableOnOk, LockForFlush, Goto, owed
  <1>6. ASSUME NEW o \in Op, SwapBytes(o) PROVE DueInv' /\ DurableOnOk'
    BY <1>6 DEF TypeOK, DueInv, DurableOnOk, SwapBytes, Goto
  <1>7. ASSUME NEW o \in Op, SwapWrites(o) PROVE DueInv' /\ DurableOnOk'
    BY <1>7 DEF TypeOK, DueInv, DurableOnOk, SwapWrites, Goto
  <1>8. ASSUME NEW o \in Op, NEW b \in Block, SyncBlock(o, b)
       PROVE  DueInv' /\ DurableOnOk'
    BY <1>8 DEF TypeOK, DueInv, DurableOnOk, SyncBlock, owed
  <1>9. ASSUME NEW o \in Op, SyncDone(o) PROVE DueInv' /\ DurableOnOk'
    BY <1>9 DEF TypeOK, DueInv, DurableOnOk, SyncDone, Goto, Succeed, Forget, NoSaved,
       owed
  <1>10. ASSUME NEW o \in Op, SyncFails(o) PROVE DueInv' /\ DurableOnOk'
    BY <1>10 DEF TypeOK, DueInv, DurableOnOk, SyncFails, Goto, owed
  <1>11. ASSUME NEW o \in Op, RestoreBytes(o) PROVE DueInv' /\ DurableOnOk'
    BY <1>11 DEF TypeOK, DueInv, DurableOnOk, RestoreBytes, Goto
  <1>12. ASSUME NEW o \in Op, RestoreWrites(o) PROVE DueInv' /\ DurableOnOk'
    BY <1>12 DEF TypeOK, DueInv, DurableOnOk, RestoreWrites, Goto, End, Forget, NoSaved
  <1>13. ASSUME NEW o \in Op, Resume(o) PROVE DueInv' /\ DurableOnOk'
    BY <1>13 DEF TypeOK, DueInv, DurableOnOk, Resume, Goto, End, Forget, NoSaved, owed
  <1>14. ASSUME NEW o \in Op, NEW blocks \in SUBSET Block \ {{}}, FlushRange(o, blocks)
       PROVE  DueInv' /\ DurableOnOk'
    BY <1>14 DEF TypeOK, DueInv, DurableOnOk, FlushRange, Goto, Begin, owed
  <1>15. ASSUME NEW o \in Op, RangeFails(o) PROVE DueInv' /\ DurableOnOk'
    BY <1>15 DEF TypeOK, DueInv, DurableOnOk, RangeFails, Goto, End, Forget, NoSaved,
       owed
  <1>16. ASSUME NEW o \in Op, NEW name \in {"mut", "drive", "atomic"},
              NEW blocks \in SUBSET Block \ {{}}, OpenView(o, name, blocks)
       PROVE  DueInv' /\ DurableOnOk'
    BY <1>16 DEF TypeOK, DueInv, DurableOnOk, OpenView, Goto, Begin, owed
  <1>17. ASSUME NEW o \in Op, NEW b \in Block, StoreView(o, b)
       PROVE  DueInv' /\ DurableOnOk'
    BY <1>17 DEF TypeOK, DueInv, DurableOnOk, StoreView, locals, owed
  <1>18. ASSUME NEW o \in Op, NEW b \in Block, NextChunk(o, b)
       PROVE  DueInv' /\ DurableOnOk'
    BY <1>18 DEF TypeOK, DueInv, DurableOnOk, NextChunk, owed
  <1>19. ASSUME NEW o \in Op, EndView(o) PROVE DueInv' /\ DurableOnOk'
    BY <1>19 DEF TypeOK, DueInv, DurableOnOk, EndView, Goto, End, Forget, NoSaved,
       record_write
  <1>20. ASSUME NEW o \in Op, PanicInDrive(o) PROVE DueInv' /\ DurableOnOk'
    BY <1>20 DEF TypeOK, DueInv, DurableOnOk, PanicInDrive, Goto, End, Forget, NoSaved,
       owed
  <1>21. ASSUME NEW o \in Op, as_mut_ptr(o) PROVE DueInv' /\ DurableOnOk'
    BY <1>21 DEF TypeOK, DueInv, DurableOnOk, as_mut_ptr, record_write, locals
  <1> QED BY <1>1, <1>2, <1>3, <1>4, <1>5, <1>6, <1>7, <1>8, <1>9,
            <1>10, <1>11, <1>12, <1>13, <1>14, <1>15, <1>16, <1>17, <1>18,
            <1>19, <1>20, <1>21
          DEF Next, Step, Fail, UserCall

(* Every step keeps a counter at its threshold about to be taken.          *)
LEMMA PolicyStep ==
  ASSUME TypeOK, PolicyActs, Next
  PROVE  PolicyActs'
  <1>1. ASSUME NEW o \in Op, NEW name \in {"update", "try", "async"},
              NEW blocks \in SUBSET Block \ {{}}, WriteRegion(o, name, blocks)
       PROVE  PolicyActs'
    BY <1>1, PolicyAssumption DEF TypeOK, PolicyActs, WriteRegion, Goto, Begin, owed
  <1>2. ASSUME NEW o \in Op, CountBytes(o) PROVE PolicyActs'
    BY <1>2, RangeSize, PolicyAssumption DEF TypeOK, PolicyActs, CountBytes, Goto
  <1>3. ASSUME NEW o \in Op, CountWrites(o) PROVE PolicyActs'
    <2>1. CASE FlushNow(seen[o], writes_since_last_flush')
      <3>1. pc'[o] \in {"f_bytes", "f_lock"}
        BY <1>3, <2>1 DEF CountWrites, Goto, TypeOK
      <3>2. /\ flush_policy' = flush_policy
            /\ written_since_last_flush' = written_since_last_flush
        BY <1>3 DEF CountWrites
      <3> QED BY <3>1, <3>2 DEF PolicyActs
    <2>2. CASE ~FlushNow(seen[o], writes_since_last_flush')
      <3>1. /\ flush_policy' = flush_policy
            /\ written_since_last_flush' = written_since_last_flush
            /\ owed_bytes' = owed_bytes
            /\ writes_since_last_flush' = writes_since_last_flush + 1
        BY <1>3 DEF CountWrites
      <3>2. \A w \in Op : w # o => pc'[w] = pc[w] /\ seen'[w] = seen[w]
        BY <1>3, <2>2 DEF CountWrites, Goto, Succeed, Forget, TypeOK
      <3>3. flush_policy.kind = "EveryWrites" /\ flush_policy.n > 0
              => ~(writes_since_last_flush' >= flush_policy.n)
        BY <2>2, <3>1, PolicyAssumption DEF FlushNow, TypeOK
      <3>4. flush_policy.kind = "EveryBytes" /\ flush_policy.n > 0
              => ~(seen[o] >= flush_policy.n)
        BY <2>2, PolicyAssumption DEF FlushNow, TypeOK
      <3>5. pc[o] = "u_writes"
        BY <1>3 DEF CountWrites
      <3> QED BY <3>1, <3>2, <3>3, <3>4, <3>5 DEF PolicyActs
    <2> QED BY <2>1, <2>2
  <1>4. ASSUME NEW o \in Op, CallFlush(o) PROVE PolicyActs'
    BY <1>4, PolicyAssumption DEF TypeOK, PolicyActs, CallFlush, Goto, Begin, owed
  <1>5. ASSUME NEW o \in Op, LockForFlush(o) PROVE PolicyActs'
    BY <1>5, PolicyAssumption DEF TypeOK, PolicyActs, LockForFlush, Goto, owed
  <1>6. ASSUME NEW o \in Op, SwapBytes(o) PROVE PolicyActs'
    BY <1>6, PolicyAssumption DEF TypeOK, PolicyActs, SwapBytes, Goto
  <1>7. ASSUME NEW o \in Op, SwapWrites(o) PROVE PolicyActs'
    BY <1>7, PolicyAssumption DEF TypeOK, PolicyActs, SwapWrites, Goto
  <1>8. ASSUME NEW o \in Op, NEW b \in Block, SyncBlock(o, b) PROVE PolicyActs'
    BY <1>8, PolicyAssumption DEF TypeOK, PolicyActs, SyncBlock, owed
  <1>9. ASSUME NEW o \in Op, SyncDone(o) PROVE PolicyActs'
    BY <1>9, PolicyAssumption DEF TypeOK, PolicyActs, SyncDone, Goto, Succeed, Forget,
       NoSaved, owed
  <1>10. ASSUME NEW o \in Op, SyncFails(o) PROVE PolicyActs'
    BY <1>10, PolicyAssumption DEF TypeOK, PolicyActs, SyncFails, Goto, owed
  <1>11. ASSUME NEW o \in Op, RestoreBytes(o) PROVE PolicyActs'
    BY <1>11, PolicyAssumption DEF TypeOK, PolicyActs, RestoreBytes, Goto
  <1>12. ASSUME NEW o \in Op, RestoreWrites(o) PROVE PolicyActs'
    BY <1>12, PolicyAssumption DEF TypeOK, PolicyActs, RestoreWrites, Goto, End, Forget,
       NoSaved
  <1>13. ASSUME NEW o \in Op, Resume(o) PROVE PolicyActs'
    BY <1>13, PolicyAssumption DEF TypeOK, PolicyActs, Resume, Goto, End, Forget,
       NoSaved, owed
  <1>14. ASSUME NEW o \in Op, NEW blocks \in SUBSET Block \ {{}}, FlushRange(o, blocks)
       PROVE  PolicyActs'
    BY <1>14, PolicyAssumption DEF TypeOK, PolicyActs, FlushRange, Goto, Begin, owed
  <1>15. ASSUME NEW o \in Op, RangeFails(o) PROVE PolicyActs'
    BY <1>15, PolicyAssumption DEF TypeOK, PolicyActs, RangeFails, Goto, End, Forget,
       NoSaved, owed
  <1>16. ASSUME NEW o \in Op, NEW name \in {"mut", "drive", "atomic"},
              NEW blocks \in SUBSET Block \ {{}}, OpenView(o, name, blocks)
       PROVE  PolicyActs'
    BY <1>16, PolicyAssumption DEF TypeOK, PolicyActs, OpenView, Goto, Begin, owed
  <1>17. ASSUME NEW o \in Op, NEW b \in Block, StoreView(o, b) PROVE PolicyActs'
    BY <1>17, PolicyAssumption DEF TypeOK, PolicyActs, StoreView, locals, owed
  <1>18. ASSUME NEW o \in Op, NEW b \in Block, NextChunk(o, b) PROVE PolicyActs'
    BY <1>18, PolicyAssumption DEF TypeOK, PolicyActs, NextChunk, owed
  <1>19. ASSUME NEW o \in Op, EndView(o) PROVE PolicyActs'
    BY <1>19, RangeSize, PolicyAssumption DEF TypeOK, PolicyActs, EndView, Goto, End,
       Forget, NoSaved, record_write
  <1>20. ASSUME NEW o \in Op, PanicInDrive(o) PROVE PolicyActs'
    BY <1>20, PolicyAssumption DEF TypeOK, PolicyActs, PanicInDrive, Goto, End, Forget,
       NoSaved, owed
  <1>21. ASSUME NEW o \in Op, as_mut_ptr(o) PROVE PolicyActs'
    BY <1>21, RangeSize, PolicyAssumption DEF TypeOK, PolicyActs, as_mut_ptr,
       record_write, locals
  <1> QED BY <1>1, <1>2, <1>3, <1>4, <1>5, <1>6, <1>7, <1>8, <1>9,
            <1>10, <1>11, <1>12, <1>13, <1>14, <1>15, <1>16, <1>17, <1>18,
            <1>19, <1>20, <1>21
          DEF Next, Step, Fail, UserCall

-----------------------------------------------------------------------------
(* The initial states satisfy every property.                              *)
LEMMA InitInv == Init => IInv /\ ForgottenOnlyByPanic
  <1> SUFFICES ASSUME Init PROVE IInv /\ ForgottenOnlyByPanic
    OBVIOUS
  <1>1. TypeOK
    BY DEF Init, TypeOK, LockType, Unlocked, NoSaved, Pc, CallName
  <1>2. DueInv /\ DurableOnOk /\ ForgottenOnlyByPanic
    BY DEF Init, DueInv, DurableOnOk, ForgottenOnlyByPanic
  <1>3. PolicyActs
    BY PolicyAssumption DEF Init, PolicyActs
  <1> QED BY <1>1, <1>2, <1>3 DEF IInv

(* The counters and the locals of every call keep their types.             *)
THEOREM TypeCorrect == Spec => []TypeOK
  <1>1. Init => TypeOK
    BY InitInv DEF IInv
  <1>2. ASSUME TypeOK, [Next]_vars PROVE TypeOK'
    <2>1. CASE UNCHANGED vars
      BY <1>2, <2>1 DEF vars, locals, owed, TypeOK
    <2> QED BY <1>2, <2>1, TypeStep
  <1> QED BY <1>1, <1>2, PTL DEF Spec

(* A dirty byte is forgotten only by a panicking closure of for_each_mut.  *)
THEOREM Covered == Spec => []ForgottenOnlyByPanic
  <1>1. Init => ForgottenOnlyByPanic
    BY InitInv
  <1>2. ASSUME TypeOK, ForgottenOnlyByPanic, [Next]_vars PROVE ForgottenOnlyByPanic'
    <2>1. CASE UNCHANGED vars
      BY <1>2, <2>1 DEF vars, locals, owed, ForgottenOnlyByPanic, Carries
    <2> QED BY <1>2, <2>1, CoveredStep
  <1> QED BY <1>1, <1>2, TypeCorrect, PTL DEF Spec

(* IInv is an inductive invariant.                                         *)
THEOREM Invariance == Spec => []IInv
  <1>1. Init => IInv
    BY InitInv
  <1>2. ASSUME IInv, [Next]_vars PROVE IInv'
    <2>1. CASE UNCHANGED vars
      BY <1>2, <2>1 DEF vars, locals, owed, IInv, TypeOK, DueInv, DurableOnOk, PolicyActs
    <2>2. CASE Next
      BY <1>2, <2>2, TypeStep, DurableStep, PolicyStep DEF IInv
    <2> QED BY <1>2, <2>1, <2>2
  <1> QED BY <1>1, <1>2, PTL DEF Spec

(* An Ok answer means durable, whatever other calls do meanwhile.          *)
THEOREM Durable == Spec => []DurableOnOk
  <1>1. IInv => DurableOnOk
    BY DEF IInv
  <1> QED BY Invariance, <1>1, PTL

(* A counter at its threshold is about to be flushed.                      *)
THEOREM PoliciesAct == Spec => []PolicyActs
  <1>1. IInv => PolicyActs
    BY DEF IInv
  <1> QED BY Invariance, <1>1, PTL

-----------------------------------------------------------------------------
(***************************************************************************)
(* The counter never undercounts.  The sum alone is not inductive: which   *)
(* blocks the pending bytes, and those a flush took, stand for is part of  *)
(* the invariant, as a witness that some assignment of blocks exists.      *)
(***************************************************************************)

(* Steps of a flush that holds what it took from the counter               *)
HasTaken == {"f_writes", "f_sync", "r_bytes"}

(* The call o answers for block b: it has yet to count it, or its flush    *)
(* took the count of b and has not written b back.                         *)
AnswersFor(o, b, taken) ==
  \/ pc[o] \in {"u_count", "v_live"} /\ b \in range[o]
  \/ pc[o] \in HasTaken /\ b \in taken[o] /\ b \in todo[o]

(* The pending bytes stand for the blocks in counted, and the bytes a      *)
(* flush o took for those in taken[o].                                     *)
Accounts(counted, taken) ==
  /\ \A b \in dirty \ abandoned : b \in counted \/ \E o \in Op : AnswersFor(o, b, taken)
  /\ Cardinality(counted) <= written_since_last_flush
  /\ \A o \in Op : pc[o] \in HasTaken => Cardinality(taken[o]) <= saved[o].bytes

Accounted ==
  \E counted \in SUBSET Block, taken \in [Op -> SUBSET Block] : Accounts(counted, taken)

(* What is counted again is counted at most twice, never less than once.   *)
LEMMA UnionSize ==
  ASSUME NEW S \in SUBSET Block, NEW T \in SUBSET Block
  PROVE  /\ Cardinality(S) \in Nat /\ Cardinality(T) \in Nat
         /\ Cardinality(S \union T) \in Nat
         /\ Cardinality(S \union T) <= Cardinality(S) + Cardinality(T)
  <1>1. IsFiniteSet(S) /\ IsFiniteSet(T)
    BY BlockAssumption, FS_Subset
  <1>2. /\ IsFiniteSet(S \union T) /\ IsFiniteSet(S \cap T)
        /\ Cardinality(S \union T) = Cardinality(S) + Cardinality(T) - Cardinality(S \cap T)
    BY <1>1, FS_Union, FS_Intersection
  <1>3. /\ Cardinality(S) \in Nat /\ Cardinality(T) \in Nat
        /\ Cardinality(S \union T) \in Nat /\ Cardinality(S \cap T) \in Nat
    BY <1>1, <1>2, FS_CardinalityType
  <1> QED BY <1>2, <1>3

(* Every step keeps such an assignment in being: a flush takes what was    *)
(* counted, a failed one puts it back, and writers and views add theirs.   *)
LEMMA AccountedStep ==
  ASSUME TypeOK, Accounted, Next
  PROVE  Accounted'
  <1> PICK counted \in SUBSET Block, taken \in [Op -> SUBSET Block] : Accounts(counted, taken)
    BY DEF Accounted
  <1>1. Accounts(counted, taken)' => Accounted'
    BY DEF Accounted
  <1>2. ASSUME NEW o \in Op, NEW name \in {"update", "try", "async"},
              NEW blocks \in SUBSET Block \ {{}}, WriteRegion(o, name, blocks)
       PROVE  Accounts(counted, taken)'
    BY <1>2 DEF TypeOK, Accounts, AnswersFor, HasTaken, WriteRegion, Goto, Begin
  <1>3. ASSUME NEW o \in Op, CountBytes(o) PROVE Accounted'
    <2>1. PICK R \in SUBSET Block : R = range[o]
      BY DEF TypeOK
    <2>2. Cardinality(counted \union R) <= written_since_last_flush'
      <3>1. /\ written_since_last_flush' = written_since_last_flush + Cardinality(R)
            /\ written_since_last_flush \in Nat /\ Cardinality(counted) <= written_since_last_flush
        BY <1>3, <2>1 DEF TypeOK, Accounts, CountBytes
      <3>2. /\ Cardinality(counted) \in Nat /\ Cardinality(R) \in Nat
            /\ Cardinality(counted \union R) \in Nat
            /\ Cardinality(counted \union R) <= Cardinality(counted) + Cardinality(R)
        BY UnionSize
      <3> QED BY <3>1, <3>2
    <2>3. \A b \in dirty' \ abandoned' :
            \/ b \in counted \union R
            \/ \E p \in Op : AnswersFor(p, b, taken)'
      BY <1>3, <2>1 DEF TypeOK, Accounts, AnswersFor, HasTaken, CountBytes, Goto
    <2>4. \A p \in Op : pc'[p] \in HasTaken => Cardinality(taken[p]) <= saved'[p].bytes
      BY <1>3 DEF TypeOK, Accounts, HasTaken, CountBytes, Goto
    <2>5. Accounts(counted \union R, taken)'
      BY <2>2, <2>3, <2>4 DEF Accounts
    <2>6. counted \union R \in SUBSET Block
      OBVIOUS
    <2> QED BY <2>5, <2>6 DEF Accounted
  <1>4. ASSUME NEW o \in Op, CountWrites(o) PROVE Accounts(counted, taken)'
    <2>1. /\ pc[o] = "u_writes" /\ pc'[o] \in {"f_bytes", "f_lock", "ok"}
          /\ \A p \in Op \ {o} : /\ pc'[p] = pc[p] /\ range'[p] = range[p]
                                    /\ todo'[p] = todo[p] /\ saved'[p] = saved[p]
          /\ UNCHANGED <<dirty, abandoned, written_since_last_flush>>
      BY <1>4 DEF TypeOK, CountWrites, Goto, Succeed, Forget
    <2> QED BY <2>1 DEF Accounts, AnswersFor, HasTaken
  <1>5. ASSUME NEW o \in Op, CallFlush(o) PROVE Accounts(counted, taken)'
    BY <1>5 DEF TypeOK, Accounts, AnswersFor, HasTaken, CallFlush, Goto, Begin
  <1>6. ASSUME NEW o \in Op, LockForFlush(o) PROVE Accounts(counted, taken)'
    BY <1>6 DEF TypeOK, Accounts, AnswersFor, HasTaken, LockForFlush, Goto
  <1>7. ASSUME NEW o \in Op, SwapBytes(o)
       PROVE  Accounted'
    <2>1. PICK new \in [Op -> SUBSET Block] : new = [taken EXCEPT ![o] = counted]
      OBVIOUS
    <2>2. Cardinality({}) = 0
      BY FS_EmptySet
    <2>3. ASSUME NEW b \in dirty' \ abandoned'
          PROVE  \E p \in Op : AnswersFor(p, b, new)'
      <3>1. CASE b \in counted
        BY <1>7, <2>1, <2>3, <3>1 DEF TypeOK, AnswersFor, HasTaken, SwapBytes, Goto
      <3>2. CASE b \notin counted
        <4>1. PICK p \in Op : AnswersFor(p, b, taken)
          BY <1>7, <2>3, <3>2 DEF Accounts, SwapBytes
        <4>2. p # o
          BY <1>7, <4>1 DEF AnswersFor, HasTaken, SwapBytes
        <4> QED BY <1>7, <2>1, <4>1, <4>2 DEF TypeOK, AnswersFor, HasTaken, SwapBytes, Goto
      <3> QED BY <3>1, <3>2
    <2>4. \A p \in Op : pc'[p] \in HasTaken => Cardinality(new[p]) <= saved'[p].bytes
      BY <1>7, <2>1 DEF TypeOK, Accounts, HasTaken, SwapBytes, Goto
    <2>5. written_since_last_flush' = 0
      BY <1>7 DEF SwapBytes
    <2>6. Accounts({}, new)'
      BY <2>2, <2>3, <2>4, <2>5 DEF Accounts
    <2> QED BY <2>6 DEF Accounted
  <1>8. ASSUME NEW o \in Op, SwapWrites(o) PROVE Accounts(counted, taken)'
    BY <1>8 DEF TypeOK, Accounts, AnswersFor, HasTaken, SwapWrites, Goto
  <1>9. ASSUME NEW o \in Op, NEW b \in Block, SyncBlock(o, b) PROVE Accounts(counted, taken)'
    BY <1>9 DEF TypeOK, Accounts, AnswersFor, HasTaken, SyncBlock
  <1>10. ASSUME NEW o \in Op, SyncDone(o) PROVE Accounts(counted, taken)'
    BY <1>10 DEF TypeOK, Accounts, AnswersFor, HasTaken, SyncDone, Goto, Succeed, Forget, NoSaved
  <1>11. ASSUME NEW o \in Op, SyncFails(o) PROVE Accounts(counted, taken)'
    BY <1>11 DEF TypeOK, Accounts, AnswersFor, HasTaken, SyncFails, Goto
  <1>12. ASSUME NEW o \in Op, RestoreBytes(o)
        PROVE  Accounted'
    <2>1. Cardinality(counted \union taken[o]) <= written_since_last_flush'
      <3>1. Cardinality(taken[o]) <= saved[o].bytes /\ saved[o].bytes \in Nat
        BY <1>12 DEF TypeOK, Accounts, HasTaken, RestoreBytes
      <3>2. /\ written_since_last_flush' = written_since_last_flush + saved[o].bytes
            /\ Cardinality(counted) <= written_since_last_flush
            /\ written_since_last_flush \in Nat
        BY <1>12 DEF TypeOK, Accounts, RestoreBytes
      <3>3. /\ Cardinality(counted) \in Nat /\ Cardinality(taken[o]) \in Nat
            /\ Cardinality(counted \union taken[o]) \in Nat
            /\ Cardinality(counted \union taken[o]) <= Cardinality(counted) + Cardinality(taken[o])
        BY UnionSize
      <3> QED BY <3>1, <3>2, <3>3
    <2>2. \A b \in dirty' \ abandoned' :
            \/ b \in counted \union taken[o]
            \/ \E p \in Op : AnswersFor(p, b, taken)'
      BY <1>12 DEF TypeOK, Accounts, AnswersFor, HasTaken, RestoreBytes, Goto
    <2>3. \A p \in Op : pc'[p] \in HasTaken => Cardinality(taken[p]) <= saved'[p].bytes
      BY <1>12 DEF TypeOK, Accounts, HasTaken, RestoreBytes, Goto
    <2>4. Accounts(counted \union taken[o], taken)'
      BY <2>1, <2>2, <2>3 DEF Accounts
    <2> QED BY <2>4 DEF Accounted
  <1>13. ASSUME NEW o \in Op, RestoreWrites(o) PROVE Accounts(counted, taken)'
    BY <1>13 DEF TypeOK, Accounts, AnswersFor, HasTaken, RestoreWrites, Goto, End, Forget, NoSaved
  <1>14. ASSUME NEW o \in Op, Resume(o) PROVE Accounts(counted, taken)'
    BY <1>14 DEF TypeOK, Accounts, AnswersFor, HasTaken, Resume, Goto, End, Forget, NoSaved
  <1>15. ASSUME NEW o \in Op, NEW blocks \in SUBSET Block \ {{}}, FlushRange(o, blocks)
       PROVE  Accounts(counted, taken)'
    BY <1>15 DEF TypeOK, Accounts, AnswersFor, HasTaken, FlushRange, Goto, Begin
  <1>16. ASSUME NEW o \in Op, RangeFails(o) PROVE Accounts(counted, taken)'
    BY <1>16 DEF TypeOK, Accounts, AnswersFor, HasTaken, RangeFails, Goto, End, Forget, NoSaved
  <1>17. ASSUME NEW o \in Op, NEW name \in {"mut", "drive", "atomic"},
              NEW blocks \in SUBSET Block \ {{}}, OpenView(o, name, blocks)
       PROVE  Accounts(counted, taken)'
    BY <1>17 DEF TypeOK, Accounts, AnswersFor, HasTaken, OpenView, Goto, Begin
  <1>18. ASSUME NEW o \in Op, NEW b \in Block, StoreView(o, b)
        PROVE  Accounts(counted, taken)'
    BY <1>18 DEF TypeOK, Accounts, AnswersFor, HasTaken, StoreView, locals
  <1>19. ASSUME NEW o \in Op, NEW b \in Block, NextChunk(o, b)
        PROVE  Accounts(counted, taken)'
    BY <1>19 DEF TypeOK, Accounts, AnswersFor, HasTaken, NextChunk
  <1>20. ASSUME NEW o \in Op, EndView(o) PROVE Accounted'
    <2>1. PICK R \in SUBSET Block : R = range[o]
      BY DEF TypeOK
    <2>2. Cardinality(counted \union R) <= written_since_last_flush'
      <3>1. /\ written_since_last_flush' = written_since_last_flush + Cardinality(R)
            /\ written_since_last_flush \in Nat /\ Cardinality(counted) <= written_since_last_flush
        BY <1>20, <2>1 DEF TypeOK, Accounts, EndView, record_write
      <3>2. /\ Cardinality(counted) \in Nat /\ Cardinality(R) \in Nat
            /\ Cardinality(counted \union R) \in Nat
            /\ Cardinality(counted \union R) <= Cardinality(counted) + Cardinality(R)
        BY UnionSize
      <3> QED BY <3>1, <3>2
    <2>3. \A b \in dirty' \ abandoned' :
            \/ b \in counted \union R
            \/ \E p \in Op : AnswersFor(p, b, taken)'
      BY <1>20, <2>1 DEF TypeOK, Accounts, AnswersFor, HasTaken, EndView, End, Forget, Goto
    <2>4. \A p \in Op : pc'[p] \in HasTaken => Cardinality(taken[p]) <= saved'[p].bytes
      BY <1>20 DEF TypeOK, Accounts, HasTaken, EndView, End, Forget, Goto
    <2>5. Accounts(counted \union R, taken)'
      BY <2>2, <2>3, <2>4 DEF Accounts
    <2>6. counted \union R \in SUBSET Block
      OBVIOUS
    <2> QED BY <2>5, <2>6 DEF Accounted
  <1>21. ASSUME NEW o \in Op, PanicInDrive(o) PROVE Accounts(counted, taken)'
    BY <1>21 DEF TypeOK, Accounts, AnswersFor, HasTaken, PanicInDrive, Goto, End, Forget, NoSaved
  <1>22. ASSUME NEW o \in Op, as_mut_ptr(o) PROVE Accounts(counted, taken)'
    <2>1. Cardinality(Block) \in Nat /\ Cardinality(counted) \in Nat
      BY RangeSize
    <2> QED BY <1>22, <2>1
            DEF TypeOK, Accounts, AnswersFor, HasTaken, as_mut_ptr, record_write, locals
  <1> QED BY <1>1, <1>2, <1>3, <1>4, <1>5, <1>6, <1>7, <1>8, <1>9, <1>10, <1>11, <1>12, <1>13,
             <1>14, <1>15, <1>16, <1>17, <1>18, <1>19, <1>20, <1>21, <1>22
          DEF Next, Step, Fail, UserCall

(* Between calls, the pending bytes are at least the dirty ones that no    *)
(* panic has left, whatever failed flushes put back and late writers       *)
(* counted meanwhile.                                                      *)
THEOREM Counted == Spec => []NeverUndercounts
  <1>1. Init => Accounted
    <2> SUFFICES ASSUME Init PROVE Accounted
      OBVIOUS
    <2>1. Cardinality({}) = 0
      BY FS_EmptySet
    <2>2. Accounts({}, [o \in Op |-> {}])
      BY <2>1 DEF Init, Accounts, HasTaken
    <2> QED BY <2>2 DEF Accounted
  <1>2. ASSUME TypeOK, Accounted, [Next]_vars PROVE Accounted'
    <2>1. CASE UNCHANGED vars
      <3> PICK counted \in SUBSET Block, taken \in [Op -> SUBSET Block] :
            Accounts(counted, taken)
        BY <1>2 DEF Accounted
      <3>1. Accounts(counted, taken)'
        BY <2>1 DEF Accounts, AnswersFor, vars, locals
      <3> QED BY <3>1 DEF Accounted
    <2> QED BY <1>2, <2>1, AccountedStep
  <1>3. ASSUME TypeOK, Accounted PROVE NeverUndercounts
    <2> SUFFICES ASSUME \A o \in Op : pc[o] = "idle"
                 PROVE  Cardinality(dirty \ abandoned) <= written_since_last_flush
      BY DEF NeverUndercounts
    <2> PICK counted \in SUBSET Block, taken \in [Op -> SUBSET Block] :
            Accounts(counted, taken)
      BY <1>3 DEF Accounted
    <2>1. dirty \ abandoned \subseteq counted
      BY DEF Accounts, AnswersFor, HasTaken
    <2>2. /\ Cardinality(dirty \ abandoned) \in Nat /\ Cardinality(counted) \in Nat
          /\ Cardinality(dirty \ abandoned) <= Cardinality(counted)
      BY <2>1, BlockAssumption, FS_Subset, FS_CardinalityType
    <2> QED BY <1>3, <2>2 DEF Accounts, TypeOK
  <1> QED BY <1>1, <1>2, <1>3, TypeCorrect, PTL DEF Spec

=============================================================================
