---------------------------- MODULE WatchProofs ----------------------------
(***************************************************************************)
(* Proofs about Watch for any number and kinds of events: when another     *)
(* thread has dropped the handle no callback runs any more, nobody waits   *)
(* for a dispatcher that was not told to stop, and the callback is called  *)
(* for the messages that are its own, in their order.                      *)
(***************************************************************************)
EXTENDS Watch, FiniteSetTheorems, TLAPS

Message == AnyNotifyKind \union {"Shutdown"}

-----------------------------------------------------------------------------
(***************************************************************************)
(* The inductive invariant                                                 *)
(***************************************************************************)

(* The dispatcher exists once watch() has returned a handle.               *)
ThreadStarted == caller \in {"live", "d_send", "d_join", "dropped"} <=> thread # "none"

(* A drop inside the callback keeps the callback, and so the receiver,     *)
(* alive until the shutdown message is sent.                               *)
SelfDrop == caller = "d_send" /\ dropper = "self" => thread = "call"

(* After the send, the dispatcher has ended or the message waits for it.   *)
Told == caller \in {"d_join", "dropped"} => thread = "done" \/ "Shutdown" \in ToSet(channel)

(* Another thread that drops the handle waits for the dispatcher's end.    *)
Joined == caller = "dropped" /\ dropper # "self" => thread = "done"

(* All of it together is kept by every step.                               *)
IInv == TypeOK /\ ThreadStarted /\ SelfDrop /\ Told /\ Joined

(* A thread that joins the dispatcher joins one that has ended, or that    *)
(* will find the shutdown message in its queue.                            *)
JoinEnds == caller = "d_join" => thread = "done" \/ "Shutdown" \in ToSet(channel)

(* How many messages the dispatcher has taken off                          *)
Taken == Len(sent) - Len(channel)

(* The queue is what was sent and not taken yet.                           *)
Queued ==
  Receiving => /\ Len(channel) =< Len(sent)
               /\ \A i \in DOMAIN channel : channel[i] = sent[Taken + i]

(* What was taken has not ended the loop, or ends it when the running      *)
(* callback returns.                                                       *)
Opened ==
  Receiving => \A j \in 1 .. Taken :
    /\ sent[j] # "Shutdown"
    /\ sent[j] \in {"Name", "Remove"} => thread = "call" /\ current = "Removed"

(* Every message taken that was due had its call.                          *)
CalledForAll == Receiving => Len(delivered) = Rank(sent, Taken)

(* With IInv, kept by every step.                                          *)
InOrder == Queued /\ Opened /\ CalledForAll /\ DeliveredInOrder

-----------------------------------------------------------------------------
(***************************************************************************)
(* Sequences of messages                                                   *)
(***************************************************************************)

(* The message that is sent last, and those before it, are in the queue.   *)
LEMMA SentIsQueued ==
  ASSUME NEW s \in Seq(Message), NEW m \in Message
  PROVE  /\ Append(s, m) \in Seq(Message)
         /\ ToSet(Append(s, m)) = ToSet(s) \union {m}
  <1>1. /\ Append(s, m) \in Seq(Message) /\ Len(s) \in Nat
        /\ DOMAIN Append(s, m) = 1 .. Len(s) + 1 /\ DOMAIN s = 1 .. Len(s)
        /\ \A i \in 1 .. Len(s) : Append(s, m)[i] = s[i]
        /\ Append(s, m)[Len(s) + 1] = m
    OBVIOUS
  <1>2. ASSUME NEW x \in ToSet(Append(s, m)) PROVE x \in ToSet(s) \union {m}
    <2>1. PICK i \in DOMAIN Append(s, m) : x = Append(s, m)[i]
      BY DEF ToSet
    <2>2. i \in 1 .. Len(s) \/ i = Len(s) + 1
      BY <1>1, <2>1
    <2> QED BY <1>1, <2>1, <2>2 DEF ToSet
  <1>3. ASSUME NEW x \in ToSet(s) \union {m} PROVE x \in ToSet(Append(s, m))
    <2>1. CASE x \in ToSet(s)
      <3>1. PICK i \in DOMAIN s : x = s[i]
        BY <2>1 DEF ToSet
      <3>2. i \in DOMAIN Append(s, m) /\ Append(s, m)[i] = x
        BY <1>1, <3>1
      <3> QED BY <3>2 DEF ToSet
    <2>2. CASE x = m
      <3>1. Len(s) + 1 \in DOMAIN Append(s, m)
        BY <1>1
      <3> QED BY <1>1, <2>2, <3>1 DEF ToSet
    <2> QED BY <1>3, <2>1, <2>2
  <1> QED BY <1>1, <1>2, <1>3

(* An empty queue is a queue.                                              *)
LEMMA EmptyQueue ==
  <<>> \in Seq(AnyNotifyKind \union {"Shutdown"}) /\ <<>> \in Seq(ChangeKind)
  OBVIOUS

(* Taking off the head leaves the other messages.                          *)
LEMMA TailKeeps ==
  ASSUME NEW s \in Seq(Message), s # <<>>
  PROVE  /\ Head(s) \in Message /\ Tail(s) \in Seq(Message)
         /\ \A m \in ToSet(s) : m = Head(s) \/ m \in ToSet(Tail(s))
  <1>1. Head(s) \in Message /\ Tail(s) \in Seq(Message)
    OBVIOUS
  <1>2. ASSUME NEW m \in ToSet(s), m # Head(s) PROVE m \in ToSet(Tail(s))
    <2>1. PICK i \in DOMAIN s : m = s[i]
      BY DEF ToSet
    <2>2. i \in 2 .. Len(s)
      BY <1>2, <2>1
    <2>3. i - 1 \in DOMAIN Tail(s) /\ Tail(s)[i - 1] = m
      BY <2>1, <2>2
    <2> QED BY <2>3 DEF ToSet
  <1> QED BY <1>1, <1>2

(* What the callback is called with is one of the three kinds.             *)
LEMMA ChangeKindType ==
  ASSUME NEW m \in AnyNotifyKind
  PROVE  change_kind(m) \in ChangeKind \union {"none"}
  BY DEF change_kind, map_notify_kind, AnyNotifyKind, ChangeKind

-----------------------------------------------------------------------------
(***************************************************************************)
(* The steps                                                               *)
(***************************************************************************)

(* watch() that fails or goes on, before there is a handle.                *)
LEMMA WatchCallInv ==
  ASSUME IInv, CreateWatcher \/ RegisterPath \/ SpawnDispatcher
  PROVE  IInv'
  <1>1. TypeOK'
    <2>1. channel' = channel \/ channel' = <<>>
      BY DEF CreateWatcher, RegisterPath, SpawnDispatcher, Abandon
    <2>2. channel' \in Seq(AnyNotifyKind \union {"Shutdown"})
      BY <2>1, EmptyQueue DEF IInv, TypeOK
    <2>3. /\ caller' \in {"created", "registered", "live", "failed"}
          /\ backend' \in {"none", "running", "stopping", "gone"}
          /\ thread' \in {"none", "recv", "call", "done"}
          /\ UNCHANGED <<dropper, current, sent, delivered, panicked>>
      BY DEF IInv, TypeOK, CreateWatcher, RegisterPath, SpawnDispatcher, Abandon
    <2> QED BY <2>2, <2>3 DEF IInv, TypeOK
  <1>2. ThreadStarted' /\ SelfDrop' /\ Told' /\ Joined'
    BY DEF IInv, TypeOK, ThreadStarted, SelfDrop, Told, Joined, CreateWatcher, RegisterPath,
       SpawnDispatcher, Abandon
  <1> QED BY <1>1, <1>2 DEF IInv

(* The backend queues an event, behind the shutdown message too.           *)
LEMMA NotifyInv ==
  ASSUME IInv, NEW k \in NotifyKind, Notify(k)
  PROVE  IInv'
  <1>1. k \in Message /\ Message = AnyNotifyKind \union {"Shutdown"}
    BY KindAssumption DEF Message
  <1>2. /\ channel' = Append(channel, k) /\ sent' = Append(sent, k)
        /\ UNCHANGED <<caller, dropper, backend, thread, current, delivered, panicked>>
    BY DEF Notify, Send
  <1>3. /\ channel' \in Seq(Message) /\ sent' \in Seq(Message)
        /\ ToSet(channel') = ToSet(channel) \union {k}
    BY <1>1, <1>2, SentIsQueued DEF IInv, TypeOK
  <1>4. TypeOK'
    BY <1>1, <1>2, <1>3 DEF IInv, TypeOK
  <1>5. ThreadStarted' /\ SelfDrop' /\ Told' /\ Joined'
    BY <1>2, <1>3 DEF IInv, ThreadStarted, SelfDrop, Told, Joined
  <1> QED BY <1>4, <1>5 DEF IInv

(* The dispatcher takes one message off: it ends on the shutdown message,  *)
(* and keeps it queued otherwise.                                          *)
LEMMA DispatchInv ==
  ASSUME IInv, Dispatch
  PROVE  IInv'
  <1>1. /\ thread = "recv" /\ channel # <<>> /\ channel \in Seq(Message)
        /\ UNCHANGED <<caller, dropper, backend, sent, panicked>>
    BY DEF Dispatch, IInv, TypeOK, Message
  <1>2. CASE Head(channel) = "Shutdown" /\ Exit /\ UNCHANGED delivered
    <2>1. TypeOK'
      BY <1>1, <1>2, EmptyQueue DEF IInv, TypeOK, Exit
    <2> QED BY <1>1, <1>2, <2>1 DEF IInv, ThreadStarted, SelfDrop, Told, Joined, Exit
  <1>3. CASE Head(channel) # "Shutdown" /\ channel' = Tail(channel)
    <2>1. /\ Head(channel) \in AnyNotifyKind
          /\ Tail(channel) \in Seq(Message)
          /\ "Shutdown" \in ToSet(channel) => "Shutdown" \in ToSet(channel')
      BY <1>1, <1>3, TailKeeps DEF Message
    <2>2. \/ thread' = "recv" /\ UNCHANGED <<current, delivered>>
          \/ /\ thread' = "call" /\ current' = change_kind(Head(channel))
             /\ change_kind(Head(channel)) # "none"
             /\ delivered' = Append(delivered, current')
      BY <1>1, <1>3 DEF Dispatch
    <2>3. TypeOK'
      <3>1. /\ current' \in ChangeKind \union {"none"} /\ delivered' \in Seq(ChangeKind)
            /\ thread' \in {"none", "recv", "call", "done"}
        BY <2>1, <2>2, ChangeKindType, SMTT(30) DEF IInv, TypeOK
      <3> QED BY <1>1, <1>3, <2>1, <3>1 DEF IInv, TypeOK, Message
    <2>4. ThreadStarted' /\ SelfDrop' /\ Told' /\ Joined'
      BY <1>1, <2>1, <2>2 DEF IInv, ThreadStarted, SelfDrop, Told, Joined
    <2> QED BY <2>3, <2>4 DEF IInv
  <1> QED BY <1>2, <1>3 DEF Dispatch

(* The callback returns or panics: not while it is dropping the handle.    *)
LEMMA CallbackInv ==
  ASSUME IInv, CallbackReturns \/ CallbackPanics
  PROVE  IInv'
  <1>1. /\ thread = "call" /\ NotDropping
        /\ UNCHANGED <<caller, dropper, backend, sent, delivered>>
        /\ \/ Exit
           \/ thread' = "recv" /\ current' = "none" /\ UNCHANGED channel
        /\ panicked' \in BOOLEAN
    BY DEF CallbackReturns, CallbackPanics, IInv, TypeOK
  <1>2. TypeOK'
    <2>1. channel' \in Seq(AnyNotifyKind \union {"Shutdown"})
      BY <1>1, EmptyQueue DEF IInv, TypeOK, Exit
    <2>2. current' = "none" /\ thread' \in {"recv", "done"}
      BY <1>1 DEF Exit
    <2> QED BY <1>1, <2>1, <2>2 DEF IInv, TypeOK
  <1>3. ThreadStarted' /\ Told'
    BY <1>1 DEF IInv, ThreadStarted, Told, Exit
  <1>4. SelfDrop' /\ Joined'
    BY <1>1 DEF IInv, SelfDrop, Joined, NotDropping
  <1> QED BY <1>2, <1>3, <1>4 DEF IInv

(* The drop starts: the watcher goes.                                      *)
LEMMA DropWatcherInv ==
  ASSUME IInv, NEW by \in {"self", "other"}, DropWatcher(by)
  PROVE  IInv'
  <1>1. TypeOK'
    BY DEF IInv, TypeOK, DropWatcher
  <1> QED BY <1>1 DEF IInv, ThreadStarted, SelfDrop, Told, Joined, DropWatcher

(* The shutdown message is queued if there is a receiver, and if there is  *)
(* none the dispatcher has ended.                                          *)
LEMMA SendShutdownInv ==
  ASSUME IInv, SendShutdown
  PROVE  IInv'
  <1>1. /\ caller = "d_send" /\ UNCHANGED <<dropper, backend, thread, current, delivered, panicked>>
        /\ caller' = IF dropper = "self" THEN "dropped" ELSE "d_join"
        /\ channel \in Seq(Message) /\ sent \in Seq(Message) /\ "Shutdown" \in Message
    BY DEF SendShutdown, IInv, TypeOK, Message
  <1>2. CASE Receiving
    <2>1. channel' = Append(channel, "Shutdown") /\ sent' = Append(sent, "Shutdown")
      BY <1>2 DEF SendShutdown, Send
    <2>2. /\ channel' \in Seq(Message) /\ sent' \in Seq(Message)
          /\ "Shutdown" \in ToSet(channel')
      BY <1>1, <2>1, SentIsQueued
    <2>3. TypeOK'
      BY <1>1, <2>2 DEF IInv, TypeOK, Message
    <2> QED BY <1>1, <2>2, <2>3 DEF IInv, ThreadStarted, SelfDrop, Told, Joined
  <1>3. CASE ~Receiving
    <2>1. thread = "done" /\ UNCHANGED <<channel, sent>>
      BY <1>1, <1>3 DEF SendShutdown, Send, Receiving, IInv, TypeOK, ThreadStarted
    <2>2. TypeOK'
      BY <1>1, <2>1 DEF IInv, TypeOK
    <2> QED BY <1>1, <2>1, <2>2 DEF IInv, ThreadStarted, SelfDrop, Told, Joined
  <1> QED BY <1>2, <1>3

(* The drop by another thread returns when the dispatcher has ended.       *)
LEMMA JoinInv ==
  ASSUME IInv, Join
  PROVE  IInv'
  <1>1. TypeOK'
    BY DEF IInv, TypeOK, Join
  <1> QED BY <1>1 DEF IInv, ThreadStarted, SelfDrop, Told, Joined, Join

-----------------------------------------------------------------------------
(***************************************************************************)
(* The theorems                                                            *)
(***************************************************************************)

(* The inductive invariant holds in every reachable state.                 *)
THEOREM Invariance == Spec => []IInv
  <1>1. Init => IInv
    <2> SUFFICES ASSUME Init PROVE IInv
      OBVIOUS
    <2>1. TypeOK
      BY EmptyQueue DEF Init, TypeOK
    <2> QED BY <2>1 DEF Init, IInv, ThreadStarted, SelfDrop, Told, Joined
  <1>2. IInv /\ [Next]_vars => IInv'
    <2> SUFFICES ASSUME IInv, [Next]_vars PROVE IInv'
      OBVIOUS
    <2>1. CASE BackendStops
      <3>1. TypeOK'
        BY <2>1 DEF IInv, TypeOK, BackendStops
      <3> QED BY <2>1, <3>1 DEF IInv, ThreadStarted, SelfDrop, Told, Joined, BackendStops
    <2>2. CASE UNCHANGED vars
      <3>1. TypeOK'
        BY <2>2 DEF IInv, TypeOK, vars
      <3> QED BY <2>2, <3>1 DEF IInv, ThreadStarted, SelfDrop, Told, Joined, vars
    <2> QED BY <2>1, <2>2, WatchCallInv, NotifyInv, DispatchInv, CallbackInv, DropWatcherInv,
               SendShutdownInv, JoinInv DEF Next
  <1> QED BY <1>1, <1>2, PTL DEF Spec

(* Types of the watch: only reported kinds reach the callback, and the     *)
(* queue holds events and shutdown messages.                               *)
THEOREM TypeCorrect == Spec => []TypeOK
  <1>1. IInv => TypeOK
    BY DEF IInv
  <1> QED BY <1>1, Invariance, PTL

(* WatchHandle::drop: when a drop by another thread has returned no        *)
(* callback runs or will run.                                              *)
THEOREM DropSilences == Spec => []NoCallbackAfterDrop
  <1>1. IInv => NoCallbackAfterDrop
    BY DEF IInv, Joined, NoCallbackAfterDrop
  <1> QED BY <1>1, Invariance, PTL

(* The safety part of a drop that returns: the dispatcher that is joined   *)
(* has ended or has its shutdown message waiting, whatever the backend     *)
(* queued and however the callbacks ended.                                 *)
THEOREM JoinNotInVain == Spec => []JoinEnds
  <1>1. IInv => JoinEnds
    BY DEF IInv, Told, JoinEnds
  <1> QED BY <1>1, Invariance, PTL

-----------------------------------------------------------------------------
(***************************************************************************)
(* What is due, and its ranks                                              *)
(***************************************************************************)

(* The messages due up to the i-th, and so all of them, are finitely many. *)
LEMMA DueFinite ==
  ASSUME NEW m \in Seq(Message), NEW i
  PROVE  /\ Len(m) \in Nat /\ DOMAIN m = 1 .. Len(m)
         /\ Due(m) \subseteq 1 .. Len(m) /\ Due(m) \subseteq Nat
         /\ IsFiniteSet(Due(m)) /\ Cardinality(Due(m)) \in Nat
         /\ IsFiniteSet({j \in Due(m) : j =< i}) /\ Rank(m, i) \in Nat
         /\ Rank(m, i) =< Cardinality(Due(m))
  <1>1. Len(m) \in Nat /\ DOMAIN m = 1 .. Len(m)
    OBVIOUS
  <1>2. Due(m) \subseteq 1 .. Len(m)
    BY <1>1 DEF Due
  <1>3. IsFiniteSet(1 .. Len(m))
    BY <1>1, FS_Interval
  <1>4. IsFiniteSet(Due(m))
    BY <1>2, <1>3, FS_Subset
  <1>5. PICK S : S = {j \in Due(m) : j =< i}
    OBVIOUS
  <1>6. IsFiniteSet(S) /\ Cardinality(S) =< Cardinality(Due(m))
    BY <1>4, <1>5, FS_Subset
  <1>7. Cardinality(S) \in Nat /\ Cardinality(Due(m)) \in Nat
    BY <1>4, <1>6, FS_CardinalityType
  <1> QED BY <1>1, <1>2, <1>4, <1>5, <1>6, <1>7 DEF Rank

(* The rank counts up at every message that is due.                        *)
LEMMA RankNext ==
  ASSUME NEW m \in Seq(Message), NEW t \in Nat
  PROVE  Rank(m, t + 1) = IF t + 1 \in Due(m) THEN Rank(m, t) + 1 ELSE Rank(m, t)
  <1>1. PICK S, T : S = {j \in Due(m) : j =< t} /\ T = {j \in Due(m) : j =< t + 1}
    OBVIOUS
  <1>2. IsFiniteSet(S)
    BY <1>1, DueFinite
  <1>3. Due(m) \subseteq Nat
    BY DueFinite
  <1>4. CASE t + 1 \in Due(m)
    <2>1. T = S \union {t + 1} /\ t + 1 \notin S
      BY <1>1, <1>3, <1>4
    <2>2. Cardinality(T) = Cardinality(S) + 1
      BY <1>2, <2>1, FS_AddElement
    <2> QED BY <1>1, <1>4, <2>2 DEF Rank
  <1>5. CASE t + 1 \notin Due(m)
    <2>1. T = S
      BY <1>1, <1>3, <1>5
    <2> QED BY <1>1, <1>5, <2>1 DEF Rank
  <1> QED BY <1>4, <1>5

(* A later message that is due has a larger rank.                          *)
LEMMA RankGrows ==
  ASSUME NEW m \in Seq(Message), NEW i \in Due(m), NEW k \in Due(m), i < k
  PROVE  Rank(m, i) < Rank(m, k)
  <1>1. PICK S, T : S = {j \in Due(m) : j =< i} /\ T = {j \in Due(m) : j =< k}
    OBVIOUS
  <1>2. IsFiniteSet(T) /\ Due(m) \subseteq Nat /\ Rank(m, i) \in Nat /\ Rank(m, k) \in Nat
    BY <1>1, DueFinite
  <1>3. S \subseteq T /\ k \in T /\ k \notin S
    BY <1>1, <1>2
  <1>4. Cardinality(S) =< Cardinality(T) /\ (Cardinality(S) = Cardinality(T) => S = T)
    BY <1>2, <1>3, FS_Subset
  <1>5. Rank(m, i) = Cardinality(S) /\ Rank(m, k) = Cardinality(T)
    BY <1>1 DEF Rank
  <1> QED BY <1>2, <1>3, <1>4, <1>5

(* A rank is one message's.                                                *)
LEMMA RankTells ==
  ASSUME NEW m \in Seq(Message), NEW i \in Due(m), NEW k \in Due(m), Rank(m, i) = Rank(m, k)
  PROVE  i = k
  <1>1. Due(m) \subseteq Nat /\ Rank(m, i) \in Nat /\ Rank(m, k) \in Nat
    BY DueFinite
  <1>2. ~(i < k) /\ ~(k < i)
    BY <1>1, RankGrows
  <1> QED BY <1>1, <1>2

(* A message that is sent changes nothing about the ones before it.        *)
LEMMA DueSent ==
  ASSUME NEW m \in Seq(Message), NEW x \in Message, NEW n, n = Append(m, x)
  PROVE  /\ n \in Seq(Message) /\ Len(n) = Len(m) + 1
         /\ \A i \in 1 .. Len(m) : n[i] = m[i]
         /\ \A i \in 1 .. Len(m) : i \in Due(n) <=> i \in Due(m)
         /\ \A i \in 0 .. Len(m) : Rank(n, i) = Rank(m, i)
         /\ Rank(m, Len(m)) = Cardinality(Due(m))
         /\ Cardinality(Due(m)) =< Cardinality(Due(n))
  <1>1. /\ n \in Seq(Message) /\ Len(m) \in Nat /\ Len(n) = Len(m) + 1
        /\ DOMAIN m = 1 .. Len(m) /\ DOMAIN n = 1 .. Len(m) + 1
        /\ \A i \in 1 .. Len(m) : n[i] = m[i]
    OBVIOUS
  <1>2. ASSUME NEW i \in 1 .. Len(m) PROVE i \in Due(n) <=> i \in Due(m)
    <2>1. n[i] = m[i] /\ i \in DOMAIN m /\ i \in DOMAIN n /\ \A j \in 1 .. i - 1 : n[j] = m[j]
      BY <1>1
    <2> QED BY <2>1 DEF Due
  <1>3. Due(m) \subseteq 1 .. Len(m) /\ Due(n) \subseteq 1 .. Len(m) + 1
    BY <1>1, DueFinite
  <1>4. ASSUME NEW i \in 0 .. Len(m) PROVE Rank(n, i) = Rank(m, i)
    <2>1. {j \in Due(n) : j =< i} = {j \in Due(m) : j =< i}
      BY <1>1, <1>2, <1>3
    <2> QED BY <2>1 DEF Rank
  <1>5. Rank(m, Len(m)) = Cardinality(Due(m))
    <2>1. {j \in Due(m) : j =< Len(m)} = Due(m)
      BY <1>1, <1>3
    <2> QED BY <2>1 DEF Rank
  <1>6. Cardinality(Due(m)) =< Cardinality(Due(n))
    <2>1. Due(m) \subseteq Due(n)
      BY <1>2, <1>3
    <2>2. IsFiniteSet(Due(n))
      BY <1>1, DueFinite
    <2> QED BY <2>1, <2>2, FS_Subset
  <1> QED BY <1>1, <1>2, <1>4, <1>5, <1>6

-----------------------------------------------------------------------------
(***************************************************************************)
(* Delivery in order, step by step                                         *)
(***************************************************************************)

(* A message that is sent while there is a receiver.                       *)
LEMMA SentInOrder ==
  ASSUME IInv, IInv', InOrder, NEW x \in Message, Receiving,
         channel' = Append(channel, x), sent' = Append(sent, x),
         UNCHANGED <<thread, current, delivered>>
  PROVE  InOrder'
  <1>1. PICK m \in Seq(Message), c \in Seq(Message) : m = sent /\ c = channel
    BY DEF IInv, TypeOK, Message
  <1>2. PICK n, d : n = sent' /\ d = channel'
    OBVIOUS
  <1>3. n = Append(m, x) /\ d = Append(c, x)
    BY <1>1, <1>2
  <1>4. /\ n \in Seq(Message) /\ Len(m) \in Nat /\ Len(n) = Len(m) + 1
        /\ \A i \in 1 .. Len(m) : n[i] = m[i]
        /\ \A i \in 1 .. Len(m) : i \in Due(n) <=> i \in Due(m)
        /\ \A i \in 0 .. Len(m) : Rank(n, i) = Rank(m, i)
        /\ Rank(m, Len(m)) = Cardinality(Due(m))
        /\ Cardinality(Due(m)) =< Cardinality(Due(n))
    <2>1. Len(m) \in Nat
      OBVIOUS
    <2> QED BY <1>3, <2>1, DueSent, ZenonT(60)
  <1>5. /\ Len(c) \in Nat /\ Len(d) = Len(c) + 1 /\ DOMAIN d = 1 .. Len(c) + 1 /\ DOMAIN c = 1 .. Len(c)
        /\ \A i \in 1 .. Len(c) : d[i] = c[i]
        /\ d[Len(c) + 1] = x /\ n[Len(m) + 1] = x
    BY <1>3
  <1>6. PICK t \in 0 .. Len(m) : t = Len(m) - Len(c) /\ t = Taken /\ Len(c) =< Len(m)
    <2>1. Taken = Len(m) - Len(c) /\ Len(c) =< Len(m)
      BY <1>1 DEF InOrder, Queued, Taken
    <2>2. Len(m) - Len(c) \in 0 .. Len(m)
      BY <1>4, <1>5, <2>1
    <2> QED BY <2>1, <2>2, Zenon
  <1>7. Taken' = t
    BY <1>1, <1>2, <1>4, <1>5, <1>6 DEF Taken
  <1>8. Queued'
    <2>1. ASSUME NEW i \in 1 .. Len(c) + 1 PROVE d[i] = n[t + i]
      <3>1. CASE i \in 1 .. Len(c)
        <4>1. c[i] = m[t + i]
          BY <1>1, <1>5, <1>6, <3>1 DEF InOrder, Queued
        <4>2. t + i \in 1 .. Len(m)
          BY <1>4, <1>5, <1>6, <3>1
        <4> QED BY <1>4, <1>5, <3>1, <4>1, <4>2
      <3>2. CASE i = Len(c) + 1
        <4>1. t + i = Len(m) + 1
          BY <1>4, <1>5, <1>6, <3>2
        <4> QED BY <1>5, <3>2, <4>1
      <3> QED BY <1>5, <3>1, <3>2
    <2>2. Len(d) =< Len(n)
      BY <1>4, <1>5, <1>6
    <2> QED BY <1>1, <1>2, <1>5, <1>7, <2>1, <2>2 DEF Queued
  <1>9. Opened'
    <2> SUFFICES ASSUME NEW j \in 1 .. t
                 PROVE  n[j] # "Shutdown" /\ (n[j] \in {"Name", "Remove"} => thread = "call" /\ current = "Removed")
      BY <1>1, <1>2, <1>7 DEF Opened
    <2>1. n[j] = m[j]
      BY <1>4, <1>6
    <2> QED BY <1>1, <1>6, <2>1 DEF InOrder, Opened
  <1>10. CalledForAll'
    <2>1. Len(delivered) = Rank(m, t)
      BY <1>1, <1>6 DEF InOrder, CalledForAll
    <2>2. Rank(n, t) = Rank(m, t)
      BY <1>4, <1>6
    <2> QED BY <1>1, <1>2, <1>7, <2>1, <2>2 DEF CalledForAll
  <1>11. DeliveredInOrder'
    <2>1. /\ Len(delivered) \in Nat /\ Len(delivered) =< Cardinality(Due(m))
          /\ Cardinality(Due(m)) \in Nat /\ Cardinality(Due(n)) \in Nat
      <3>1. Len(delivered) \in Nat
        BY DEF IInv, TypeOK
      <3>2. Len(delivered) =< Cardinality(Due(m))
        BY <1>1 DEF InOrder, DeliveredInOrder
      <3>3. Cardinality(Due(m)) \in Nat /\ Cardinality(Due(n)) \in Nat
        BY <1>4, DueFinite
      <3> QED BY <3>1, <3>2, <3>3
    <2>2. ASSUME NEW i \in Due(n), Rank(n, i) =< Len(delivered)
          PROVE  delivered[Rank(n, i)] = Reported(n[i])
      <3>1. i \in 1 .. Len(m) + 1
        BY <1>4, DueFinite
      <3>2. CASE i \in 1 .. Len(m)
        <4>1. i \in Due(m) /\ Rank(n, i) = Rank(m, i) /\ n[i] = m[i]
          BY <1>4, <3>2
        <4> QED BY <1>1, <2>2, <4>1 DEF InOrder, DeliveredInOrder
      <3>3. CASE i = Len(m) + 1
        <4>1. Rank(n, Len(m) + 1) = Rank(n, Len(m)) + 1
          BY <1>4, <3>3, RankNext
        <4>2. Rank(n, Len(m)) = Cardinality(Due(m))
          BY <1>4
        <4> QED BY <2>1, <2>2, <3>3, <4>1, <4>2
      <3> QED BY <1>4, <3>1, <3>2, <3>3
    <2>3. Len(delivered) =< Cardinality(Due(n))
      BY <1>4, <2>1
    <2> QED BY <1>1, <1>2, <2>2, <2>3 DEF DeliveredInOrder
  <1> QED BY <1>8, <1>9, <1>10, <1>11 DEF InOrder

(* When there is no receiver left, only what was delivered counts.         *)
LEMMA EndInOrder ==
  ASSUME InOrder, ~Receiving', UNCHANGED <<sent, delivered>>
  PROVE  InOrder'
  BY DEF InOrder, Queued, Opened, CalledForAll, DeliveredInOrder

(* A step that leaves the queue alone, and with it what was taken.         *)
LEMMA IdleInOrder ==
  ASSUME InOrder, Receiving' => Receiving, UNCHANGED <<channel, sent, delivered>>,
         thread = "call" /\ current = "Removed" /\ Receiving' => thread' = "call" /\ current' = "Removed"
  PROVE  InOrder'
  <1>1. Taken' = Taken
    BY DEF Taken
  <1> QED BY <1>1 DEF InOrder, Queued, Opened, CalledForAll, DeliveredInOrder

(* The dispatcher takes off a message that is no shutdown.  It is due      *)
(* exactly if it is no Access event, and then it is the next one.          *)
LEMMA TakenInOrder ==
  ASSUME IInv, InOrder, Dispatch, Head(channel) # "Shutdown"
  PROVE  InOrder'
  <1>1. PICK m \in Seq(Message), c \in Seq(Message) : m = sent /\ c = channel
    BY DEF IInv, TypeOK, Message
  <1>2. PICK d : d = channel'
    OBVIOUS
  <1>3. PICK x \in AnyNotifyKind : x = Head(c)
    <2>1. c # <<>> /\ Head(c) # "Shutdown"
      BY <1>1 DEF Dispatch
    <2> QED BY <2>1, TailKeeps DEF Message
  <1>4. /\ thread = "recv" /\ Receiving /\ c # <<>> /\ d = Tail(c) /\ sent' = m
        /\ \/ /\ change_kind(x) = "none" /\ thread' = "recv" /\ delivered' = delivered
           \/ /\ change_kind(x) # "none" /\ thread' = "call" /\ current' = change_kind(x)
              /\ delivered' = Append(delivered, change_kind(x))
    BY <1>1, <1>2, <1>3 DEF Dispatch, Receiving
  <1>5. /\ Len(c) \in Nat \ {0} /\ DOMAIN c = 1 .. Len(c) /\ x = c[1]
        /\ Len(d) = Len(c) - 1 /\ DOMAIN d = 1 .. Len(c) - 1
        /\ \A i \in 1 .. Len(c) - 1 : d[i] = c[i + 1]
        /\ Len(m) \in Nat /\ DOMAIN m = 1 .. Len(m)
    BY <1>3, <1>4
  <1>6. PICK t \in Nat : /\ t = Len(m) - Len(c) /\ t = Taken
                         /\ \A i \in 1 .. Len(c) : c[i] = m[t + i]
    <2>1. /\ Taken = Len(m) - Len(c) /\ Len(c) =< Len(m)
          /\ \A i \in DOMAIN c : c[i] = m[Taken + i]
      BY <1>1, <1>4 DEF InOrder, Queued, Taken
    <2>2. Len(m) - Len(c) \in Nat
      BY <1>5, <2>1
    <2> QED BY <1>5, <2>1, <2>2, Zenon
  <1>7. Taken' = t + 1 /\ t + 1 \in 1 .. Len(m) /\ m[t + 1] = x
    BY <1>1, <1>2, <1>4, <1>5, <1>6 DEF Taken
  <1>8. \A j \in 1 .. t : m[j] \notin {"Shutdown", "Name", "Remove"}
    BY <1>1, <1>4, <1>6 DEF InOrder, Opened
  <1>9. /\ t + 1 \in Due(m) <=> x # "Access"
        /\ change_kind(x) = "none" <=> x = "Access"
        /\ x # "Access" => change_kind(x) = Reported(x)
        /\ x \in {"Name", "Remove"} => change_kind(x) = "Removed"
    <2>1. t + 1 \in Due(m) <=> x # "Access"
      <3>1. x # "Shutdown"
        BY <1>3 DEF AnyNotifyKind
      <3>2. t + 1 \in DOMAIN m /\ 1 .. (t + 1) - 1 = 1 .. t
        BY <1>5, <1>7
      <3> QED BY <1>7, <1>8, <3>1, <3>2 DEF Due
    <2>2. /\ change_kind(x) = "none" <=> x = "Access"
          /\ x # "Access" => change_kind(x) = Reported(x)
          /\ x \in {"Name", "Remove"} => change_kind(x) = "Removed"
      BY <1>3 DEF change_kind, map_notify_kind, Reported, AnyNotifyKind
    <2> QED BY <2>1, <2>2
  <1>10. /\ Len(delivered) = Rank(m, t) /\ Len(delivered) \in Nat
         /\ Rank(m, t + 1) = IF t + 1 \in Due(m) THEN Rank(m, t) + 1 ELSE Rank(m, t)
         /\ Rank(m, t + 1) =< Cardinality(Due(m))
    <2>1. Len(delivered) = Rank(m, t)
      BY <1>1, <1>4, <1>6 DEF InOrder, CalledForAll
    <2>2. Len(delivered) \in Nat
      BY DEF IInv, TypeOK
    <2>3. Rank(m, t + 1) =< Cardinality(Due(m))
      BY DueFinite
    <2> QED BY <2>1, <2>2, <2>3, RankNext
  <1>11. Queued'
    <2>1. ASSUME NEW i \in 1 .. Len(c) - 1 PROVE d[i] = m[(t + 1) + i]
      <3>1. i + 1 \in 1 .. Len(c) /\ t + (i + 1) = (t + 1) + i
        BY <1>5
      <3> QED BY <1>5, <1>6, <3>1
    <2>2. Len(d) =< Len(m)
      BY <1>5, <1>6
    <2> QED BY <1>1, <1>2, <1>4, <1>5, <1>7, <2>1, <2>2 DEF Queued
  <1>12. Opened'
    <2> SUFFICES ASSUME NEW j \in 1 .. t + 1
                 PROVE  /\ m[j] # "Shutdown"
                        /\ m[j] \in {"Name", "Remove"} => thread' = "call" /\ current' = "Removed"
      BY <1>4, <1>7 DEF Opened
    <2>1. CASE j \in 1 .. t
      BY <1>8, <2>1
    <2>2. CASE j = t + 1
      BY <1>3, <1>4, <1>7, <1>9, <2>2 DEF AnyNotifyKind
    <2> QED BY <2>1, <2>2
  <1>13. CASE x = "Access"
    <2>1. delivered' = delivered /\ Rank(m, t + 1) = Rank(m, t)
      BY <1>4, <1>9, <1>10, <1>13
    <2>2. CalledForAll' /\ DeliveredInOrder'
      BY <1>1, <1>4, <1>7, <1>10, <2>1 DEF CalledForAll, InOrder, DeliveredInOrder
    <2> QED BY <1>11, <1>12, <2>2 DEF InOrder
  <1>14. CASE x # "Access"
    <2>1. PICK p \in Seq(ChangeKind) : p = delivered
      BY DEF IInv, TypeOK
    <2>2. PICK q : q = delivered'
      OBVIOUS
    <2>3. PICK n \in Nat : n = Len(p) /\ n = Rank(m, t) /\ n + 1 = Rank(m, t + 1)
      BY <1>9, <1>10, <1>14, <2>1
    <2>4. q = Append(p, Reported(x))
      BY <1>4, <1>9, <1>14, <2>1, <2>2
    <2>5. Len(q) = n + 1 /\ q[n + 1] = Reported(x) /\ \A i \in 1 .. n : q[i] = p[i]
      <3>1. PICK e \in ChangeKind : e = Reported(x)
        BY DEF Reported, ChangeKind
      <3>2. q = Append(p, e)
        BY <2>4, <3>1
      <3>3. Len(q) = Len(p) + 1 /\ q[Len(p) + 1] = e /\ \A i \in 1 .. Len(p) : q[i] = p[i]
        BY <3>2
      <3> QED BY <2>3, <3>1, <3>3
    <2>6. CalledForAll'
      BY <1>4, <1>7, <2>1, <2>2, <2>3, <2>5 DEF CalledForAll
    <2>7. ASSUME NEW i \in Due(m), Rank(m, i) =< n + 1
          PROVE  q[Rank(m, i)] = Reported(m[i])
      <3>1. Rank(m, i) \in Nat /\ i \in Nat
        BY DueFinite
      <3>2. CASE Rank(m, i) = n + 1
        <4>1. i = t + 1
          BY <1>9, <1>14, <2>3, <3>2, RankTells
        <4> QED BY <1>7, <2>5, <3>2, <4>1
      <3>3. CASE Rank(m, i) =< n
        <4>1. p[Rank(m, i)] = Reported(m[i])
          BY <1>1, <2>1, <2>3, <3>3 DEF InOrder, DeliveredInOrder
        <4>2. Rank(m, i) \in 1 .. n
          <5>1. IsFiniteSet({j \in Due(m) : j =< i}) /\ i \in {j \in Due(m) : j =< i}
            BY <3>1, DueFinite
          <5>2. Rank(m, i) # 0
            BY <5>1, FS_EmptySet DEF Rank
          <5> QED BY <3>1, <3>3, <5>2
        <4> QED BY <2>5, <4>1, <4>2
      <3> QED BY <2>7, <3>1, <3>2, <3>3
    <2>8. DeliveredInOrder'
      <3>1. Len(q) =< Cardinality(Due(m))
        BY <1>10, <2>3, <2>5
      <3> QED BY <1>4, <2>1, <2>2, <2>5, <2>7, <3>1 DEF DeliveredInOrder
    <2> QED BY <1>11, <1>12, <2>6, <2>8 DEF InOrder
  <1> QED BY <1>13, <1>14

(* Every step keeps the order.                                             *)
LEMMA NextInOrder ==
  ASSUME IInv, IInv', InOrder, [Next]_vars
  PROVE  InOrder'
  <1>1. CASE CreateWatcher \/ BackendStops \/ Join \/ UNCHANGED vars \/ \E by \in {"self", "other"} : DropWatcher(by)
    <2>1. /\ UNCHANGED <<channel, sent, delivered, thread, current>>
          /\ Receiving' => Receiving
      BY <1>1 DEF CreateWatcher, BackendStops, Join, DropWatcher, vars, Receiving
    <2> QED BY <2>1, IdleInOrder
  <1>2. CASE RegisterPath \/ SpawnDispatcher
    <2>1. CASE Abandon
      <3>1. ~Receiving'
        BY <1>2, <2>1 DEF Abandon, Receiving, RegisterPath, SpawnDispatcher, IInv, ThreadStarted, TypeOK
      <3> QED BY <1>2, <3>1, EndInOrder DEF RegisterPath, SpawnDispatcher
    <2>2. CASE ~Abandon
      <3>1. thread = "none"
        BY <1>2 DEF RegisterPath, SpawnDispatcher, IInv, ThreadStarted
      <3>2. UNCHANGED <<channel, sent, delivered>> /\ Receiving
        BY <1>2, <2>2 DEF RegisterPath, SpawnDispatcher, Receiving
      <3> QED BY <3>1, <3>2, IdleInOrder
    <2> QED BY <2>1, <2>2
  <1>3. CASE \E k \in NotifyKind : Notify(k)
    <2>1. PICK k \in NotifyKind : Notify(k)
      BY <1>3
    <2>2. k \in Message
      BY KindAssumption DEF Message
    <2> QED BY <2>1, <2>2, SentInOrder DEF Notify, Send
  <1>4. CASE Dispatch
    <2>1. CASE Head(channel) = "Shutdown"
      <3>1. thread' = "done" /\ UNCHANGED <<caller, sent, delivered>> /\ thread = "recv"
        BY <1>4, <2>1 DEF Dispatch, Exit
      <3>2. ~Receiving'
        BY <3>1 DEF Receiving, IInv, ThreadStarted
      <3> QED BY <3>1, <3>2, EndInOrder
    <2>2. CASE Head(channel) # "Shutdown"
      BY <1>4, <2>2, TakenInOrder
    <2> QED BY <2>1, <2>2
  <1>5. CASE CallbackReturns \/ CallbackPanics
    <2>1. CASE Exit
      <3>1. thread' = "done" /\ UNCHANGED <<caller, sent, delivered>> /\ thread = "call"
        BY <1>5, <2>1 DEF CallbackReturns, CallbackPanics, Exit
      <3>2. ~Receiving'
        BY <3>1 DEF Receiving, IInv, ThreadStarted
      <3> QED BY <3>1, <3>2, EndInOrder
    <2>2. CASE ~Exit
      <3>1. /\ current # "Removed" /\ thread = "call" /\ UNCHANGED <<channel, sent, delivered>>
        BY <1>5, <2>2 DEF CallbackReturns, CallbackPanics
      <3> QED BY <3>1, IdleInOrder DEF Receiving
    <2> QED BY <2>1, <2>2
  <1>6. CASE SendShutdown
    <2>1. CASE Receiving
      BY <1>6, <2>1, SentInOrder DEF SendShutdown, Send, Message
    <2>2. CASE ~Receiving
      <3>1. UNCHANGED <<channel, sent, delivered, thread>> /\ caller' \in {"dropped", "d_join"}
        BY <1>6, <2>2 DEF SendShutdown, Send
      <3>2. ~Receiving'
        BY <2>2, <3>1 DEF Receiving
      <3> QED BY <3>1, <3>2, EndInOrder
    <2> QED BY <2>1, <2>2
  <1> QED BY <1>1, <1>2, <1>3, <1>4, <1>5, <1>6 DEF Next

(* The dispatcher of watch(): the n-th call of the callback is the one for *)
(* the n-th reported event that is due, whatever is queued, suppressed or  *)
(* sent behind a removal or the shutdown message.                          *)
THEOREM OrderKept == Spec => []DeliveredInOrder
  <1>1. Init => InOrder
    <2> SUFFICES ASSUME Init PROVE InOrder
      OBVIOUS
    <2>1. Len(sent) = 0 /\ Len(channel) = 0 /\ Len(delivered) = 0 /\ DOMAIN sent = {} /\ DOMAIN channel = {}
      BY DEF Init
    <2>2. Due(sent) = {} /\ Taken = 0
      BY <2>1 DEF Due, Taken
    <2>3. Cardinality(Due(sent)) = 0 /\ Rank(sent, Taken) = 0
      BY <2>2, FS_EmptySet DEF Rank
    <2> QED BY <2>1, <2>2, <2>3 DEF InOrder, Queued, Opened, CalledForAll, DeliveredInOrder
  <1>2. IInv /\ IInv' /\ InOrder /\ [Next]_vars => InOrder'
    BY NextInOrder
  <1>3. InOrder => DeliveredInOrder
    BY DEF InOrder
  <1> QED BY <1>1, <1>2, <1>3, Invariance, PTL DEF Spec

=============================================================================
