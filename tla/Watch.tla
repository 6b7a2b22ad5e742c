------------------------------- MODULE Watch -------------------------------
(***************************************************************************)
(* A file watch (src/watch.rs): the notify backend queues events on a      *)
(* channel, a dispatcher thread takes them off and calls the user's        *)
(* callback, and the drop of the WatchHandle stops both.  The handle may   *)
(* be dropped by any thread, the dispatcher inside the callback included.  *)
(* The watched file itself is left out: the backend may report anything.   *)
(***************************************************************************)
EXTENDS Integers, Sequences, FiniteSets, SequencesExt

CONSTANTS
  NotifyKind,   (* what the backend reports, errors included               *)
  MaxEvents     (* events the backend queues in a behaviour                *)

(* The kinds that map_notify_kind tells apart, and notify's errors         *)
AnyNotifyKind == {"Create", "Data", "Metadata", "Name", "OtherModify", "Remove",
                  "Access", "Any", "Err"}

ASSUME KindAssumption   == NotifyKind \subseteq AnyNotifyKind
ASSUME EventsAssumption == MaxEvents \in Nat

VARIABLES
  caller,     (* how far watch(), and later the drop of the handle, are    *)
  dropper,    (* who drops the handle: the dispatcher itself or another    *)
  backend,    (* the notify watcher                                        *)
  channel,    (* the messages queued                                       *)
  thread,     (* the dispatcher thread                                     *)
  current,    (* the event of the running callback                         *)
  sent,       (* history: every message that was queued                    *)
  delivered,  (* history: the events the callback was called with          *)
  panicked    (* the callback has panicked                                 *)

vars == <<caller, dropper, backend, channel, thread, current, sent, delivered, panicked>>

Init ==
  /\ caller = "start" /\ dropper = "none"
  /\ backend = "none"
  /\ channel = <<>>
  /\ thread = "none" /\ current = "none"
  /\ sent = <<>> /\ delivered = <<>>
  /\ panicked = FALSE

(* Defect: a rename is a modification                                      *)
map_notify_kind_Rename(k) ==
  CASE k \in {"Create", "Data", "OtherModify", "Any", "Name"} -> "Modified"
    [] k = "Metadata" -> "Metadata"
    [] k = "Remove"   -> "Removed"
    [] k = "Access"   -> "none"

(* What the callback gets to see of a notify event; "none" is suppressed.  *)
map_notify_kind(k) ==
  CASE k \in {"Create", "Data", "OtherModify", "Any"} -> "Modified"
    [] k = "Metadata"          -> "Metadata"
    [] k \in {"Name", "Remove"} -> "Removed"
    [] k = "Access"            -> "none"

(* Notify's errors are surfaced as modifications, past map_notify_kind.    *)
change_kind(m) == IF m = "Err" THEN "Modified" ELSE map_notify_kind(m)

(* The receiver lives in watch() until the thread owns it.                 *)
Receiving ==
  \/ caller \in {"start", "created", "registered"}
  \/ thread \in {"recv", "call"}

(* mpsc::Sender::send: fails, and changes nothing, once the receiver is    *)
(* gone.                                                                   *)
Send(m) ==
  IF Receiving
  THEN channel' = Append(channel, m) /\ sent' = Append(sent, m)
  ELSE UNCHANGED <<channel, sent>>

-----------------------------------------------------------------------------
(***************************************************************************)
(* watch(): three calls that can fail                                      *)
(***************************************************************************)

CreateWatcher ==
  /\ caller = "start"
  /\ \/ caller' = "created" /\ backend' = "running"
     \/ caller' = "failed" /\ UNCHANGED backend
  /\ UNCHANGED <<dropper, channel, thread, current, sent, delivered, panicked>>

(* The error return drops the watcher and both ends of the channel.        *)
Abandon ==
  /\ caller' = "failed"
  /\ backend' = "stopping"
  /\ channel' = <<>>
  /\ UNCHANGED thread

RegisterPath ==
  /\ caller = "created"
  /\ \/ caller' = "registered" /\ UNCHANGED <<backend, channel, thread>>
     \/ Abandon
  /\ UNCHANGED <<dropper, current, sent, delivered, panicked>>

SpawnDispatcher ==
  /\ caller = "registered"
  /\ \/ caller' = "live" /\ thread' = "recv" /\ UNCHANGED <<backend, channel>>
     \/ Abandon
  /\ UNCHANGED <<dropper, current, sent, delivered, panicked>>

-----------------------------------------------------------------------------
(***************************************************************************)
(* The notify backend: external.  It reports events of a registered path   *)
(* from a thread of its own, and may go on for a while after the watcher   *)
(* was dropped: nothing in the crate waits for it.                         *)
(***************************************************************************)

Notify(k) ==
  /\ backend \in {"running", "stopping"}
  /\ caller # "created"
  /\ Len(SelectSeq(sent, LAMBDA m : m # "Shutdown")) < MaxEvents
  /\ Receiving
  /\ Send(k)
  /\ UNCHANGED <<caller, dropper, backend, thread, current, delivered, panicked>>

BackendStops ==
  /\ backend = "stopping"
  /\ backend' = "gone"
  /\ UNCHANGED <<caller, dropper, channel, thread, current, sent, delivered, panicked>>

-----------------------------------------------------------------------------
(***************************************************************************)
(* The dispatcher thread                                                   *)
(***************************************************************************)

(* The thread ends and the receiver goes, with what is still queued.       *)
Exit == thread' = "done" /\ channel' = <<>> /\ current' = "none"

(* Defect: a suppressed event ends the loop                                *)
Dispatch_EndsOnAccess ==
  /\ thread = "recv"
  /\ channel # <<>>
  /\ \/ /\ Head(channel) = "Shutdown"
        /\ Exit
        /\ UNCHANGED delivered
     \/ /\ Head(channel) # "Shutdown"
        /\ channel' = Tail(channel)
        /\ \/ /\ change_kind(Head(channel)) = "none"
              /\ thread' = "done"
              /\ UNCHANGED <<current, delivered>>
           \/ /\ change_kind(Head(channel)) # "none"
              /\ thread' = "call"
              /\ current' = change_kind(Head(channel))
              /\ delivered' = Append(delivered, current')
  /\ UNCHANGED <<caller, dropper, backend, sent, panicked>>

(* rx.recv() and the dispatch of one message.  The loop would also end     *)
(* when every sender is gone, but the handle's sender outlives the send of *)
(* the shutdown message, so that message always comes first.               *)
Dispatch ==
  /\ thread = "recv"
  /\ channel # <<>>
  /\ \/ /\ Head(channel) = "Shutdown"
        /\ Exit
        /\ UNCHANGED delivered
     \/ /\ Head(channel) # "Shutdown"
        /\ channel' = Tail(channel)
        /\ \/ /\ change_kind(Head(channel)) = "none"
              /\ UNCHANGED <<thread, current, delivered>>
           \/ /\ change_kind(Head(channel)) # "none"
              /\ thread' = "call"
              /\ current' = change_kind(Head(channel))
              /\ delivered' = Append(delivered, current')
  /\ UNCHANGED <<caller, dropper, backend, sent, panicked>>

(* The callback is not in the middle of dropping the handle.               *)
NotDropping == ~(dropper = "self" /\ caller \in {"d_send", "d_join"})

CallbackReturns ==
  /\ thread = "call" /\ NotDropping
  /\ \/ current = "Removed" /\ Exit
     \/ current # "Removed" /\ thread' = "recv" /\ current' = "none" /\ UNCHANGED channel
  /\ UNCHANGED <<caller, dropper, backend, sent, delivered, panicked>>

CallbackPanics ==
  /\ thread = "call" /\ NotDropping
  /\ Exit
  /\ panicked' = TRUE
  /\ UNCHANGED <<caller, dropper, backend, sent, delivered>>

-----------------------------------------------------------------------------
(***************************************************************************)
(* WatchHandle::drop                                                       *)
(***************************************************************************)

(* watcher.take()                                                          *)
DropWatcher(by) ==
  /\ caller = "live"
  /\ by = "self" => thread = "call"
  /\ caller' = "d_send" /\ dropper' = by
  /\ backend' = "stopping"
  /\ UNCHANGED <<channel, thread, current, sent, delivered, panicked>>

(* Defect: the dispatcher is told to stop and not waited for               *)
SendShutdown_NoJoin ==
  /\ caller = "d_send"
  /\ Send("Shutdown")
  /\ caller' = "dropped"
  /\ UNCHANGED <<dropper, backend, thread, current, delivered, panicked>>

(* Defect: the thread that drops is not compared with the dispatcher       *)
SendShutdown_JoinsItself ==
  /\ caller = "d_send"
  /\ Send("Shutdown")
  /\ caller' = "d_join"
  /\ UNCHANGED <<dropper, backend, thread, current, delivered, panicked>>

(* The dispatcher does not join itself.                                    *)
SendShutdown ==
  /\ caller = "d_send"
  /\ Send("Shutdown")
  /\ caller' = IF dropper = "self" THEN "dropped" ELSE "d_join"
  /\ UNCHANGED <<dropper, backend, thread, current, delivered, panicked>>

Join ==
  /\ caller = "d_join"
  /\ thread = "done"
  /\ caller' = "dropped"
  /\ UNCHANGED <<dropper, backend, channel, thread, current, sent, delivered, panicked>>

-----------------------------------------------------------------------------

Next ==
  \/ CreateWatcher \/ RegisterPath \/ SpawnDispatcher
  \/ (\E k \in NotifyKind : Notify(k)) \/ BackendStops
  \/ Dispatch \/ CallbackReturns \/ CallbackPanics
  \/ (\E by \in {"self", "other"} : DropWatcher(by)) \/ SendShutdown \/ Join

Spec == Init /\ [][Next]_vars

(* Threads run, and callbacks return or panic: a drop waits for a running  *)
(* callback by design.  A dropped watcher releases its sender in the end.  *)
(* Nobody has to drop the handle, and nothing has to be reported.          *)
Fairness ==
  /\ WF_vars(RegisterPath \/ SpawnDispatcher)
  /\ WF_vars(Dispatch) /\ WF_vars(CallbackReturns \/ CallbackPanics)
  /\ WF_vars(BackendStops)
  /\ WF_vars(SendShutdown) /\ WF_vars(Join)

FairSpec == Spec /\ Fairness

-----------------------------------------------------------------------------
(***************************************************************************)
(* Properties                                                              *)
(***************************************************************************)

ChangeKind == {"Modified", "Metadata", "Removed"}

(* Types of the watch and of its threads.                                  *)
TypeOK ==
  /\ caller \in {"start", "created", "registered", "live", "d_send", "d_join",
                 "dropped", "failed"}
  /\ dropper \in {"none", "self", "other"}
  /\ backend \in {"none", "running", "stopping", "gone"}
  /\ channel \in Seq(AnyNotifyKind \union {"Shutdown"})
  /\ thread \in {"none", "recv", "call", "done"}
  /\ current \in ChangeKind \union {"none"}
  /\ sent \in Seq(AnyNotifyKind \union {"Shutdown"})
  /\ delivered \in Seq(ChangeKind)
  /\ panicked \in BOOLEAN

(* The queued messages that are the callback's: what precedes the shutdown *)
(* message, without Access events, up to the first removal of the path     *)
Due(m) ==
  {i \in DOMAIN m : /\ m[i] \notin {"Access", "Shutdown"}
                    /\ \A j \in 1 .. i - 1 : m[j] \notin {"Shutdown", "Name", "Remove"}}

(* The how manyeth of them message i is                                    *)
Rank(m, i) == Cardinality({j \in Due(m) : j <= i})

Reported(x) ==
  CASE x = "Metadata"           -> "Metadata"
    [] x \in {"Name", "Remove"} -> "Removed"
    [] OTHER                    -> "Modified"

(* The callback sees what the backend reported, in order, every event      *)
(* once, no Access event, and nothing after a removal or behind the        *)
(* shutdown message, although the backend may still be queueing then: the  *)
(* n-th call is the one for the n-th message that is due.                  *)
DeliveredInOrder ==
  /\ Len(delivered) <= Cardinality(Due(sent))
  /\ \A i \in Due(sent) :
       Rank(sent, i) <= Len(delivered) => delivered[Rank(sent, i)] = Reported(sent[i])

(* When a drop by another thread has returned, no callback runs or will    *)
(* run.  The drop by the callback itself is the matter of                  *)
(* NoFurtherCallback.                                                      *)
NoCallbackAfterDrop ==
  caller = "dropped" /\ dropper = "other" => thread = "done"

(* "No callback runs after the drop returns", whoever drops: "the thread   *)
(* exits when the callback returns" (the docs of WatchHandle).  Violated   *)
(* by a drop inside the callback, as the run WatchSelfDrop shows: what was *)
(* queued before the shutdown message is still delivered.                  *)
NoFurtherCallback == [][caller = "dropped" => delivered' = delivered]_vars

(* A drop returns, wherever it happens, and after it, or after a watch()   *)
(* that failed, the dispatcher ends and the backend is gone: no thread     *)
(* joins itself, none waits for a message that will not come.              *)
WatchStops ==
  caller \in {"d_send", "failed"} ~>
    /\ caller \in {"dropped", "failed"}
    /\ thread \in {"none", "done"}
    /\ backend \in {"none", "gone"}

(* Every event that was queued before the shutdown and before a removal    *)
(* reaches the callback, unless a callback panics, watch() itself fails or *)
(* the callback drops the handle: a drop by another thread waits for what  *)
(* is queued.                                                              *)
EventsDelivered ==
  \A n \in 1 .. MaxEvents :
    Cardinality(Due(sent)) >= n ~>
      Len(delivered) >= n \/ panicked \/ caller = "failed" \/ dropper = "self"

=============================================================================
