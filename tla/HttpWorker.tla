----------------------------- MODULE HttpWorker -----------------------------
(***************************************************************************)
(* The host-owned HTTP worker (ui/agent_generation_http_io_worker.py): one *)
(* thread, a queue of one task, one caller at a time that waits for its    *)
(* task no longer than a bound.  A worker is a record; every operator is   *)
(* what one hold of the worker's lock does.                                *)
(*                                                                         *)
(* The states "starting" and "closing" never outlast one hold and are left *)
(* out.  The task of an earlier call can only still be in the queue or in  *)
(* the thread's hand, cancelled; the record "task" is the last call's.     *)
(***************************************************************************)
EXTENDS Naturals, Sequences

NoTask == [id |-> 0, kind |-> "none", req |-> 0, state |-> "collected",
           entered |-> FALSE, cancelled |-> FALSE, outcome |-> "unknown"]

InitWorker == [state |-> "created", thread |-> "none", task |-> NoTask, active |-> 0,
               queue |-> <<>>, hand |-> 0, posted |-> {}, unsure |-> {}]

ThreadEnded(w) == w.thread \in {"none", "stopped"}
InTransport(w) == w.thread \in {"transport", "posting"}
Closing(w) == w.state \in {"close_pending", "closed"}
TaskOver(w) == w.task.state \notin {"queued", "running"}

Unsure(w) == IF w.task.kind = "submission" THEN [w EXCEPT !.unsure = @ \cup {w.task.req}] ELSE w
Cancelled(t) ==
  [t EXCEPT !.state = "cancelled_before_transport",
            !.outcome = IF t.kind = "submission" THEN "rejected" ELSE "unknown"]

(* perform_for_characterization, up to the queue. *)
Refuses(w, kind, r) ==
  \/ w.state # "running" \/ w.active # 0 \/ w.queue # <<>>
  \/ kind = "submission" /\ r \in w.posted

(* Only a refusal that proves nothing can be sent is a rejection. *)
RefusalOutcome(w, kind, r) ==
  IF /\ kind = "submission" /\ r \notin w.posted /\ w.active = 0
     /\ w.state \in {"running", "created", "start_failed", "close_pending", "closed"}
  THEN "rejected" ELSE "unknown"

(* A full queue is found after the request was reserved. *)
Refused(w, kind, r) ==
  IF kind = "submission" /\ w.state = "running" /\ w.active = 0
  THEN [w EXCEPT !.posted = @ \cup {r}] ELSE w

Admitted(w, kind, r) ==
  LET id == w.task.id + 1
  IN  [w EXCEPT !.task = [NoTask EXCEPT !.id = id, !.kind = kind, !.req = r, !.state = "queued"],
                !.active = id, !.queue = <<id>>,
                !.posted = IF kind = "submission" THEN @ \cup {r} ELSE @]

(* Faulty variant: a running task is cancelled like a queued one. *)
TimedOutCancelled(w) == [w EXCEPT !.task = [Cancelled(@) EXCEPT !.cancelled = TRUE]]

(* Faulty variant: only a queued task is given up. *)
TimedOutQueued(w) ==
  IF w.task.state = "queued"
  THEN [w EXCEPT !.task = [Cancelled(@) EXCEPT !.cancelled = TRUE]] ELSE w

(* The caller's wait is over and the task is not. *)
TimedOut(w) ==
  IF w.task.state = "queued"
  THEN [w EXCEPT !.task = [Cancelled(@) EXCEPT !.cancelled = TRUE]]
  ELSE LET given == [w EXCEPT !.task.state = "abandoned"]
       IN  IF w.task.kind = "submission" THEN [Unsure(given) EXCEPT !.state = "uncertain"]
           ELSE given

(* What the caller takes from its task, "refused" when it has no result. *)
Lost(w) ==
  \/ w.state \in {"closed", "uncertain"} \/ w.active # w.task.id \/ w.task.state # "completed"

CollectedOutcome(w) ==
  IF w.task.state = "cancelled_before_transport" \/ ~Lost(w) THEN w.task.outcome ELSE "refused"

Collected(w) ==
  LET cleared == [w EXCEPT !.active = IF @ = w.task.id THEN 0 ELSE @, !.task.state = "collected"]
  IN  IF w.task.state = "cancelled_before_transport" THEN cleared
      ELSE IF Lost(w)
      THEN LET kept == IF InTransport(w) /\ w.hand = w.task.id
                       THEN [w EXCEPT !.task.state = "abandoned"] ELSE cleared
           IN  IF w.task.entered /\ w.task.kind = "submission" /\ w.task.state # "abandoned"
               THEN [Unsure(kept) EXCEPT !.state = "uncertain"] ELSE kept
      ELSE IF w.task.kind = "submission" /\ w.task.outcome = "unknown"
      THEN [Unsure(cleared) EXCEPT !.state = "uncertain"] ELSE cleared

(* request_close_for_characterization *)
CloseTask(w) ==
  IF w.active = 0 THEN w
  ELSE IF w.task.state = "queued"
  THEN [w EXCEPT !.task = [Cancelled(@) EXCEPT !.cancelled = TRUE]]
  ELSE LET given == [w EXCEPT !.task.state = "abandoned"]
       IN  IF w.task.entered THEN Unsure(given) ELSE given

RequestClose(w) ==
  IF w.state \in {"created", "closed"} THEN [w EXCEPT !.state = "closed"]
  ELSE [CloseTask(w) EXCEPT !.state = IF ThreadEnded(w) THEN "closed" ELSE "close_pending"]

(* close_for_characterization after its bounded join. *)
Joined(w) == [w EXCEPT !.state = IF ThreadEnded(w) THEN "closed" ELSE "close_pending"]

-----------------------------------------------------------------------------
(* The thread (_run). *)

Stops(w) == w.thread = "idle" /\ w.state \in {"close_pending", "uncertain"} /\ w.active = 0
Stopped(w) ==
  [w EXCEPT !.thread = "stopped",
            !.state = IF @ = "uncertain" THEN "uncertain_stopped" ELSE "closed"]

Taken(w) == [w EXCEPT !.thread = "holding", !.hand = Head(w.queue), !.queue = Tail(w.queue)]

(* The task in hand is run, unless it was cancelled or the worker closes. *)
Entered(w) ==
  IF w.hand # w.task.id THEN [w EXCEPT !.thread = "idle", !.hand = 0]
  ELSE IF w.task.cancelled \/ Closing(w)
  THEN [w EXCEPT !.thread = "idle", !.hand = 0,
                 !.active = IF @ = w.hand THEN 0 ELSE @,
                 !.task = IF @.state = "collected" THEN @ ELSE Cancelled(@)]
  ELSE [w EXCEPT !.thread = "transport", !.task.state = "running", !.task.entered = TRUE]

(* The transport returns; nobody may be waiting for the result any more. *)
TransportEnded(w, outcome) ==
  LET back == [w EXCEPT !.thread = "idle", !.hand = 0]
  IN  IF w.task.state = "abandoned" \/ Closing(w)
      THEN LET gone == [back EXCEPT !.active = 0, !.task.state = "discarded"]
           IN  IF w.task.kind # "submission" THEN gone
               ELSE [Unsure(gone) EXCEPT !.state = IF @ = "close_pending" THEN @ ELSE "uncertain"]
      ELSE [back EXCEPT !.task.state = "completed", !.task.outcome = outcome]
=============================================================================
