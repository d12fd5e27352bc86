---------------------------- MODULE HttpExecutor ----------------------------
(***************************************************************************)
(* One generation operation carried out by the executor adapter            *)
(* (ui/agent_generation_comfy_executor.py) with a journal                  *)
(* (ui/agent_generation_executor_journal.py) and the host-owned HTTP       *)
(* worker (ui/agent_generation_http_executor.py).                          *)
(*                                                                         *)
(* For each request in turn the adapter announces the submission, writes   *)
(* the intent, claims the send from the live host, has the worker post the *)
(* request, writes the outcome, reads the remote history, waits for the    *)
(* outputs to be registered in the Project and writes the settlement; only *)
(* then does the next request begin.  The adapter's call is sequential     *)
(* (one holds its lock, others return at once or wait for it); "pc" is     *)
(* where it is.  Next to it run the worker's thread, the publication of    *)
(* outputs, and whoever closes the worker or the journal, edits or         *)
(* replaces the Project, or lets the job expire.                           *)
(*                                                                         *)
(* A crash needs no action: what it leaves is the file and what was sent,  *)
(* and the properties about those two hold at every moment.  Restarting    *)
(* reads the file and resumes nothing.  Prompt ids, digests and file       *)
(* identities stand for the event they belong to.                          *)
(***************************************************************************)
EXTENDS HttpWorker, JournalFile

CONSTANTS
  N,              \* requests of the operation
  MaxReads,       \* bound: explicit reads of the history
  MaxOutputs      \* outputs of a request

ASSUME ExecutorAssumption == N \in Nat \ {0, 1} /\ MaxReads \in Nat /\ MaxOutputs \in Nat \ {0}

VARIABLES
  phase,          \* ComfyExecutorAdapter._phase
  idx,            \* ._index
  pc,             \* the step of the adapter's call
  reply,          \* the outcome the call carries
  reads,          \* explicit reads so far
  reported,       \* ._timeout_reported
  contained,      \* requests with a local receipt
  owner,          \* GenerationExecutorJournalIntent
  writer, file,   \* its journal
  w,              \* the HTTP worker
  joining,        \* a close waits for the worker's thread
  job,            \* the job in the registry
  cause,          \* .request_failure_causes
  target,         \* is the job's target still the session's?
  source,         \* is the Project still what it was, publications included?
  sent            \* history: the requests whose POST was begun

adapter == <<phase, idx, reply, reads, reported, contained>>
journals == <<owner, writer, file>>
host == <<job, cause, target, source>>
vars == <<adapter, pc, journals, w, joining, host, sent>>

J == INSTANCE GenerationJobs WITH
       MaxJobs <- 1, ActiveTTL <- 1, TerminalTTL <- 1, ReservationTTL <- 1, Requests <- N

Requests == 1..N

Init ==
  /\ phase = "not_taken" /\ idx = 1 /\ pc = "idle" /\ reply = "none"
  /\ reads = 0 /\ reported = FALSE /\ contained = {}
  /\ owner = [state |-> "unbound", closed |-> FALSE, index |-> 1,
              outcomes |-> [i \in Requests |-> "none"]]
  /\ writer = InitWriter /\ file = InitFile
  /\ w = InitWorker /\ joining = FALSE
  /\ job = J!NewJob(0, 0, 0)
  /\ cause = [i \in Requests |-> "none"]
  /\ target = TRUE /\ source = TRUE /\ sent = <<>>

-----------------------------------------------------------------------------
(* Events to the host (_emit, deliver_executor_event_for_characterization). *)

EventOf(kind, n) == [index |-> idx, kind |-> kind, sequence |-> job.count + 1, outputs |-> n]

Delivered(kind, n) == target /\ J!Live(job) /\ J!EventAccepted(job, EventOf(kind, n))

JobAfter(kind, n) ==
  IF ~J!Live(job) THEN job
  ELSE IF ~target THEN J!Finish(job, "stale_target_outputs_not_registered")
  ELSE IF Delivered(kind, n) THEN J!ApplyEvent(job, EventOf(kind, n)) ELSE job

EmitAs(kind, n, why) ==
  /\ job' = JobAfter(kind, n)
  /\ cause' = IF kind = "failed" /\ Delivered(kind, n) THEN [cause EXCEPT ![idx] = why] ELSE cause
  /\ UNCHANGED <<target, source>>

Emit(kind) == EmitAs(kind, 0, "none")

-----------------------------------------------------------------------------
(* What the journal's owner asks of the live host. *)

HostCurrent(state) ==
  target /\ source /\ J!Live(job) /\ job.reqs[idx].state = state

(* _multi_host_observation for a settlement. *)
SettlementObserved(disposition) ==
  LET req == job.reqs[idx]
  IN  /\ target /\ source
      /\ IF idx = N
         THEN job.state \in IF disposition = "execution_completed"
                            THEN {"completed", "partially_failed"} ELSE {"failed", "partially_failed"}
         ELSE J!Live(job)
      /\ IF disposition = "execution_completed"
         THEN /\ owner.outcomes[idx] = "accepted" /\ req.state = "completed"
              /\ cause[idx] = "none" /\ req.registered > 0 /\ req.registered = req.outputs
         ELSE /\ owner.outcomes[idx] = "pre_send_rejected" /\ req.state = "failed"
              /\ cause[idx] = "pre_send_rejected"

(* accepted_receipt = "characterized_acceptance" *)
AcceptedReceipt == target /\ (J!Live(job) \/ job.state \in J!Settled)

OwnerIs(state) == ~owner.closed /\ owner.state = state

(* _journal_send_intent_current *)
SendIntentCurrent ==
  /\ OwnerIs("send_permitted") /\ ~writer.uncertain
  /\ writer.events # <<>> /\ writer.events[Len(writer.events)] = Intent(idx)

(* _history_journal_tip_current; reading the file may also fail. *)
TipCurrent == ~owner.closed /\ ~writer.closed /\ ~writer.uncertain /\ file.events = writer.events

-----------------------------------------------------------------------------
(* The adapter's call ends, or goes on at another step. *)

Go(step) == pc' = step /\ UNCHANGED <<phase, idx>>
Return(p) == pc' = "idle" /\ phase' = p /\ UNCHANGED idx
Private == UNCHANGED <<reads, reported, contained>>
Quiet == UNCHANGED <<w, joining, sent>>

(* accept_and_run_for_characterization: take the envelope, bind the journal. *)
Accept ==
  /\ pc = "idle" /\ phase = "not_taken" /\ w.state = "running"
  /\ IF OwnerIs("unbound")
     THEN owner' = [owner EXCEPT !.state = "binding"] /\ Go("bind")
     ELSE owner' = owner /\ Go("unbound")
  /\ UNCHANGED <<reply, writer, file, host>> /\ Private /\ Quiet

Bind ==
  /\ pc = "bind"
  /\ IF AcceptedReceipt /\ HostCurrent("unsent") /\ OwnerIs("binding")
     THEN owner' = [owner EXCEPT !.state = "bound"] /\ pc' = "request" /\ phase' = "ready"
          /\ UNCHANGED idx
     ELSE owner' = [owner EXCEPT !.state = "refused"] /\ Go("unbound")
  /\ UNCHANGED <<reply, writer, file, host>> /\ Private /\ Quiet

(* A binding or an intent that failed: nothing is sent. *)
SendNothing ==
  /\ pc = "unbound" /\ Emit("failed") /\ Return("stopped")
  /\ UNCHANGED <<reply, journals>> /\ Private /\ Quiet

(* advance_for_characterization *)
Advance ==
  /\ pc = "idle" /\ phase = "ready" /\ Go("request")
  /\ UNCHANGED <<reply, journals, host>> /\ Private /\ Quiet

AdvanceSettled ==
  /\ pc = "idle" /\ phase = "awaiting_download" /\ job.reqs[idx].state = "completed"
  /\ reply' = "execution_completed" /\ Go("settle")
  /\ UNCHANGED <<journals, host>> /\ Private /\ Quiet

(* The head of the loop: the receipt, the preparation, the worker.  The    *)
(* first request uses the reservation that came with the acceptance.       *)
NextRequestBegins ==
  /\ pc = "request"
  /\ IF idx > N THEN Return("done")
     ELSE IF ~AcceptedReceipt THEN Return("stopped")
     ELSE IF idx > 1 /\ w.state # "running" THEN Return("ready")
     ELSE pc' = "start" /\ phase' = "submitting" /\ UNCHANGED idx
  /\ reply' = "none" /\ reported' = FALSE
  /\ UNCHANGED <<reads, contained, journals, host>> /\ Quiet

PreparationFails ==
  /\ pc = "request" /\ idx <= N /\ AcceptedReceipt
  /\ Emit("failed") /\ Return("stopped")
  /\ UNCHANGED <<reply, journals>> /\ Private /\ Quiet

(* submission_started, and the owner's first look at its own state. *)
Start ==
  /\ pc = "start" /\ Emit("submission_started")
  /\ IF ~Delivered("submission_started", 0) THEN Return("stopped") /\ UNCHANGED owner
     ELSE IF ~owner.closed /\ owner.state \in {"bound", "settled"} /\ owner.index = idx
     THEN owner' = [owner EXCEPT !.state = "intent_writing"] /\ Go("intent")
     ELSE Go("unbound") /\ UNCHANGED owner
  /\ UNCHANGED <<reply, writer, file>> /\ Private /\ Quiet

-----------------------------------------------------------------------------
(* Writing an event (_append_multi_and_verify). *)

(* Where the call goes when an event could not be written. *)
Unwritten(kind) ==
  CASE kind = "submission_intent" -> Go("unbound")
    [] kind = "submission_outcome" -> Go("unknown")
    [] OTHER -> Return("stopped")

Uncertain == owner' = [owner EXCEPT !.state = "uncertain"]

BeginWrite(e, allowed) ==
  IF allowed /\ Appendable(writer, file, e, N)
  THEN writer' = Begun(writer, e) /\ file' = WithTemp(file) /\ UNCHANGED owner /\ Go("write")
  ELSE Uncertain /\ UNCHANGED <<writer, file>> /\ Unwritten(e.kind)

WriteIntent ==
  /\ pc = "intent"
  /\ BeginWrite(Intent(idx), HostCurrent("submitting") /\ OwnerIs("intent_writing"))
  /\ UNCHANGED <<reply, host>> /\ Private /\ Quiet

Replace ==
  /\ pc = "write" /\ writer.step = "written"
  /\ writer' = Replaced(writer) /\ file' = WithEvent(file, writer)
  /\ UNCHANGED <<adapter, pc, owner, w, joining, host, sent>>

Acknowledge ==
  /\ pc = "write" /\ writer.step = "replaced"
  /\ writer' = Acknowledged(writer) /\ file' = WithoutLock(file) /\ Go("written")
  /\ UNCHANGED <<reply, owner, host>> /\ Private /\ Quiet

(* A fault of the file system, before or after the replacement. *)
WriteFails ==
  /\ pc = "write"
  /\ writer' = Failed(writer) /\ Uncertain /\ Unwritten(writer.event.kind)
  /\ UNCHANGED <<reply, file, host>> /\ Private /\ Quiet

(* The acknowledged file cannot be read again. *)
VerificationFails ==
  /\ pc = "written" /\ Uncertain /\ Unwritten(writer.event.kind)
  /\ UNCHANGED <<reply, writer, file, host>> /\ Private /\ Quiet

(* The owner takes the acknowledgment, unless it was closed meanwhile. *)
TakeIntent ==
  /\ pc = "written" /\ writer.event.kind = "submission_intent"
  /\ IF OwnerIs("intent_writing")
     THEN owner' = [owner EXCEPT !.state = "intent_acknowledged"] /\ Go("claim")
     ELSE Uncertain /\ Go("unbound")
  /\ UNCHANGED <<reply, writer, file, host>> /\ Private /\ Quiet

TakeOutcome ==
  /\ pc = "written" /\ writer.event.kind = "submission_outcome"
  /\ IF OwnerIs("result_writing")
     THEN owner' = [owner EXCEPT
            !.outcomes[idx] = writer.event.value,
            !.state = IF writer.event.value = "unknown" THEN "outcome_unknown" ELSE "result_observed"]
          /\ Go("recorded")
     ELSE Uncertain /\ Go("unknown")
  /\ UNCHANGED <<reply, writer, file, host>> /\ Private /\ Quiet

TakeSettlement ==
  /\ pc = "written" /\ writer.event.kind = "request_settlement"
  /\ IF OwnerIs("settlement_writing")
     THEN /\ owner' = [owner EXCEPT !.state = "settled", !.index = @ + 1]
          /\ idx' = idx + 1 /\ phase' = "ready" /\ pc' = "request"
     ELSE Uncertain /\ Return("stopped")
  /\ UNCHANGED <<reply, writer, file, host>> /\ Private /\ Quiet

-----------------------------------------------------------------------------
(* The send. *)

ClaimSend ==
  /\ pc = "claim"
  /\ IF HostCurrent("submitting") /\ OwnerIs("intent_acknowledged")
     THEN owner' = [owner EXCEPT !.state = "send_permitted"] /\ Go("submit")
     ELSE owner' = [owner EXCEPT !.state = IF @ = "intent_acknowledged" THEN "no_send" ELSE @]
          /\ Go("unbound")
  /\ UNCHANGED <<reply, writer, file, host>> /\ Private /\ Quiet

(* worker_submission, up to the worker's queue. *)
Submit ==
  /\ pc = "submit"
  /\ IF ~SendIntentCurrent \/ ~HostCurrent("submitting")
     THEN reply' = "rejected" /\ w' = w /\ Go("record")
     ELSE IF Refuses(w, "submission", idx)
     THEN /\ reply' = RefusalOutcome(w, "submission", idx) /\ w' = Refused(w, "submission", idx)
          /\ Go(IF reply' = "rejected" THEN "recheck" ELSE "record")
     ELSE reply' = "none" /\ w' = Admitted(w, "submission", idx) /\ Go("wait")
  /\ UNCHANGED <<journals, joining, host, sent>> /\ Private

(* The bounded wait for the worker. *)
Timeout ==
  /\ pc = "wait" /\ ~TaskOver(w) /\ w' = TimedOut(w)
  /\ UNCHANGED <<adapter, pc, journals, joining, host, sent>>

Collect ==
  /\ pc = "wait" /\ TaskOver(w)
  /\ reply' = IF CollectedOutcome(w) = "refused" THEN "unknown" ELSE CollectedOutcome(w)
  /\ w' = Collected(w)
  /\ Go(IF w.task.kind = "history" THEN "finish"
        ELSE IF CollectedOutcome(w) = "refused" THEN "record" ELSE "recheck")
  /\ UNCHANGED <<journals, joining, host, sent>> /\ Private

(* A result counts only while intent and host are still current. *)
Recheck ==
  /\ pc = "recheck"
  /\ reply' = IF SendIntentCurrent /\ HostCurrent("submitting") THEN reply ELSE "unknown"
  /\ IF SendIntentCurrent THEN UNCHANGED <<w, joining>>
     ELSE w' = RequestClose(w) /\ joining' = TRUE
  /\ Go("record")
  /\ UNCHANGED <<journals, host, sent>> /\ Private

(* Faulty variant: what is not known to be accepted was not sent. *)
JournalOutcomeBold == IF reply = "accepted" THEN reply ELSE "pre_send_rejected"

JournalOutcome == IF reply = "rejected" THEN "pre_send_rejected" ELSE reply

(* record_submission_result_for_characterization *)
Record ==
  /\ pc = "record"
  /\ IF ~OwnerIs("send_permitted") THEN Go("unknown") /\ UNCHANGED journals
     ELSE IF Appendable(writer, file, Outcome(idx, JournalOutcome), N)
     THEN /\ owner' = [owner EXCEPT !.state = "result_writing"]
          /\ writer' = Begun(writer, Outcome(idx, JournalOutcome))
          /\ file' = WithTemp(file) /\ Go("write")
     ELSE Uncertain /\ UNCHANGED <<writer, file>> /\ Go("unknown")
  /\ UNCHANGED <<reply, host>> /\ Private /\ Quiet

(* Whether the request was sent is not known: the sequence stops. *)
StopUnknown ==
  /\ pc = "unknown" /\ Emit("submission_unknown") /\ Return("stopped")
  /\ UNCHANGED <<reply, journals>> /\ Private /\ Quiet

(* The recorded outcome reaches the host. *)
Recorded ==
  /\ pc = "recorded"
  /\ CASE owner.outcomes[idx] = "accepted" ->
            /\ Emit("submitted")
            /\ IF Delivered("submitted", 0)
               THEN pc' = "history" /\ phase' = "awaiting_remote_result" /\ UNCHANGED idx
               ELSE Return("stopped")
       [] owner.outcomes[idx] = "pre_send_rejected" ->
            /\ EmitAs("failed", 0, "pre_send_rejected")
            /\ IF Delivered("failed", 0) THEN Go("settle") ELSE Return("stopped")
       [] OTHER -> Emit("submission_unknown") /\ Return("stopped")
  /\ reply' = owner.outcomes[idx]
  /\ UNCHANGED journals /\ Private /\ Quiet

-----------------------------------------------------------------------------
(* The settlement (settle_request_for_characterization). *)

Settle ==
  /\ pc = "settle"
  /\ IF OwnerIs("result_observed")
     THEN owner' = [owner EXCEPT !.state = "settlement_writing"] /\ Go("issue")
     ELSE UNCHANGED owner /\ Return("stopped")
  /\ UNCHANGED <<reply, writer, file, host>> /\ Private /\ Quiet

WriteSettlement ==
  /\ pc = "issue"
  /\ BeginWrite(Settlement(idx, reply), SettlementObserved(reply))
  /\ UNCHANGED <<reply, host>> /\ Private /\ Quiet

-----------------------------------------------------------------------------
(* The history of an accepted request (_read_history_with_custody). *)

ReadCurrentHistory ==
  /\ pc = "idle" /\ phase = "awaiting_remote_result" /\ reads < MaxReads
  /\ reads' = reads + 1 /\ Go("history")
  /\ UNCHANGED <<reply, reported, contained, journals, host>> /\ Quiet

BeginHistory ==
  /\ pc = "history"
  /\ IF ~OwnerIs("result_observed") THEN UNCHANGED owner /\ Return("stopped")
     ELSE IF TipCurrent /\ HostCurrent("awaiting_result")
     THEN owner' = [owner EXCEPT !.state = "history_reading"] /\ Go("read")
     ELSE Uncertain /\ Return("stopped")
  /\ UNCHANGED <<reply, writer, file, host>> /\ Private /\ Quiet

Read ==
  /\ pc = "read"
  /\ IF owner.state # "history_reading" \/ Refuses(w, "history", idx)
     THEN reply' = "unknown" /\ w' = w /\ Go("finish")
     ELSE reply' = "none" /\ w' = Admitted(w, "history", idx) /\ Go("wait")
  /\ UNCHANGED <<journals, joining, host, sent>> /\ Private

FinishHistory ==
  /\ pc = "finish"
  /\ IF ~OwnerIs("history_reading") THEN UNCHANGED owner /\ Return("stopped")
     ELSE IF TipCurrent /\ HostCurrent("awaiting_result")
     THEN owner' = [owner EXCEPT !.state = "result_observed"] /\ Go("result")
     ELSE Uncertain /\ Return("stopped")
  /\ UNCHANGED <<reply, writer, file, host>> /\ Private /\ Quiet

(* The journal cannot be read again, when the lease is taken or returned. *)
TipUnreadable ==
  /\ \/ pc = "history" /\ OwnerIs("result_observed")
     \/ pc = "finish" /\ OwnerIs("history_reading")
  /\ Uncertain /\ Return("stopped")
  /\ UNCHANGED <<reply, writer, file, host>> /\ Private /\ Quiet

(* receive_result_for_characterization *)
ReceiveReady ==
  /\ pc = "result" /\ reply = "ready" /\ Emit("remote_outputs_ready")
  /\ Return(IF Delivered("remote_outputs_ready", 0) THEN "awaiting_download" ELSE "stopped")
  /\ UNCHANGED <<reply, journals>> /\ Private /\ Quiet

ReceiveTimeout ==
  /\ pc = "result" /\ reply = "timeout" /\ ~reported /\ Emit("execution_timeout")
  /\ reported' = Delivered("execution_timeout", 0)
  /\ Return(IF Delivered("execution_timeout", 0) THEN "awaiting_remote_result" ELSE "stopped")
  /\ UNCHANGED <<reply, reads, contained, journals>> /\ Quiet

(* Pending, unknown, reported before, or metadata that does not validate. *)
ReceiveNothing ==
  /\ pc = "result" /\ (reply = "timeout" => reported) /\ Return("awaiting_remote_result")
  /\ UNCHANGED <<reply, journals, host>> /\ Private /\ Quiet

-----------------------------------------------------------------------------
(* The outputs (contain_local_outputs_for_characterization, publication). *)

Contain ==
  /\ pc = "idle" /\ phase = "awaiting_download" /\ idx \notin contained
  /\ phase' = IF HostCurrent("awaiting_download") THEN "containing_outputs" ELSE "stopped"
  /\ UNCHANGED <<idx, pc, reply, reads, reported, contained, journals, w, joining, host, sent>>

OutputsIncomplete ==
  /\ phase = "containing_outputs" /\ contained' = contained \cup {idx}
  /\ phase' \in {"awaiting_download", "stopped"}
  /\ UNCHANGED <<idx, pc, reply, reads, reported, journals, w, joining, host, sent>>

OutputsReady ==
  /\ phase = "containing_outputs" /\ contained' = contained \cup {idx}
  /\ IF HostCurrent("awaiting_download")
     THEN EmitAs("outputs_ready", MaxOutputs, "none") /\ phase' = "awaiting_download"
     ELSE phase' = "stopped" /\ UNCHANGED host
  /\ UNCHANGED <<idx, pc, reply, reads, reported, journals, w, joining, sent>>

Publish(n) ==
  LET registry == [closed |-> FALSE, target |-> 0, jobs |-> <<job>>]
  IN  /\ target /\ source /\ \E i \in Requests :
           /\ job.reqs[i].state = "awaiting_host_registration"
           /\ job' = J!Publication(registry, 1, 0, i, n).jobs[1]
      /\ UNCHANGED <<adapter, pc, journals, w, joining, cause, target, source, sent>>

-----------------------------------------------------------------------------
(* The others. *)

(* The Project is closed or replaced, the session disarmed or closed. *)
TargetChanges ==
  /\ target /\ target' = FALSE
  /\ job' = IF J!Live(job) THEN J!Finish(job, "stale_target_outputs_not_registered") ELSE job
  /\ UNCHANGED <<adapter, pc, journals, w, joining, cause, source, sent>>

JobExpires ==
  /\ J!Live(job) /\ job' = J!Finish(job, "unavailable")
  /\ UNCHANGED <<adapter, pc, journals, w, joining, cause, target, source, sent>>

ProjectEdited ==
  /\ source /\ source' = FALSE
  /\ UNCHANGED <<adapter, pc, journals, w, joining, job, cause, target, sent>>

(* GenerationExecutorJournalIntent.close *)
CloseOwner ==
  /\ ~owner.closed
  /\ owner' = [owner EXCEPT !.closed = TRUE,
       !.state = IF @ \in {"send_permitted", "result_writing", "history_reading"} THEN "uncertain"
                 ELSE IF @ \in {"unbound", "binding", "bound", "intent_writing",
                                "intent_acknowledged", "result_observed"} THEN "closed" ELSE @]
  /\ writer' = IF owner.state \in {"unbound", "binding", "refused"} THEN writer ELSE Closed(writer)
  /\ UNCHANGED <<adapter, pc, file, w, joining, host, sent>>

StartWorker ==
  /\ w.state = "created"
  /\ w' \in {[w EXCEPT !.state = "running", !.thread = "idle"], [w EXCEPT !.state = "start_failed"]}
  /\ UNCHANGED <<adapter, pc, journals, joining, host, sent>>

CloseWorker ==
  /\ w' = RequestClose(w) /\ joining' = (w.state \notin {"created", "closed"})
  /\ UNCHANGED <<adapter, pc, journals, host, sent>>

JoinReturns ==
  /\ joining /\ joining' = FALSE /\ w' = Joined(w)
  /\ UNCHANGED <<adapter, pc, journals, host, sent>>

-----------------------------------------------------------------------------
(* The worker's thread and its transport (core/comfy_http_submission.py). *)

ThreadTakes ==
  /\ w.thread = "idle" /\ w.queue # <<>> /\ w' = Taken(w)
  /\ UNCHANGED <<adapter, pc, journals, joining, host, sent>>

ThreadEnters ==
  /\ w.thread = "holding" /\ w' = Entered(w)
  /\ UNCHANGED <<adapter, pc, journals, joining, host, sent>>

ThreadStops ==
  /\ Stops(w) /\ w' = Stopped(w)
  /\ UNCHANGED <<adapter, pc, journals, joining, host, sent>>

(* Connected: from here the request may have reached the server. *)
Post ==
  /\ w.thread = "transport" /\ w.task.kind = "submission"
  /\ w' = [w EXCEPT !.thread = "posting"] /\ sent' = Append(sent, w.task.req)
  /\ UNCHANGED <<adapter, pc, journals, joining, host>>

(* Only a transport that did not post can say so. *)
TransportReturns ==
  /\ InTransport(w)
  /\ \E outcome \in IF w.task.kind = "history" THEN {"ready", "pending", "timeout", "unknown"}
                    ELSE IF w.thread = "posting" THEN {"accepted", "unknown"}
                    ELSE {"rejected", "unknown"} :
       w' = TransportEnded(w, outcome)
  /\ UNCHANGED <<adapter, pc, journals, joining, host, sent>>
-----------------------------------------------------------------------------
Write == WriteIntent \/ Replace \/ Acknowledge \/ WriteFails \/ VerificationFails
         \/ TakeIntent \/ TakeOutcome \/ TakeSettlement
Send == Start \/ ClaimSend \/ Submit \/ Timeout \/ Collect \/ Recheck \/ Record
        \/ Recorded \/ StopUnknown \/ SendNothing \/ Settle \/ WriteSettlement
History == BeginHistory \/ Read \/ FinishHistory \/ TipUnreadable
           \/ ReceiveReady \/ ReceiveTimeout \/ ReceiveNothing
Call == Bind \/ NextRequestBegins \/ PreparationFails \/ Send \/ Write \/ History
Calls == Accept \/ Advance \/ AdvanceSettled \/ ReadCurrentHistory \/ Contain
Outputs == OutputsIncomplete \/ OutputsReady \/ \E n \in 0..MaxOutputs : Publish(n)
Others == TargetChanges \/ JobExpires \/ ProjectEdited \/ CloseOwner
          \/ StartWorker \/ CloseWorker \/ JoinReturns
Thread == ThreadTakes \/ ThreadEnters \/ ThreadStops

Next == Call \/ Calls \/ Outputs \/ Others \/ Thread \/ Post \/ TransportReturns

Spec == Init /\ [][Next]_vars

(* The call's own steps and the thread's are taken; the wait ends at its   *)
(* bound.  Nothing is assumed of the transport.                            *)
FairSpec == Spec /\ WF_vars(Call) /\ WF_vars(Thread)

-----------------------------------------------------------------------------
Sent == {sent[k] : k \in 1..Len(sent)}
OnFile(e) == \E k \in 1..Len(file.events) : file.events[k] = e

(* Whoever finds the file after a crash at any moment may rely on it: a    *)
(* request without an intent was not sent, one recorded as rejected before *)
(* the send was not sent either, one settled as completed had all its      *)
(* outputs registered (agent_generation_executor_journal.py).              *)
FileTellsSends ==
  \A i \in Requests :
    /\ i \in Sent => OnFile(Intent(i)) /\ ~OnFile(Outcome(i, "pre_send_rejected"))
    /\ OnFile(Outcome(i, "accepted")) => i \in Sent
    /\ OnFile(Settlement(i, "execution_completed")) =>
         i \in Sent /\ job.reqs[i].state = "completed" /\ job.reqs[i].registered = job.reqs[i].outputs

(* A request is posted once, under an intent the journal acknowledged, and *)
(* after every earlier request was settled in it.  A POST may begin after  *)
(* the host has given up waiting for it, but then the journal's last word  *)
(* is that nobody knows (_acknowledge_multi_intent, TimedOut, Record).     *)
SendsInOrder ==
  [][sent' # sent =>
       LET r == sent'[Len(sent')]
       IN  /\ r \notin Sent /\ r = NextRequest(file.events)
           /\ \E k \in 1..Len(writer.events) : writer.events[k] = Intent(r)
           /\ file.events[Len(file.events)] \in {Intent(r), Outcome(r, "unknown")}]_vars

(* A transport that hangs holds nobody: a call of the adapter returns even *)
(* if it never does (perform_for_characterization's bounded wait), and a   *)
(* worker that was closed, or that lost track of a submission, ends its    *)
(* thread unless the thread is stuck in the transport (_run).              *)
CallReturns == pc # "idle" ~> pc = "idle"
NobodyHangs ==
  /\ CallReturns
  /\ []<>~InTransport(w) =>
       (w.state \in {"close_pending", "uncertain"} ~> ThreadEnded(w))
=============================================================================
