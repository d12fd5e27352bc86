--------------------------- MODULE GenerationJobs ---------------------------
(***************************************************************************)
(* The session's generation job registry (ui/agent_generation_job.py) and  *)
(* the executor inbox of one envelope (ui/agent_generation_executor_inbox  *)
(* .py).  A registry and an inbox are records; every operator is what one  *)
(* call does under the object's lock, cleanup of passed deadlines          *)
(* included.                                                               *)
(*                                                                         *)
(* A deadline is kept as the time left to it: Tick counts it down, and     *)
(* "now >= deadline" is left = 0.  Jobs are numbered in the order in which *)
(* they are made, and a job's number stands for its claim and the claim's  *)
(* key too, which are drawn once per job.                                  *)
(* Event histories are left out: an event number that was counted before   *)
(* changes nothing, whether it is still remembered or not.                 *)
(***************************************************************************)
EXTENDS Integers, FiniteSets

CONSTANTS
  MaxJobs,          \* MAX_JOBS
  ActiveTTL,        \* ACTIVE_TTL
  TerminalTTL,      \* TERMINAL_TTL
  ReservationTTL,   \* RESERVATION_TTL
  Requests,         \* requests of a job
  MaxOutputs        \* MAX_OUTPUTS_PER_REQUEST

ASSUME JobsAssumption ==
  /\ MaxJobs \in Nat \ {0} /\ ActiveTTL \in Nat \ {0} /\ TerminalTTL \in Nat \ {0}
  /\ ReservationTTL \in Nat \ {0} /\ Requests \in Nat \ {0} /\ MaxOutputs \in Nat \ {0}

Settled == {"completed", "partially_failed", "failed"}
Terminal == Settled \cup {"submission_outcome_unknown", "stale_target_outputs_not_registered",
                          "unavailable", "cancelled", "expired"}
Kinds == {"submission_started", "submitted", "execution_progress", "execution_timeout",
          "remote_outputs_ready", "outputs_ready", "failed", "submission_unknown"}
OutputKinds == {"outputs_ready", "remote_outputs_ready"}

Live(j) == j.state \notin Terminal

(* A new job, prepared and claimed in one hold of the lock. *)
NewJob(proposal, target, pairing) ==
  [proposal |-> proposal, target |-> target, pairing |-> pairing,
   state |-> "claimed", save |-> "not_attempted", count |-> 0, left |-> ActiveTTL,
   reqs |-> [i \in 1..Requests |-> [state |-> "unsent", outputs |-> 0, registered |-> 0]]]

InitRegistry == [closed |-> FALSE, target |-> 0, jobs |-> <<>>]

Finish(j, state) == [j EXCEPT !.state = state, !.left = TerminalTTL]

(* Faulty variant: only ended jobs have a deadline. *)
CleanupEnded(r) ==
  [r EXCEPT !.jobs = [id \in {i \in DOMAIN @ : @[i].left > 0 \/ Live(@[i])} |-> @[id]]]

(* Terminal jobs past their deadline are forgotten, others time out. *)
Cleanup(r) ==
  LET kept == {id \in DOMAIN r.jobs : r.jobs[id].left > 0 \/ Live(r.jobs[id])}
  IN  [r EXCEPT !.jobs = [id \in kept |->
         IF r.jobs[id].left = 0 THEN Finish(r.jobs[id], "unavailable") ELSE r.jobs[id]]]

FinishAll(r, ids, state) ==
  [r EXCEPT !.jobs = [id \in DOMAIN r.jobs |->
     IF id \in ids /\ Live(r.jobs[id]) THEN Finish(r.jobs[id], state) ELSE r.jobs[id]]]

SynchronizeTarget(r, target) ==
  LET c == Cleanup(r)
  IN  FinishAll([c EXCEPT !.target = target], {id \in DOMAIN c.jobs : c.jobs[id].target # target},
                "stale_target_outputs_not_registered")

InvalidateExecutionCustody(r) == FinishAll(r, DOMAIN r.jobs, "unavailable")

CloseRegistry(r) == [InvalidateExecutionCustody(r) EXCEPT !.closed = TRUE]

Has(r, id) == ~r.closed /\ id \in DOMAIN r.jobs
SetJob(r, id, job) == [r EXCEPT !.jobs[id] = job]

(* claim_authorized_for_characterization: prepare and claim. *)
CanClaim(r, target) ==
  ~r.closed /\ target = r.target /\ \A id \in DOMAIN r.jobs : ~Live(r.jobs[id])

(* The oldest job gives way to the new one. *)
ClaimAuthorized(r, new, job) ==
  LET ids == DOMAIN r.jobs
      kept == IF Cardinality(ids) < MaxJobs THEN ids ELSE {id \in ids : \E k \in ids : k < id}
  IN  [r EXCEPT !.jobs = [id \in kept \cup {new} |-> IF id = new THEN job ELSE r.jobs[id]]]

(* Request states. *)
After(before, kind) ==
  CASE before = "unsent" /\ kind = "submission_started" -> "submitting"
    [] before = "submitting" /\ kind = "submitted" -> "awaiting_result"
    [] before = "awaiting_result" /\ kind \in {"execution_progress", "execution_timeout"}
         -> "awaiting_result"
    [] before = "awaiting_result" /\ kind = "remote_outputs_ready" -> "awaiting_download"
    [] before \in {"awaiting_result", "awaiting_download"} /\ kind = "outputs_ready"
         -> "awaiting_host_registration"
    [] before \in {"unsent", "submitting", "awaiting_result"} /\ kind = "failed" -> "failed"
    [] before = "submitting" /\ kind = "submission_unknown" -> "submission_outcome_unknown"
    [] OTHER -> "invalid"

Aggregate(j) ==
  LET states == {j.reqs[i].state : i \in 1..Requests}
  IN  IF states \subseteq Settled
      THEN Finish(j, IF states = {"completed"} THEN "completed"
                     ELSE IF \E i \in 1..Requests : j.reqs[i].registered > 0
                     THEN "partially_failed" ELSE "failed")
      ELSE [j EXCEPT !.state = IF "submitting" \in states THEN "running" ELSE "awaiting_result"]

EventAccepted(j, e) ==
  /\ e.sequence = j.count + 1
  /\ After(j.reqs[e.index].state, e.kind) # "invalid"
  /\ j.reqs[e.index].state = "unsent" =>
       \A k \in 1..(e.index - 1) : j.reqs[k].state \in Settled

(* event_for_characterization on a live job. *)
ApplyEvent(j, e) ==
  LET req == j.reqs[e.index]
      after == After(req.state, e.kind)
      keeps == e.kind \in {"remote_outputs_ready", "execution_progress", "execution_timeout"}
      next == [j EXCEPT !.count = j.count + 1,
                        !.reqs[e.index] = [req EXCEPT !.state = after,
                                             !.outputs = IF keeps THEN req.outputs ELSE e.outputs]]
  IN  IF after = "submission_outcome_unknown" THEN Finish(next, after) ELSE Aggregate(next)

(* publication_for_characterization: the host registered n outputs. *)
Publication(r, id, binding, i, n) ==
  LET c == Cleanup(r)
      j == c.jobs[id]
      req == j.reqs[i]
  IN  IF ~Has(c, id) THEN c
      ELSE IF binding # j.target \/ binding # c.target
           THEN IF Live(j) THEN SetJob(c, id, Finish(j, "stale_target_outputs_not_registered")) ELSE c
      ELSE IF (req.outputs > 0 /\ req.state \in Settled) \/ ~Live(j)
              \/ req.state # "awaiting_host_registration" \/ n > req.outputs THEN c
      ELSE SetJob(c, id, Aggregate([j EXCEPT !.reqs[i] =
             [req EXCEPT !.registered = n,
                       !.state = IF n = req.outputs THEN "completed"
                                 ELSE IF n > 0 THEN "partially_failed" ELSE "failed"]]))

(* save_for_characterization: the outcome is recorded once. *)
Save(r, id, binding, outcome) ==
  LET c == Cleanup(r)
      j == c.jobs[id]
  IN  IF /\ Has(c, id) /\ binding = j.target /\ binding = c.target
         /\ j.state \in {"completed", "partially_failed"} /\ j.save = "not_attempted"
      THEN SetJob(c, id, [j EXCEPT !.save = outcome]) ELSE c

CancelBeforeSubmission(r, id) ==
  LET c == Cleanup(r)
      j == c.jobs[id]
  IN  IF Has(c, id) /\ Live(j) /\ \A i \in 1..Requests : j.reqs[i].state = "unsent"
      THEN SetJob(c, id, Finish(j, "cancelled")) ELSE c

(* settle_handoff_for_characterization: only a job nobody has started. *)
SettleHandoff(r, id, outcome) ==
  IF Has(r, id) /\ r.jobs[id].state = "claimed"
  THEN SetJob(r, id, Finish(r.jobs[id], IF outcome = "rejected" THEN "failed"
                                    ELSE "submission_outcome_unknown"))
  ELSE r

-----------------------------------------------------------------------------
(* The inbox. *)

EmptyInbox == [closed |-> FALSE, state |-> "empty", reservation |-> 0, job |-> 0,
               left |-> 0, late |-> FALSE]

ClearInbox(x) == [EmptyInbox EXCEPT !.closed = x.closed]

(* An expired reservation gives way to the next one. *)
Reservable(x) == ~x.closed /\ (x.state = "empty" \/ (x.state = "reserved" /\ x.left = 0))
Reserve(x, reservation) ==
  [ClearInbox(x) EXCEPT !.state = "reserved", !.reservation = reservation,
                        !.left = ReservationTTL]
Reserved(x, reservation) ==
  ~x.closed /\ x.state = "reserved" /\ x.reservation = reservation /\ x.left > 0
Release(x, reservation) ==
  IF x.state = "reserved" /\ x.reservation = reservation THEN ClearInbox(x) ELSE x
Commit(x, id) == [x EXCEPT !.state = "offered", !.job = id]

(* accept_for_characterization: the executor takes the envelope. *)
Acceptable(x, r, id) ==
  x.job = id /\ id # 0 /\ ~x.closed /\ Has(r, id) /\ Live(r.jobs[id]) /\ x.state = "offered"

(* Faulty variant: a refusal is believed after an acceptance. *)
SettledBelieved(x, outcome) == outcome

(* A rejection counts only while nobody has taken the envelope. *)
SettledAs(x, outcome) == IF outcome = "rejected" /\ x.state # "offered" THEN "unknown" ELSE outcome

Settles(x, id) == x.job = id /\ id # 0 /\ x.state \in {"offered", "accepted"}
SettleInbox(x, outcome) ==
  IF SettledAs(x, outcome) = "rejected" THEN ClearInbox(x) ELSE [x EXCEPT !.state = "unknown"]
SettleJob(r, x, id, outcome) ==
  IF Has(r, id) /\ Live(r.jobs[id])
  THEN SetJob(r, id, Finish(r.jobs[id], IF SettledAs(x, outcome) = "rejected" THEN "failed"
                                    ELSE "submission_outcome_unknown"))
  ELSE r

InvalidateInbox(x) == IF x.job = 0 THEN ClearInbox(x) ELSE [x EXCEPT !.state = "invalidated"]
CloseInbox(x) == [InvalidateInbox(x) EXCEPT !.closed = TRUE]

(* accepted_receipt: what the handoff answers after the executor said yes. *)
AcceptedReceipt(x, r, id) ==
  IF x.job # id THEN "stale_receipt"
  ELSE IF \/ x.closed \/ ~Has(r, id) \/ x.state = "invalidated" \/ r.jobs[id].target # r.target
          \/ (~Live(r.jobs[id]) /\ r.jobs[id].state \notin Settled) THEN "handoff_invalidated"
  ELSE IF x.state = "accepted" THEN "characterized_acceptance" ELSE "handoff_unknown"

(* event_for_characterization of the inbox, the registry cleaned up.       *)
LateEvent(x, r, id, current) ==
  \/ ~current \/ x.closed \/ ~Has(r, id) \/ ~Live(r.jobs[id])
  \/ x.state \in {"unknown", "rejected", "invalidated"}

Retirable(x, r, id) ==
  /\ x.job = id /\ id # 0 /\ ~x.closed /\ x.state = "accepted"
  /\ Has(r, id) /\ r.jobs[id].state \in Settled
=============================================================================
