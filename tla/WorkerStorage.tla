---------------------------- MODULE WorkerStorage ----------------------------
(***************************************************************************)
(* The session runtime driving generated outputs through their one-shot    *)
(* stages (ui/project_agent_session_pump.py): submission, pre-admission,   *)
(* remote evidence, staging, acceptance, promotion, publication, events,   *)
(* candidate admission and publication, Project save.                      *)
(*                                                                         *)
(* Each stage is a call that claims under the publication gate, works      *)
(* outside it (capacity, native files, remote data) and publishes under    *)
(* the gate again.  Calls run in several threads; between any two of their *)
(* steps the host may change, the runtime close, a revocation run, another *)
(* call move the same request.  Exact owner, marker and receipt            *)
(* comparisons are the state comparisons of StorageAttempt; a failed       *)
(* native check is a choice.                                               *)
(***************************************************************************)
EXTENDS StorageAttempt, FiniteSets

CONSTANTS
  Callers,     \* threads in calls at once
  Images,      \* images per request
  PlainHttp,   \* requests that are submitted without an executor event too
  Faults       \* whether native checks and remote answers may fail

ASSUME CallersAssumption ==
  Callers # {} /\ Images \in Nat \ {0} /\ PlainHttp \subseteq Reqs /\ Faults \in BOOLEAN

VARIABLES
  s,        \* the integration, its capacity entries and its job
  calls,    \* the call each caller is in
  disk,     \* files that may exist
  gallery,  \* requests whose candidates the Project holds
  saves     \* save callbacks made

vars == <<s, calls, disk, gallery, saves>>

Idle == [op |-> "idle", r |-> 0, left |-> 0]
Call(op, r) == [op |-> op, r |-> r, left |-> Images]

Init ==
  /\ s = InitIntegration /\ calls = [c \in Callers |-> Idle]
  /\ disk = [r \in Reqs |-> {}] /\ gallery = {} /\ saves = 0

Oks == IF Faults THEN BOOLEAN ELSE {TRUE}

(* The gate is entered with the captured lifecycle and current evidence.   *)
HostCurrent == ~s.closed /\ s.bound /\ s.host = "current"

(* What a gate entry does to a lifecycle that is no longer current; calls  *)
(* that do not retire it for stale evidence leave that to the others.      *)
Gate(retires) ==
  IF ~s.closed /\ s.bound /\ (s.host = "replaced" \/ (retires /\ s.host = "stale"))
  THEN Retire(s) ELSE s

In(c, op) == calls[c].op = op
R(c) == calls[c].r
Goto(c, op) == calls' = [calls EXCEPT ![c].op = op]
Done(c) == calls' = [calls EXCEPT ![c] = Idle]
Claim(c, op, r) == In(c, "idle") /\ HostCurrent /\ calls' = [calls EXCEPT ![c] = Call(op, r)]
Files0 == UNCHANGED <<disk, gallery, saves>>

-----------------------------------------------------------------------------
(* Submissions and HTTP results. *)

(* begin_profile_a_worker_submission_with_executor_event: the lease, the   *)
(* job's event and the worker's registration, or the integration is        *)
(* revoked.                                                                *)
SubmitWithEvent(r) ==
  /\ HostCurrent /\ s.job[r] = "unsent" /\ s.live /\ MayBeginOperation(s, r, "submission")
  /\ LET issued == [s EXCEPT !.att[r].issued = TRUE, !.active = <<r, "submission">>]
         noted == [issued EXCEPT !.job[r] = "submission_started"]
     IN  IF ~JobAccepts(s, r, "submission_started") THEN s' = Revoke(issued)
         ELSE \E ok \in Oks :
                s' = IF ok THEN [noted EXCEPT !.att[r].started = TRUE] ELSE Revoke(noted)
  /\ UNCHANGED calls /\ Files0

BeginOperation(r, kind) ==
  /\ HostCurrent /\ s.live /\ MayBeginOperation(s, r, kind)
  /\ kind = "submission" => r \in PlainHttp
  /\ s' = [s EXCEPT !.active = <<r, kind>>, !.att[r].issued = TRUE]
  /\ UNCHANGED calls /\ Files0

(* A capacity owner that became invalid breaks the binding: the next       *)
(* operation or result revokes.                                            *)
OperationOnInvalidCapacity ==
  /\ HostCurrent /\ ~s.live /\ s.reason # "revoked"
  /\ s' = Revoke(s) /\ UNCHANGED calls /\ Files0

LeaseUncertain(t, r) ==
  [t EXCEPT !.leases = @ \cup {t.active}, !.state = "uncertain",
            !.reason = IF @ = "none" THEN "uncertain" ELSE @,
            !.att[r].evidence = IF t.active[2] = "submission" /\ t.att[r].state # "none"
                                THEN "uncertain" ELSE @]

(* _retain_profile_a_submitted_event_uncertain_locked *)
SubmittedUncertain(t, r) ==
  IF ~t.att[r].started THEN t
  ELSE [t EXCEPT !.att[r].submitted = "retained_uncertain", !.leases = @ \cup {<<r, "submission">>},
                 !.state = IF @ = "bound" THEN "uncertain" ELSE @,
                 !.reason = IF @ = "none" THEN "uncertain" ELSE @]

(* observe_result for an accepted submission, then the submitted event.    *)
SubmissionAccepted(r) ==
  LET a == s.att[r]
      t == [s EXCEPT !.active = NoLease, !.att[r].prompt = TRUE,
                     !.att[r].evidence = IF a.state = "none" THEN @ ELSE "submission_accepted"]
  IN  IF a.state # "none" /\ (a.state # "pre_admitted" \/ a.evidence # "awaiting_submission")
      THEN SubmittedUncertain(LeaseUncertain([s EXCEPT !.att[r].prompt = TRUE], r), r)
      ELSE IF ~a.started THEN t
      ELSE IF JobAccepts(s, r, "submitted")
      THEN [t EXCEPT !.att[r].submitted = "events_accepted", !.job[r] = "submitted"]
      ELSE SubmittedUncertain(t, r)

HistoryReady(r) ==
  IF s.att[r].state = "none" THEN [s EXCEPT !.active = NoLease]
  ELSE IF s.att[r].evidence # "submission_accepted"
  THEN [LeaseUncertain(s, r) EXCEPT !.att[r].evidence = "uncertain"]
  ELSE [s EXCEPT !.active = NoLease, !.att[r].evidence = "history_observed"]

(* observe_generation_worker_http_result *)
ObserveResult ==
  /\ s.active # NoLease /\ UNCHANGED calls /\ Files0
  /\ LET r == s.active[1]
         submission == s.active[2] = "submission"
     IN  \/ ~HostCurrent /\ s' = Gate(TRUE)
         \/ HostCurrent /\ ~s.live /\ s' = Revoke(s)
         \/ /\ HostCurrent /\ s.live /\ Bound(s)
            /\ \/ submission /\ s' = SubmissionAccepted(r)
               \/ /\ submission /\ Faults
                  /\ s' = [s EXCEPT !.active = NoLease,
                             !.att[r].evidence = IF s.att[r].state = "none" THEN @
                                                 ELSE "submission_rejected",
                             !.att[r].submitted = IF s.att[r].started THEN "submission_rejected" ELSE @]
               \/ submission /\ Faults /\ s' = SubmittedUncertain(LeaseUncertain(s, r), r)
               \/ ~submission /\ s' = HistoryReady(r)
               \/ ~submission /\ Faults /\ s' = [s EXCEPT !.active = NoLease]
               \/ ~submission /\ Faults /\ s' = LeaseUncertain(s, r)

-----------------------------------------------------------------------------
(* Staging pre-admission. *)

PreAdmitBegin(c, r) ==
  /\ MayPreAdmit(s, r) /\ Claim(c, "operation", r) /\ Files0
  /\ s' = [s EXCEPT !.att[r].state = "preparing", !.att[r].evidence = "awaiting_submission"]

(* The capacity operation is begun and attached. *)
PreAdmitOperation(c) ==
  /\ In(c, "operation") /\ Files0
  /\ LET r == R(c)
         attached == [s EXCEPT !.att[r].operation = TRUE]
     IN  IF ~s.live THEN s' = FinishPreAdmission(s, r, "refused") /\ Done(c)
         ELSE IF s.att[r].cancel \/ s.att[r].state # "preparing"
         THEN s' = FinishPreAdmission(attached, r, "cancelled") /\ Done(c)
         ELSE s' = attached /\ Goto(c, "reserve")

PreAdmitReserve(c) ==
  /\ In(c, "reserve") /\ Files0
  /\ LET r == R(c)
     IN  \/ /\ Reservable(s, r, "stage") /\ s' = Reserve(s, r, "stage") /\ Goto(c, "attach")
         \/ /\ ~s.live \/ Faults
            /\ s' = FinishPreAdmission(s, r, "refused") /\ Done(c)
         \/ /\ Faults
            /\ s' = FinishPreAdmission(InvalidateCapacity(s), r, "retained_uncertain") /\ Done(c)

PreAdmitAttach(c) ==
  /\ In(c, "attach") /\ Files0
  /\ LET r == R(c)
         late == s.att[r].cancel \/ s.att[r].state # "preparing"
         t == [s EXCEPT !.att[r].reservation = TRUE,
                        !.att[r].state = IF late THEN "cancellation_requested" ELSE "reserved"]
     IN  IF late THEN s' = CancelStaging(t, r) /\ Done(c) ELSE s' = t /\ Goto(c, "preadmitted")

PreAdmitEnd(c) ==
  /\ In(c, "preadmitted") /\ Done(c) /\ Files0
  /\ LET r == R(c)
         a == s.att[r]
         ok == /\ HostCurrent /\ Bound(s) /\ s.live /\ a.state = "reserved" /\ ~a.cancel
               /\ s.active = <<r, "submission">> /\ s.ledger[r]["stage"] = "reserved"
     IN  \/ ok /\ s' = [s EXCEPT !.att[r].state = "pre_admitted"]
         \/ (~ok \/ Faults) /\ s' = CancelStaging(Gate(TRUE), r)

(* cancel_staging_preadmission: the human withdraws. *)
CancelPreAdmission(r) ==
  /\ s.bound /\ s.att[r].state = "pre_admitted"
  /\ s.att[r].evidence \notin {"uncertain", "evidence_published"}
  /\ s' = CancelStaging([s EXCEPT !.att[r].evidence = "cancelled"], r)
  /\ UNCHANGED calls /\ Files0

-----------------------------------------------------------------------------
(* Evidence of the remote outputs. *)

EvidenceBegin(c, r) ==
  /\ MayValidate(s, r) /\ Claim(c, "validate", r) /\ Files0
  /\ s' = [s EXCEPT !.att[r].evidence = "validating"]

(* _fail_remote_output_writer_evidence_validation *)
FailEvidence(t, r, state) ==
  LET u == [t EXCEPT !.att[r].evidence = IF @ = "validating" THEN state ELSE @]
  IN  IF state = "uncertain" THEN u ELSE CancelStaging(u, r)

EvidenceValidate(c) ==
  /\ In(c, "validate") /\ Files0
  /\ \/ s' = s /\ Goto(c, "validated")
     \/ Faults /\ s' = FailEvidence(s, R(c), "refused") /\ Done(c)
     \/ Faults /\ s' = FailEvidence(s, R(c), "uncertain") /\ Done(c)

(* _commit_profile_a_remote_outputs_ready_event_locked *)
RemoteReady(t, r) ==
  IF ~t.att[r].started \/ t.att[r].remote # "none" THEN t
  ELSE IF t.att[r].submitted = "events_accepted" /\ JobAccepts(t, r, "remote_outputs_ready")
  THEN [t EXCEPT !.att[r].remote = "events_accepted", !.job[r] = "remote_outputs_ready"]
  ELSE [t EXCEPT !.att[r].remote = "refused"]

EvidenceEnd(c) ==
  /\ In(c, "validated") /\ Done(c) /\ Files0
  /\ LET r == R(c)
         a == s.att[r]
         ok == /\ HostCurrent /\ Bound(s) /\ s.live /\ s.active = NoLease
               /\ a.state = "pre_admitted" /\ a.evidence = "validating" /\ ~a.cancel
               /\ s.ledger[r]["stage"] = "reserved"
     IN  \/ ok /\ s' = RemoteReady([s EXCEPT !.att[r].evidence = "evidence_published"], r)
         \/ ok /\ Faults /\ s' = [s EXCEPT !.att[r].evidence = "uncertain"]
         \/ ~ok /\ s' = FailEvidence(Gate(TRUE), r, "revoked")

-----------------------------------------------------------------------------
(* Staging: the protected writer turns the reservation into a write and    *)
(* creates a file per image.                                               *)

Crossed(t, r) == t.att[r].handoff = "create_boundary_crossed"

(* The writer's own cleanup, then the caller's.  Whether a create was tried*)
(* is the writer's knowledge, stronger than the mark of the boundary.      *)
StageFailed(t, r, created) ==
  LET u == [AbandonWrite(t, r, "stage", created) EXCEPT !.writer = @ /\ ~created]
      l == u.ledger[r]["stage"]
      unsure == ~u.writer \/ l \in {"uncertain", "completed"}
      v == IF l = "cancelled" \/ (~unsure /\ l \in Unsettled) THEN CancelStaging(u, r) ELSE u
      w == IF unsure /\ l = "completed" THEN RetainCompleted(v, r, "stage") ELSE v
  IN  FailHandoff(w, r, unsure \/ (l \in Unsettled /\ v.ledger[r]["stage"] # "cancelled"))

(* A handoff whose descriptors are not the single image or the batch the   *)
(* caller asked for is refused at once.                                    *)
StageBegin(c, r) ==
  /\ MayHandOff(s, r) /\ HostCurrent /\ In(c, "idle") /\ Files0
  /\ \/ /\ s' = [s EXCEPT !.att[r].handoff = "in_progress"]
        /\ calls' = [calls EXCEPT ![c] = Call("stage check", r)]
     \/ /\ Faults /\ s' = CancelStaging([s EXCEPT !.att[r].handoff = "refused"], r)
        /\ UNCHANGED calls

StageCheck(c) ==
  /\ In(c, "stage check") /\ Files0
  /\ \/ /\ HostCurrent /\ HandoffMatches(s, R(c), {"in_progress"})
        /\ Goto(c, "stage admit") /\ s' = s
     \/ /\ ~(HostCurrent /\ HandoffMatches(s, R(c), {"in_progress"})) \/ Faults
        /\ Done(c) /\ s' = FailHandoff(CancelStaging(Gate(FALSE), R(c)), R(c), FALSE)

(* One step of the writer: it goes on, or everything fails. *)
StageStep(c, from, to, ok, t) ==
  /\ In(c, from) /\ Files0
  /\ \/ ok /\ s' = t /\ Goto(c, to)
     \/ (~ok \/ Faults) /\ s' = StageFailed(Gate(FALSE), R(c), Crossed(s, R(c))) /\ Done(c)

StageAdmit(c) ==
  StageStep(c, "stage admit", "stage record", s.live /\ s.ledger[R(c)]["stage"] = "reserved",
            [s EXCEPT !.ledger[R(c)]["stage"] = "writing"])

Writing(r, f) == s.live /\ s.ledger[r][f] = "writing"

StageRecord(c) ==
  StageStep(c, "stage record", "stage create",
            HostCurrent /\ HandoffMatches(s, R(c), {"in_progress"}) /\ Writing(R(c), "stage"),
            [s EXCEPT !.att[R(c)].handoff = "write_admitted"])

(* Faulty variant: the file is created without a last look at the host. *)
StageCreateUnfenced(c) ==
  StageStep(c, "stage create", "stage file", TRUE, s)

StageCreate(c) ==
  StageStep(c, "stage create", "stage file",
            /\ HostCurrent /\ Writing(R(c), "stage")
            /\ HandoffMatches(s, R(c), {"write_admitted", "create_boundary_crossed"}),
            [s EXCEPT !.att[R(c)].handoff = "create_boundary_crossed"])

(* A file comes into being, one per image.  A create that fails may have   *)
(* left one.                                                               *)
FileCreated(c, f, again, next, failed) ==
  /\ UNCHANGED <<gallery, saves>>
  /\ LET made == [disk EXCEPT ![R(c)] = @ \cup {f}]
     IN  \/ /\ disk' = made /\ s' = s
            /\ calls' = [calls EXCEPT ![c].left = @ - 1,
                                      ![c].op = IF calls[c].left > 1 THEN again ELSE next]
         \/ Faults /\ disk' \in {disk, made} /\ s' = failed /\ Done(c)

(* Past the boundary and before its first file the writer may still find   *)
(* itself closed: the token is returned.                                   *)
StageFile(c) ==
  /\ In(c, "stage file")
  /\ \/ FileCreated(c, "stage", "stage create", "stage complete", StageFailed(s, R(c), TRUE))
     \/ /\ Faults /\ "stage" \notin disk[R(c)] /\ Done(c) /\ Files0
        /\ s' = StageFailed(s, R(c), FALSE)

(* The capacity owner finds the created files, or something else as well.  *)
StageComplete(c) ==
  StageStep(c, "stage complete", "stage end", Writing(R(c), "stage"),
            [s EXCEPT !.ledger[R(c)]["stage"] = "completed"])

StageEnd(c) ==
  /\ In(c, "stage end") /\ Done(c) /\ Files0
  /\ LET r == R(c)
         g == Gate(FALSE)
         ok == /\ HostCurrent /\ HandoffMatches(s, r, {"create_boundary_crossed"})
               /\ s.ledger[r]["stage"] = "completed"
     IN  \/ ok /\ s' = [s EXCEPT !.att[r].handoff = "staged"]
         \/ (~ok \/ Faults) /\
            s' = FailHandoff(IF g.ledger[r]["stage"] = "completed" THEN RetainCompleted(g, r, "stage")
                             ELSE g, r, TRUE)

-----------------------------------------------------------------------------
(* Acceptance, promotion and its publication. *)

(* A stage that only observes: published when everything still matches,    *)
(* otherwise settled by what its failure leaves.                           *)
Publish(c, from, ok, t, failed) ==
  /\ In(c, from) /\ Done(c) /\ Files0
  /\ \/ ok /\ s' = t
     \/ (~ok \/ Faults) /\ s' = failed

AcceptBegin(c, r) ==
  /\ MayAccept(s, r) /\ Claim(c, "accept", r) /\ Files0
  /\ s' = [s EXCEPT !.att[r].acceptance = "in_progress"]

AcceptEnd(c) ==
  Publish(c, "accept", HostCurrent /\ AcceptanceMatches(s, R(c)) /\ s.ledger[R(c)]["stage"] = "completed",
          [s EXCEPT !.att[R(c)].acceptance = "accepted"], RetainAcceptance(Gate(FALSE), R(c)))

PromotionPreflightBegin(c, r) ==
  /\ MayPreflightPromotion(s, r) /\ Claim(c, "promotion reserve", r) /\ Files0
  /\ s' = [s EXCEPT !.att[r].promotion = "in_progress"]

PromotionPreflightReserve(c) ==
  /\ In(c, "promotion reserve") /\ Files0
  /\ \/ /\ Reservable(s, R(c), "promo") /\ s' = Reserve(s, R(c), "promo")
        /\ Goto(c, "promotion preflight")
     \/ /\ ~Reservable(s, R(c), "promo") \/ Faults
        /\ s' = [s EXCEPT !.att[R(c)].promotion =
                   IF @ \in {"in_progress", "cancellation_requested"} THEN "refused" ELSE @]
        /\ Done(c)

(* _cancel_profile_a_promotion_preflight_reservation *)
PreflightCancelled(t, r) ==
  IF t.live /\ t.ledger[r]["promo"] = "reserved"
  THEN [t EXCEPT !.ledger[r]["promo"] = "cancelled",
          !.att[r].promotion = IF @ = "cancellation_requested" THEN "cancelled" ELSE "refused"]
  ELSE [t EXCEPT !.att[r].promotion = "retained_uncertain"]

PromotionPreflightEnd(c) ==
  Publish(c, "promotion preflight", HostCurrent /\ PromotionMatches(s, R(c), {"in_progress"}),
          [s EXCEPT !.att[R(c)].promotion = "reserved"], PreflightCancelled(Gate(FALSE), R(c)))

(* cancel_generation_worker_promotion_preflight *)
CancelPromotionPreflight(r) ==
  /\ s.bound /\ s.att[r].promotion = "reserved"
  /\ s' = CancelPromotion([s EXCEPT !.att[r].promotion = "cancellation_requested"], r)
  /\ UNCHANGED calls /\ Files0

Creating(t, r) == t.att[r].promotion = "may_have_created"

(* settle_failure *)
PromoteFailed(t, r) ==
  LET l == t.ledger[r]["promo"]
      u == IF l = "reserved" /\ t.live /\ ~Creating(t, r)
           THEN [t EXCEPT !.ledger[r]["promo"] = "cancelled"]
           ELSE AbandonWrite(t, r, "promo", Creating(t, r))
  IN  [u EXCEPT !.att[r].promotion =
         IF Creating(t, r) \/ u.ledger[r]["promo"] # "cancelled" THEN "retained_uncertain" ELSE "cancelled"]

PromoteBegin(c, r) ==
  /\ PromotionMatches(s, r, {"reserved"}) /\ s.writer /\ Claim(c, "promote admitting", r) /\ Files0
  /\ s' = [s EXCEPT !.att[r].promotion = "claiming"]

PromoteStep(c, from, to, ok, t) ==
  /\ In(c, from) /\ Files0
  /\ \/ ok /\ s' = t /\ Goto(c, to)
     \/ (~ok \/ Faults) /\ s' = PromoteFailed(Gate(FALSE), R(c)) /\ Done(c)

PromoteAdmitting(c) ==
  PromoteStep(c, "promote admitting", "promote admit",
              /\ HostCurrent /\ s.live /\ s.ledger[R(c)]["promo"] = "reserved"
              /\ s.att[R(c)].promotion = "claiming" /\ ~s.att[R(c)].cancel,
              [s EXCEPT !.att[R(c)].promotion = "admitting"])

PromoteAdmit(c) ==
  PromoteStep(c, "promote admit", "promote owner", s.live /\ s.ledger[R(c)]["promo"] = "reserved",
              [s EXCEPT !.ledger[R(c)]["promo"] = "writing"])

PromoteOwner(c) ==
  PromoteStep(c, "promote owner", "promote create",
              /\ HostCurrent /\ s.att[R(c)].promotion = "admitting" /\ ~s.att[R(c)].cancel
              /\ s.att[R(c)].acceptance = "accepted",
              [s EXCEPT !.att[R(c)].promotion = "admitted"])

PromoteCreate(c) ==
  PromoteStep(c, "promote create", "promote file",
              /\ HostCurrent /\ Writing(R(c), "promo")
              /\ PromotionMatches(s, R(c), {"admitted", "may_have_created"}),
              [s EXCEPT !.att[R(c)].promotion = "may_have_created"])

PromoteFile(c) ==
  In(c, "promote file") /\
  FileCreated(c, "promo", "promote create", "promote complete", PromoteFailed(s, R(c)))

(* Faulty variant: the commit does not look for a cancellation. *)
PromoteCompleteBlindly(c) ==
  /\ In(c, "promote complete") /\ Done(c) /\ Files0 /\ Writing(R(c), "promo")
  /\ s' = [s EXCEPT !.ledger[R(c)]["promo"] = "completed", !.att[R(c)].promotion = "private_committed"]

(* The ledger's completion and the private commit are one critical         *)
(* section; a completion that finds the attempt revoked is retained.       *)
PromoteComplete(c) ==
  /\ In(c, "promote complete") /\ Done(c) /\ Files0
  /\ LET r == R(c)
         t == [s EXCEPT !.ledger[r]["promo"] = "completed"]
         current == Bound(s) /\ s.att[r].state = "pre_admitted" /\ ~s.att[r].cancel
     IN  \/ /\ Writing(r, "promo") /\ current
            /\ s' = [t EXCEPT !.att[r].promotion = "private_committed"]
         \/ /\ Writing(r, "promo") /\ (~current \/ Faults)
            /\ s' = [RetainCompleted(t, r, "promo") EXCEPT !.att[r].promotion = "retained_uncertain"]
         \/ /\ ~Writing(r, "promo") \/ Faults
            /\ s' = PromoteFailed(s, r)

PublishPromotionBegin(c, r) ==
  /\ MayPublishPromotion(s, r) /\ Claim(c, "publish promotion", r) /\ Files0
  /\ s' = [s EXCEPT !.att[r].publication = "in_progress"]

PublishPromotionEnd(c) ==
  Publish(c, "publish promotion",
          /\ HostCurrent /\ PromotionMatches(s, R(c), {"private_committed"})
          /\ s.att[R(c)].publication = "in_progress" /\ s.ledger[R(c)]["promo"] = "completed",
          [s EXCEPT !.att[R(c)].publication = "published", !.att[R(c)].promotion = "promoted"],
          RetainPublication(Gate(FALSE), R(c)))

-----------------------------------------------------------------------------
(* Events, Candidates and the Project save. *)

OutputsReadyBegin(c, r) ==
  /\ MayAnnounceOutputs(s, r) /\ Claim(c, "outputs ready", r) /\ Files0
  /\ s' = [s EXCEPT !.att[r].ready = "claim_in_progress"]

OutputsReadyEnd(c) ==
  LET r == R(c)
      accepted == JobAccepts(s, r, "outputs_ready")
  IN  Publish(c, "outputs ready", HostCurrent /\ OutputsMatch(s, r),
              [s EXCEPT !.att[r].ready = IF accepted THEN "events_accepted" ELSE "refused",
                        !.job[r] = IF accepted THEN "outputs_ready" ELSE @],
              [Gate(FALSE) EXCEPT !.att[r].ready = RetainReady(@)])

AdmissionPreflightBegin(c, r) ==
  /\ MayPreflightAdmission(s, r) /\ Claim(c, "admission preflight", r) /\ Files0
  /\ s' = [s EXCEPT !.att[r].preflight = "in_progress"]

AdmissionPreflightEnd(c) ==
  Publish(c, "admission preflight", HostCurrent /\ AdmissionPreflightMatches(s, R(c)),
          [s EXCEPT !.att[R(c)].preflight = "observed"],
          [Gate(FALSE) EXCEPT !.att[R(c)].preflight = RetainClaim(@)])

AdmitBegin(c, r) ==
  /\ MayAdmitCandidates(s, r) /\ Claim(c, "admit", r) /\ Files0
  /\ s' = [s EXCEPT !.att[r].admission = "in_progress"]

AdmitEnd(c) ==
  Publish(c, "admit", HostCurrent /\ s.live /\ s.att[R(c)].admission = "in_progress",
          [s EXCEPT !.att[R(c)].admission = "observed"],
          [Gate(FALSE) EXCEPT !.att[R(c)].admission = RetainClaim(@)])

(* A Project that changed since its snapshot leaves the claim in progress. *)
CandidatesBegin(c, r) ==
  /\ MayPublishCandidates(s, r) /\ HostCurrent /\ In(c, "idle") /\ Files0
  /\ s' = [s EXCEPT !.att[r].candidates = "in_progress"]
  /\ \/ calls' = [calls EXCEPT ![c] = Call("candidates append", r)]
     \/ Faults /\ UNCHANGED calls

(* The claim is checked and the Candidates appended under the gate; the    *)
(* publisher then sends the job its last event.                            *)
CandidatesAppend(c) ==
  /\ In(c, "candidates append") /\ UNCHANGED <<disk, saves>>
  /\ LET r == R(c)
         ok == HostCurrent /\ s.live /\ s.att[r].candidates = "in_progress" /\ ~s.att[r].cancel
     IN  \/ /\ ok /\ Goto(c, "candidates registered") /\ gallery' = gallery \cup {r}
            /\ s' = IF JobAccepts(s, r, "completed") THEN [s EXCEPT !.job[r] = "completed"] ELSE s
         \/ /\ ok /\ Faults /\ Goto(c, "candidates not registered")
            /\ s' = s /\ UNCHANGED gallery
         \/ /\ ~ok \/ Faults
            /\ s' = [Gate(FALSE) EXCEPT !.att[r].candidates = "retained_uncertain"]
            /\ Done(c) /\ UNCHANGED gallery

CandidatesEnd(c) ==
  /\ In(c, "candidates registered") \/ In(c, "candidates not registered")
  /\ Done(c) /\ Files0
  /\ s' = [s EXCEPT !.att[R(c)].candidates = IF @ = "in_progress" THEN "observed" ELSE "retained_uncertain"]

SaveBegin(c, r) ==
  /\ MaySave(s, r) /\ Claim(c, "save", r) /\ Files0
  /\ s' = [s EXCEPT !.save = "claim_in_progress"]

(* Before the callback a claim is given back, after a revocation it cannot *)
(* be.                                                                     *)
SavePrewrite(c) ==
  /\ In(c, "save") /\ UNCHANGED <<disk, gallery>>
  /\ \/ /\ HostCurrent /\ SaveClaimCurrent(s) /\ s' = s /\ saves' = saves + 1
        /\ Goto(c, "save written")
     \/ /\ ~(HostCurrent /\ SaveClaimCurrent(s)) \/ Faults
        /\ s' = [Gate(FALSE) EXCEPT !.save = IF @ = "claim_in_progress" THEN "not_started"
                                             ELSE "retained_uncertain"]
        /\ Done(c) /\ UNCHANGED saves

SaveEnd(c) ==
  /\ In(c, "save written") /\ Done(c) /\ Files0
  /\ \E outcome \in {"saved"} \cup (IF Faults THEN {"save_failed", "retained_uncertain"} ELSE {}) :
       s' = [s EXCEPT !.save = IF @ = "claim_in_progress" THEN outcome ELSE "retained_uncertain"]

-----------------------------------------------------------------------------
(* Around the calls. *)

(* The job fails a request that has not completed. *)
RequestFails(r) ==
  /\ Faults /\ s.host = "current" /\ s.job[r] = "unsent"
  /\ \A q \in 1 .. r - 1 : s.job[q] \in {"completed", "failed"}
  /\ s' = [s EXCEPT !.job[r] = "failed"] /\ UNCHANGED calls /\ Files0

(* The Project, the job or the inbox moves on, or the route is paired anew.*)
HostChanges ==
  /\ s.host = "current" /\ UNCHANGED calls /\ Files0
  /\ \E h \in {"stale", "replaced"} : s' = [s EXCEPT !.host = h]

(* Any entry through the gate that retires a stale lifecycle. *)
Reconcile == Gate(TRUE) # s /\ s' = Gate(TRUE) /\ UNCHANGED calls /\ Files0

Close ==
  /\ ~s.closed /\ UNCHANGED calls /\ Files0
  /\ s' = LET t == [s EXCEPT !.closed = TRUE] IN IF s.bound THEN Retire(t) ELSE t

ReleaseRevoked ==
  \E item \in s.todo : s' = Release(s, item) /\ UNCHANGED calls /\ Files0

(* finish_close_for_characterization once the worker has stopped. *)
FinishClose ==
  /\ s.state = "close_pending" /\ UNCHANGED calls /\ Files0
  /\ s' = IF s.leases # {} THEN [s EXCEPT !.state = "uncertain", !.reason =
                                   IF @ = "none" THEN "uncertain" ELSE @]
          ELSE [s EXCEPT !.state = "closed"]

(* A refresh finds a file nobody wrote. *)
CapacityChanges ==
  /\ Faults /\ s.live /\ s' = InvalidateCapacity(s) /\ UNCHANGED calls /\ Files0

Steps(c) ==
  \/ PreAdmitOperation(c) \/ PreAdmitReserve(c) \/ PreAdmitAttach(c) \/ PreAdmitEnd(c)
  \/ EvidenceValidate(c) \/ EvidenceEnd(c)
  \/ StageCheck(c) \/ StageAdmit(c) \/ StageRecord(c) \/ StageCreate(c) \/ StageFile(c)
  \/ StageComplete(c) \/ StageEnd(c)
  \/ AcceptEnd(c) \/ PromotionPreflightReserve(c) \/ PromotionPreflightEnd(c)
  \/ PromoteAdmitting(c) \/ PromoteAdmit(c) \/ PromoteOwner(c) \/ PromoteCreate(c)
  \/ PromoteFile(c) \/ PromoteComplete(c) \/ PublishPromotionEnd(c)
  \/ OutputsReadyEnd(c) \/ AdmissionPreflightEnd(c) \/ AdmitEnd(c)
  \/ CandidatesAppend(c) \/ CandidatesEnd(c) \/ SavePrewrite(c) \/ SaveEnd(c)

Begins(c, r) ==
  \/ PreAdmitBegin(c, r) \/ EvidenceBegin(c, r) \/ StageBegin(c, r) \/ AcceptBegin(c, r)
  \/ PromotionPreflightBegin(c, r) \/ PromoteBegin(c, r) \/ PublishPromotionBegin(c, r)
  \/ OutputsReadyBegin(c, r) \/ AdmissionPreflightBegin(c, r) \/ AdmitBegin(c, r)
  \/ CandidatesBegin(c, r) \/ SaveBegin(c, r)

Next ==
  \/ \E r \in Reqs : SubmitWithEvent(r) \/ CancelPreAdmission(r) \/ CancelPromotionPreflight(r)
                     \/ RequestFails(r)
  \/ \E r \in Reqs, kind \in {"submission", "history"} : BeginOperation(r, kind)
  \/ \E c \in Callers, r \in Reqs : Begins(c, r)
  \/ \E c \in Callers : Steps(c)
  \/ ObserveResult \/ OperationOnInvalidCapacity \/ HostChanges \/ Reconcile \/ Close
  \/ ReleaseRevoked \/ FinishClose \/ CapacityChanges

Spec == Init /\ [][Next]_vars

(* A call that has begun ends: its native work is finite and the gate is   *)
(* only ever held for a step.  A revocation finishes its releases.         *)
FairSpec == Spec /\ \A c \in Callers : WF_vars(Steps(c)) /\ WF_vars(ReleaseRevoked)

-----------------------------------------------------------------------------
(* Properties. *)

(* The integration keeps its shape: every stage, entry and event is one    *)
(* the code names, and a call is about a request.                          *)
TypeOK ==
  /\ s.host \in {"current", "stale", "replaced"}
  /\ s.state \in {"bound", "close_pending", "uncertain", "closed"}
  /\ s.active \in {NoLease} \cup (Reqs \X {"submission", "history"})
  /\ \A r \in Reqs, f \in Files :
       s.ledger[r][f] \in {"none", "reserved", "writing", "completed", "cancelled", "uncertain"}
  /\ \A r \in Reqs : s.job[r] \in DOMAIN Before \cup {"unsent", "failed"}
  /\ \A c \in Callers : calls[c] = Idle \/ calls[c].r \in Reqs
  /\ gallery \subseteq Reqs /\ disk \in [Reqs -> SUBSET Files]

(* A file that may exist is charged: its entry is being written, completed *)
(* or retained as uncertain, never returned as unused.                     *)
FilesAccounted ==
  \A r \in Reqs : \A f \in disk[r] : s.ledger[r][f] \in {"writing", "completed", "uncertain"}

Retained(a) == a.state = "retained_uncertain" \/ a.evidence = "uncertain"
                 \/ a.promotion = "retained_uncertain"

(* An attempt that was cancelled commits nothing more: its promoted file   *)
(* is not taken over, its publication does not end well.                   *)
NoCommitAfterCancel ==
  [][\A r \in Reqs : s.att[r].cancel =>
       /\ s'.att[r].promotion \in {"private_committed", "promoted"} =>
            s'.att[r].promotion = s.att[r].promotion
       /\ s'.att[r].handoff = "staged" => s.att[r].handoff = "staged"
       /\ s'.att[r].acceptance = "accepted" => s.att[r].acceptance = "accepted"]_vars

(* What is uncertain stays uncertain: no retry, release or late answer     *)
(* turns an unknown outcome into a known one.                              *)
UncertainIsFinal ==
  [][\A r \in Reqs :
       /\ \A f \in Files : s.ledger[r][f] = "uncertain" => s'.ledger[r][f] = "uncertain"
       /\ \A x \in {"handoff", "acceptance", "promotion", "publication", "preflight", "admission",
                    "candidates", "submitted", "ready"} :
            s.att[r][x] = "retained_uncertain" => s'.att[r][x] = "retained_uncertain"
       /\ s.att[r].evidence = "uncertain" => s'.att[r].evidence = "uncertain"
       /\ s.save = "retained_uncertain" => s'.save = "retained_uncertain"]_vars

(* A save is reported as done only by an integration that was never        *)
(* revoked during it, with every registered request's Candidates in.       *)
SavedIsCertain ==
  [][s.save # "saved" /\ s'.save = "saved" =>
       /\ s.reason # "revoked" /\ saves = 1
       /\ \A r \in Reqs : s.job[r] = "failed" \/ r \in gallery]_vars

(* After a retirement every reservation is, in the end and for good, used  *)
(* up, returned or reported as uncertain.                                  *)
Accounted == \A r \in Reqs, f \in Files :
  ~s.live \/ s.ledger[r][f] \notin Unsettled \/ Retained(s.att[r])

RetirementSettles == ~s.bound ~> []Accounted
=============================================================================
