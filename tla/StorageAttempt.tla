--------------------------- MODULE StorageAttempt ---------------------------
(***************************************************************************)
(* The one-shot stages a generated output passes on its way from a remote  *)
(* server into the Project, as the original host's integration keeps them  *)
(* (ui/agent_generation_original_host_worker_storage.py), with the         *)
(* capacity ledger's entries for its two files and the job's events        *)
(* (core/generation_storage_admission.py, ui/agent_generation_job.py).     *)
(* No state of its own: every operator maps one integration record to the  *)
(* next.                                                                   *)
(*                                                                         *)
(*   bound     the runtime's current lifecycle owns this integration       *)
(*   host      whether the host evidence is current, stale (Project, job   *)
(*             or inbox changed) or replaced (route or pairing changed)    *)
(*   state     of the integration, reason why it left bound_non_executing  *)
(*   active    the one HTTP lease, <<0, "none">> for none                  *)
(*   att       an attempt per request                                      *)
(*   live      the capacity owner is neither invalid nor closed            *)
(*   ledger    per request the entries of the staged and the promoted file *)
(*   writer    the writer owner has crossed no unexplained failure         *)
(*   todo      what a revocation still has to release                      *)
(***************************************************************************)
EXTENDS Naturals

CONSTANT Requests \* manifest requests of the job

ASSUME RequestsAssumption == Requests \in Nat \ {0}

Reqs == 1 .. Requests
NoLease == <<0, "none">>
Files == {"stage", "promo"}

NewAttempt ==
  [state |-> "none", evidence |-> "none", cancel |-> FALSE, operation |-> FALSE,
   reservation |-> FALSE, handoff |-> "not_started", acceptance |-> "not_started",
   promotion |-> "not_started", publication |-> "not_started", preflight |-> "not_started",
   admission |-> "not_started", candidates |-> "not_started", issued |-> FALSE,
   prompt |-> FALSE, started |-> FALSE, submitted |-> "none", remote |-> "none", ready |-> "none"]

InitIntegration ==
  [closed |-> FALSE, bound |-> TRUE, host |-> "current", state |-> "bound", reason |-> "none",
   active |-> NoLease, leases |-> {}, save |-> "not_started", live |-> TRUE, writer |-> TRUE,
   att |-> [r \in Reqs |-> NewAttempt], ledger |-> [r \in Reqs |-> [f \in Files |-> "none"]],
   job |-> [r \in Reqs |-> "unsent"], todo |-> {}]

Bound(s) == s.state = "bound"

-----------------------------------------------------------------------------
(* The capacity owner. *)

Unsettled == {"reserved", "writing"}

(* _mark_invalid_locked: the ledger closes and retains what is unsettled.  *)
InvalidateCapacity(s) ==
  [s EXCEPT !.live = FALSE,
            !.ledger = [r \in Reqs |-> [f \in Files |->
                          IF @[r][f] \in Unsettled THEN "uncertain" ELSE @[r][f]]]]

Reserve(s, r, f) == [s EXCEPT !.ledger[r][f] = "reserved"]
Reservable(s, r, f) == s.live /\ s.ledger[r][f] = "none"

(* retain_completed_write_as_uncertain; what cannot be explained exactly   *)
(* invalidates the owner.                                                  *)
RetainCompleted(s, r, f) ==
  IF s.ledger[r][f] = "completed" THEN [s EXCEPT !.ledger[r][f] = "uncertain", !.live = FALSE]
  ELSE InvalidateCapacity(s)

(* The end of a failed write: no file was created and the token is         *)
(* returned, or a file may exist and the entry stays charged.              *)
AbandonWrite(s, r, f, created) ==
  IF s.ledger[r][f] # "writing" THEN s
  ELSE IF ~created /\ s.live THEN [s EXCEPT !.ledger[r][f] = "cancelled"]
  ELSE [s EXCEPT !.ledger[r][f] = "uncertain", !.live = FALSE]

-----------------------------------------------------------------------------
(* Cancelling a reservation.  The entry's state decides at the moment of   *)
(* the ledger call; the mark before it keeps a second caller out.          *)

(* Faulty variant: only a pre-admission that is complete is released. *)
CancelStagingLate(s, r) ==
  IF s.att[r].state # "pre_admitted" THEN [s EXCEPT !.att[r].cancel = TRUE]
  ELSE [s EXCEPT !.ledger[r]["stage"] = "cancelled", !.att[r].state = "cancelled"]

CancelStaging(s, r) ==
  LET a == s.att[r]
      l == s.ledger[r]["stage"]
  IN  IF a.state \in {"none", "cancelled", "retained_uncertain", "refused"} THEN s
      ELSE IF a.evidence = "uncertain" THEN [s EXCEPT !.att[r].state = "retained_uncertain"]
      ELSE IF ~a.reservation
           THEN [s EXCEPT !.att[r].cancel = TRUE,
                          !.att[r].state = IF @ = "preparing" THEN "cancellation_requested" ELSE @]
      ELSE IF l = "cancelled" \/ (l = "reserved" /\ s.live)
           THEN [s EXCEPT !.att[r].cancel = TRUE, !.att[r].state = "cancelled",
                          !.ledger[r]["stage"] = "cancelled"]
      ELSE [s EXCEPT !.att[r].cancel = TRUE, !.att[r].state = "retained_uncertain"]

CancelPromotion(s, r) ==
  LET l == s.ledger[r]["promo"]
  IN  IF s.att[r].promotion \notin {"reserved", "cancellation_requested"} THEN s
      ELSE IF l = "cancelled" \/ (l = "reserved" /\ s.live)
           THEN [s EXCEPT !.att[r].promotion = "cancelled", !.ledger[r]["promo"] = "cancelled"]
      ELSE [s EXCEPT !.att[r].promotion = "retained_uncertain"]

(* _finish_staging_preadmission *)
FinishPreAdmission(s, r, state) ==
  IF s.att[r].state \in {"pre_admitted", "cancelled", "retained_uncertain"} THEN s
  ELSE [s EXCEPT !.att[r].state = state]

-----------------------------------------------------------------------------
(* What an interrupted stage leaves behind. *)

(* _retain_profile_a_acceptance_uncertain *)
RetainAcceptance(s, r) ==
  IF s.att[r].acceptance = "accepted" THEN s
  ELSE RetainCompleted([s EXCEPT !.att[r].acceptance = "retained_uncertain",
                                 !.att[r].handoff = "retained_uncertain",
                                 !.att[r].evidence = "uncertain"], r, "stage")

(* _retain_profile_a_promotion_publication_uncertain.  The owner becomes   *)
(* invalid; entries of other requests are left as they are.                *)
RetainPublication(s, r) ==
  IF s.att[r].promotion = "promoted" THEN s
  ELSE [s EXCEPT !.ledger[r]["promo"] = IF @ = "completed" THEN "uncertain" ELSE @,
                 !.live = FALSE, !.att[r].cancel = TRUE,
                 !.att[r].promotion = "retained_uncertain",
                 !.att[r].publication = "retained_uncertain"]

(* Only a claim in progress becomes uncertain. *)
RetainClaim(state) == IF state = "in_progress" THEN "retained_uncertain" ELSE state
RetainReady(state) == IF state = "claim_in_progress" THEN "retained_uncertain" ELSE state

(* The attempt after a failed writer handoff. *)
FailHandoff(s, r, uncertain) ==
  IF s.att[r].handoff = "staged" THEN s
  ELSE IF uncertain
  THEN [s EXCEPT !.att[r].handoff = "retained_uncertain", !.att[r].evidence = "uncertain"]
  ELSE IF s.ledger[r]["stage"] = "cancelled" /\ s.writer
  THEN [s EXCEPT !.att[r].state = "cancelled", !.att[r].evidence = "cancelled",
                 !.att[r].cancel = TRUE, !.att[r].handoff = "refused"]
  ELSE [s EXCEPT !.att[r].handoff = "refused"]

-----------------------------------------------------------------------------
(* Revocation. *)

CrossedEverything(a) ==
  a.preflight = "in_progress" \/ a.admission = "in_progress" \/ a.candidates = "in_progress"

RevokeAttempt(a) ==
  LET b == [a EXCEPT !.preflight = RetainClaim(@), !.admission = RetainClaim(@),
                     !.candidates = RetainClaim(@)]
  IN  IF CrossedEverything(a) \/ a.state \notin {"preparing", "reserved", "pre_admitted"} THEN b
      ELSE IF a.acceptance = "accepted"
      THEN [b EXCEPT !.cancel = TRUE,
              !.promotion = CASE @ \in {"in_progress", "reserved"} -> "cancellation_requested"
                              [] @ = "private_committed" -> "retained_uncertain"
                              [] OTHER -> @,
              !.publication = IF a.promotion = "private_committed" THEN "retained_uncertain" ELSE @]
      ELSE [b EXCEPT !.cancel = TRUE, !.state = "cancellation_requested",
              !.evidence = IF @ = "uncertain" THEN @ ELSE "revoked"]

(* What revoke releases once it has let go of its lock. *)
Releases(s) ==
  LET open(r) == ~CrossedEverything(s.att[r]) /\
                 s.att[r].state \in {"preparing", "reserved", "pre_admitted"}
      accepted(r) == s.att[r].acceptance = "accepted"
  IN  {<<r, "staging">> : r \in {q \in Reqs : open(q) /\ ~accepted(q) /\ s.att[q].reservation}}
      \cup {<<r, "promotion">> : r \in {q \in Reqs : open(q) /\ accepted(q) /\
                                                     s.att[q].promotion = "reserved"}}
      \cup {<<r, "publication">> : r \in {q \in Reqs : open(q) /\ accepted(q) /\
                                                      s.att[q].promotion = "private_committed"}}

(* Faulty variant: a save in progress is left to its call. *)
RevokeKeepsSave(s) ==
  [s EXCEPT !.state = IF @ = "bound" THEN "close_pending" ELSE @, !.reason = "revoked",
            !.active = NoLease, !.att = [r \in Reqs |-> RevokeAttempt(s.att[r])],
            !.todo = @ \cup Releases(s)]

(* revoke.  A lease in flight has an unknown outcome. *)
Revoke(s) ==
  [s EXCEPT !.state = IF s.state # "closed" /\ s.active # NoLease THEN "uncertain"
                      ELSE IF @ = "bound" THEN "close_pending" ELSE @,
            !.reason = IF @ = "none" /\ s.state # "closed" THEN "revoked" ELSE @,
            !.leases = @ \cup ({s.active} \ {NoLease}), !.active = NoLease,
            !.save = IF @ \in {"claim_in_progress", "saving"} THEN "retained_uncertain" ELSE @,
            !.att = [r \in Reqs |-> RevokeAttempt(s.att[r])],
            !.todo = @ \cup Releases(s)]

(* The lifecycle is retired with its integration. *)
Retire(s) == Revoke([s EXCEPT !.bound = FALSE])

Release(s, item) ==
  LET r == item[1]
      t == [s EXCEPT !.todo = @ \ {item}]
  IN  CASE item[2] = "staging" -> CancelStaging(t, r)
        [] item[2] = "promotion" -> CancelPromotion(t, r)
        [] item[2] = "publication" -> RetainPublication(t, r)

-----------------------------------------------------------------------------
(* The job's events, through the inbox. *)

Before == [submission_started |-> "unsent", submitted |-> "submission_started",
           remote_outputs_ready |-> "submitted", outputs_ready |-> "remote_outputs_ready",
           completed |-> "outputs_ready"]

(* Requests run in order, and only a live job takes events. *)
JobAccepts(s, r, kind) ==
  /\ s.host = "current" /\ s.job[r] = Before[kind]
  /\ kind = "submission_started" => \A q \in 1 .. r - 1 : s.job[q] \in {"completed", "failed"}

-----------------------------------------------------------------------------
(* When a stage may be claimed, and whether a claim is still current.      *)
(* Markers are drawn per claim and claimed stages never return to          *)
(* not_started, so the marker comparisons are the state comparisons here.  *)

MayBeginOperation(s, r, kind) ==
  LET a == s.att[r]
      open(q) == \/ s.att[q].evidence \in {"validating", "history_observed"}
                 \/ s.att[q].evidence = "evidence_published" /\ s.att[q].handoff # "staged"
  IN  /\ Bound(s) /\ s.active = NoLease /\ \A q \in Reqs : ~open(q)
      /\ kind = "submission" => ~a.issued
      /\ kind = "history" => /\ a.prompt
                             /\ a.started => a.submitted = "events_accepted"
                             /\ a.state # "none" => a.evidence = "submission_accepted"

MayPreAdmit(s, r) ==
  Bound(s) /\ s.live /\ s.active = <<r, "submission">> /\ s.att[r].state = "none"

MayValidate(s, r) ==
  /\ Bound(s) /\ s.live /\ s.active = NoLease /\ s.att[r].state = "pre_admitted"
  /\ ~s.att[r].cancel /\ s.att[r].evidence = "history_observed"

Evidenced(s, r) ==
  Bound(s) /\ s.live /\ s.att[r].state = "pre_admitted" /\ s.att[r].evidence = "evidence_published"

MayHandOff(s, r) ==
  /\ s.att[r].started => s.att[r].remote = "events_accepted"
  /\ Evidenced(s, r) /\ s.att[r].handoff = "not_started" /\ s.active = NoLease /\ s.writer
  /\ s.ledger[r]["stage"] = "reserved"

(* _writer_handoff_matches_locked *)
HandoffMatches(s, r, states) ==
  Evidenced(s, r) /\ s.att[r].handoff \in states /\ ~s.att[r].cancel

MayAccept(s, r) ==
  /\ Evidenced(s, r) /\ s.att[r].handoff = "staged" /\ s.att[r].acceptance = "not_started"
  /\ s.active = NoLease

AcceptanceMatches(s, r) ==
  HandoffMatches(s, r, {"staged"}) /\ s.att[r].acceptance = "in_progress"

MayPreflightPromotion(s, r) ==
  /\ HandoffMatches(s, r, {"staged"}) /\ s.att[r].acceptance = "accepted"
  /\ s.att[r].promotion = "not_started"

(* _profile_a_promotion_preflight_matches_locked *)
PromotionMatches(s, r, states) ==
  /\ HandoffMatches(s, r, {"staged"}) /\ s.att[r].acceptance = "accepted"
  /\ s.att[r].promotion \in states

MayPublishPromotion(s, r) ==
  PromotionMatches(s, r, {"private_committed"}) /\ s.att[r].publication = "not_started"

Promoted(s, r) == s.att[r].publication = "published" /\ s.att[r].promotion = "promoted"

MayAnnounceOutputs(s, r) ==
  /\ s.live /\ Promoted(s, r) /\ ~s.att[r].cancel /\ s.att[r].remote = "events_accepted"
  /\ s.att[r].ready = "none"

OutputsMatch(s, r) ==
  /\ Bound(s) /\ s.live /\ Promoted(s, r) /\ ~s.att[r].cancel
  /\ s.att[r].ready = "claim_in_progress"

MayPreflightAdmission(s, r) ==
  Bound(s) /\ s.live /\ Promoted(s, r) /\ ~s.att[r].cancel /\ s.att[r].preflight = "not_started"

AdmissionPreflightMatches(s, r) ==
  Bound(s) /\ s.live /\ Promoted(s, r) /\ ~s.att[r].cancel /\ s.att[r].preflight = "in_progress"

(* The candidate claims look at the lifecycle, not at the integration.     *)
MayAdmitCandidates(s, r) ==
  /\ s.live /\ Promoted(s, r) /\ ~s.att[r].cancel /\ s.att[r].ready = "events_accepted"
  /\ s.att[r].admission = "not_started"

MayPublishCandidates(s, r) ==
  /\ s.live /\ Promoted(s, r) /\ ~s.att[r].cancel /\ s.att[r].ready = "events_accepted"
  /\ s.att[r].admission = "observed" /\ s.att[r].candidates = "not_started"

(* The job is settled and this request's candidates are registered. *)
MaySave(s, r) ==
  /\ Bound(s) /\ s.live /\ s.save = "not_started" /\ s.att[r].candidates = "observed"
  /\ s.job[r] = "completed" /\ \A q \in Reqs : s.job[q] \in {"completed", "failed"}

SaveClaimCurrent(s) == Bound(s) /\ s.live /\ s.save \in {"claim_in_progress", "saving"}
=============================================================================
