--------------------------- MODULE ReviewCustody ---------------------------
(***************************************************************************)
(* The proposal custodians of one browser session, for Scene Module Swap   *)
(* reviews (ui/agent_scene_module_swap_approval_lifecycle.py) and for      *)
(* generation reviews (ui/agent_generation_review_custody.py), which is    *)
(* the same class without the apply.  A custodian is a record; every       *)
(* operator is what one call does under the custodian's lock.  The mailbox *)
(* operations that move a proposal and its acknowledgment together, under  *)
(* the mailbox lock and then the custodian's, come last.                   *)
(*                                                                         *)
(* A proposal is numbered.  Its prepared token, acknowledgment identity    *)
(* and apply token are secrets drawn once per proposal, so the proposal's  *)
(* number stands for each of them.  An intent stands for the normalized    *)
(* arguments with the plan they expect; a preview for the content of the   *)
(* Project it was computed from.                                           *)
(***************************************************************************)
EXTENDS Mailbox, Sequences

CONSTANTS
  ProposalTTL,       \* DEFAULT_PROPOSAL_TTL_SECONDS
  PreparedLifetime,  \* MAX_PREPARED_LIFETIME_SECONDS
  MaxTombstones      \* MAX_TOMBSTONES

ASSUME CustodyAssumption ==
  /\ ProposalTTL \in Nat \ {0} /\ PreparedLifetime \in Nat \ {0}
  /\ MaxTombstones \in Nat \ {0}

NoRecord == [state |-> "absent", proposal |-> None, request |-> None, pairing |-> None,
             epoch |-> None, intent |-> None, preview |-> None, expires |-> None,
             published |-> FALSE]

InitCustodian ==
  [closed |-> FALSE, epoch |-> None, revision |-> 0, record |-> NoRecord,
   tombstones |-> <<>>, human |-> "absent"]

HasRecord(c) == c.record.state # "absent"

Tombs(c, request) == {i \in 1..Len(c.tombstones) : c.tombstones[i].request = request}

(* The tombstones are an ordered dictionary, oldest first: what it says of *)
(* a request is taken out and put in anew, at the end.                     *)
Others(c, request) ==
  IF Tombs(c, request) = {} THEN c.tombstones
  ELSE LET i == CHOOSE i \in Tombs(c, request) : TRUE
       IN  [j \in 1..(Len(c.tombstones) - 1) |-> c.tombstones[IF j < i THEN j ELSE j + 1]]

Remember(c, request, pairing, intent, reason) ==
  LET all == Append(Others(c, request), [request |-> request, pairing |-> pairing,
                                         intent |-> intent, reason |-> reason])
  IN  [c EXCEPT !.tombstones = IF Len(all) > MaxTombstones THEN Tail(all) ELSE all]

(* The proposal leaves custody: a tombstone, a new revision and what the   *)
(* human is shown from now on.                                             *)
Retire(c, reason, human) ==
  [Remember(c, c.record.request, c.record.pairing, c.record.intent, reason) EXCEPT
     !.record = NoRecord, !.revision = c.revision + 1, !.human = human]

Expire(c, now) ==
  IF c.record.state \notin {"prepared", "pending"} \/ now < c.record.expires THEN c
  ELSE IF c.record.state = "prepared" THEN Retire(c, "review_unavailable", "computation_failure")
  ELSE Retire(c, "proposal_expired", "expired")

-----------------------------------------------------------------------------
(* Requests. *)

(* What an earlier proposal or failure of this request id answers.         *)
Replayed(entry, pairing, intent, answer) ==
  IF entry.pairing # pairing THEN "replay_not_accepted"
  ELSE IF entry.intent # intent THEN "request_id_conflict"
  ELSE answer

(* check_request of the generation custodian retires a proposal of another *)
(* pairing before it looks for the request.                                *)
DropOtherPairing(c, pairing, epoch) ==
  IF ~c.closed /\ epoch = c.epoch /\ HasRecord(c) /\ c.record.pairing # pairing
  THEN Retire(c, "stale_target", "stale") ELSE c

(* Faulty variant: a request id that was already decided is new again. *)
ForgetfulDecision(c, request, pairing, epoch, intent) ==
  IF c.closed THEN "session_closed"
  ELSE IF epoch # c.epoch THEN "stale_target"
  ELSE IF HasRecord(c) THEN "review_already_pending" ELSE "new"

(* check_request on a custodian whose expiry was just looked at, and the   *)
(* same questions asked again by prepare.                                  *)
Decision(c, request, pairing, epoch, intent) ==
  IF c.closed THEN "session_closed"
  ELSE IF epoch # c.epoch THEN "stale_target"
  ELSE IF Tombs(c, request) # {}
       THEN LET t == c.tombstones[CHOOSE i \in Tombs(c, request) : TRUE]
            IN  Replayed(t, pairing, intent, t.reason)
  ELSE IF ~HasRecord(c) THEN "new"
  ELSE IF c.record.request = request
       THEN Replayed(c.record, pairing, intent,
                     IF c.record.state = "pending" THEN "retry_pending"
                     ELSE "review_already_pending")
  ELSE "review_already_pending"

PrepareDecision(c, request, pairing, epoch, intent, revision) ==
  IF ~c.closed /\ epoch = c.epoch /\ revision # c.revision THEN "review_unavailable"
  ELSE Decision(c, request, pairing, epoch, intent)

(* prepare, with a well-formed preview, on a custodian just expired.       *)
Prepare(c, request, pairing, epoch, intent, revision, preview, proposal, now) ==
  LET decision == PrepareDecision(c, request, pairing, epoch, intent, revision)
  IN  IF decision = "new"
      THEN [c EXCEPT !.human = "prepared",
                     !.record = [state |-> "prepared", proposal |-> proposal,
                                 request |-> request, pairing |-> pairing,
                                 epoch |-> epoch, intent |-> intent, preview |-> preview,
                                 expires |-> now + PreparedLifetime, published |-> FALSE]]
      ELSE IF ~c.closed /\ (epoch # c.epoch \/ revision # c.revision)
           THEN Remember(c, request, pairing, intent, decision)
      ELSE c

RememberFailure(c, request, pairing, epoch, intent, revision, reason) ==
  IF c.closed \/ revision # c.revision \/ epoch # c.epoch \/ HasRecord(c) THEN c
  ELSE Remember(c, request, pairing, intent, reason)

-----------------------------------------------------------------------------
(* Commit and abort, called under the mailbox lock.                        *)

Commits(c, proposal, revision, request, pairing, epoch) ==
  /\ ~c.closed
  /\ c.record.state = "prepared" /\ c.record.proposal = proposal
  /\ c.revision = revision
  /\ c.record.request = request /\ c.record.pairing = pairing
  /\ c.record.epoch = epoch /\ c.epoch = epoch

Commit(c, now) ==
  [c EXCEPT !.record.state = "pending", !.record.expires = now + ProposalTTL,
            !.human = "pending"]

AbortPrepared(c, proposal, reason) ==
  IF c.record.state = "prepared" /\ c.record.proposal = proposal
  THEN Retire(c, reason, "computation_failure") ELSE c

AbortPreparedForClaim(c, request, pairing, epoch) ==
  IF /\ c.record.state = "prepared" /\ c.record.request = request
     /\ c.record.pairing = pairing /\ c.record.epoch = epoch
  THEN Retire(c, "review_unavailable", "computation_failure") ELSE c

-----------------------------------------------------------------------------
(* Revocation. *)

(* Faulty variant: the replacement this apply made revokes its own claim.  *)
SynchronizeRevokesPublished(c, epoch) ==
  IF c.closed \/ epoch = None \/ epoch = c.epoch THEN c
  ELSE IF HasRecord(c)
       THEN Retire([c EXCEPT !.epoch = epoch], "stale_target", "stale")
       ELSE [c EXCEPT !.epoch = epoch, !.revision = @ + 1]

(* A new target retires the proposal, unless this very apply made it.      *)
SynchronizeCustody(c, epoch) ==
  IF c.closed \/ epoch = None \/ epoch = c.epoch THEN c
  ELSE IF HasRecord(c) /\ ~c.record.published
       THEN Retire([c EXCEPT !.epoch = epoch], "stale_target", "stale")
       ELSE [c EXCEPT !.epoch = epoch, !.revision = @ + 1]

CancelCustody(c) ==
  IF c.record.published THEN c
  ELSE IF HasRecord(c) THEN Retire(c, "proposal_cancelled", "dismissed")
  ELSE [c EXCEPT !.revision = @ + 1]

CloseCustody(c) ==
  [c EXCEPT !.closed = TRUE, !.revision = @ + 1, !.record = NoRecord,
            !.tombstones = <<>>, !.human = "session_unavailable"]

-----------------------------------------------------------------------------
(* Human actions; p is the proposal the panel showed.                      *)

IsPending(c, p) == ~c.closed /\ c.record.state = "pending" /\ c.record.proposal = p

Resolve(c, p, human) ==
  IF IsPending(c, p) THEN Retire(c, "proposal_cancelled", human) ELSE c

MarkStale(c, p) ==
  IF IsPending(c, p) THEN Retire(c, "stale_target", "stale") ELSE c

ClaimsForApply(c, p, epoch, intent, preview) ==
  /\ IsPending(c, p)
  /\ epoch = c.epoch /\ epoch = c.record.epoch
  /\ c.record.intent = intent /\ c.record.preview = preview

ClaimForApply(c) ==
  [c EXCEPT !.record.state = "applying", !.revision = @ + 1, !.human = "applying"]

(* Faulty variant: the replacement's own new target ends the claim. *)
ApplyClaimInOldTarget(c, p, epoch) ==
  /\ ~c.closed
  /\ c.record.state = "applying" /\ c.record.proposal = p /\ c.record.epoch = epoch
  /\ c.epoch = epoch

(* _apply_claim_is_current_locked for the claim on p taken in epoch.       *)
ApplyClaimIsCurrent(c, p, epoch) ==
  /\ ~c.closed
  /\ c.record.state = "applying" /\ c.record.proposal = p /\ c.record.epoch = epoch
  /\ c.record.published \/ c.epoch = epoch

MarkApplyPublished(c, p, epoch) ==
  IF ApplyClaimIsCurrent(c, p, epoch) /\ ~c.record.published
  THEN [c EXCEPT !.record.published = TRUE, !.revision = @ + 1] ELSE c

RollbackApplyPublication(c, p, epoch) ==
  IF ApplyClaimIsCurrent(c, p, epoch) /\ c.record.published /\ c.epoch = epoch
  THEN [c EXCEPT !.record.published = FALSE, !.revision = @ + 1] ELSE c

Applied == {"applied", "applied_save_failed"}

Finishes(c, p, epoch, status) ==
  ApplyClaimIsCurrent(c, p, epoch) /\ (c.record.published <=> status \in Applied)

FinishApply(c, p, epoch, status) ==
  IF Finishes(c, p, epoch, status) THEN Retire(c, "proposal_cancelled", status) ELSE c

-----------------------------------------------------------------------------
(* Mailbox and custodian together. *)

(* Faulty variant: the acknowledgment survives its proposal. *)
KeepAck(m, p, status) == m

(* _discard_review_ack_locked: only the unconsumed acknowledgment of p.    *)
DiscardAck(m, p, status) ==
  IF /\ m.state = "reply_ready" /\ m.reply_status = "completed"
     /\ m.review.owner # "none" /\ m.review.proposal = p
  THEN SetTerminal(m, status) ELSE m

(* inspect_review_custody turns what the human is shown into the outcome   *)
(* of an acknowledgment nobody has read yet.                               *)
InspectOutcomes ==
  [expired |-> "expired", stale |-> "stale_target", rejected |-> "review_cancelled",
   dismissed |-> "review_cancelled", applied |-> "review_cancelled",
   applied_save_failed |-> "review_cancelled", apply_failed |-> "review_cancelled"]

(* c is the custodian after its expiry, owner its kind. *)
InspectAck(m, c, owner) ==
  IF /\ m.review.owner = owner /\ ~c.closed /\ ~HasRecord(c)
     /\ c.human \in DOMAIN InspectOutcomes
  THEN DiscardAck(m, m.review.proposal, InspectOutcomes[c.human]) ELSE m

(* resolve_review_proposal and mark_review_proposal_stale: the state c     *)
(* answers after the call decides.                                         *)
ResolveAck(m, c, owner, p) ==
  IF m.review.owner = owner /\ ~c.closed /\ c.human \in {"rejected", "dismissed", "expired", "stale"}
  THEN DiscardAck(m, p, InspectOutcomes[c.human]) ELSE m

StaleAck(m, c, owner, p) ==
  IF m.review.owner = owner /\ ~c.closed /\ c.human \in {"expired", "stale"}
  THEN DiscardAck(m, p, InspectOutcomes[c.human]) ELSE m

CancelAck(m, owner) ==
  IF m.state = "reply_ready" /\ m.reply_status = "completed" /\ m.review.owner = owner
  THEN SetTerminal(m, "review_cancelled") ELSE m

Ack(owner, request, record) ==
  [owner |-> owner, request |-> request, pairing |-> record.pairing,
   epoch |-> record.epoch, proposal |-> record.proposal]

-----------------------------------------------------------------------------
RecordStates == {"absent", "prepared", "pending", "applying"}

HumanStates ==
  {"absent", "prepared", "pending", "applying", "rejected", "dismissed", "expired",
   "stale", "computation_failure", "session_unavailable", "applied",
   "applied_save_failed", "apply_failed"}

RecordType ==
  [state : RecordStates, proposal : Nat, request : Nat, pairing : Nat, epoch : Nat,
   intent : Nat, preview : Nat, expires : Nat, published : BOOLEAN]

Reasons ==
  {"review_unavailable", "proposal_expired", "stale_target", "proposal_cancelled",
   "stale_preview", "session_closed", "invalid_preview"}

TombstoneType == [request : Nat, pairing : Nat, intent : Nat, reason : Reasons]

CustodianType ==
  [closed : BOOLEAN, epoch : Nat, revision : Nat, record : RecordType,
   tombstones : Seq(TombstoneType), human : HumanStates]
=============================================================================
