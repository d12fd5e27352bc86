--------------------------- MODULE ReviewSession ---------------------------
(***************************************************************************)
(* Reviewed proposals of one browser session: an agent's review request    *)
(* goes through the mailbox, the bridge prepares a proposal, and reply and *)
(* proposal are committed together; the human inspects, rejects, dismisses *)
(* or applies it; an apply replaces the session's Project under the        *)
(* publication gate (ui/project_agent_session_pump.py,                     *)
(* ui/project_agent_session_mailbox.py,                                    *)
(* ui/agent_scene_module_swap_apply_lifecycle.py).                         *)
(*                                                                         *)
(* Full-app runs are serialized (the bridge refuses to capture a Project   *)
(* otherwise), so there is one script thread; it alone writes the session  *)
(* state.  The pipe's threads, the clock and the release of the session    *)
(* run beside it.  A synchronization with the target the script thread     *)
(* itself has just synchronized changes nothing and is not a step of its   *)
(* own.  Wake-ups and overlapping runs are in SessionPump; here a run may  *)
(* reach its service point at any time.                                    *)
(***************************************************************************)
EXTENDS ReviewCustody, FiniteSets

CONSTANTS
  Kinds,          \* the custodians in use, of "swap" and "generation"
  Payloads,       \* the requests a client may send
  IdOf, KindOf, IntentOf,   \* a payload's request id, tool and intent
  Projects,       \* activation identities (Project object, path); None: no Project
  Contents,       \* contents of a Project, as far as a preview shows them
  Timeout,        \* the request timeout
  MaxHistory,     \* the bound of the undo history
  MayInterrupt,   \* Streamlit may end a run at a session-state access
  MaxTime, MaxEpochs, MaxProposals, MaxClaims, MaxPairings,
  MaxCancelled    \* bounds on counters; the last on the revisions a disarm goes on from

ASSUME ReviewAssumption ==
  /\ Kinds \subseteq {"swap", "generation"}
  /\ Payloads \subseteq Nat \ {0}
  /\ \A q \in Payloads :
       IdOf[q] \in Nat \ {0} /\ KindOf[q] \in Kinds /\ IntentOf[q] \in Contents
  /\ None \in Projects /\ Contents \subseteq Nat \ {0}
  /\ Timeout \in Nat \ {0} /\ Timeout <= ProposalTTL
  /\ MaxHistory \in Nat \ {0} /\ MayInterrupt \in BOOLEAN
  /\ {MaxTime, MaxEpochs, MaxProposals, MaxClaims, MaxPairings, MaxCancelled} \subseteq Nat

VARIABLES
  clock,     \* time.monotonic
  mb,        \* the mailbox
  cust,      \* the custodians
  session,   \* session_state: the live Project and its content
  history,   \* session_state["history"]: the undo snapshots, empty or full at first
  tracker,   \* ProjectTargetTracker
  epochs,    \* epochs handed out so far
  closed,    \* ProjectAgentSessionRuntime._closed
  gate,      \* the publication gate is held across steps (by an apply)
  pc, run,   \* the script thread: its position and local variables
  client,    \* the paired client's pending call
  pairing,   \* its pairing generation
  claims, proposals,   \* claims and proposals made so far
  origin,    \* history: what each proposal was committed for
  replaced,  \* history: how often a proposal's apply replaced the Project
  outcome    \* history: what the human was told when it left custody

vars == <<clock, mb, cust, session, history, tracker, epochs, closed, gate, pc, run,
          client, pairing, claims, proposals, origin, replaced, outcome>>

world == <<clock, session, history, tracker, epochs, closed, gate>>
pipe == <<client, pairing>>
ghosts == <<origin, replaced>>

Proposals == 1..MaxProposals

NoLocals ==
  [epoch |-> None, claim |-> None, payload |-> None, pairing |-> None, revision |-> 0,
   carrier |-> "none", proposal |-> None, intent |-> None, preview |-> None,
   evicted |-> None, undo |-> <<>>, status |-> "none"]

NoCall == [state |-> "idle", epoch |-> None, generation |-> 0, status |-> "none",
           review |-> NoReview]

NoOrigin == [kind |-> "none", request |-> None, project |-> None, content |-> None,
             expires |-> None]

Init ==
  /\ clock = 0
  /\ mb = InitMailbox
  /\ cust = [k \in Kinds |-> InitCustodian]
  /\ session \in [project : Projects, content : Contents]
  /\ history \in {<<>>, [i \in 1..MaxHistory |-> session.content]}
  /\ tracker = [initialized |-> FALSE, target |-> None, epoch |-> None]
  /\ epochs = 0
  /\ closed = FALSE
  /\ gate = FALSE
  /\ pc = "off"
  /\ run = NoLocals
  /\ client = NoCall
  /\ pairing = 1
  /\ claims = 0
  /\ proposals = 0
  /\ origin = [p \in Proposals |-> NoOrigin]
  /\ replaced = [p \in Proposals |-> 0]
  /\ outcome = [p \in Proposals |-> "absent"]

-----------------------------------------------------------------------------
(* The custodians become c; a proposal that leaves custody has its outcome *)
(* recorded.                                                               *)
Custody(c) ==
  /\ cust' = c
  /\ outcome' = [p \in Proposals |->
       IF \E k \in Kinds : cust[k].record.proposal = p /\ c[k].record.proposal # p
       THEN c[CHOOSE k \in Kinds : cust[k].record.proposal = p].human
       ELSE outcome[p]]

CustodyOf(k, c) == Custody([cust EXCEPT ![k] = c])

Expired(k) == Expire(cust[k], clock)

(* _synchronize_target_locked for the target the session has in this step. *)
SynchronizeTarget(project) ==
  LET same == tracker.initialized /\ tracker.target = project
      epoch == IF same THEN tracker.epoch ELSE epochs + 1
  IN  /\ epoch <= MaxEpochs
      /\ tracker' = [initialized |-> TRUE, target |-> project, epoch |-> epoch]
      /\ epochs' = IF same THEN epochs ELSE epoch
      /\ mb' = SynchronizeTargetEpoch(mb, epoch)
      /\ Custody([k \in Kinds |-> SynchronizeCustody(cust[k], epoch)])

(* synchronize_target by the script thread: nothing once the session is    *)
(* released.                                                               *)
Synchronize ==
  IF closed THEN UNCHANGED <<tracker, epochs, mb, cust, outcome>>
  ELSE SynchronizeTarget(session.project)

Goto(label) == pc' = label

End == pc' = "off" /\ run' = NoLocals

-----------------------------------------------------------------------------
(* The service point. *)

Serve ==
  /\ pc = "off"
  /\ Synchronize
  /\ run' = [NoLocals EXCEPT !.epoch = IF closed THEN None ELSE tracker'.epoch]
  /\ Goto("claim")
  /\ UNCHANGED <<clock, session, history, closed, gate, pipe, claims, proposals, ghosts>>

Claim ==
  /\ pc = "claim"
  /\ mb' = ClaimTake(mb, run.epoch, claims + 1, clock)
  /\ IF Claimable(mb, run.epoch, clock)
     THEN /\ claims' = claims + 1
          /\ run' = [run EXCEPT !.claim = claims + 1, !.payload = mb.request,
                                !.pairing = mb.pairing]
          /\ Goto("confirm")
     ELSE End /\ UNCHANGED claims
  /\ UNCHANGED <<world, cust, pipe, proposals, ghosts, outcome>>

Confirm ==
  /\ pc = "confirm"
  /\ mb' = ClaimCheck(mb, run.epoch, run.claim, clock)
  /\ IF ClaimConfirmed(mb, run.epoch, run.claim, clock)
     THEN Goto("check") /\ UNCHANGED run
     ELSE End
  /\ UNCHANGED <<world, cust, pipe, claims, proposals, ghosts, outcome>>

Kind == KindOf[run.payload]

RequestDecision(c) ==
  Decision(c, IdOf[run.payload], run.pairing, run.epoch, IntentOf[run.payload])

(* What check_request looks into. *)
Looked(k) ==
  IF k = "generation" THEN DropOtherPairing(Expired(k), run.pairing, run.epoch) ELSE Expired(k)

(* check_request: a new request and a generation retry go on to the        *)
(* preview, a swap retry to its publication, anything else is refused.     *)
CheckRequest ==
  /\ pc = "check"
  /\ LET c == Looked(Kind)
         d == RequestDecision(c)
         locals == [run EXCEPT !.revision = c.revision,
                               !.proposal = IF d = "retry_pending" THEN c.record.proposal
                                            ELSE None]
     IN  /\ CustodyOf(Kind, c)
         /\ IF d = "new" \/ (d = "retry_pending" /\ Kind = "generation")
            THEN run' = locals /\ Goto("prepare")
            ELSE /\ run' = [locals EXCEPT !.carrier = IF d = "retry_pending"
                                                      THEN "duplicate" ELSE "plain"]
                 /\ Goto("publish")
  /\ UNCHANGED <<world, mb, pipe, claims, proposals, ghosts>>

(* No capture, no preview, not the expected one, too large, or no longer   *)
(* current: the failure is remembered; a preview that shows the pending    *)
(* proposal of a generation retry to be out of date retires it first.      *)
FailRequest ==
  /\ pc = "prepare"
  /\ \E c \in {Expired(Kind), MarkStale(Expired(Kind), run.proposal)} :
       CustodyOf(Kind, RememberFailure(c, IdOf[run.payload], run.pairing, run.epoch,
                                       IntentOf[run.payload], run.revision, "invalid_preview"))
  /\ run' = [run EXCEPT !.carrier = "plain", !.proposal = None]
  /\ Goto("publish")
  /\ UNCHANGED <<world, mb, pipe, claims, proposals, ghosts>>

(* The preview of the live content is the expected one. *)
Previewed == session.project # None /\ session.content = IntentOf[run.payload]

RetryRequest ==
  /\ pc = "prepare"
  /\ run.proposal # None /\ Previewed
  /\ run' = [run EXCEPT !.carrier = "duplicate"]
  /\ Goto("publish")
  /\ UNCHANGED <<world, mb, cust, outcome, pipe, claims, proposals, ghosts>>

PrepareProposal ==
  /\ pc = "prepare"
  /\ run.proposal = None /\ Previewed
  /\ proposals < MaxProposals
  /\ LET c == Expired(Kind)
         d == PrepareDecision(c, IdOf[run.payload], run.pairing, run.epoch,
                              IntentOf[run.payload], run.revision)
     IN  /\ CustodyOf(Kind, Prepare(c, IdOf[run.payload], run.pairing, run.epoch,
                                    IntentOf[run.payload], run.revision,
                                    session.content, proposals + 1, clock))
         /\ proposals' = IF d = "new" THEN proposals + 1 ELSE proposals
         /\ run' = [run EXCEPT
              !.carrier = CASE d = "new" -> "prepared"
                            [] d = "retry_pending" -> "duplicate"
                            [] OTHER -> "plain",
              !.proposal = CASE d = "new" -> proposals + 1
                             [] d = "retry_pending" -> c.record.proposal
                             [] OTHER -> None]
  /\ Goto("publish")
  /\ UNCHANGED <<world, mb, pipe, claims, ghosts>>

(* A second generation preview at the publication boundary differs         *)
(* (fail_generation_review_publication): the proposal is retired and the   *)
(* reply becomes a plain failure.                                          *)
FailPublication ==
  /\ pc = "publish"
  /\ run.carrier \in {"prepared", "duplicate"} /\ Kind = "generation"
  /\ LET c == Expired(Kind)
     IN  IF /\ Holds(mb, run.claim)
            /\ cust[Kind].record.request = IdOf[run.payload]
            /\ cust[Kind].record.pairing = run.pairing
            /\ cust[Kind].record.epoch = run.epoch
         THEN CustodyOf(Kind,
                IF /\ c.record.proposal = run.proposal
                   /\ \/ /\ run.carrier = "prepared" /\ c.record.state = "prepared"
                         /\ c.revision = run.revision
                      \/ run.carrier = "duplicate" /\ c.record.state = "pending"
                THEN Retire(c, "stale_preview", "stale") ELSE c)
         ELSE UNCHANGED <<cust, outcome>>
  /\ run' = [run EXCEPT !.carrier = "plain", !.proposal = None]
  /\ UNCHANGED <<world, mb, pc, pipe, claims, proposals, ghosts>>

-----------------------------------------------------------------------------
(* Publication of the reply. *)

PlainReply == [request |-> IdOf[run.payload], content |-> None]
AckReply == [request |-> IdOf[run.payload], content |-> run.proposal]

PublishPlain ==
  /\ pc = "publish" /\ run.carrier = "plain"
  /\ mb' = Complete(mb, run.claim, run.epoch, PlainReply, run.epoch, clock)
  /\ End
  /\ UNCHANGED <<world, cust, outcome, pipe, claims, proposals, ghosts>>

(* Faulty variant: the proposal becomes pending before the deadline and    *)
(* the target of its request are looked at.                                *)
CommitBeforeChecks(k) ==
  LET c == cust[k]
  IN  IF ~Holds(mb, run.claim) THEN <<mb, AbortPrepared(c, run.proposal, "review_unavailable")>>
      ELSE IF Commits(Expired(k), run.proposal, run.revision, IdOf[run.payload],
                      run.pairing, run.epoch)
      THEN <<Complete(mb, run.claim, run.epoch, AckReply, run.epoch, clock),
             Commit(Expired(k), clock)>>
      ELSE <<SetTerminal(mb, "internal_error"), Expired(k)>>

(* complete_with_review: mailbox and custodian after it. *)
CompleteWithReview(k) ==
  LET c == cust[k]
      e == Expired(k)
  IN  IF mb.closed THEN <<mb, AbortPrepared(c, run.proposal, "session_closed")>>
      ELSE IF ~Holds(mb, run.claim) THEN
        LET d == AbortPrepared(c, run.proposal, "review_unavailable")
        IN  IF mb.state = "executing"
            THEN <<SetTerminal(mb, "internal_error"),
                   AbortPreparedForClaim(d, IdOf[mb.request], mb.pairing, mb.request_epoch)>>
            ELSE <<mb, d>>
      ELSE IF mb.invalidated \/ mb.target_epoch # run.epoch
      THEN <<SetTerminal(mb, "stale_target"), AbortPrepared(c, run.proposal, "stale_target")>>
      ELSE IF IsExpired(mb, clock)
      THEN <<SetTerminal(mb, "expired"), AbortPrepared(c, run.proposal, "proposal_expired")>>
      ELSE IF ~Commits(e, run.proposal, run.revision, IdOf[run.payload], run.pairing, run.epoch)
      THEN <<SetTerminal(mb, "internal_error"),
             AbortPreparedForClaim(AbortPrepared(e, run.proposal, "review_unavailable"),
                                   IdOf[run.payload], run.pairing, run.epoch)>>
      ELSE <<SetCompleted(mb, AckReply, Ack(k, IdOf[run.payload], e.record)),
             Commit(e, clock)>>

PublishReview ==
  /\ pc = "publish" /\ run.carrier = "prepared"
  /\ mb' = CompleteWithReview(Kind)[1]
  /\ CustodyOf(Kind, CompleteWithReview(Kind)[2])
  /\ origin' = IF cust'[Kind].record.state = "pending" /\ cust[Kind].record.state = "prepared"
               THEN [origin EXCEPT ![run.proposal] =
                       [kind |-> Kind, request |-> IdOf[run.payload],
                        project |-> session.project, content |-> session.content,
                        expires |-> clock + ProposalTTL]]
               ELSE origin
  /\ End
  /\ UNCHANGED <<world, pipe, claims, proposals, replaced>>

(* Why a retry's proposal is no longer there. *)
RetryOutcome(c) ==
  LET t == {i \in Tombs(c, IdOf[run.payload]) :
              c.tombstones[i].pairing = run.pairing
              /\ c.tombstones[i].intent = IntentOf[run.payload]}
  IN  IF t = {} THEN "review_cancelled"
      ELSE CASE c.tombstones[CHOOSE i \in t : TRUE].reason = "proposal_expired" -> "expired"
             [] c.tombstones[CHOOSE i \in t : TRUE].reason = "stale_target" -> "stale_target"
             [] c.tombstones[CHOOSE i \in t : TRUE].reason = "session_closed" -> "session_closed"
             [] OTHER -> "review_cancelled"

(* complete_with_duplicate_review: mailbox and custodian after it. *)
CompleteWithDuplicate(k) ==
  LET e == Expired(k)
  IN  IF mb.closed THEN <<mb, cust[k]>>
      ELSE IF ~Holds(mb, run.claim)
      THEN <<IF mb.state = "executing" THEN SetTerminal(mb, "internal_error") ELSE mb, cust[k]>>
      ELSE IF mb.invalidated \/ mb.target_epoch # run.epoch \/ cust[k].epoch # run.epoch
      THEN <<SetTerminal(mb, "stale_target"), cust[k]>>
      ELSE IF IsExpired(mb, clock) THEN <<SetTerminal(mb, "expired"), cust[k]>>
      ELSE IF ~HasRecord(e) THEN <<SetTerminal(mb, RetryOutcome(e)), e>>
      ELSE IF ~IsPending(e, run.proposal) THEN <<SetTerminal(mb, "review_cancelled"), e>>
      ELSE <<SetCompleted(mb, AckReply, Ack(k, IdOf[run.payload], e.record)), e>>

PublishDuplicate ==
  /\ pc = "publish" /\ run.carrier = "duplicate"
  /\ mb' = CompleteWithDuplicate(Kind)[1]
  /\ CustodyOf(Kind, CompleteWithDuplicate(Kind)[2])
  /\ End
  /\ UNCHANGED <<world, pipe, claims, proposals, ghosts>>

-----------------------------------------------------------------------------
(* The human, in the script thread. *)

(* The begin of a run, and every panel before it looks at custody.         *)
Observe ==
  /\ pc = "off" /\ ~closed
  /\ SynchronizeTarget(session.project)
  /\ UNCHANGED <<clock, session, history, closed, gate, pc, run, pipe, claims, proposals, ghosts>>

Inspect(k) ==
  /\ pc = "off"
  /\ CustodyOf(k, Expired(k))
  /\ mb' = InspectAck(mb, Expired(k), k)
  /\ UNCHANGED <<world, pc, run, pipe, claims, proposals, ghosts>>

(* Reject or Dismiss of a proposal some panel has shown. *)
ResolveProposal(k, p, human) ==
  /\ pc = "off"
  /\ CustodyOf(k, Resolve(Expired(k), p, human))
  /\ mb' = ResolveAck(mb, Resolve(Expired(k), p, human), k, p)
  /\ UNCHANGED <<world, pc, run, pipe, claims, proposals, ghosts>>

(* The panel's fresh preview is not the proposal's. *)
MarkProposalStale(k) ==
  /\ pc = "off"
  /\ tracker.initialized /\ tracker.target = session.project
  /\ cust[k].record.state = "pending" /\ cust[k].record.preview # session.content
  /\ LET c == MarkStale(Expired(k), cust[k].record.proposal)
     IN  CustodyOf(k, c) /\ mb' = StaleAck(mb, c, k, cust[k].record.proposal)
  /\ UNCHANGED <<world, pc, run, pipe, claims, proposals, ghosts>>

(* disarm_launcher_rendezvous, under the gate, as far as it concerns       *)
(* custody.                                                                *)
Disarm ==
  /\ pc = "off" /\ ~closed
  /\ \A k \in Kinds : cust[k].revision <= MaxCancelled
  /\ Custody([k \in Kinds |-> CancelCustody(cust[k])])
  /\ mb' = IF mb.review.owner \in Kinds THEN CancelAck(mb, mb.review.owner) ELSE mb
  /\ UNCHANGED <<world, pc, run, pipe, claims, proposals, ghosts>>

(* The page opens another Project, or edits the live one in place. *)
SwitchTarget ==
  /\ pc = "off"
  /\ epochs < MaxEpochs
  /\ \E next \in [project : Projects \ {session.project}, content : Contents] :
       session' = next
  /\ UNCHANGED <<clock, mb, cust, history, tracker, epochs, closed, gate, pc, run, pipe,
                 claims, proposals, ghosts, outcome>>

Edit ==
  /\ pc = "off" /\ session.project # None
  /\ \E content \in Contents \ {session.content} :
       session' = [session EXCEPT !.content = content]
  /\ UNCHANGED <<clock, mb, cust, history, tracker, epochs, closed, gate, pc, run, pipe,
                 claims, proposals, ghosts, outcome>>

-----------------------------------------------------------------------------
(* apply_agent_scene_module_swap_approval. *)

Swap == cust["swap"]

StartApply(p) ==
  /\ pc = "off" /\ session.project # None
  /\ Synchronize
  /\ run' = [NoLocals EXCEPT !.proposal = p,
                             !.epoch = IF closed THEN None ELSE tracker'.epoch]
  /\ Goto("inspect")
  /\ UNCHANGED <<clock, session, history, closed, gate, pipe, claims, proposals, ghosts>>

(* The record is read, a fresh preview compared with the stored one, and   *)
(* the record read again; a failed preview gives up without a change.      *)
InspectForApply ==
  /\ pc = "inspect"
  /\ CustodyOf("swap", Expired("swap"))
  /\ mb' = InspectAck(mb, Expired("swap"), "swap")
  /\ \/ /\ IsPending(cust'["swap"], run.proposal)
        /\ cust'["swap"].record.epoch = run.epoch
        /\ run' = [run EXCEPT !.intent = cust'["swap"].record.intent,
                              !.preview = cust'["swap"].record.preview]
        /\ Goto(IF session.content = cust'["swap"].record.preview THEN "recheck" ELSE "stale")
     \/ /\ cust'["swap"].record.state = "pending"
        /\ cust'["swap"].record.proposal # run.proposal \/ cust'["swap"].record.epoch # run.epoch
        /\ Goto("stale") /\ UNCHANGED run
     \/ End
  /\ UNCHANGED <<world, pipe, claims, proposals, ghosts>>

StaleForApply ==
  /\ pc = "stale"
  /\ LET c == MarkStale(Expired("swap"), run.proposal)
     IN  CustodyOf("swap", c) /\ mb' = StaleAck(mb, c, "swap", run.proposal)
  /\ End
  /\ UNCHANGED <<world, pipe, claims, proposals, ghosts>>

Recheck ==
  /\ pc = "recheck"
  /\ CustodyOf("swap", Expired("swap"))
  /\ mb' = InspectAck(mb, Expired("swap"), "swap")
  /\ IF IsPending(cust'["swap"], run.proposal) THEN Goto("apply_claim") /\ UNCHANGED run ELSE End
  /\ UNCHANGED <<world, pipe, claims, proposals, ghosts>>

ClaimProposal ==
  /\ pc = "apply_claim"
  /\ IF mb.closed \/ mb.target_epoch # run.epoch
     THEN End /\ UNCHANGED <<cust, outcome>>
     ELSE IF ClaimsForApply(Expired("swap"), run.proposal, run.epoch, run.intent, run.preview)
     THEN Goto("core") /\ UNCHANGED run /\ CustodyOf("swap", ClaimForApply(Expired("swap")))
     ELSE End /\ CustodyOf("swap", Expired("swap"))
  /\ UNCHANGED <<world, mb, pipe, claims, proposals, ghosts>>

(* The core computes the replacement from a clone, or fails; a claim lost  *)
(* meanwhile only looks at what the human is shown (LookAfterApply).       *)
CoreApply ==
  /\ pc = "core"
  /\ IF ~ApplyClaimIsCurrent(Swap, run.proposal, run.epoch)
     THEN Goto("look") /\ UNCHANGED run
     ELSE \/ Goto("apply_publish") /\ UNCHANGED run
          \/ /\ \E status \in {"stale", "apply_failed"} : run' = [run EXCEPT !.status = status]
             /\ Goto("finish")
  /\ UNCHANGED <<world, mb, cust, outcome, pipe, claims, proposals, ghosts>>

Append20(h, content) ==
  IF Len(h) >= MaxHistory THEN Append(Tail(h), content) ELSE Append(h, content)

(* publish_review_apply takes the gate and looks at everything again, ...  *)
Publishable ==
  /\ ~closed
  /\ tracker.target = session.project /\ tracker.epoch = run.epoch
  /\ ApplyClaimIsCurrent(Swap, run.proposal, run.epoch)

(* ... stages the undo snapshot and the publication marker (the session's  *)
(* history is a list), ...                                                 *)
StagePublication ==
  /\ pc = "apply_publish"
  /\ IF Publishable
     THEN /\ history' = Append20(history, session.content)
          /\ CustodyOf("swap", MarkApplyPublished(Swap, run.proposal, run.epoch))
          /\ gate' = TRUE
          /\ run' = [run EXCEPT !.undo = history,
                                !.evicted = IF Len(history) >= MaxHistory
                                            THEN history[1] ELSE None]
          /\ Goto("assign")
     ELSE /\ run' = [run EXCEPT !.status = "stale"]
          /\ Goto(IF closed THEN "look" ELSE "finish")
          /\ UNCHANGED <<history, cust, outcome, gate>>
  /\ UNCHANGED <<clock, mb, session, tracker, epochs, closed, pipe, claims, proposals, ghosts>>

(* ... replaces the Project, ...                                           *)
ReplaceProject ==
  /\ pc = "assign" /\ epochs < MaxEpochs
  /\ \E next \in [project : Projects \ {None, session.project}, content : Contents] :
       session' = next
  /\ replaced' = [replaced EXCEPT ![run.proposal] = @ + 1]
  /\ Goto("retire")
  /\ UNCHANGED <<clock, mb, cust, outcome, history, tracker, epochs, closed, gate, run, pipe,
                 claims, proposals, origin>>

(* The snapshot is popped; the one it evicted comes back in front.         *)
Unstaged ==
  LET popped == SubSeq(history, 1, Len(history) - 1)
  IN  IF run.evicted = None THEN popped ELSE <<run.evicted>> \o popped

(* ... or takes marker and snapshot back if the assignment raised,         *)
RollbackPublication ==
  /\ pc = "assign"
  /\ CustodyOf("swap", RollbackApplyPublication(Swap, run.proposal, run.epoch))
  /\ history' = Unstaged
  /\ gate' = FALSE
  /\ run' = [run EXCEPT !.status = "apply_failed"]
  /\ Goto("finish")
  /\ UNCHANGED <<clock, mb, session, tracker, epochs, closed, pipe, claims, proposals, ghosts>>

(* ... retires the queued acknowledgment, ...                              *)
RetireAck ==
  /\ pc = "retire"
  /\ mb' = IF ApplyClaimIsCurrent(Swap, run.proposal, run.epoch) /\ Swap.record.published
           THEN DiscardAck(mb, run.proposal, "review_cancelled") ELSE mb
  /\ Goto("observe")
  /\ UNCHANGED <<world, cust, outcome, run, pipe, claims, proposals, ghosts>>

(* ... and observes the new target before it leaves the gate.              *)
ObserveReplacement ==
  /\ pc = "observe"
  /\ SynchronizeTarget(session.project)
  /\ gate' = FALSE
  /\ Goto("save")
  /\ UNCHANGED <<clock, session, history, closed, run, pipe, claims, proposals, ghosts>>

(* save_published_review_apply: only the exact applied Project, only while *)
(* the claim is there; the save may fail.                                  *)
SaveApplied ==
  /\ pc = "save"
  /\ \E saved \in BOOLEAN :
       /\ saved => ~closed /\ ApplyClaimIsCurrent(Swap, run.proposal, run.epoch)
       /\ run' = [run EXCEPT !.status = IF saved THEN "applied" ELSE "applied_save_failed"]
  /\ Goto("finish")
  /\ UNCHANGED <<world, mb, cust, outcome, pipe, claims, proposals, ghosts>>

FinishProposal ==
  /\ pc = "finish"
  /\ IF ~mb.closed /\ Finishes(Swap, run.proposal, run.epoch, run.status)
     THEN /\ CustodyOf("swap", FinishApply(Swap, run.proposal, run.epoch, run.status))
          /\ mb' = DiscardAck(mb, run.proposal, "review_cancelled")
          /\ End
     ELSE Goto("look") /\ UNCHANGED <<mb, cust, outcome, run>>
  /\ UNCHANGED <<world, pipe, claims, proposals, ghosts>>

(* _terminal_review_state *)
LookAfterApply ==
  /\ pc = "look"
  /\ CustodyOf("swap", Expired("swap"))
  /\ mb' = InspectAck(mb, Expired("swap"), "swap")
  /\ End
  /\ UNCHANGED <<world, pipe, claims, proposals, ghosts>>

(* A ScriptControlException at a session-state access: it passes every     *)
(* `except Exception`, and leaving the gate's `with` releases it.          *)
Interrupt ==
  /\ MayInterrupt
  /\ pc \in {"prepare", "publish", "recheck", "core", "apply_publish", "assign", "save"}
  /\ gate' = FALSE
  /\ End
  /\ UNCHANGED <<clock, mb, cust, outcome, session, history, tracker, epochs, closed, pipe,
                 claims, proposals, ghosts>>

-----------------------------------------------------------------------------
(* The pipe's threads: one client, one call at a time. *)

SubmitRequest(q) ==
  /\ client.state = "idle" /\ claims < MaxClaims
  /\ mb.target_epoch # None
  /\ SubmitStatus(mb, mb.target_epoch) = "accepted"
  /\ mb' = Submit(mb, mb.target_epoch, q, pairing, clock + Timeout)
  /\ client' = [NoCall EXCEPT !.state = "waiting", !.epoch = mb.target_epoch]
  /\ UNCHANGED <<world, cust, outcome, pc, run, pairing, claims, proposals, ghosts>>

(* _expire_generation_ack_locked, before each critical section of          *)
(* consume_reply: mailbox and custodians after it.                         *)
ExpiredAck ==
  IF mb.review.owner = "generation"
  THEN <<InspectAck(mb, Expired("generation"), "generation"),
         [cust EXCEPT !["generation"] = Expire(@, clock)]>>
  ELSE <<mb, cust>>

PeekReply ==
  /\ client.state = "waiting"
  /\ LET m == ExpiredAck[1]
     IN  /\ mb' = Peek(m, client.epoch, clock)
         /\ client' = CASE PeekStatus(m, client.epoch) = "read" ->
                             [client EXCEPT !.state = "copying",
                                            !.generation = mb'.reply_generation,
                                            !.status = mb'.reply_status,
                                            !.review = mb'.review]
                        [] PeekStatus(m, client.epoch) = "busy" -> client
                        [] OTHER -> NoCall
  /\ Custody(ExpiredAck[2])
  /\ UNCHANGED <<world, pc, run, pairing, claims, proposals, ghosts>>

(* What the client is told at the end of its copy. *)
Told == TakeStatus(ExpiredAck[1], client.epoch, client.generation, client.status)

TakeReply ==
  /\ client.state = "copying"
  /\ mb' = Take(ExpiredAck[1], client.epoch, client.generation)
  /\ client' = IF Told = "busy" THEN [NoCall EXCEPT !.state = "waiting", !.epoch = client.epoch]
               ELSE NoCall
  /\ Custody(ExpiredAck[2])
  /\ UNCHANGED <<world, pc, run, pairing, claims, proposals, ghosts>>

(* The route is released, which needs an idle mailbox, and paired again.   *)
PairAgain ==
  /\ client.state = "idle" /\ mb.state = "idle"
  /\ pairing < MaxPairings
  /\ pairing' = pairing + 1
  /\ UNCHANGED <<world, mb, cust, outcome, pc, run, client, claims, proposals, ghosts>>

-----------------------------------------------------------------------------
(* Faulty variant: the session is released without waiting for the gate.   *)
CloseWithoutGate == ~closed

CloseEnabled == ~closed /\ ~gate

CloseSession ==
  /\ CloseEnabled
  /\ closed' = TRUE
  /\ mb' = Close(mb)
  /\ Custody([k \in Kinds |-> CloseCustody(cust[k])])
  /\ tracker' = [initialized |-> FALSE, target |-> None, epoch |-> None]
  /\ UNCHANGED <<clock, session, history, epochs, gate, pc, run, pipe, claims, proposals, ghosts>>

Tick ==
  /\ clock < MaxTime
  /\ clock' = clock + 1
  /\ UNCHANGED <<mb, cust, outcome, session, history, tracker, epochs, closed, gate, pc, run,
                 pipe, claims, proposals, ghosts>>

Service ==
  \/ Serve \/ Claim \/ Confirm \/ CheckRequest \/ FailRequest \/ RetryRequest
  \/ PrepareProposal \/ FailPublication \/ PublishPlain \/ PublishReview \/ PublishDuplicate

Human ==
  \/ Observe \/ Disarm \/ SwitchTarget \/ Edit
  \/ \E k \in Kinds : Inspect(k) \/ MarkProposalStale(k)
  \/ \E k \in Kinds, p \in 1..proposals, human \in {"rejected", "dismissed"} :
       ResolveProposal(k, p, human)

ApplyStep ==
  \/ InspectForApply \/ StaleForApply \/ Recheck \/ ClaimProposal \/ CoreApply
  \/ StagePublication \/ ReplaceProject \/ RollbackPublication \/ RetireAck
  \/ ObserveReplacement \/ SaveApplied \/ FinishProposal \/ LookAfterApply

Apply == ApplyStep \/ \E p \in 1..proposals : "swap" \in Kinds /\ StartApply(p)

Pipe == (\E q \in Payloads : SubmitRequest(q)) \/ PeekReply \/ TakeReply \/ PairAgain

Next == Service \/ Human \/ Apply \/ Interrupt \/ Pipe \/ CloseSession \/ Tick

Spec == Init /\ [][Next]_vars

(* A run goes on, runs come again and look at custody, time passes.        *)
Fairness ==
  /\ WF_vars(Service) /\ WF_vars(ApplyStep)
  /\ \A k \in Kinds : SF_vars(Inspect(k))
  /\ WF_vars(Tick)

FairSpec == Spec /\ Fairness

-----------------------------------------------------------------------------
(* Properties. *)

Labels ==
  {"off", "claim", "confirm", "check", "prepare", "publish", "inspect", "stale", "recheck",
   "apply_claim", "core", "apply_publish", "assign", "retire", "observe", "save", "finish",
   "look"}

LocalsType ==
  [epoch : Nat, claim : Nat, payload : Payloads \cup {None}, pairing : Nat, revision : Nat,
   carrier : {"none", "plain", "prepared", "duplicate"}, proposal : 0..MaxProposals,
   intent : Nat, preview : Nat, evicted : Nat, undo : Seq(Contents),
   status : {"none", "stale", "apply_failed"} \cup Applied]

CallType ==
  [state : {"idle", "waiting", "copying"}, epoch : Nat, generation : Nat,
   status : ReplyStatuses, review : ReviewType]

(* Every variable has its type; the undo history keeps its bound. *)
TypeOK ==
  /\ clock \in Nat /\ mb \in MailboxType /\ cust \in [Kinds -> CustodianType]
  /\ session \in [project : Projects, content : Contents]
  /\ history \in Seq(Contents) /\ Len(history) <= MaxHistory
  /\ tracker \in [initialized : BOOLEAN, target : Projects, epoch : Nat]
  /\ epochs \in 0..MaxEpochs /\ closed \in BOOLEAN /\ gate \in BOOLEAN
  /\ pc \in Labels /\ run \in LocalsType /\ client \in CallType
  /\ pairing \in Nat /\ claims \in Nat /\ proposals \in 0..MaxProposals
  /\ replaced \in [Proposals -> Nat] /\ outcome \in [Proposals -> HumanStates]

InCustody(p) == \E k \in Kinds : cust[k].record.proposal = p

UnreadAck == mb.state = "reply_ready" /\ mb.reply_status = "completed" /\ mb.review.owner # "none"

(* A client that is told its proposal is queued can rely on it: at that    *)
(* moment the proposal is in custody, or its time has run out.  It was not *)
(* rejected, dismissed, retired as stale, cancelled or applied before.     *)
AcknowledgedInCustody ==
  [][client.state = "copying" /\ client'.state = "idle" /\ Told = "completed"
     /\ client.review.owner # "none" =>
       \/ cust[client.review.owner].record.proposal = client.review.proposal
       \/ clock >= origin[client.review.proposal].expires]_vars

(* Reply and proposal are committed together: a proposal becomes pending   *)
(* only in the step that queues its acknowledgment, in time and for its    *)
(* target; and no acknowledgment, of a retry either, is queued for a       *)
(* proposal that is not pending or whose time has run out.                 *)
PairedCommit ==
  [][/\ \A k \in Kinds : cust[k].record.state # "pending" /\ cust'[k].record.state = "pending" =>
          /\ UnreadAck' /\ mb'.review.owner = k
          /\ mb'.review.proposal = cust'[k].record.proposal
          /\ ~IsExpired(mb, clock) /\ mb.target_epoch = cust'[k].record.epoch
     /\ ~UnreadAck /\ UnreadAck' =>
          /\ cust'[mb'.review.owner].record.state = "pending"
          /\ cust'[mb'.review.owner].record.proposal = mb'.review.proposal
          /\ clock < cust'[mb'.review.owner].record.expires]_vars

(* An apply replaces the Project its proposal was computed from, with that *)
(* content and in that activation, while the proposal is in custody and    *)
(* marked; and only once.                                                  *)
ReplacesItsSource ==
  [][replaced' # replaced =>
       /\ Swap.record.proposal = run.proposal /\ Swap.record.published
       /\ origin[run.proposal].kind = "swap"
       /\ origin[run.proposal].project = session.project
       /\ origin[run.proposal].content = session.content
       /\ tracker.epoch = Swap.record.epoch
       /\ replaced[run.proposal] = 0]_vars

(* An apply that fails after it staged its undo snapshot leaves the undo   *)
(* history as it found it, the evicted snapshot included.                  *)
UndoRestored == [][pc = "assign" /\ pc' = "finish" => history' = run.undo]_vars

(* What the human is told is what happened: a proposal reported as applied *)
(* replaced the Project, one that replaced it is never reported as         *)
(* rejected, dismissed, stale, expired or failed.                          *)
OutcomeIsTrue ==
  \A p \in Proposals :
    /\ outcome[p] \in Applied => replaced[p] = 1
    /\ replaced[p] = 1 => InCustody(p) \/ outcome[p] \in Applied \cup {"session_unavailable"}

(* The request ids in use all fit in the tombstones.                       *)
Ids == {IdOf[q] : q \in Payloads}
FewIds == IsFiniteSet(Ids) /\ Cardinality(Ids) <= MaxTombstones

(* A request id is queued for review once in the life of the session, over *)
(* retries, expiry, target changes, applies and new pairings, as long as   *)
(* the ids in use do not exceed the tombstones.                            *)
OneProposalPerRequest ==
  FewIds =>
    \A p, o \in 1..proposals :
      p # o /\ origin[p].kind # "none" /\ origin[p].kind = origin[o].kind
      => origin[p].request # origin[o].request

Waiting(k) == cust[k].record.state \in {"prepared", "pending"}

(* No proposal stays for ever: without interruptions an apply comes to an  *)
(* end, and so does a prepared or pending proposal whose time ends within  *)
(* the modelled time.                                                      *)
ProposalsEnd ==
  /\ []<>(Swap.record.state # "applying")
  /\ \A k \in Kinds : []<>(~Waiting(k) \/ cust[k].record.expires > MaxTime)

=============================================================================
