-------------------------- MODULE GenerationStart --------------------------
(***************************************************************************)
(* From a pending generation proposal to an executed job: the executable   *)
(* review the human confirms (ui/agent_generation_executable_confirmation  *)
(* .py, ui/agent_generation_executable_review.py), the two ways to start   *)
(* it (ui/agent_generation_executor_handoff.py through the inbox,          *)
(* ui/agent_generation_start_lifecycle.py without), and the job's events,  *)
(* publications and save until it ends.                                    *)
(*                                                                         *)
(* rt is the session runtime; every change of it is one hold of the        *)
(* publication gate (accept, retire and the receipts hold the job lock     *)
(* alone).  call is the human's call in progress, whose steps between two  *)
(* gate holds interleave with everything else: the host opens another      *)
(* Project or edits this one, an adapter pairs or leaves, the proposal     *)
(* ends, executor threads take envelopes and deliver events, time passes.  *)
(* A Project number stands for the object with its path; its content is a  *)
(* number, and a proposal's preview the content it was computed from.      *)
(* Certificates, workflows and identities are functions of that content.   *)
(***************************************************************************)
EXTENDS GenerationJobs, Sequences

CONSTANTS
  Projects, Contents, \* what the host may hold
  MaxEvents,          \* MAX_EVENTS
  MaxEpochs, MaxPairings, MaxProposals, MaxJobsMade, MaxReviews, MaxReservations

ASSUME StartAssumption ==
  /\ Projects # {} /\ Contents # {}
  /\ {MaxEvents, MaxEpochs, MaxPairings, MaxProposals, MaxJobsMade, MaxReviews,
      MaxReservations} \subseteq Nat

VARIABLES
  host,        \* session_state: project and content
  pairing,     \* inspect_pairing_generation, 0 for no pairing
  rt,          \* ProjectAgentSessionRuntime
  call,        \* the human's call
  action,      \* ExecutorHumanStartAction, captured with the button
  counts,      \* ids drawn: pairings, proposals, jobs, reservations
  made,        \* what each job was claimed for
  taken,       \* jobs whose envelope an executor holds
  answers      \* what the start of each job answered

vars == <<host, pairing, rt, call, action, counts, made, taken, answers>>

NoProposal == [id |-> 0, epoch |-> 0, pairing |-> 0, preview |-> 0]
NoReview == [phase |-> "none", proposal |-> NoProposal, certified |-> FALSE,
             content |-> 0, confirmed |-> FALSE]
NoAction == [proposal |-> 0, revision |-> 0]
Jobs == rt.registry.jobs
Idle == [step |-> "idle", proposal |-> NoProposal, revision |-> 0, project |-> 0,
         content |-> 0, view |-> "none", purpose |-> "none", reservation |-> 0, job |-> 0]

Init ==
  /\ host \in [project : Projects, content : Contents]
  /\ pairing = 0
  /\ rt = [closed |-> FALSE, seen |-> host.project, epoch |-> 1, proposal |-> NoProposal,
           review |-> NoReview, revision |-> 0,
           registry |-> [InitRegistry EXCEPT !.target = 1], inbox |-> EmptyInbox]
  /\ call = Idle /\ action = NoAction
  /\ counts = [pairings |-> 0, proposals |-> 0, jobs |-> 0, reservations |-> 0]
  /\ made = <<>> /\ taken = {} /\ answers = <<>>

-----------------------------------------------------------------------------
(* The runtime under its gate. *)

(* _clear_executable_review_locked.  The revision tells a build in         *)
(* progress that its review was cleared; with no review there is none.     *)
Clear(r) ==
  IF r.review.phase = "none" THEN r
  ELSE [r EXCEPT !.review = NoReview, !.revision = @ + 1]

Prune(r) ==
  IF r.review.phase # "none" /\
     (r.review.proposal.epoch # r.epoch \/ r.proposal.id # r.review.proposal.id)
  THEN Clear(r) ELSE r

Epoch(r) == IF host.project = r.seen THEN r.epoch ELSE r.epoch + 1

(* _synchronize_target_locked: the tracker, the custodian, the registry    *)
(* and the executable review follow the host's Project.                    *)
Synchronize(r) ==
  LET e == Epoch(r)
  IN  Prune([r EXCEPT !.seen = host.project, !.epoch = e,
                      !.proposal = IF @.epoch = e THEN @ ELSE NoProposal,
                      !.registry = SynchronizeTarget(@, e)])

PairingFits(p) == pairing = 0 \/ pairing = p

(* _record_locked: the pending proposal, if the pairing is still its own.  *)
RecordLocked(r) ==
  LET s == Synchronize(r)
  IN  IF s.proposal.id # 0 /\ ~PairingFits(s.proposal.pairing) THEN Clear(s) ELSE s
Pending(r) == r.proposal.id # 0 /\ PairingFits(r.proposal.pairing)

Holds(r, revision) == r.review.phase = "held" /\ r.revision = revision

-----------------------------------------------------------------------------
(* The human's executable review. *)

PrepareBegin ==
  LET r == RecordLocked(rt)
  IN  /\ call = Idle /\ ~rt.closed /\ rt.revision < MaxReviews
      /\ Pending(r) /\ r.review.phase # "preparing"
      /\ rt' = [r EXCEPT !.revision = @ + 1,
                         !.review = [NoReview EXCEPT !.phase = "preparing", !.proposal = r.proposal]]
      /\ call' = [Idle EXCEPT !.step = "building", !.proposal = r.proposal,
                              !.revision = r.revision + 1, !.project = host.project]
      /\ UNCHANGED <<host, pairing, action, counts, made, taken, answers>>

(* Faulty variant: the preview is not compared with the proposal's. *)
RecomputeTrusting(step) ==
  /\ UNCHANGED rt
  /\ \E view \in {"certified", "uncertifiable", "computation_failure"} :
       call' = [call EXCEPT !.step = step, !.content = host.content, !.view = view]
  /\ UNCHANGED <<host, pairing, action, counts, made, taken, answers>>

(* _inputs outside the gate: the preview is computed again, and a          *)
(* difference makes the proposal stale.                                    *)
Recompute(step) ==
  LET p == rt.proposal
      stale == p.id # 0 /\ host.content # p.preview
  IN  /\ rt' = IF stale THEN [rt EXCEPT !.proposal = NoProposal] ELSE rt
      /\ \E view \in {"certified", "uncertifiable", "computation_failure"} :
           call' = [call EXCEPT !.step = step, !.content = host.content,
                      !.view = IF p.id = 0 THEN "absent" ELSE IF stale THEN "stale" ELSE view]
      /\ UNCHANGED <<host, pairing, action, counts, made, taken, answers>>

Build == call.step = "building" /\ ~rt.closed /\ Recompute("built")

PrepareEnd ==
  LET r == RecordLocked(rt)
      same == Pending(r) /\ r.proposal = call.proposal /\ host.project = call.project
  IN  /\ call.step = "built" /\ ~rt.closed
      /\ rt' = IF r.revision # call.revision THEN r
               ELSE IF ~same \/ call.view \notin {"certified", "uncertifiable"} THEN Clear(r)
               ELSE [r EXCEPT !.review.phase = "held", !.review.content = call.content,
                              !.review.certified = (call.view = "certified")]
      /\ call' = Idle
      /\ UNCHANGED <<host, pairing, action, counts, made, taken, answers>>

(* inspect_session_executable_review for the panel, for confirm_session_   *)
(* execution_details and for the handoff.                                  *)
InspectBegin(purpose) ==
  LET r == RecordLocked(rt)
      same == r.review.proposal = r.proposal
  IN  /\ call = Idle /\ ~rt.closed /\ Pending(r) /\ r.review.phase = "held"
      /\ rt' = IF same THEN r ELSE Clear(r)
      /\ call' = IF same THEN [Idle EXCEPT !.step = "inspecting", !.revision = r.revision,
                                           !.purpose = purpose] ELSE Idle
      /\ UNCHANGED <<host, pairing, action, counts, made, taken, answers>>

InspectCompute == call.step = "inspecting" /\ ~rt.closed /\ Recompute("inspected")

InspectEnd ==
  LET r == RecordLocked(rt)
      review == r.review
      held == Holds(r, call.revision)
      (* A review rebuilt from other content is stale, and a rebuilt        *)
      (* certificate is the held one.                                       *)
      view == IF call.view \notin {"certified", "uncertifiable"} THEN call.view
              ELSE IF call.content # review.content THEN "stale"
              ELSE IF review.certified THEN "certified" ELSE "uncertifiable"
      lost == ~Pending(r) \/ r.proposal # review.proposal \/ view \in {"stale", "absent"}
      next == IF call.purpose = "confirm" THEN "confirming" ELSE "reserving"
  IN  /\ call.step = "inspected" /\ ~rt.closed
      /\ rt' = IF held /\ lost THEN Clear(r) ELSE r
      /\ call' = IF held /\ ~lost /\ view = "certified" /\ call.purpose # "show"
                    /\ (call.purpose = "handoff" =>
                          review.confirmed /\ action = [proposal |-> r.proposal.id,
                                                        revision |-> r.revision])
                 THEN [call EXCEPT !.step = next, !.proposal = r.proposal, !.content = review.content]
                 ELSE Idle
      /\ UNCHANGED <<host, pairing, action, counts, made, taken, answers>>

Confirm ==
  LET r == RecordLocked(rt)
  IN  /\ call.step = "confirming" /\ ~rt.closed
      /\ rt' = IF Pending(r) /\ Holds(r, call.revision) /\ r.review.proposal = r.proposal
               THEN [r EXCEPT !.review.confirmed = TRUE] ELSE r
      /\ call' = Idle
      /\ UNCHANGED <<host, pairing, action, counts, made, taken, answers>>

(* capture_executor_human_start_for_characterization *)
CaptureAction ==
  /\ ~rt.closed /\ rt.review.phase = "held" /\ rt.review.confirmed
  /\ action' = [proposal |-> rt.review.proposal.id, revision |-> rt.revision]
  /\ UNCHANGED <<host, pairing, rt, call, counts, made, taken, answers>>

-----------------------------------------------------------------------------
(* Handoff to an executor. *)

HandoffReserve ==
  /\ call.step = "reserving" /\ counts.reservations < MaxReservations
  /\ LET id == counts.reservations + 1
         ok == Reservable(rt.inbox)
     IN  /\ rt' = IF ok THEN [rt EXCEPT !.inbox = Reserve(@, id)] ELSE rt
         /\ counts' = IF ok THEN [counts EXCEPT !.reservations = id] ELSE counts
         /\ call' = IF ok THEN [call EXCEPT !.step = "committing", !.reservation = id,
                                  !.project = host.project, !.content = host.content]
                    ELSE Idle
  /\ UNCHANGED <<host, pairing, action, made, taken, answers>>

(* Faulty variant: the proposal stays in custody. *)
ClaimedKeepsProposal(r, id, clear) ==
  LET p == r.proposal
  IN  [r EXCEPT !.registry = ClaimAuthorized(@, id, NewJob(p.id, r.epoch, p.pairing))]

(* The claim, the offer and the end of the proposal's custody are one      *)
(* step under all the owners' locks.                                       *)
Claimed(r, id, clear) ==
  LET p == r.proposal
      c == [r EXCEPT !.registry = ClaimAuthorized(@, id, NewJob(p.id, r.epoch, p.pairing)),
                     !.proposal = NoProposal]
  IN  IF clear THEN Clear(c) ELSE c

Release1(r, reservation) == [r EXCEPT !.inbox = Release(@, reservation)]

HandoffCommit ==
  LET r == RecordLocked(rt)
      id == counts.jobs + 1
      ok == /\ Pending(r) /\ Holds(r, call.revision) /\ r.review.proposal = r.proposal
            /\ r.review.confirmed
            /\ host = [project |-> call.project, content |-> call.content]
            /\ Reserved(r.inbox, call.reservation) /\ CanClaim(r.registry, r.epoch)
  IN  /\ call.step = "committing" /\ counts.jobs < MaxJobsMade
      /\ IF rt.closed \/ ~ok
         THEN /\ rt' = Release1(IF rt.closed THEN rt ELSE r, call.reservation)
              /\ call' = Idle /\ UNCHANGED <<counts, made>>
         ELSE /\ rt' = [Claimed(r, id, TRUE) EXCEPT !.inbox = Commit(@, id)]
              /\ call' = [Idle EXCEPT !.step = "offered", !.job = id]
              /\ counts' = [counts EXCEPT !.jobs = id]
              /\ made' = Append(made, [proposal |-> r.proposal.id, content |-> r.review.content,
                                       preview |-> r.proposal.preview, confirmed |-> TRUE])
      /\ UNCHANGED <<host, pairing, action, taken, answers>>

Answer(id, what) == answers' = [i \in DOMAIN answers \cup {id} |->
                                  IF i = id THEN what ELSE answers[i]]

(* The executor's answer, whether or not it took the envelope. *)
WorkerAnswers(said) ==
  /\ call.step = "offered"
  /\ call' = [call EXCEPT !.step = IF said = "accepted" THEN "checking" ELSE "settling",
                          !.view = said]
  /\ UNCHANGED <<host, pairing, rt, action, counts, made, taken, answers>>

(* _handoff_target_current *)
HandoffTargetCurrent ==
  LET r == Synchronize(rt)
      known == Has(r.registry, call.job)
      current == /\ ~rt.closed /\ known
                 /\ r.registry.jobs[call.job].target = r.epoch
                 /\ PairingFits(r.registry.jobs[call.job].pairing)
  IN  /\ call.step = "checking"
      /\ rt' = IF rt.closed THEN rt
               ELSE IF known /\ ~current
               THEN [r EXCEPT !.registry = InvalidateExecutionCustody(@)] ELSE r
      /\ call' = IF current THEN [call EXCEPT !.step = "receipt"] ELSE Idle
      /\ IF current THEN UNCHANGED answers ELSE Answer(call.job, "handoff_invalidated")
      /\ UNCHANGED <<host, pairing, action, counts, made, taken>>

HandoffReceipt ==
  LET g == Cleanup(rt.registry)
      said == AcceptedReceipt(rt.inbox, g, call.job)
  IN  /\ call.step = "receipt"
      /\ rt' = [rt EXCEPT !.registry = g]
      /\ call' = IF said = "handoff_unknown" THEN [call EXCEPT !.step = "settling"] ELSE Idle
      /\ IF said = "handoff_unknown" THEN UNCHANGED answers ELSE Answer(call.job, said)
      /\ UNCHANGED <<host, pairing, action, counts, made, taken>>

(* settle_for_characterization; a response nobody understands is unknown.  *)
HandoffSettle ==
  LET outcome == IF call.view = "rejected" THEN "rejected" ELSE "unknown"
      settles == Settles(rt.inbox, call.job)
  IN  /\ call.step = "settling"
      /\ rt' = IF settles
               THEN [rt EXCEPT !.inbox = SettleInbox(@, outcome),
                               !.registry = SettleJob(@, rt.inbox, call.job, outcome)]
               ELSE rt
      /\ Answer(call.job, IF ~settles THEN "settled"
                          ELSE IF SettledAs(rt.inbox, outcome) = "rejected" THEN "handoff_rejected"
                          ELSE "handoff_unknown")
      /\ call' = Idle
      /\ UNCHANGED <<host, pairing, action, counts, made, taken>>

-----------------------------------------------------------------------------
(* authorize_generation_start: the proposal itself is the authority. *)

StartBegin ==
  LET r == Synchronize(rt)
  IN  /\ call = Idle /\ ~rt.closed /\ Pending(r)
      /\ IF host.content # r.proposal.preview
         THEN rt' = [r EXCEPT !.proposal = NoProposal] /\ call' = Idle
         ELSE rt' = r /\ call' = [Idle EXCEPT !.step = "starting", !.proposal = r.proposal,
                                              !.project = host.project]
      /\ UNCHANGED <<host, pairing, action, counts, made, taken, answers>>

StartCommit ==
  LET r == Synchronize(rt)
      id == counts.jobs + 1
      ok == /\ Pending(r) /\ r.proposal = call.proposal /\ host.project = call.project
            /\ CanClaim(r.registry, r.epoch)
  IN  /\ call.step = "starting" /\ counts.jobs < MaxJobsMade
      /\ IF rt.closed \/ ~ok
         THEN rt' = (IF rt.closed THEN rt ELSE r) /\ call' = Idle /\ UNCHANGED <<counts, made>>
         ELSE /\ rt' = Claimed(r, id, FALSE)
              /\ call' = [Idle EXCEPT !.step = "started", !.job = id]
              /\ counts' = [counts EXCEPT !.jobs = id]
              /\ made' = Append(made, [proposal |-> r.proposal.id, content |-> r.proposal.preview,
                                       preview |-> r.proposal.preview, confirmed |-> FALSE])
      /\ UNCHANGED <<host, pairing, action, taken, answers>>

StartAnswered(outcome) ==
  LET g == IF outcome = "accepted" THEN Cleanup(rt.registry)
           ELSE SettleHandoff(rt.registry, call.job, outcome)
  IN  /\ call.step = "started"
      /\ rt' = [rt EXCEPT !.registry = g]
      /\ Answer(call.job, IF outcome = "rejected" THEN "handoff_rejected"
                          ELSE IF outcome = "unknown" THEN "handoff_unknown"
                          ELSE IF Has(g, call.job) /\ g.jobs[call.job].state = "claimed"
                          THEN "characterized_acceptance" ELSE "handoff_invalidated")
      /\ taken' = IF outcome = "accepted" THEN taken \cup {call.job} ELSE taken
      /\ call' = Idle
      /\ UNCHANGED <<host, pairing, action, counts, made>>

-----------------------------------------------------------------------------
(* Executor threads and the host's registration of their outputs. *)

ExecutorAccepts(id) ==
  LET g == Cleanup(rt.registry)
  IN  /\ Acceptable(rt.inbox, g, id)
      /\ rt' = [rt EXCEPT !.registry = g, !.inbox.state = "accepted"]
      /\ taken' = taken \cup {id}
      /\ UNCHANGED <<host, pairing, call, action, counts, made, answers>>

(* deliver_executor_event_for_characterization *)
DeliverEvent(id, e) ==
  LET r == IF rt.closed THEN rt ELSE Synchronize(rt)
      g == Cleanup(r.registry)
      x == r.inbox
      job == g.jobs[id]
      current == /\ ~rt.closed /\ Has(g, id) /\ job.target = r.epoch /\ job.pairing = pairing
      late == LateEvent(x, g, id, current)
  IN  /\ x.job = id
      /\ rt' = IF late
               THEN [r EXCEPT !.registry = IF Has(g, id) /\ Live(job)
                                THEN SetJob(g, id, Finish(job, "stale_target_outputs_not_registered"))
                                ELSE g,
                              !.inbox.late = @ \/ e.kind \in OutputKinds]
               ELSE IF x.state = "accepted" /\ EventAccepted(job, e)
               THEN [r EXCEPT !.registry = SetJob(g, id, ApplyEvent(job, e))]
               ELSE [r EXCEPT !.registry = g]
      /\ UNCHANGED <<host, pairing, call, action, counts, made, taken, answers>>

(* The host registers a request's outputs, then saves the Project. *)
PublishOutputs(id, i, n) ==
  LET r == Synchronize(rt)
  IN  /\ ~rt.closed /\ Has(rt.registry, id)
      /\ rt' = [r EXCEPT !.registry =
                  IF Has(@, id) THEN Publication(@, id, @.jobs[id].target, i, n) ELSE @]
      /\ UNCHANGED <<host, pairing, call, action, counts, made, taken, answers>>

SaveOutputs(id, outcome) ==
  LET r == Synchronize(rt)
  IN  /\ ~rt.closed /\ Has(rt.registry, id)
      /\ rt' = [r EXCEPT !.registry = IF Has(@, id) THEN Save(@, id, @.jobs[id].target, outcome) ELSE @]
      /\ UNCHANGED <<host, pairing, call, action, counts, made, taken, answers>>

CancelJob(id) ==
  /\ ~rt.closed /\ Has(rt.registry, id)
  /\ rt' = [rt EXCEPT !.registry = CancelBeforeSubmission(@, id)]
  /\ UNCHANGED <<host, pairing, call, action, counts, made, taken, answers>>

Retire(id) ==
  /\ Retirable(rt.inbox, rt.registry, id)
  /\ rt' = [rt EXCEPT !.inbox = ClearInbox(@)]
  /\ UNCHANGED <<host, pairing, call, action, counts, made, taken, answers>>

-----------------------------------------------------------------------------
(* The session around them. *)

Propose ==
  LET r == Synchronize(rt)
      id == counts.proposals + 1
  IN  /\ ~rt.closed /\ pairing # 0 /\ r.proposal.id = 0 /\ counts.proposals < MaxProposals
      /\ rt' = [r EXCEPT !.proposal = [id |-> id, epoch |-> r.epoch, pairing |-> pairing,
                                       preview |-> host.content]]
      /\ counts' = [counts EXCEPT !.proposals = id]
      /\ UNCHANGED <<host, pairing, call, action, made, taken, answers>>

(* Rejected, dismissed, expired or cancelled by its request. *)
ProposalEnds ==
  /\ rt.proposal.id # 0 /\ rt' = [rt EXCEPT !.proposal = NoProposal]
  /\ UNCHANGED <<host, pairing, call, action, counts, made, taken, answers>>

Pump ==
  /\ ~rt.closed /\ rt' = Synchronize(rt)
  /\ UNCHANGED <<host, pairing, call, action, counts, made, taken, answers>>

HostChanges(h) ==
  /\ h # host /\ (h.project # rt.seen => rt.epoch < MaxEpochs) /\ host' = h
  /\ UNCHANGED <<pairing, rt, call, action, counts, made, taken, answers>>

Pair ==
  /\ ~rt.closed /\ counts.pairings < MaxPairings
  /\ pairing' = counts.pairings + 1 /\ counts' = [counts EXCEPT !.pairings = @ + 1]
  /\ UNCHANGED <<host, rt, call, action, made, taken, answers>>

Unpair ==
  /\ pairing # 0 /\ pairing' = 0
  /\ UNCHANGED <<host, rt, call, action, counts, made, taken, answers>>

(* disarm_launcher_rendezvous: reviews, jobs and the inbox in one hold.    *)
Disarm ==
  /\ ~rt.closed /\ pairing' = 0
  /\ rt' = [Clear([rt EXCEPT !.proposal = NoProposal]) EXCEPT
              !.registry = InvalidateExecutionCustody(@), !.inbox = InvalidateInbox(@)]
  /\ UNCHANGED <<host, call, action, counts, made, taken, answers>>

Close ==
  /\ ~rt.closed
  /\ rt' = [Clear([rt EXCEPT !.proposal = NoProposal]) EXCEPT !.closed = TRUE,
              !.registry = CloseRegistry(@), !.inbox = CloseInbox(@)]
  /\ pairing' = 0
  /\ UNCHANGED <<host, call, action, counts, made, taken, answers>>

(* A call that finds the session closed returns. *)
Abandon ==
  /\ rt.closed /\ call.step \in {"building", "built", "inspecting", "inspected", "confirming"}
  /\ call' = Idle
  /\ UNCHANGED <<host, pairing, rt, action, counts, made, taken, answers>>

Down(n) == IF n > 0 THEN n - 1 ELSE 0
Tick ==
  /\ rt' = [rt EXCEPT !.inbox.left = Down(rt.inbox.left),
              !.registry.jobs = [id \in DOMAIN Jobs |-> [Jobs[id] EXCEPT !.left = Down(Jobs[id].left)]]]
  /\ UNCHANGED <<host, pairing, call, action, counts, made, taken, answers>>

Ids == 1..counts.jobs

(* The last event again or the next one: any other number changes nothing. *)
(* An event again is refused whatever it says; a late one is remembered if *)
(* it has outputs.  One kind with and one without stand for all.           *)
Last(id) == IF Has(rt.registry, id) THEN rt.registry.jobs[id].count ELSE 0
Sequences(id) == {Last(id), Last(id) + 1} \cap (1..MaxEvents)
Events(id) ==
  {e \in [sequence : Sequences(id), index : 1..Requests, kind : Kinds, outputs : 0..MaxOutputs] :
     /\ (e.kind \in OutputKinds) <=> (e.outputs > 0)
     /\ e.sequence = Last(id) => e.index = 1 /\ e.kind \in {"submitted", "outputs_ready"}}

HumanSteps ==
  \/ PrepareBegin \/ Build \/ PrepareEnd
  \/ \E purpose \in {"show", "confirm", "handoff"} : InspectBegin(purpose)
  \/ InspectCompute \/ InspectEnd \/ Confirm \/ CaptureAction
  \/ HandoffReserve \/ HandoffCommit
  \/ \E said \in {"accepted", "rejected", "unknown"} : WorkerAnswers(said)
  \/ HandoffTargetCurrent \/ HandoffReceipt \/ HandoffSettle
  \/ StartBegin \/ StartCommit
  \/ \E outcome \in {"accepted", "rejected", "unknown"} : StartAnswered(outcome)
  \/ Abandon

JobSteps ==
  \/ \E id \in Ids : ExecutorAccepts(id) \/ CancelJob(id) \/ Retire(id)
  \/ \E id \in Ids : \E e \in Events(id) : DeliverEvent(id, e)
  \/ \E id \in Ids, i \in 1..Requests, n \in 0..MaxOutputs : PublishOutputs(id, i, n)
  \/ \E id \in Ids, outcome \in {"saved", "save_failed", "save_uncertain"} : SaveOutputs(id, outcome)

Surroundings ==
  \/ Propose \/ ProposalEnds \/ Pump \/ Pair \/ Unpair \/ Disarm \/ Close \/ Tick
  \/ \E h \in [project : Projects, content : Contents] : HostChanges(h)

Next == HumanSteps \/ JobSteps \/ Surroundings

Spec == Init /\ [][Next]_vars

(* A rerun of the application pumps the session, and time passes. *)
FairSpec == Spec /\ WF_vars(Pump) /\ WF_vars(Tick)
-----------------------------------------------------------------------------
(* Properties. *)

Steps == {"idle", "building", "built", "inspecting", "inspected", "confirming", "reserving",
          "committing", "offered", "checking", "receipt", "settling", "starting", "started"}
JobStates == Terminal \cup {"claimed", "running", "awaiting_result"}
RequestStates == Settled \cup {"unsent", "submitting", "awaiting_result", "awaiting_download",
                               "awaiting_host_registration", "submission_outcome_unknown"}

(* The shape of the runtime, its registry and its inbox. *)
TypeOK ==
  /\ host \in [project : Projects, content : Contents]
  /\ pairing \in 0..MaxPairings
  /\ rt.closed \in BOOLEAN /\ rt.epoch \in 1..MaxEpochs /\ rt.revision \in 0..(2 * MaxReviews)
  /\ rt.review.phase \in {"none", "preparing", "held"}
  /\ rt.inbox.state \in {"empty", "reserved", "offered", "accepted", "unknown", "invalidated"}
  /\ Cardinality(DOMAIN Jobs) <= MaxJobs /\ DOMAIN Jobs \subseteq Ids
  /\ \A id \in DOMAIN Jobs :
       /\ Jobs[id].state \in JobStates /\ Jobs[id].count \in 0..MaxEvents
       /\ \A k \in 1..Requests : Jobs[id].reqs[k].state \in RequestStates
  /\ call.step \in Steps /\ taken \subseteq Ids /\ DOMAIN answers \subseteq Ids

(* A proposal authorizes at most one job, whichever way it is started and  *)
(* however often the button's action is replayed.                          *)
OneJobPerProposal ==
  \A i, k \in 1..Len(made) : made[i].proposal = made[k].proposal => i = k

(* What is handed to an executor was computed from the content the agent   *)
(* previewed, though the Project may be edited between any two steps of    *)
(* the review.                                                             *)
OfferedAsReviewed == \A i \in 1..Len(made) : made[i].content = made[i].preview

(* A live job that was handed off keeps its envelope in the inbox, so its  *)
(* executor's events find it and no second envelope can be offered.        *)
LiveJobPinsInbox ==
  \A id \in DOMAIN Jobs : Live(Jobs[id]) /\ made[id].confirmed =>
    rt.inbox.job = id /\ rt.inbox.state \in {"offered", "accepted"}

(* What is reported of a job is true.  "handoff_rejected" promises that no *)
(* executor has the envelope, so nothing was or will be submitted; a       *)
(* completed job has every output of every request registered, and only a  *)
(* job with registered outputs has a save outcome.                         *)
RejectedNeverTaken ==
  \A id \in DOMAIN answers : answers[id] = "handoff_rejected" => id \notin taken
CompletedIsRegistered ==
  \A id \in DOMAIN Jobs :
    LET j == Jobs[id]
    IN  /\ j.state = "completed" =>
             \A i \in 1..Requests : j.reqs[i].outputs > 0 /\ j.reqs[i].registered = j.reqs[i].outputs
        /\ j.save # "not_attempted" => \E i \in 1..Requests : j.reqs[i].registered > 0
ReportsAreTrue == RejectedNeverTaken /\ CompletedIsRegistered

(* Outputs are registered only in the Project the job was started from,    *)
(* while the host shows that Project.                                      *)
RegisteredInItsProject ==
  [][\A id \in DOMAIN Jobs \cap DOMAIN Jobs' :
       Jobs[id].reqs # Jobs'[id].reqs => Jobs'[id].target = rt'.epoch /\ rt'.seen = host.project]_vars

(* Every claimed job ends: by its events, its deadline or the session.     *)
EveryJobEnds == []<>(\A id \in DOMAIN Jobs : ~Live(Jobs[id]))
=============================================================================
