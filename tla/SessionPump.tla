---------------------------- MODULE SessionPump ----------------------------
(***************************************************************************)
(* The request pump of one browser session: full-app script runs, the      *)
(* polling fragment, the Project target tracker and one paired tool caller *)
(* (the named-pipe gateway), all sharing one mailbox                       *)
(* (ui/project_agent_session_pump.py, ui/project_agent_session_mailbox.py, *)
(* agent_adapters/mcp_named_pipe_gateway.py).                              *)
(*                                                                         *)
(* A script run is a sequential process.  Its program counter names the    *)
(* next step; every step is one critical section or one access to          *)
(* Streamlit's session state.  Streamlit may end a run with a              *)
(* ScriptControlException at any such access (Interrupt).  FastReruns is   *)
(* Streamlit's runner.fastReruns: when it is FALSE, as the shipped         *)
(* .streamlit/config.toml sets it, a run starts only after the previous    *)
(* one ended; when it is TRUE an old run goes on beside the new one and    *)
(* the bridge refuses to capture the Project.                              *)
(***************************************************************************)
EXTENDS Mailbox

CONSTANTS
  Runs,          \* slots for script runs; a slot stands for its run token
  Targets,       \* activation identities (Project object, path); None: no Project
  FastReruns,    \* runner.fastReruns
  Timeout,       \* the request timeout
  ResultWait,    \* how long a tool call waits for its outcome
  MaxTime,       \* bound on the clock
  MaxEpochs,     \* bound on the epochs the tracker hands out
  MaxRequests    \* bound on the accepted submissions

ASSUME PumpAssumption ==
  /\ None \in Targets /\ Targets \subseteq Nat
  /\ None \notin Runs
  /\ FastReruns \in BOOLEAN
  /\ Timeout \in Nat \ {0} /\ ResultWait \in Nat /\ Timeout <= ResultWait
  /\ MaxTime \in Nat /\ MaxEpochs \in Nat /\ MaxRequests \in Nat

VARIABLES
  clock,      \* time.monotonic
  mb,         \* the mailbox
  session,    \* session_state: the live Project and path
  token,      \* session_state: the run token of the newest run
  tracker,    \* ProjectTargetTracker: what it saw last and its epoch
  epochs,     \* epochs handed out so far (uuid4 never repeats)
  closed,     \* ProjectAgentSessionRuntime._closed
  rerun,      \* a fragment asked for st.rerun(scope="app")
  pc, run,    \* each run's program counter and local variables
  gateway,    \* the tool caller's local variables
  requests,   \* accepted submissions so far; a request's id is its number
  claims,     \* claim ids handed out so far
  targetOf,   \* history: the target each epoch was handed out for
  dispatches, \* history: how often each request was given to the bridge
  slot        \* history: the request the mailbox is occupied by

vars == <<clock, mb, session, token, tracker, epochs, closed, rerun, pc, run,
          gateway, requests, claims, targetOf, dispatches, slot>>

callerVars == <<gateway, requests, slot>>

scriptVars == <<session, token, tracker, epochs, closed, rerun, pc, run, claims,
                targetOf, dispatches>>

Epochs == 1..MaxEpochs
Requests == 1..MaxRequests

NoRun == [args |-> None, epoch |-> None, claim |-> None, claimEpoch |-> None,
          request |-> None, reply |-> NoReply]

NoCall == [state |-> "idle", epoch |-> None, request |-> None,
           deadline |-> None, generation |-> 0, status |-> "none"]

Init ==
  /\ clock = 0
  /\ mb = InitMailbox
  /\ session \in Targets
  /\ token = None
  /\ tracker = [initialized |-> FALSE, target |-> None, epoch |-> None]
  /\ epochs = 0
  /\ closed = FALSE
  /\ rerun = FALSE
  /\ pc = [r \in Runs |-> "off"]
  /\ run = [r \in Runs |-> NoRun]
  /\ gateway = NoCall
  /\ requests = 0
  /\ claims = 0
  /\ targetOf = [e \in Epochs |-> None]
  /\ dispatches = [q \in Requests |-> 0]
  /\ slot = None

-----------------------------------------------------------------------------
(* The target tracker and the publication gate.                            *)

(* ProjectTargetTracker.observe keeps its epoch only for the same target.  *)
SameTarget(target) == tracker.initialized /\ tracker.target = target

(* synchronize_target: under the publication gate, unless the runtime is   *)
(* closed, observe the target the run read and pass its epoch to the       *)
(* mailbox.  The returned epoch becomes the run's.                         *)
GateSynchronize(r) ==
  LET epoch == IF SameTarget(run[r].args) THEN tracker.epoch ELSE epochs + 1
  IN  IF closed
      THEN /\ run' = [run EXCEPT ![r].args = None, ![r].epoch = None]
           /\ UNCHANGED <<tracker, epochs, targetOf, mb>>
      ELSE /\ epoch \in Epochs
           /\ tracker' = [initialized |-> TRUE, target |-> run[r].args, epoch |-> epoch]
           /\ epochs' = IF SameTarget(run[r].args) THEN epochs ELSE epoch
           /\ targetOf' = [targetOf EXCEPT ![epoch] = run[r].args]
           /\ mb' = SynchronizeTargetEpoch(mb, epoch)
           /\ run' = [run EXCEPT ![r].args = None, ![r].epoch = epoch]

-----------------------------------------------------------------------------
(* Script runs.                                                            *)

Goto(r, label) == pc' = [pc EXCEPT ![r] = label]

(* The run is past its service point, or over: its locals are dead.        *)
Leave(r, label) == Goto(r, label) /\ run' = [run EXCEPT ![r] = NoRun]

(* The script thread is free for another run or a fragment.                *)
ScriptFree == FastReruns \/ \A r \in Runs : pc[r] = "off"

StartRun(r) ==
  /\ ScriptFree
  /\ pc[r] = "off"
  /\ token' = r
  /\ rerun' = FALSE
  /\ Goto(r, "begin")
  /\ UNCHANGED <<clock, mb, session, tracker, epochs, closed, run, callerVars,
                 claims, targetOf, dispatches>>

(* begin_project_agent_session_run: a superseded run does not begin.       *)
BeginRun(r) ==
  /\ pc[r] = "begin"
  /\ IF token = r
     THEN Goto(r, "begin_gate") /\ run' = [run EXCEPT ![r].args = session]
     ELSE Goto(r, "tick") /\ UNCHANGED run
  /\ UNCHANGED <<clock, mb, session, token, tracker, epochs, closed, rerun,
                 callerVars, claims, targetOf, dispatches>>

(* service_project_agent_session_request up to its first synchronization.  *)
ReachServicePoint(r) ==
  /\ pc[r] = "body"
  /\ IF token = r
     THEN Goto(r, "serve_gate") /\ run' = [run EXCEPT ![r].args = session]
     ELSE Leave(r, "tail")
  /\ UNCHANGED <<clock, mb, session, token, tracker, epochs, closed, rerun,
                 callerVars, claims, targetOf, dispatches>>

(* The live target is read again once the bridge has returned.             *)
ReturnFromBridge(r) ==
  /\ pc[r] = "dispatched"
  /\ Goto(r, "publish_gate")
  /\ run' = [run EXCEPT ![r].args = session]
  /\ UNCHANGED <<clock, mb, session, token, tracker, epochs, closed, rerun,
                 callerVars, claims, targetOf, dispatches>>

Gate(r) ==
  /\ pc[r] \in {"begin_gate", "serve_gate", "publish_gate"}
  /\ GateSynchronize(r)
  /\ Goto(r, CASE pc[r] = "begin_gate" -> "begin_sync"
               [] pc[r] = "serve_gate" -> "claim_sync"
               [] pc[r] = "publish_gate" -> "complete_sync")
  /\ UNCHANGED <<clock, session, token, closed, rerun, callerVars, claims, dispatches>>

(* begin_full_app_run, _claim_for_service and complete each synchronize    *)
(* the mailbox once more, in a critical section of its own, with the       *)
(* epoch the run got from the gate.                                        *)
Resynchronize(r) ==
  /\ pc[r] \in {"begin_sync", "claim_sync", "complete_sync"}
  /\ mb' = SynchronizeTargetEpoch(mb, run[r].epoch)
  /\ Goto(r, CASE pc[r] = "begin_sync" -> "mark"
               [] pc[r] = "claim_sync" -> "claim"
               [] pc[r] = "complete_sync" -> "complete")
  /\ UNCHANGED <<clock, session, token, tracker, epochs, closed, rerun, run,
                 callerVars, claims, targetOf, dispatches>>

MarkRun(r) ==
  /\ pc[r] = "mark"
  /\ mb' = BeginFullAppRun(mb, clock)
  /\ Goto(r, "tick")
  /\ UNCHANGED <<clock, session, token, tracker, epochs, closed, rerun, run,
                 callerVars, claims, targetOf, dispatches>>

(* The fragment rendered inside the run; a wake ends the run.              *)
InlineTick(r) ==
  /\ pc[r] = "tick"
  /\ mb' = FragmentTick(mb, clock)
  /\ rerun' = (rerun \/ TickWakes(mb, clock))
  /\ Leave(r, IF TickWakes(mb, clock) THEN "off" ELSE "body")
  /\ UNCHANGED <<clock, session, token, tracker, epochs, closed,
                 callerVars, claims, targetOf, dispatches>>

(* The page replaces the Project or its path (open, new, Save As, ...).    *)
SwitchTarget(r) ==
  /\ pc[r] \in {"body", "tail"}
  /\ epochs < MaxEpochs
  /\ \E target \in Targets \ {session} : session' = target
  /\ UNCHANGED <<clock, mb, token, tracker, epochs, closed, rerun, pc, run,
                 callerVars, claims, targetOf, dispatches>>

Claim(r) ==
  /\ pc[r] = "claim"
  /\ mb' = ClaimTake(mb, run[r].epoch, claims + 1, clock)
  /\ IF Claimable(mb, run[r].epoch, clock)
     THEN /\ claims' = claims + 1
          /\ run' = [run EXCEPT ![r].claim = claims + 1,
                                ![r].claimEpoch = run[r].epoch,
                                ![r].request = mb.request]
          /\ Goto(r, "copy")
     ELSE Leave(r, "tail") /\ UNCHANGED claims
  /\ UNCHANGED <<clock, session, token, tracker, epochs, closed, rerun,
                 callerVars, targetOf, dispatches>>

Confirm(r) ==
  /\ pc[r] = "copy"
  /\ mb' = ClaimCheck(mb, run[r].claimEpoch, run[r].claim, clock)
  /\ IF ClaimConfirmed(mb, run[r].claimEpoch, run[r].claim, clock)
     THEN Goto(r, "dispatch") /\ UNCHANGED run
     ELSE Leave(r, "tail")
  /\ UNCHANGED <<clock, session, token, tracker, epochs, closed, rerun,
                 callerVars, claims, targetOf, dispatches>>

(* capture_active_project: refused for overlapping runs, for a superseded  *)
(* run and without a Project; a refusal is a reply about no target.        *)
Captured(r) == IF FastReruns \/ token # r THEN None ELSE session

(* dispatch_project_agent_request: an answer, or no usable one.            *)
Dispatch(r) ==
  /\ pc[r] = "dispatch"
  /\ \E reply \in {NoReply, [request |-> run[r].request, content |-> Captured(r)]} :
       run' = [run EXCEPT ![r].reply = reply]
  /\ dispatches' = [dispatches EXCEPT ![run[r].request] = @ + 1]
  /\ Goto(r, "dispatched")
  /\ UNCHANGED <<clock, mb, session, token, tracker, epochs, closed, rerun,
                 callerVars, claims, targetOf>>

Publish(r) ==
  /\ pc[r] = "complete"
  /\ mb' = Complete(mb, run[r].claim, run[r].claimEpoch, run[r].reply, run[r].epoch, clock)
  /\ Leave(r, "tail")
  /\ UNCHANGED <<clock, session, token, tracker, epochs, closed, rerun,
                 callerVars, claims, targetOf, dispatches>>

EndRun(r) ==
  /\ pc[r] = "tail"
  /\ Leave(r, "off")
  /\ UNCHANGED <<clock, mb, session, token, tracker, epochs, closed, rerun,
                 callerVars, claims, targetOf, dispatches>>

(* A stop or rerun request ends the run at its next session-state access.  *)
(* The service point catches Exception; a ScriptControlException is not    *)
(* one, so a claim the run holds is never completed.                       *)
Interrupt(r) ==
  /\ pc[r] \in {"begin", "tick", "body", "dispatch", "dispatched"}
  /\ Leave(r, "off")
  /\ UNCHANGED <<clock, mb, session, token, tracker, epochs, closed, rerun,
                 callerVars, claims, targetOf, dispatches>>

(* The run_every tick between full runs. *)
PollFragment ==
  /\ ScriptFree
  /\ mb' = FragmentTick(mb, clock)
  /\ rerun' = (rerun \/ TickWakes(mb, clock))
  /\ UNCHANGED <<clock, session, token, tracker, epochs, closed, pc, run,
                 callerVars, claims, targetOf, dispatches>>

-----------------------------------------------------------------------------
(* The tool caller: one call at a time, over a route whose operations the  *)
(* registry serializes.                                                    *)

(* call_tool reads the target epoch once, ...                              *)
FetchEpoch ==
  /\ gateway.state = "idle"
  /\ ~mb.closed /\ mb.target_epoch # None
  /\ gateway' = [NoCall EXCEPT !.state = "fetched", !.epoch = mb.target_epoch]
  /\ UNCHANGED <<clock, mb, scriptVars, requests, slot>>

(* ... submits once, and gives up at once if the mailbox refuses, ...      *)
SubmitRequest ==
  /\ gateway.state = "fetched"
  /\ IF SubmitStatus(mb, gateway.epoch) = "accepted"
     THEN /\ requests < MaxRequests
          /\ clock + ResultWait <= MaxTime
          /\ requests' = requests + 1
          /\ slot' = requests + 1
          /\ mb' = Submit(mb, gateway.epoch, requests + 1, 1, clock + Timeout)
          /\ gateway' = [gateway EXCEPT !.state = "waiting", !.request = requests + 1,
                                        !.deadline = clock + ResultWait]
     ELSE /\ gateway' = NoCall
          /\ UNCHANGED <<mb, requests, slot>>
  /\ UNCHANGED <<clock, scriptVars>>

(* ... and polls.  Every status but busy ends the call; a call that is     *)
(* still busy after its wait disconnects (_disconnect_after_uncertain_     *)
(* request) and the caller is gone for good.                               *)
AfterPoll(status) ==
  IF status # "busy" THEN NoCall
  ELSE IF clock >= gateway.deadline THEN [NoCall EXCEPT !.state = "gone"]
  ELSE [gateway EXCEPT !.state = "waiting", !.generation = 0, !.status = "none"]

(* consume_reply up to its unlocked copy ... *)
PeekReply ==
  /\ gateway.state = "waiting"
  /\ mb' = Peek(mb, gateway.epoch, clock)
  /\ gateway' = IF PeekStatus(mb, gateway.epoch) = "read"
                THEN [gateway EXCEPT !.state = "copying",
                                     !.generation = mb'.reply_generation,
                                     !.status = mb'.reply_status]
                ELSE AfterPoll(PeekStatus(mb, gateway.epoch))
  /\ UNCHANGED <<clock, scriptVars, requests, slot>>

(* ... and from it on. *)
TakeReply ==
  /\ gateway.state = "copying"
  /\ mb' = Take(mb, gateway.epoch, gateway.generation)
  /\ slot' = IF Takes(mb, gateway.epoch, gateway.generation) THEN None ELSE slot
  /\ gateway' = AfterPoll(TakeStatus(mb, gateway.epoch, gateway.generation, gateway.status))
  /\ UNCHANGED <<clock, scriptVars, requests>>

-----------------------------------------------------------------------------
(* The session is released: ProjectAgentSessionRuntime.close.              *)
CloseSession ==
  /\ ~closed
  /\ closed' = TRUE
  /\ mb' = Close(mb)
  /\ tracker' = [initialized |-> FALSE, target |-> None, epoch |-> None]
  /\ slot' = None
  /\ UNCHANGED <<clock, session, token, epochs, rerun, pc, run, gateway, requests,
                 claims, targetOf, dispatches>>

Tick ==
  /\ clock < MaxTime
  /\ clock' = clock + 1
  /\ UNCHANGED <<mb, scriptVars, gateway, requests, slot>>

ScriptStep(r) ==
  \/ StartRun(r) \/ BeginRun(r) \/ Gate(r) \/ Resynchronize(r) \/ MarkRun(r)
  \/ InlineTick(r) \/ SwitchTarget(r) \/ ReachServicePoint(r) \/ Claim(r) \/ Confirm(r)
  \/ Dispatch(r) \/ ReturnFromBridge(r) \/ Publish(r) \/ EndRun(r) \/ Interrupt(r)

CallerStep == FetchEpoch \/ SubmitRequest \/ PeekReply \/ TakeReply

Next ==
  \/ \E r \in Runs : ScriptStep(r)
  \/ PollFragment
  \/ CallerStep
  \/ CloseSession
  \/ Tick

Spec == Init /\ [][Next]_vars

(* Progress of a running script, of the polling browser, of a waiting      *)
(* caller and of time.  A run may be started by the user at any time, but  *)
(* only a requested rerun must start; nothing makes the user switch        *)
(* targets, close the session or interrupt a run.  The browser polls       *)
(* between runs (strong fairness: runs may come and go).                   *)
RunProgress(r) ==
  \/ BeginRun(r) \/ Gate(r) \/ Resynchronize(r) \/ MarkRun(r) \/ InlineTick(r)
  \/ ReachServicePoint(r) \/ Claim(r) \/ Confirm(r) \/ Dispatch(r)
  \/ ReturnFromBridge(r) \/ Publish(r) \/ EndRun(r)

Fairness ==
  /\ \A r \in Runs : WF_vars(RunProgress(r)) /\ WF_vars(rerun /\ StartRun(r))
  /\ SF_vars(PollFragment)
  /\ WF_vars(PeekReply) /\ WF_vars(TakeReply)
  /\ WF_vars(Tick)

FairSpec == Spec /\ Fairness

-----------------------------------------------------------------------------
(* Properties.                                                             *)

PcLabels ==
  {"off", "begin", "begin_gate", "begin_sync", "mark", "tick", "body", "serve_gate",
   "claim_sync", "claim", "copy", "dispatch", "dispatched", "publish_gate",
   "complete_sync", "complete", "tail"}

RunType ==
  [args : Targets, epoch : Nat, claim : Nat, claimEpoch : Nat, request : Nat,
   reply : ReplyType]

GatewayType ==
  [state : {"idle", "fetched", "waiting", "copying", "gone"}, epoch : Nat,
   request : Nat, deadline : Nat, generation : Nat, status : ReplyStatuses]

(* Every variable of the pump has its type; the wake backoff stays within  *)
(* MAX_WAKE_RETRY_SECONDS.                                                 *)
TypeOK ==
  /\ clock \in Nat /\ mb \in MailboxType /\ session \in Targets
  /\ token \in Runs \cup {None}
  /\ tracker \in [initialized : BOOLEAN, target : Targets, epoch : Nat]
  /\ epochs \in 0..MaxEpochs
  /\ closed \in BOOLEAN /\ rerun \in BOOLEAN
  /\ pc \in [Runs -> PcLabels] /\ run \in [Runs -> RunType]
  /\ gateway \in GatewayType
  /\ requests \in 0..MaxRequests /\ claims \in Nat
  /\ targetOf \in [Epochs -> Targets]
  /\ dispatches \in [Requests -> Nat] /\ slot \in 0..MaxRequests

(* The inductive invariant behind the safety properties. *)

Claiming == {"copy", "dispatch", "dispatched", "publish_gate", "complete_sync", "complete"}

(* The slot and the mailbox agree on which request is being served. *)
SlotInv ==
  /\ slot <= requests
  /\ mb.closed = closed
  /\ slot = None <=> mb.state \in {"idle", "closed"}
  /\ mb.state \in Unclaimed \cup {"executing"} => mb.request = slot

(* A call submits for an epoch it was given, and while it waits the slot   *)
(* holds no other request.                                                 *)
CallerInv ==
  /\ gateway.state = "fetched" => gateway.epoch # None
  /\ gateway.state \in {"waiting", "copying"} => slot \in {None, gateway.request}

(* Claim ids are fresh, a run has one exactly while it serves, and the run *)
(* whose claim the mailbox knows serves the request in the slot.           *)
ClaimInv ==
  /\ mb.claim_id <= claims
  /\ \A r \in Runs :
       /\ run[r].claim <= claims
       /\ run[r].claim # None <=> pc[r] \in Claiming
       /\ pc[r] \in Claiming => run[r].request \in 1..requests
       /\ pc[r] \in Claiming /\ mb.state = "executing" /\ mb.claim_id = run[r].claim =>
            run[r].request = mb.request /\ run[r].claimEpoch = mb.request_epoch
       /\ run[r].reply # NoReply =>
            pc[r] \in Claiming /\ run[r].reply.request = run[r].request
  /\ \A r, s \in Runs : r # s /\ pc[r] \in Claiming /\ pc[s] \in Claiming =>
       run[r].claim # run[s].claim /\ run[r].request # run[s].request

(* A request that is unclaimed, or claimed and not yet given to the        *)
(* bridge, was never given to the bridge, and no run serves an unclaimed   *)
(* one.                                                                    *)
DispatchInv ==
  /\ \A q \in Requests : dispatches[q] <= 1 /\ (q > requests => dispatches[q] = 0)
  /\ \A r \in Runs : pc[r] \in {"copy", "dispatch"} => dispatches[run[r].request] = 0
  /\ mb.state \in Unclaimed =>
       /\ dispatches[mb.request] = 0
       /\ \A r \in Runs : pc[r] \in Claiming => run[r].request # mb.request

(* Epochs in use were handed out. *)
EpochInv ==
  /\ mb.target_epoch <= epochs /\ mb.request_epoch <= epochs
  /\ tracker.initialized => tracker.epoch \in 1..epochs /\ targetOf[tracker.epoch] = tracker.target
  /\ \A r \in Runs : run[r].epoch <= epochs /\ run[r].claimEpoch <= epochs
  /\ \A r \in Runs : pc[r] \in Claiming => run[r].claimEpoch # None

(* With serialized runs, a run at its service point works on the Project   *)
(* its epoch was handed out for.                                           *)
ServiceInv ==
  /\ ~FastReruns => \A r, s \in Runs : pc[r] # "off" /\ pc[s] # "off" => r = s
  /\ ~FastReruns => \A r \in Runs :
       /\ pc[r] = "serve_gate" => run[r].args = session
       /\ pc[r] \in {"claim_sync", "claim"} /\ run[r].epoch # None =>
            targetOf[run[r].epoch] = session
       /\ pc[r] \in {"copy", "dispatch"} => targetOf[run[r].claimEpoch] = session

ContentInv ==
  /\ \A r \in Runs : pc[r] \in Claiming \ {"copy", "dispatch"} =>
       run[r].reply.content \in {None, targetOf[run[r].claimEpoch]}
  /\ mb.state = "reply_ready" /\ mb.reply_status = "completed" =>
       /\ mb.reply.request = slot
       /\ mb.reply.content \in {None, targetOf[mb.request_epoch]}

IInv ==
  /\ TypeOK /\ WellFormed(mb) /\ SlotInv /\ CallerInv /\ ClaimInv /\ DispatchInv
  /\ EpochInv /\ ServiceInv /\ ContentInv

(* A completed reply that is still in the mailbox answers the request that *)
(* occupies it, belongs to the current target and was computed from the    *)
(* Project that was active when the request's epoch was handed out, never  *)
(* from a newly active one.                                                *)
RepliesAreCurrent ==
  mb.state = "reply_ready" /\ mb.reply_status = "completed" =>
    /\ mb.reply.request = slot
    /\ mb.request_epoch = mb.target_epoch
    /\ mb.reply.content \in {None, targetOf[mb.request_epoch]}

(* No accepted request reaches the bridge twice, whatever runs end early   *)
(* and whatever the fragment repeats.                                      *)
DispatchedAtMostOnce == \A q \in Requests : dispatches[q] <= 1

(* Work is given to the bridge only before its deadline and while the      *)
(* mailbox's target is the one it was submitted for.                       *)
DispatchIsTimely ==
  [][\A r \in Runs : pc[r] = "copy" /\ pc'[r] = "dispatch" =>
       /\ clock < mb.deadline
       /\ mb.request_epoch = mb.target_epoch
       /\ ~FastReruns => targetOf[mb.request_epoch] = session]_vars

(* What a call gets as completed is the answer to its own request, for the *)
(* target it submitted to, and that target is still the mailbox's.         *)
DeliveryIsCurrent ==
  [][gateway.state = "copying" /\ gateway'.state = "idle"
     /\ TakeStatus(mb, gateway.epoch, gateway.generation, gateway.status) = "completed" =>
       /\ mb.state = "reply_ready" /\ mb.reply_status = "completed"
       /\ mb.reply.request = gateway.request
       /\ mb.target_epoch = gateway.epoch
       /\ slot' = None]_vars

(* The pump implements the one-slot request service: under the mapping     *)
(* below every step of runs, fragment, caller and release is a step of     *)
(* RequestSlot or leaves the slot alone.                                   *)
SlotPhase ==
  CASE mb.state = "idle" -> "free"
    [] mb.state \in Unclaimed -> "accepted"
    [] mb.state = "executing" -> "started"
    [] mb.state = "reply_ready" ->
         IF mb.reply_status = "completed" THEN "completed" ELSE "refused"
    [] mb.state = "closed" -> "closed"

Slot == INSTANCE RequestSlot
          WITH phase <- SlotPhase, owner <- slot, accepted <- requests,
               epoch <- mb.target_epoch, revoked <- mb.invalidated

ImplementsRequestSlot == Slot!Spec

(* An accepted request does not stay unclaimed for ever: a run claims it,  *)
(* or a poll or a run expires it.                                          *)
UnclaimedIsResolved == mb.state \in Unclaimed ~> mb.state \notin Unclaimed

=============================================================================
