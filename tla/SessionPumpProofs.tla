-------------------------- MODULE SessionPumpProofs --------------------------
(***************************************************************************)
(* Safety of the session pump for every number of runs, targets, requests  *)
(* and epochs, with serialized and with overlapping runs.                  *)
(***************************************************************************)
EXTENDS SessionPump, MailboxTheorems

USE DEF None

(* The locals of a run that serves nothing are of their type. *)
LEMMA Locals == NoRun \in RunType /\ NoCall \in GatewayType
<1>1. NoRun \in RunType
  BY PumpAssumption, Members DEF NoRun, RunType
<1>2. NoCall \in GatewayType
  BY Members DEF NoCall, GatewayType
<1> QED BY <1>1, <1>2

(* The initial state has its types and a well-formed mailbox. *)
LEMMA TypeInit == Init => TypeOK /\ WellFormed(mb)
<1> SUFFICES ASSUME Init PROVE TypeOK /\ WellFormed(mb)
  OBVIOUS
<1>1. InitMailbox \in MailboxType
  BY Members DEF InitMailbox, MailboxType
<1>2. WellFormed(InitMailbox)
  BY DEF InitMailbox, WellFormed, Unclaimed
<1>3. /\ pc \in [Runs -> PcLabels] /\ run \in [Runs -> RunType]
      /\ targetOf \in [Epochs -> Targets] /\ dispatches \in [Requests -> Nat]
  BY Locals, PumpAssumption DEF Init, PcLabels
<1>4. tracker \in [initialized : BOOLEAN, target : Targets, epoch : Nat]
  BY PumpAssumption DEF Init
<1>5. /\ clock \in Nat /\ epochs \in 0..MaxEpochs /\ requests \in 0..MaxRequests
      /\ claims \in Nat /\ slot \in 0..MaxRequests
  BY PumpAssumption DEF Init
<1>6. /\ session \in Targets /\ token \in Runs \cup {None}
      /\ closed \in BOOLEAN /\ rerun \in BOOLEAN
  BY DEF Init
<1>7. gateway \in GatewayType /\ mb \in MailboxType
  BY <1>1, Locals DEF Init
<1>8. TypeOK
  BY <1>3, <1>4, <1>5, <1>6, <1>7 DEF TypeOK
<1> QED BY <1>2, <1>8 DEF Init

(* The publication gate, opened: the epoch is the tracker's for an         *)
(* unchanged target and otherwise a new one.                               *)
Passes(r, e) ==
  /\ ~closed /\ e \in Epochs
  /\ \/ e = epochs + 1 /\ epochs' = e
     \/ e = tracker.epoch /\ epochs' = epochs /\ SameTarget(run[r].args)
  /\ tracker' = [initialized |-> TRUE, target |-> run[r].args, epoch |-> e]
  /\ targetOf' = [targetOf EXCEPT ![e] = run[r].args]
  /\ mb' = SynchronizeTargetEpoch(mb, e)
  /\ run' = [run EXCEPT ![r].args = None, ![r].epoch = e]

(* synchronize_target does nothing once the runtime is closed and passes otherwise. *)
LEMMA GateLemma ==
  ASSUME NEW r \in Runs, GateSynchronize(r)
  PROVE  \/ /\ closed /\ UNCHANGED <<tracker, epochs, targetOf, mb>>
            /\ run' = [run EXCEPT ![r].args = None, ![r].epoch = None]
         \/ \E e \in Epochs : Passes(r, e)
BY DEF GateSynchronize, Passes

(* What one step does to the mailbox and its slot: nothing that matters,   *)
(* or one of accept, claim, complete, take and close.                      *)
Settles ==
  /\ Harmless(mb, mb') \/ \E e \in 0..epochs' : Synchronized(mb, mb', e)
  /\ UNCHANGED <<slot, requests, closed>>

Accepts ==
  /\ SubmitRequest
  /\ gateway.epoch # None /\ Submitted(mb, mb', gateway.epoch, requests')
  /\ slot' = requests' /\ requests' = requests + 1 /\ UNCHANGED closed

Claims(r) ==
  /\ Claim(r) /\ Claimable(mb, run[r].epoch, clock)
  /\ Claimed(mb, mb', run[r].epoch, claims + 1)
  /\ UNCHANGED <<slot, requests, closed>>

Answers(r) ==
  /\ Publish(r) /\ run[r].reply # NoReply
  /\ Publishes(mb, mb', run[r].claim, run[r].reply, run[r].epoch)
  /\ UNCHANGED <<slot, requests, closed>>

Collects ==
  /\ TakeReply
  /\ Taken(mb, mb')
  /\ slot' = None /\ UNCHANGED <<requests, closed>>

Closes ==
  /\ CloseSession
  /\ Closed(mb')
  /\ slot' = None /\ closed' = TRUE /\ UNCHANGED requests

(* A claimable request is claimed. *)
LEMMA ClaimsLemma ==
  ASSUME TypeOK, WellFormed(mb), NEW r \in Runs, Claim(r),
         Claimable(mb, run[r].epoch, clock)
  PROVE  Claims(r)
<1>1. IsMailbox(mb) /\ clock \in Nat /\ run[r].epoch \in Nat /\ claims + 1 \in Nat \ {0}
  BY DEF IsMailbox, TypeOK, RunType
<1>2. mb' = ClaimTake(mb, run[r].epoch, claims + 1, clock) /\ UNCHANGED <<slot, requests, closed>>
  BY DEF Claim, callerVars
<1> QED BY <1>1, <1>2, ClaimLemma DEF Claims

(* A step of a script run settles, claims or answers. *)
LEMMA ScriptKinds ==
  ASSUME TypeOK, WellFormed(mb), EpochInv, NEW r \in Runs, ScriptStep(r)
  PROVE  Settles \/ Claims(r) \/ Answers(r)
<1>1. IsMailbox(mb) /\ clock \in Nat
  BY DEF IsMailbox, TypeOK
<1>2. /\ run[r].epoch \in Nat /\ run[r].claim \in Nat /\ run[r].claimEpoch \in Nat
      /\ run[r].reply \in ReplyType /\ claims + 1 \in Nat \ {0}
  BY DEF TypeOK, RunType
<1>3. CASE Gate(r)
  <2>1. CASE UNCHANGED mb
    BY <1>1, <1>3, <2>1, HarmlessRefl DEF Settles, Gate, callerVars
  <2>2. ASSUME NEW e \in Epochs, Passes(r, e) PROVE Settles
    <3>1. e \in 0..epochs' /\ e \in Nat
      BY <2>2 DEF Passes, SameTarget, EpochInv, Epochs, TypeOK
    <3> QED BY <1>1, <1>3, <2>2, <3>1, SynchronizeLemma DEF Settles, Gate, callerVars, Passes
  <2> QED BY <1>3, <2>1, <2>2, GateLemma DEF Gate
<1>4. CASE Resynchronize(r)
  <2>1. run[r].epoch \in 0..epochs'
    BY <1>2, <1>4 DEF Resynchronize, EpochInv, TypeOK
  <2> QED BY <1>1, <1>2, <1>4, <2>1, SynchronizeLemma DEF Settles, Resynchronize, callerVars
<1>5. CASE MarkRun(r)
  BY <1>1, <1>5, BeginLemma DEF Settles, MarkRun, callerVars
<1>6. CASE InlineTick(r)
  BY <1>1, <1>6, TickLemma DEF Settles, InlineTick, callerVars
<1>7. CASE Claim(r)
  <2>1. mb' = ClaimTake(mb, run[r].epoch, claims + 1, clock) /\ UNCHANGED <<slot, requests, closed>>
    BY <1>7 DEF Claim, callerVars
  <2>2. CASE Claimable(mb, run[r].epoch, clock)
    BY <1>7, <2>2, ClaimsLemma
  <2>3. CASE ~Claimable(mb, run[r].epoch, clock)
    BY <1>1, <1>2, <2>1, <2>3, NoClaimLemma DEF Settles
  <2> QED BY <2>2, <2>3
<1>8. CASE Confirm(r)
  BY <1>1, <1>2, <1>8, ConfirmLemma DEF Settles, Confirm, callerVars
<1>9. CASE Publish(r)
  <2>1. mb' = Complete(mb, run[r].claim, run[r].claimEpoch, run[r].reply, run[r].epoch, clock)
        /\ UNCHANGED <<slot, requests, closed>>
    BY <1>9 DEF Publish, callerVars
  <2> QED BY <1>1, <1>2, <1>9, <2>1, CompleteLemma DEF Settles, Answers
<1>10. CASE \/ StartRun(r) \/ BeginRun(r) \/ SwitchTarget(r) \/ ReachServicePoint(r)
            \/ Dispatch(r) \/ ReturnFromBridge(r) \/ EndRun(r) \/ Interrupt(r)
  <2>1. UNCHANGED <<mb, slot, requests, closed>>
    BY <1>10 DEF StartRun, BeginRun, SwitchTarget, ReachServicePoint, Dispatch,
                 ReturnFromBridge, EndRun, Interrupt, callerVars
  <2> QED BY <1>1, <2>1, HarmlessRefl DEF Settles
<1> QED
  BY <1>3, <1>4, <1>5, <1>6, <1>7, <1>8, <1>9, <1>10 DEF ScriptStep

(* Every step is one of the six kinds. *)
LEMMA StepKinds ==
  ASSUME TypeOK, WellFormed(mb), EpochInv, CallerInv, [Next]_vars
  PROVE  \/ Settles \/ Accepts \/ Collects \/ Closes
         \/ \E r \in Runs : Claims(r) \/ Answers(r)
<1>1. IsMailbox(mb) /\ clock \in Nat
  BY DEF IsMailbox, TypeOK
<1>2. CASE \E r \in Runs : ScriptStep(r)
  BY <1>2, ScriptKinds
<1>3. CASE PollFragment
  BY <1>1, <1>3, TickLemma DEF Settles, PollFragment, callerVars
<1>4. CASE CallerStep
  <2>1. gateway.epoch \in Nat /\ gateway.generation \in Nat
    BY DEF TypeOK, GatewayType
  <2>2. CASE FetchEpoch
    BY <1>1, <2>2, HarmlessRefl DEF Settles, FetchEpoch, scriptVars
  <2>3. CASE SubmitRequest /\ SubmitStatus(mb, gateway.epoch) = "accepted"
    <3>1. /\ mb' = Submit(mb, gateway.epoch, requests + 1, 1, clock + Timeout)
          /\ requests' = requests + 1 /\ slot' = requests' /\ UNCHANGED closed
      BY <2>3 DEF SubmitRequest, scriptVars
    <3>2. gateway.epoch # None /\ requests + 1 \in Nat \ {0} /\ clock + Timeout \in Nat \ {0}
      BY <2>3, PumpAssumption DEF SubmitRequest, CallerInv, TypeOK
    <3> QED BY <1>1, <2>1, <2>3, <3>1, <3>2, SubmitLemma DEF Accepts
  <2>4. CASE SubmitRequest /\ SubmitStatus(mb, gateway.epoch) # "accepted"
    BY <1>1, <2>4, HarmlessRefl DEF Settles, SubmitRequest, scriptVars
  <2>5. CASE PeekReply
    BY <1>1, <2>1, <2>5, PeekLemma DEF Settles, PeekReply, scriptVars
  <2>6. CASE TakeReply
    <3>1. mb' = Take(mb, gateway.epoch, gateway.generation) /\ UNCHANGED <<requests, closed>>
          /\ slot' = IF Takes(mb, gateway.epoch, gateway.generation) THEN None ELSE slot
      BY <2>6 DEF TakeReply, scriptVars
    <3>2. CASE Takes(mb, gateway.epoch, gateway.generation)
      BY <1>1, <2>1, <2>6, <3>1, <3>2, TakeLemma DEF Collects
    <3>3. CASE ~Takes(mb, gateway.epoch, gateway.generation)
      BY <1>1, <3>1, <3>3, HarmlessRefl DEF Take, Settles
    <3> QED BY <3>2, <3>3
  <2> QED BY <1>4, <2>2, <2>3, <2>4, <2>5, <2>6 DEF CallerStep
<1>5. CASE CloseSession
  <2>1. mb' = Close(mb) /\ slot' = None /\ closed' = TRUE /\ UNCHANGED requests
    BY <1>5 DEF CloseSession
  <2> QED BY <1>1, <1>5, <2>1, CloseLemma DEF Closes
<1>6. CASE Tick \/ UNCHANGED vars
  BY <1>1, <1>6, HarmlessRefl DEF Tick, vars, scriptVars, Settles
<1> QED BY <1>2, <1>3, <1>4, <1>5, <1>6 DEF Next

(* Every step leaves a well-formed mailbox.                                *)
LEMMA MailboxStep ==
  ASSUME TypeOK, WellFormed(mb), EpochInv, CallerInv, [Next]_vars
  PROVE  IsMailbox(mb')
BY StepKinds DEF Settles, Harmless, Synchronized, Accepts, Submitted, Claims, Claimed,
                 Answers, Publishes, Completed, Collects, Taken, Closes, Closed

(* Every step keeps the types: one step per action.                        *)
LEMMA TypeStep ==
  ASSUME TypeOK, WellFormed(mb), EpochInv, CallerInv, [Next]_vars
  PROVE  TypeOK'
<1>1. mb' \in MailboxType
  BY MailboxStep DEF IsMailbox
<1> USE DEF TypeOK
<1>2. ASSUME NEW r \in Runs, ScriptStep(r) PROVE TypeOK'
  <2>1. CASE StartRun(r)
    BY <1>1, <2>1 DEF StartRun, Goto, PcLabels, callerVars
  <2>2. CASE BeginRun(r)
    BY <1>1, <2>2 DEF BeginRun, Goto, PcLabels, RunType, callerVars
  <2>3. CASE Gate(r)
    <3>1. pc' \in [Runs -> PcLabels]
      BY <2>3 DEF Gate, Goto, PcLabels
    <3>2. /\ run' \in [Runs -> RunType]
          /\ tracker' \in [initialized : BOOLEAN, target : Targets, epoch : Nat]
          /\ epochs' \in 0..MaxEpochs
          /\ targetOf' \in [Epochs -> Targets]
      <4>1. CASE UNCHANGED <<tracker, epochs, targetOf>>
                 /\ run' = [run EXCEPT ![r].args = None, ![r].epoch = None]
        BY <4>1, PumpAssumption DEF RunType
      <4>2. ASSUME NEW e \in Epochs, Passes(r, e)
            PROVE  /\ run' \in [Runs -> RunType]
                   /\ tracker' \in [initialized : BOOLEAN, target : Targets, epoch : Nat]
                   /\ epochs' \in 0..MaxEpochs
                   /\ targetOf' \in [Epochs -> Targets]
        <5>1. e \in Nat /\ e \in 0..MaxEpochs /\ run[r].args \in Targets
          BY PumpAssumption DEF Epochs, RunType
        <5> QED BY <4>2, <5>1, PumpAssumption, ZenonT(40) DEF Passes, RunType
      <4> QED BY <2>3, <4>1, <4>2, GateLemma DEF Gate
    <3> QED BY <1>1, <2>3, <3>1, <3>2 DEF Gate, callerVars
  <2>4. CASE Resynchronize(r)
    BY <1>1, <2>4 DEF Resynchronize, Goto, PcLabels, callerVars
  <2>5. CASE MarkRun(r)
    BY <1>1, <2>5 DEF MarkRun, Goto, PcLabels, callerVars
  <2>6. CASE InlineTick(r)
    BY <1>1, <2>6, Locals DEF InlineTick, Leave, Goto, PcLabels, callerVars
  <2>7. CASE SwitchTarget(r)
    BY <1>1, <2>7 DEF SwitchTarget, callerVars
  <2>8. CASE ReachServicePoint(r)
    <3>1. run' \in [Runs -> RunType] /\ pc' \in [Runs -> PcLabels]
      BY <2>8, Locals, SMTT(30) DEF ReachServicePoint, Leave, Goto, PcLabels, RunType
    <3> QED BY <1>1, <2>8, <3>1 DEF ReachServicePoint, callerVars
  <2>9. CASE Claim(r)
    <3>1. mb.request \in Nat /\ run[r].epoch \in Nat
      BY DEF MailboxType, RunType
    <3>2. run' \in [Runs -> RunType] /\ claims' \in Nat
      BY <2>9, <3>1, Locals DEF Claim, Leave, RunType
    <3> QED BY <1>1, <2>9, <3>2 DEF Claim, Leave, Goto, PcLabels, callerVars
  <2>10. CASE Confirm(r)
    BY <1>1, <2>10, Locals DEF Confirm, Leave, Goto, PcLabels, callerVars
  <2>11. CASE Dispatch(r)
    <3>1. ASSUME NEW reply \in {NoReply, [request |-> run[r].request, content |-> Captured(r)]}
          PROVE  reply \in ReplyType
      BY <3>1, PumpAssumption, Members DEF Captured, ReplyType, RunType
    <3>2. run' \in [Runs -> RunType]
      BY <2>11, <3>1 DEF Dispatch, RunType
    <3>3. dispatches' \in [Requests -> Nat]
      <4>1. dispatches' = [dispatches EXCEPT ![run[r].request] = dispatches[run[r].request] + 1]
        BY <2>11 DEF Dispatch
      <4>2. \A q \in Requests : dispatches[q] + 1 \in Nat
        OBVIOUS
      <4> QED BY <4>1, <4>2
    <3> QED BY <1>1, <2>11, <3>2, <3>3 DEF Dispatch, Goto, PcLabels, callerVars
  <2>12. CASE ReturnFromBridge(r)
    BY <1>1, <2>12 DEF ReturnFromBridge, Goto, PcLabels, RunType, callerVars
  <2>13. CASE Publish(r)
    BY <1>1, <2>13, Locals DEF Publish, Leave, Goto, PcLabels, callerVars
  <2>14. CASE EndRun(r) \/ Interrupt(r)
    BY <1>1, <2>14, Locals DEF EndRun, Interrupt, Leave, Goto, PcLabels, callerVars
  <2> QED
    BY <1>2, <2>1, <2>2, <2>3, <2>4, <2>5, <2>6, <2>7, <2>8, <2>9, <2>10, <2>11, <2>12,
       <2>13, <2>14 DEF ScriptStep
<1>3. CASE PollFragment
  BY <1>1, <1>3 DEF PollFragment, callerVars
<1>4. CASE CallerStep
  <2>1. ASSUME NEW status PROVE AfterPoll(status) \in GatewayType
    BY Locals, Members DEF AfterPoll, GatewayType, NoCall
  <2>2. CASE FetchEpoch
    BY <1>1, <2>2, Locals DEF FetchEpoch, scriptVars, GatewayType, MailboxType
  <2>3. CASE SubmitRequest
    <3>1. requests' \in 0..MaxRequests /\ slot' \in 0..MaxRequests
      BY <2>3, PumpAssumption DEF SubmitRequest
    <3>2. clock + ResultWait \in Nat /\ requests + 1 \in Nat
      BY PumpAssumption
    <3>3. gateway' = NoCall \/ gateway' = [gateway EXCEPT !.state = "waiting",
                                 !.request = requests + 1, !.deadline = clock + ResultWait]
      BY <2>3 DEF SubmitRequest
    <3>4. gateway' \in GatewayType
      BY <3>2, <3>3, Locals DEF GatewayType
    <3> QED BY <1>1, <2>3, <3>1, <3>4 DEF SubmitRequest, scriptVars
  <2>4. CASE PeekReply
    <3>1. gateway' \in GatewayType
      BY <1>1, <2>1, <2>4 DEF PeekReply, GatewayType, MailboxType
    <3> QED BY <1>1, <2>4, <3>1 DEF PeekReply, scriptVars
  <2>5. CASE TakeReply
    BY <1>1, <2>1, <2>5, PumpAssumption DEF TakeReply, scriptVars
  <2> QED BY <1>4, <2>2, <2>3, <2>4, <2>5 DEF CallerStep
<1>5. CASE CloseSession
  BY <1>1, <1>5, PumpAssumption DEF CloseSession
<1>6. CASE Tick
  BY <1>1, <1>6 DEF Tick, scriptVars
<1>7. CASE UNCHANGED vars
  BY <1>7 DEF vars
<1> QED BY <1>2, <1>3, <1>4, <1>5, <1>6, <1>7 DEF Next

(* A step that settles keeps slot and mailbox together.                    *)
LEMMA SettlesIsQuiet ==
  ASSUME Settles
  PROVE  /\ IsMailbox(mb') /\ Quiet(mb, mb') /\ mb'.claim_id <= mb.claim_id
         /\ UNCHANGED <<slot, requests, closed>>
BY DEF Settles, Harmless, Synchronized

(* Every step keeps slot and mailbox in agreement. *)
LEMMA SlotStep ==
  ASSUME TypeOK, WellFormed(mb), EpochInv, SlotInv, CallerInv, [Next]_vars
  PROVE  SlotInv'
<1> USE DEF SlotInv
<1>a. slot \in Nat /\ requests \in Nat /\ closed \in BOOLEAN
  BY DEF TypeOK
<1>1. CASE Settles
  <2>1. /\ mb'.state \in MailboxStates
        /\ Quiet(mb, mb') /\ UNCHANGED <<slot, requests, closed>>
    BY <1>1, SettlesIsQuiet DEF IsMailbox, MailboxType
  <2> QED BY <2>1 DEF Quiet, Unclaimed
<1>2. CASE Accepts
  <2>1. closed = FALSE /\ mb'.closed = FALSE /\ UNCHANGED closed
    BY <1>a, <1>2 DEF Accepts, Submitted
  <2>2. mb'.state = "pending" /\ mb'.request = slot' /\ slot' = requests'
        /\ slot' # None /\ slot' <= requests'
    BY <1>a, <1>2 DEF Accepts, Submitted
  <2> QED BY <2>1, <2>2
<1>3. CASE \E r \in Runs : Claims(r)
  BY <1>3 DEF Claims, Claimed, Unclaimed
<1>4. CASE \E r \in Runs : Answers(r)
  BY <1>4 DEF Answers, Publishes, Completed, Unclaimed
<1>5. CASE Collects
  BY <1>a, <1>5 DEF Collects, Taken, Unclaimed
<1>6. CASE Closes
  <2>1. mb'.closed = closed'
    BY <1>6 DEF Closes, Closed
  <2>2. mb'.state = "closed" /\ slot' = None /\ slot' <= requests'
    BY <1>a, <1>6 DEF Closes, Closed
  <2> QED BY <2>1, <2>2 DEF Unclaimed
<1> QED BY <1>1, <1>2, <1>3, <1>4, <1>5, <1>6, StepKinds

(* Every step keeps the caller's view of the slot. *)
LEMMA CallerInvStep ==
  ASSUME TypeOK, CallerInv, [Next]_vars
  PROVE  CallerInv'
<1> USE DEF CallerInv
<1>1. gateway \in GatewayType
  BY DEF TypeOK
<1>2. CASE UNCHANGED <<gateway, slot>>
  BY <1>2
<1>3. ASSUME NEW r \in Runs, ScriptStep(r) PROVE UNCHANGED <<gateway, slot>>
  BY <1>3 DEF ScriptStep, StartRun, BeginRun, Gate, Resynchronize, MarkRun, InlineTick,
              SwitchTarget, ReachServicePoint, Claim, Confirm, Dispatch, ReturnFromBridge,
              Publish, EndRun, Interrupt, callerVars
<1>4. CASE FetchEpoch
  BY <1>4 DEF FetchEpoch, NoCall
<1>5. CASE SubmitRequest
  <2>1. CASE SubmitStatus(mb, gateway.epoch) = "accepted"
    <3>1. gateway' = [gateway EXCEPT !.state = "waiting", !.request = requests + 1,
                                     !.deadline = clock + ResultWait]
          /\ slot' = requests + 1
      BY <1>5, <2>1 DEF SubmitRequest
    <3>2. gateway'.state = "waiting" /\ gateway'.request = slot'
      BY <1>1, <3>1 DEF GatewayType
    <3> QED BY <3>2
  <2>2. CASE SubmitStatus(mb, gateway.epoch) # "accepted"
    <3>1. gateway' = NoCall BY <1>5, <2>2 DEF SubmitRequest
    <3>2. gateway'.state = "idle" BY <3>1 DEF NoCall
    <3> QED BY <3>2
  <2> QED BY <2>1, <2>2
<1>6. CASE PeekReply \/ TakeReply
  <2> DEFINE Copying(g, t) ==
        [gateway EXCEPT !.state = "copying", !.generation = g, !.status = t]
      Good(call) ==
        /\ call.state # "fetched"
        /\ call.state \in {"waiting", "copying"} => call.request = gateway.request
  <2>1. ASSUME NEW status PROVE Good(AfterPoll(status))
    BY <1>1 DEF AfterPoll, NoCall, GatewayType
  <2>2. ASSUME NEW g, NEW t PROVE Good(Copying(g, t))
    BY <1>1 DEF GatewayType
  <2>3. gateway.state \in {"waiting", "copying"} /\ slot' \in {slot, None}
    BY <1>6 DEF PeekReply, TakeReply
  <2>4. \/ \E status : gateway' = AfterPoll(status)
        \/ \E g, t : gateway' = Copying(g, t)
    BY <1>6 DEF PeekReply, TakeReply
  <2> HIDE DEF Copying
  <2>5. Good(gateway')
    BY <2>1, <2>2, <2>4
  <2> QED BY <2>3, <2>5
<1>7. CASE CloseSession
  BY <1>7 DEF CloseSession
<1>8. CASE PollFragment \/ Tick \/ UNCHANGED vars
  BY <1>8 DEF PollFragment, Tick, vars, callerVars
<1> QED BY <1>2, <1>3, <1>4, <1>5, <1>6, <1>7, <1>8 DEF Next, CallerStep

(* What one step does to a run that serves a request: it goes on, or it    *)
(* stops serving.  Only Claims starts serving.                             *)
Keeps(s) ==
  /\ pc[s] \in Claiming /\ pc'[s] \in Claiming
  /\ run'[s].claim = run[s].claim /\ run'[s].request = run[s].request
  /\ run'[s].claimEpoch = run[s].claimEpoch
  /\ pc'[s] \in {"copy", "dispatch"} => pc[s] \in {"copy", "dispatch"}
  /\ run'[s].reply # NoReply => run'[s].reply.request = run[s].request

Idles(s) ==
  pc'[s] \notin Claiming /\ run'[s].claim = None /\ run'[s].reply = NoReply

(* A run the step does not touch. *)
LEMMA Untouched ==
  ASSUME ClaimInv, NEW s \in Runs, pc'[s] = pc[s], run'[s] = run[s]
  PROVE  Keeps(s) \/ Idles(s)
BY DEF ClaimInv, Keeps, Idles

(* A step of one run leaves the locals of the others alone. *)
LEMMA OtherRuns ==
  ASSUME TypeOK, NEW r \in Runs, ScriptStep(r), NEW s \in Runs, s # r
  PROVE  pc'[s] = pc[s] /\ run'[s] = run[s]
BY DEF TypeOK, ScriptStep, StartRun, BeginRun, Gate, GateSynchronize, Resynchronize,
       MarkRun, InlineTick, SwitchTarget, ReachServicePoint, Claim, Confirm, Dispatch,
       ReturnFromBridge, Publish, EndRun, Interrupt, Goto, Leave

(* Every step but a claim lets each serving run go on or stop. *)
LEMMA ServingKinds ==
  ASSUME TypeOK, WellFormed(mb), ClaimInv, [Next]_vars, \A r \in Runs : ~Claims(r)
  PROVE  \A s \in Runs : Keeps(s) \/ Idles(s)
<1>1. CASE UNCHANGED <<pc, run>>
  BY <1>1, Untouched
<1>3. ASSUME NEW r \in Runs, ScriptStep(r) PROVE Keeps(r) \/ Idles(r)
  <2> USE DEF Goto, Leave
  <2>1. /\ pc \in [Runs -> PcLabels] /\ run \in [Runs -> RunType]
        /\ pc[r] \notin Claiming => run[r].claim = None /\ run[r].reply = NoReply
        /\ run[r].reply # NoReply => run[r].reply.request = run[r].request
    BY DEF TypeOK, ClaimInv
  <2>2. NoRun.claim = None /\ NoRun.reply = NoReply
    BY DEF NoRun
  <2>3. CASE StartRun(r)
    BY <2>1, <2>3 DEF StartRun, Idles, Claiming
  <2>4. CASE BeginRun(r)
    BY <2>1, <2>4 DEF BeginRun, Idles, Claiming, RunType
  <2>5. CASE Gate(r)
    <3>1. PICK e : run' = [run EXCEPT ![r].args = None, ![r].epoch = e]
      BY <2>5 DEF Gate, GateSynchronize
    <3>2. run'[r].claim = run[r].claim /\ run'[r].request = run[r].request
          /\ run'[r].claimEpoch = run[r].claimEpoch /\ run'[r].reply = run[r].reply
      BY <2>1, <3>1 DEF RunType
    <3> QED BY <2>1, <2>5, <3>2 DEF Gate, Keeps, Idles, Claiming
  <2>6. CASE Resynchronize(r)
    BY <2>1, <2>6 DEF Resynchronize, Keeps, Idles, Claiming
  <2>7. CASE MarkRun(r)
    BY <2>1, <2>7 DEF MarkRun, Idles, Claiming
  <2>8. CASE SwitchTarget(r)
    BY <2>1, <2>8 DEF SwitchTarget, Idles, Claiming
  <2>9. CASE ReachServicePoint(r)
    BY <2>1, <2>2, <2>9 DEF ReachServicePoint, Idles, Claiming, RunType
  <2>10. CASE Claim(r)
    BY <2>1, <2>2, <2>10, ClaimsLemma DEF Claim, Idles, Claiming
  <2>11. CASE Confirm(r)
    BY <2>1, <2>2, <2>11 DEF Confirm, Keeps, Idles, Claiming
  <2>12. CASE Dispatch(r)
    <3>1. PICK reply \in {NoReply, [request |-> run[r].request, content |-> Captured(r)]} :
            run' = [run EXCEPT ![r].reply = reply]
      BY <2>12 DEF Dispatch
    <3>2. run'[r].claim = run[r].claim /\ run'[r].request = run[r].request
          /\ run'[r].claimEpoch = run[r].claimEpoch /\ run'[r].reply = reply
      BY <2>1, <3>1 DEF RunType
    <3> QED BY <2>1, <2>12, <3>1, <3>2 DEF Dispatch, Keeps, Claiming
  <2>13. CASE ReturnFromBridge(r)
    BY <2>1, <2>13 DEF ReturnFromBridge, Keeps, Claiming, RunType
  <2>14. CASE InlineTick(r) \/ Publish(r) \/ EndRun(r) \/ Interrupt(r)
    BY <2>1, <2>2, <2>14 DEF InlineTick, Publish, EndRun, Interrupt, Idles, Claiming
  <2> QED
    BY <1>3, <2>3, <2>4, <2>5, <2>6, <2>7, <2>8, <2>9, <2>10, <2>11, <2>12, <2>13, <2>14
       DEF ScriptStep
<1>4. CASE PollFragment \/ CallerStep \/ CloseSession \/ Tick \/ UNCHANGED vars
  BY <1>1, <1>4 DEF PollFragment, CallerStep, FetchEpoch, SubmitRequest, PeekReply, TakeReply,
                    CloseSession, Tick, vars, scriptVars
<1> QED BY <1>3, <1>4, OtherRuns, Untouched DEF Next

(* A run that starts to serve. *)
LEMMA ClaimsLocals ==
  ASSUME TypeOK, ClaimInv, NEW r \in Runs, Claims(r)
  PROVE  /\ pc[r] = "claim" /\ pc'[r] = "copy"
         /\ run'[r].claim = claims + 1 /\ run'[r].claimEpoch = run[r].epoch
         /\ run'[r].request = mb.request /\ run'[r].reply = NoReply
         /\ run'[r].epoch = run[r].epoch
         /\ claims' = claims + 1 /\ UNCHANGED <<session, targetOf, dispatches, epochs, tracker>>
         /\ \A s \in Runs \ {r} : pc'[s] = pc[s] /\ run'[s] = run[s]
<1>1. pc \in [Runs -> PcLabels] /\ run \in [Runs -> RunType]
  BY DEF TypeOK
<1>2. pc[r] = "claim" /\ run[r].reply = NoReply
  BY DEF Claims, Claim, ClaimInv, Claiming
<1> QED BY <1>1, <1>2 DEF Claims, Claim, Goto, RunType

(* Every step keeps claim ids fresh and their holders apart. *)
LEMMA ClaimInvStep ==
  ASSUME TypeOK, WellFormed(mb), EpochInv, CallerInv, SlotInv, ClaimInv, DispatchInv, [Next]_vars
  PROVE  ClaimInv'
<1>1. /\ mb.claim_id \in Nat /\ claims \in Nat /\ mb.claim_id <= claims
      /\ requests \in Nat /\ slot \in Nat
      /\ \A r \in Runs : run[r].claim \in Nat /\ run[r].request \in Nat
  BY DEF TypeOK, MailboxType, ClaimInv, RunType
<1>2. CASE \E r \in Runs : Claims(r)
  <2>1. PICK r \in Runs : Claims(r)
    BY <1>2
  <2>2. /\ mb'.state = "executing" /\ mb'.claim_id = claims + 1 /\ mb'.request = mb.request
        /\ mb'.request_epoch = run[r].epoch /\ UNCHANGED requests /\ mb.state \in Unclaimed
    BY <2>1 DEF Claims, Claimed
  <2>3. mb.request \in 1..requests
    BY <1>1, <2>2 DEF SlotInv, Unclaimed
  <2>4. \A s \in Runs \ {r} : pc'[s] \in Claiming =>
          run'[s].claim # run'[r].claim /\ run'[s].request # run'[r].request
    BY <1>1, <2>1, <2>2, ClaimsLocals DEF ClaimInv, DispatchInv
  <2>5. /\ run'[r].claim <= claims' /\ run'[r].claim # None
        /\ pc'[r] \in Claiming /\ run'[r].request \in 1..requests'
        /\ run'[r].request = mb'.request /\ run'[r].claimEpoch = mb'.request_epoch
        /\ run'[r].reply = NoReply
    BY <1>1, <2>1, <2>2, <2>3, ClaimsLocals DEF Claiming
  <2>6. ASSUME NEW s \in Runs, s # r
        PROVE  /\ run'[s].claim <= claims'
               /\ run'[s].claim # None <=> pc'[s] \in Claiming
               /\ pc'[s] \in Claiming => run'[s].request \in 1..requests'
               /\ mb'.claim_id # run'[s].claim
               /\ run'[s].reply # NoReply =>
                    pc'[s] \in Claiming /\ run'[s].reply.request = run'[s].request
    BY <1>1, <2>1, <2>2, <2>6, ClaimsLocals DEF ClaimInv
  <2>7. \A s, t \in Runs : s # t /\ pc'[s] \in Claiming /\ pc'[t] \in Claiming =>
          run'[s].claim # run'[t].claim /\ run'[s].request # run'[t].request
    BY <2>1, <2>4, ClaimsLocals DEF ClaimInv
  <2>8. mb'.claim_id <= claims'
    BY <1>1, <2>1, <2>2, ClaimsLocals
  <2> QED BY <2>5, <2>6, <2>7, <2>8 DEF ClaimInv
<1>3. CASE \A r \in Runs : ~Claims(r)
  <2>1. /\ mb'.claim_id <= claims
        /\ mb'.state = "executing" =>
             /\ mb.state = "executing" /\ mb'.request = mb.request
             /\ mb'.claim_id = mb.claim_id /\ mb'.request_epoch = mb.request_epoch
        /\ requests' \in Nat /\ requests <= requests'
    <3>1. CASE Settles
      <4>1. mb'.claim_id \in Nat
        BY <3>1, SettlesIsQuiet DEF IsMailbox, MailboxType
      <4> QED BY <1>1, <3>1, <4>1, SettlesIsQuiet DEF Quiet
    <3>2. CASE Accepts \/ Collects \/ Closes
      BY <1>1, <3>2 DEF Accepts, Submitted, Collects, Taken, Closes, Closed
    <3>3. CASE \E r \in Runs : Answers(r)
      BY <1>1, <3>3 DEF Answers, Publishes, Completed
    <3> QED BY <1>3, <3>1, <3>2, <3>3, StepKinds
  <2>2. claims' = claims
    <3>1. ASSUME NEW r \in Runs, ScriptStep(r) PROVE claims' = claims
      BY <1>3, <3>1, ClaimsLemma
         DEF ScriptStep, StartRun, BeginRun, Gate, Resynchronize, MarkRun, InlineTick,
             SwitchTarget, ReachServicePoint, Claim, Confirm, Dispatch, ReturnFromBridge,
             Publish, EndRun, Interrupt
    <3> QED
      BY <3>1 DEF Next, PollFragment, CallerStep, FetchEpoch, SubmitRequest, PeekReply,
                  TakeReply, CloseSession, Tick, vars, scriptVars
  <2>3. \A s \in Runs : Keeps(s) \/ Idles(s)
    BY <1>3, ServingKinds
  <2>4. ASSUME NEW s \in Runs
        PROVE  /\ run'[s].claim <= claims'
               /\ run'[s].claim # None <=> pc'[s] \in Claiming
               /\ pc'[s] \in Claiming => run'[s].request \in 1..requests'
               /\ pc'[s] \in Claiming /\ mb'.state = "executing" /\ mb'.claim_id = run'[s].claim =>
                    run'[s].request = mb'.request /\ run'[s].claimEpoch = mb'.request_epoch
               /\ run'[s].reply # NoReply =>
                    pc'[s] \in Claiming /\ run'[s].reply.request = run'[s].request
    BY <1>1, <2>1, <2>2, <2>3 DEF Keeps, Idles, ClaimInv
  <2>5. \A s, t \in Runs : s # t /\ pc'[s] \in Claiming /\ pc'[t] \in Claiming =>
          run'[s].claim # run'[t].claim /\ run'[s].request # run'[t].request
    BY <2>3 DEF Keeps, Idles, ClaimInv
  <2> QED BY <2>1, <2>2, <2>4, <2>5 DEF ClaimInv
<1> QED BY <1>2, <1>3

(* Every step keeps a request that is not yet dispatched undispatched elsewhere. *)
LEMMA DispatchInvStep ==
  ASSUME TypeOK, WellFormed(mb), EpochInv, CallerInv, SlotInv, ClaimInv, DispatchInv, [Next]_vars
  PROVE  DispatchInv'
<1>1. /\ requests \in Nat /\ dispatches \in [Requests -> Nat]
      /\ \A r \in Runs : pc[r] \in Claiming => run[r].request \in 1..requests
      /\ 1..requests \subseteq Requests
  BY PumpAssumption DEF TypeOK, ClaimInv, Requests
<1>2. CASE \E r \in Runs : Claims(r)
  <2>1. PICK r \in Runs : Claims(r)
    BY <1>2
  <2>2. mb'.state = "executing" /\ mb.state \in Unclaimed /\ UNCHANGED requests
    BY <2>1 DEF Claims, Claimed
  <2>3. ASSUME NEW s \in Runs, pc'[s] \in {"copy", "dispatch"}
        PROVE  dispatches'[run'[s].request] = 0
    BY <2>1, <2>2, <2>3, ClaimsLocals DEF DispatchInv
  <2> QED BY <2>1, <2>2, <2>3, ClaimsLocals DEF DispatchInv, Unclaimed
<1>3. CASE \E r \in Runs : Dispatch(r)
  <2>1. PICK r \in Runs : Dispatch(r)
    BY <1>3
  <2>2. /\ pc[r] = "dispatch" /\ pc' = [pc EXCEPT ![r] = "dispatched"]
        /\ dispatches' = [dispatches EXCEPT ![run[r].request] = dispatches[run[r].request] + 1]
        /\ UNCHANGED <<mb, requests>>
    BY <2>1 DEF Dispatch, Goto, callerVars
  <2>3. \A s \in Runs : run'[s].request = run[s].request
    BY <2>1 DEF Dispatch, TypeOK, RunType
  <2>4. run[r].request \in Requests /\ dispatches[run[r].request] = 0
    BY <1>1, <2>2 DEF DispatchInv, Claiming
  <2>5. \A q \in Requests : dispatches'[q] <= 1 /\ (q > requests' => dispatches'[q] = 0)
    BY <1>1, <2>2, <2>4 DEF DispatchInv, Requests, Claiming
  <2>6. ASSUME NEW s \in Runs, pc'[s] \in {"copy", "dispatch"}
        PROVE  dispatches'[run'[s].request] = 0
    <3>1. s # r /\ pc[s] \in {"copy", "dispatch"}
      BY <2>2, <2>6 DEF TypeOK
    <3>2. run[s].request # run[r].request
      BY <2>2, <3>1 DEF ClaimInv, Claiming
    <3>3. run[s].request \in Requests /\ dispatches[run[s].request] = 0
      BY <1>1, <3>1 DEF DispatchInv, Claiming
    <3> QED BY <1>1, <2>2, <2>3, <3>2, <3>3
  <2>7. ASSUME mb'.state \in Unclaimed
        PROVE  /\ dispatches'[mb'.request] = 0
               /\ \A s \in Runs : pc'[s] \in Claiming => run'[s].request # mb'.request
    <3>1. mb.request # run[r].request /\ dispatches[mb.request] = 0
      BY <2>2, <2>7 DEF DispatchInv, Claiming
    <3>2. mb.request \in Requests
      BY <1>1, <2>2, <2>7 DEF SlotInv, WellFormed, Unclaimed, Requests, TypeOK
    <3>3. \A s \in Runs : pc'[s] \in Claiming => pc[s] \in Claiming
      BY <2>2 DEF TypeOK, Claiming
    <3> QED BY <1>1, <2>2, <2>3, <2>7, <3>1, <3>2, <3>3 DEF DispatchInv
  <2> QED BY <2>5, <2>6, <2>7 DEF DispatchInv
<1>4. CASE \A r \in Runs : ~Claims(r) /\ ~Dispatch(r)
  <2>1. UNCHANGED dispatches
    <3>1. ASSUME NEW r \in Runs, ScriptStep(r) PROVE UNCHANGED dispatches
      BY <1>4, <3>1
         DEF ScriptStep, StartRun, BeginRun, Gate, Resynchronize, MarkRun, InlineTick,
             SwitchTarget, ReachServicePoint, Claim, Confirm, ReturnFromBridge,
             Publish, EndRun, Interrupt
    <3> QED
      BY <3>1 DEF Next, PollFragment, CallerStep, FetchEpoch, SubmitRequest, PeekReply,
                  TakeReply, CloseSession, Tick, vars, scriptVars
  <2>2. \A s \in Runs : Keeps(s) \/ Idles(s)
    BY <1>4, ServingKinds
  <2>3. ASSUME NEW s \in Runs, pc'[s] \in {"copy", "dispatch"}
        PROVE  dispatches'[run'[s].request] = 0
    BY <2>1, <2>2, <2>3 DEF Keeps, Idles, DispatchInv, Claiming
  <2>4. requests' \in Nat /\ requests <= requests'
    <3>1. requests' \in {requests, requests + 1}
      BY <1>4, StepKinds DEF Settles, Accepts, Answers, Collects, Closes
    <3> QED BY <1>1, <3>1
  <2>5. ASSUME mb'.state \in Unclaimed
        PROVE  /\ dispatches'[mb'.request] = 0
               /\ \A s \in Runs : pc'[s] \in Claiming => run'[s].request # mb'.request
    <3>1. CASE Settles
      <4>1. mb.state \in Unclaimed /\ mb'.request = mb.request
        BY <2>5, <3>1, SettlesIsQuiet DEF Quiet
      <4> QED BY <2>1, <2>2, <4>1 DEF DispatchInv, Keeps, Idles
    <3>2. CASE Accepts
      <4>1. mb'.request = requests + 1 /\ requests + 1 \in Requests
        BY <1>1, <3>2, TypeStep DEF Accepts, Submitted, Requests, TypeOK
      <4>2. dispatches[requests + 1] = 0
        BY <1>1, <4>1 DEF DispatchInv
      <4>3. \A s \in Runs : pc'[s] \in Claiming => run'[s].request \in 1..requests
        BY <1>1, <2>2 DEF Keeps, Idles
      <4> QED BY <1>1, <2>1, <4>1, <4>2, <4>3
    <3>3. CASE Collects \/ Closes \/ \E r \in Runs : Answers(r)
      BY <2>5, <3>3 DEF Collects, Taken, Closes, Closed, Answers, Publishes, Completed, Unclaimed
    <3> QED BY <1>4, <3>1, <3>2, <3>3, StepKinds
  <2> QED BY <1>1, <2>1, <2>3, <2>4, <2>5 DEF DispatchInv, Requests
<1> QED BY <1>2, <1>3, <1>4

(* Only the gate hands out epochs or touches the tracker while the session *)
(* is open.                                                                *)
LEMMA OnlyGate ==
  ASSUME [Next]_vars, \A r \in Runs : ~Gate(r)
  PROVE  /\ UNCHANGED <<epochs, targetOf>>
         /\ UNCHANGED tracker \/ CloseSession
<1>1. ASSUME NEW r \in Runs, ScriptStep(r) PROVE UNCHANGED <<epochs, targetOf, tracker>>
  BY <1>1 DEF ScriptStep, StartRun, BeginRun, Resynchronize, MarkRun, InlineTick,
              SwitchTarget, ReachServicePoint, Claim, Confirm, Dispatch, ReturnFromBridge,
              Publish, EndRun, Interrupt
<1> QED
  BY <1>1 DEF Next, PollFragment, CallerStep, FetchEpoch, SubmitRequest, PeekReply,
              TakeReply, CloseSession, Tick, vars, scriptVars

(* Epochs already handed out keep the target they were handed out for.     *)
LEMMA EpochsGrow ==
  ASSUME TypeOK, EpochInv, [Next]_vars
  PROVE  /\ epochs \in Nat /\ epochs' \in Nat /\ epochs <= epochs'
         /\ \A e \in 1..epochs : targetOf'[e] = targetOf[e]
<1>1. epochs \in 0..MaxEpochs /\ targetOf \in [Epochs -> Targets]
  BY DEF TypeOK
<1>2. ASSUME NEW r \in Runs, NEW e \in Epochs, Passes(r, e)
      PROVE  /\ epochs' \in Nat /\ epochs <= epochs'
             /\ \A d \in 1..epochs : targetOf'[d] = targetOf[d]
  <2>1. CASE e = epochs + 1 /\ epochs' = e
    BY <1>1, <1>2, <2>1 DEF Passes
  <2>2. CASE e = tracker.epoch /\ epochs' = epochs /\ SameTarget(run[r].args)
    <3>1. targetOf[e] = run[r].args
      BY <2>2 DEF EpochInv, SameTarget
    <3> QED BY <1>1, <1>2, <2>2, <3>1 DEF Passes
  <2> QED BY <1>2, <2>1, <2>2 DEF Passes
<1>3. CASE \E r \in Runs : Gate(r)
  <2>1. PICK r \in Runs : Gate(r)
    BY <1>3
  <2>2. UNCHANGED <<epochs, targetOf>> \/ \E e \in Epochs : Passes(r, e)
    BY <2>1, GateLemma DEF Gate
  <2> QED BY <1>1, <1>2, <2>2
<1>4. CASE \A r \in Runs : ~Gate(r)
  BY <1>1, <1>4, OnlyGate
<1> QED BY <1>1, <1>3, <1>4

(* The epochs a step leaves in a run's locals were handed out.             *)
LEMMA RunEpochs ==
  ASSUME TypeOK, WellFormed(mb), EpochInv, ClaimInv, [Next]_vars, NEW s \in Runs
  PROVE  /\ run'[s].epoch <= epochs' /\ run'[s].claimEpoch <= epochs'
         /\ pc'[s] \in Claiming => run'[s].claimEpoch # None
<1>1. /\ run \in [Runs -> RunType] /\ pc \in [Runs -> PcLabels]
      /\ run[s].epoch \in Nat /\ run[s].claimEpoch \in Nat
      /\ run[s].epoch <= epochs /\ run[s].claimEpoch <= epochs
      /\ pc[s] \in Claiming => run[s].claimEpoch # None
  BY DEF TypeOK, RunType, EpochInv
<1>2. epochs \in Nat /\ epochs' \in Nat /\ epochs <= epochs'
  BY EpochsGrow
<1> DEFINE Good(l) == l.epoch \in {run[s].epoch, None} \cup 0..epochs'
                      /\ l.claimEpoch \in {run[s].claimEpoch, run[s].epoch, None}
<1>3. Good(run'[s])
  <2>1. Good(run[s]) /\ Good(NoRun)
    BY DEF NoRun
  <2>2. CASE run'[s] = run[s]
    BY <2>1, <2>2
  <2>3. CASE Gate(s)
    <3>1. PICK e \in Nat : e <= epochs' /\ run' = [run EXCEPT ![s].args = None, ![s].epoch = e]
      <4>1. CASE run' = [run EXCEPT ![s].args = None, ![s].epoch = None]
        <5>1. None \in Nat /\ None <= epochs' BY <1>2
        <5> QED BY <4>1, <5>1
      <4>2. ASSUME NEW e \in Epochs, Passes(s, e) PROVE e \in Nat /\ e <= epochs'
        BY <1>2, <4>2 DEF Passes, SameTarget, EpochInv, Epochs, TypeOK
      <4> QED BY <2>3, <4>1, <4>2, GateLemma DEF Gate, Passes
    <3>2. run'[s].epoch = e /\ run'[s].claimEpoch = run[s].claimEpoch
      BY <1>1, <3>1 DEF RunType
    <3> QED BY <1>2, <3>1, <3>2
  <2>4. CASE BeginRun(s) \/ ReachServicePoint(s) \/ ReturnFromBridge(s)
    <3>1. \/ run'[s] \in {run[s], NoRun}
          \/ run' = [run EXCEPT ![s].args = session]
      BY <1>1, <2>4 DEF BeginRun, ReachServicePoint, ReturnFromBridge, Leave
    <3>2. ASSUME run' = [run EXCEPT ![s].args = session]
          PROVE  run'[s].epoch = run[s].epoch /\ run'[s].claimEpoch = run[s].claimEpoch
      BY <1>1, <3>2 DEF RunType
    <3> QED BY <2>1, <3>1, <3>2
  <2>5. CASE Claim(s)
    <3>1. CASE ~Claimable(mb, run[s].epoch, clock)
      <4>1. run'[s] = NoRun
        BY <1>1, <2>5, <3>1 DEF Claim, Leave
      <4> QED BY <2>1, <4>1
    <3>2. CASE Claimable(mb, run[s].epoch, clock)
      <4>1. run'[s].epoch = run[s].epoch /\ run'[s].claimEpoch = run[s].epoch
        BY <2>5, <3>2, ClaimsLemma, ClaimsLocals
      <4> QED BY <4>1
    <3> QED BY <3>1, <3>2
  <2>6. CASE Dispatch(s)
    <3>1. run'[s].epoch = run[s].epoch /\ run'[s].claimEpoch = run[s].claimEpoch
      BY <1>1, <2>6 DEF Dispatch, RunType
    <3> QED BY <3>1
  <2>7. CASE InlineTick(s) \/ Confirm(s) \/ Publish(s) \/ EndRun(s) \/ Interrupt(s)
    <3>1. run'[s] \in {run[s], NoRun}
      BY <1>1, <2>7 DEF InlineTick, Confirm, Publish, EndRun, Interrupt, Leave
    <3> QED BY <2>1, <3>1
  <2>8. CASE StartRun(s) \/ Resynchronize(s) \/ MarkRun(s) \/ SwitchTarget(s)
    <3>1. run' = run
      BY <2>8 DEF StartRun, Resynchronize, MarkRun, SwitchTarget
    <3> QED BY <2>1, <3>1
  <2> HIDE DEF Good
  <2>9. CASE ScriptStep(s)
    BY <2>3, <2>4, <2>5, <2>6, <2>7, <2>8, <2>9 DEF ScriptStep
  <2>10. CASE \E r \in Runs \ {s} : ScriptStep(r)
    BY <2>2, <2>10, OtherRuns
  <2>11. CASE PollFragment \/ CallerStep \/ CloseSession \/ Tick \/ UNCHANGED vars
    BY <2>2, <2>11 DEF PollFragment, CallerStep, FetchEpoch, SubmitRequest, PeekReply, TakeReply,
                       CloseSession, Tick, vars, scriptVars
  <2> QED BY <2>9, <2>10, <2>11 DEF Next
<1>4. run'[s].epoch <= epochs' /\ run'[s].claimEpoch <= epochs'
  BY <1>1, <1>2, <1>3
<1>5. ASSUME pc'[s] \in Claiming PROVE run'[s].claimEpoch # None
  <2>1. CASE \E r \in Runs : Claims(r)
    <3>1. PICK r \in Runs : Claims(r)
      BY <2>1
    <3>2. run[r].epoch # None
      BY <3>1 DEF Claims, Claimed, WellFormed
    <3> QED BY <1>1, <1>5, <3>1, <3>2, ClaimsLocals
  <2>2. CASE \A r \in Runs : ~Claims(r)
    BY <1>1, <1>5, <2>2, ServingKinds DEF Keeps, Idles
  <2> QED BY <2>1, <2>2
<1> QED BY <1>4, <1>5

(* Every step uses only epochs that were handed out. *)
LEMMA EpochInvStep ==
  ASSUME TypeOK, WellFormed(mb), EpochInv, CallerInv, ClaimInv, [Next]_vars
  PROVE  EpochInv'
<1>1. epochs \in Nat /\ epochs' \in Nat /\ epochs <= epochs'
  BY EpochsGrow
<1>2. mb'.target_epoch <= epochs' /\ mb'.request_epoch <= epochs'
  <2>1. /\ mb.target_epoch \in Nat /\ mb.request_epoch \in Nat
        /\ mb.target_epoch <= epochs /\ mb.request_epoch <= epochs
    BY DEF TypeOK, MailboxType, EpochInv
  <2>2. /\ mb'.target_epoch \in {mb.target_epoch, None} \cup 0..epochs'
        /\ mb'.request_epoch \in {mb.request_epoch, mb.target_epoch, None}
    <3>1. CASE Settles
      BY <3>1 DEF Settles, Harmless, Synchronized, Quiet
    <3>2. CASE Accepts \/ Collects \/ Closes
      BY <3>2 DEF Accepts, Submitted, Collects, Taken, Closes, Closed
    <3>3. CASE \E r \in Runs : Claims(r) \/ Answers(r)
      BY <3>3 DEF Claims, Claimed, Answers, Publishes, Completed
    <3> QED BY <3>1, <3>2, <3>3, StepKinds
  <2> QED BY <1>1, <2>1, <2>2
<1>3. tracker'.initialized =>
        tracker'.epoch \in 1..epochs' /\ targetOf'[tracker'.epoch] = tracker'.target
  <2>1. CASE \E r \in Runs : Gate(r)
    <3>1. PICK r \in Runs : Gate(r)
      BY <2>1
    <3>2. CASE UNCHANGED <<tracker, epochs, targetOf>>
      BY <3>2 DEF EpochInv
    <3>3. ASSUME NEW e \in Epochs, Passes(r, e)
          PROVE  tracker'.epoch \in 1..epochs' /\ targetOf'[tracker'.epoch] = tracker'.target
      <4>1. tracker'.epoch = e /\ tracker'.target = run[r].args
        BY <3>3 DEF Passes
      <4>2. targetOf'[e] = run[r].args
        BY <3>3 DEF Passes, TypeOK
      <4>3. e \in 1..epochs'
        BY <1>1, <3>3 DEF Passes, SameTarget, EpochInv, Epochs
      <4> QED BY <4>1, <4>2, <4>3
    <3> QED BY <3>1, <3>2, <3>3, GateLemma DEF Gate
  <2>2. CASE CloseSession
    BY <2>2 DEF CloseSession
  <2>3. CASE UNCHANGED <<tracker, epochs, targetOf>>
    BY <2>3 DEF EpochInv
  <2> QED BY <2>1, <2>2, <2>3, OnlyGate
<1> QED BY <1>2, <1>3, RunEpochs DEF EpochInv

(* With serialized runs at most one run is under way.                      *)
Serial(p) == \A r, s \in Runs : p[r] # "off" /\ p[s] # "off" => r = s

(* With fastReruns off no step starts a second run. *)
LEMMA SerialStep ==
  ASSUME TypeOK, ServiceInv, [Next]_vars, ~FastReruns
  PROVE  Serial(pc')
<1>1. Serial(pc) /\ pc \in [Runs -> PcLabels]
  BY DEF ServiceInv, TypeOK, Serial
<1>2. ASSUME NEW r \in Runs, StartRun(r) PROVE Serial(pc')
  BY <1>1, <1>2 DEF StartRun, ScriptFree, Goto, Serial
<1>3. ASSUME NEW r \in Runs, ScriptStep(r), ~StartRun(r) PROVE pc[r] # "off"
  BY <1>3 DEF ScriptStep, BeginRun, Gate, Resynchronize, MarkRun, InlineTick,
              SwitchTarget, ReachServicePoint, Claim, Confirm, Dispatch, ReturnFromBridge,
              Publish, EndRun, Interrupt
<1>4. ASSUME NEW r \in Runs, ScriptStep(r), ~StartRun(r) PROVE Serial(pc')
  BY <1>1, <1>3, <1>4, OtherRuns DEF Serial
<1>5. CASE UNCHANGED pc
  BY <1>1, <1>5
<1> QED
  BY <1>2, <1>4, <1>5 DEF Next, PollFragment, CallerStep, FetchEpoch, SubmitRequest,
                          PeekReply, TakeReply, CloseSession, Tick, vars, scriptVars

(* What ServiceInv says of one run. *)
OnTarget(l, label, target, t) ==
  /\ label = "serve_gate" => l.args = target
  /\ label \in {"claim_sync", "claim"} /\ l.epoch # None => t[l.epoch] = target
  /\ label \in {"copy", "dispatch"} => t[l.claimEpoch] = target

(* With fastReruns off the service point works on its epoch's Project. *)
LEMMA ServiceInvStep ==
  ASSUME TypeOK, WellFormed(mb), EpochInv, CallerInv, ClaimInv, ServiceInv, [Next]_vars
  PROVE  ServiceInv'
<1> SUFFICES ASSUME ~FastReruns
             PROVE  /\ Serial(pc')
                    /\ \A r \in Runs : OnTarget(run'[r], pc'[r], session', targetOf')
  BY DEF ServiceInv, Serial, OnTarget
<1>1. /\ run \in [Runs -> RunType] /\ pc \in [Runs -> PcLabels] /\ Serial(pc)
      /\ targetOf \in [Epochs -> Targets]
      /\ \A r \in Runs : OnTarget(run[r], pc[r], session, targetOf)
  BY DEF TypeOK, ServiceInv, Serial, OnTarget
<1>2. /\ \A r \in Runs : run[r].epoch \in 0..epochs /\ run[r].claimEpoch \in 0..epochs
      /\ \A r \in Runs : pc[r] \in {"copy", "dispatch"} => run[r].claimEpoch # None
      /\ \A e \in 1..epochs : targetOf'[e] = targetOf[e]
  BY EpochsGrow DEF TypeOK, RunType, EpochInv, Claiming
(* A run that is not touched, while the session keeps its target.          *)
<1>3. ASSUME NEW s \in Runs, pc'[s] = pc[s], run'[s] = run[s], UNCHANGED session
      PROVE  OnTarget(run'[s], pc'[s], session', targetOf')
  BY <1>1, <1>2, <1>3 DEF OnTarget
<1>4. ASSUME NEW r \in Runs, ScriptStep(r), UNCHANGED session
      PROVE  OnTarget(run'[r], pc'[r], session', targetOf')
  <2> USE DEF Goto, Leave
  <2>1. CASE pc'[r] \notin {"serve_gate", "claim_sync", "claim", "copy", "dispatch"}
    BY <2>1 DEF OnTarget
  <2>2. CASE ReachServicePoint(r)
    BY <1>1, <1>4, <2>2 DEF ReachServicePoint, OnTarget, RunType
  <2>3. CASE Gate(r) /\ pc[r] = "serve_gate"
    <3>1. pc'[r] = "claim_sync" /\ run[r].args = session
      BY <1>1, <2>3 DEF Gate, OnTarget
    <3>2. CASE run' = [run EXCEPT ![r].args = None, ![r].epoch = None]
      BY <1>1, <3>1, <3>2 DEF OnTarget, RunType
    <3>3. ASSUME NEW e \in Epochs, Passes(r, e)
          PROVE  OnTarget(run'[r], pc'[r], session', targetOf')
      <4>1. run'[r].epoch = e /\ targetOf'[e] = session'
        BY <1>1, <1>4, <3>1, <3>3 DEF Passes, RunType
      <4> QED BY <3>1, <4>1 DEF OnTarget
    <3> QED BY <2>3, <3>2, <3>3, GateLemma DEF Gate
  <2>4. CASE Resynchronize(r)
    BY <1>1, <1>4, <2>4 DEF Resynchronize, OnTarget
  <2>5. CASE Claim(r) /\ Claimable(mb, run[r].epoch, clock)
    <3>1. Claims(r)
      BY <2>5, ClaimsLemma
    <3>2. run[r].epoch # None
      BY <3>1 DEF Claims, Claimed, WellFormed
    <3>3. targetOf[run[r].epoch] = session
      BY <1>1, <3>1, <3>2, ClaimsLocals DEF OnTarget
    <3> QED BY <1>4, <3>1, <3>3, ClaimsLocals DEF OnTarget
  <2>6. CASE Confirm(r)
    BY <1>1, <1>4, <2>6 DEF Confirm, OnTarget
  <2>7. CASE \/ StartRun(r) \/ BeginRun(r) \/ MarkRun(r) \/ InlineTick(r) \/ SwitchTarget(r)
             \/ Dispatch(r) \/ ReturnFromBridge(r) \/ Publish(r) \/ EndRun(r) \/ Interrupt(r)
             \/ (Gate(r) /\ pc[r] # "serve_gate")
             \/ (Claim(r) /\ ~Claimable(mb, run[r].epoch, clock))
    <3>1. pc'[r] \notin {"serve_gate", "claim_sync", "claim", "copy", "dispatch"}
      BY <1>1, <2>7
         DEF StartRun, BeginRun, MarkRun, InlineTick, SwitchTarget, Dispatch, ReturnFromBridge,
             Publish, EndRun, Interrupt, Gate, Claim
    <3> QED BY <2>1, <3>1
  <2> QED BY <1>4, <2>2, <2>3, <2>4, <2>5, <2>6, <2>7 DEF ScriptStep
(* Only SwitchTarget changes the session's target, and no other run is     *)
(* under way then.                                                         *)
<1>5. ASSUME NEW r \in Runs, SwitchTarget(r), NEW s \in Runs
      PROVE  OnTarget(run'[s], pc'[s], session', targetOf')
  <2>1. pc[s] \in {"body", "tail", "off"} /\ pc' = pc
    BY <1>1, <1>5 DEF SwitchTarget, Serial
  <2> QED BY <2>1 DEF OnTarget
<1>6. ASSUME NEW r \in Runs, ScriptStep(r), ~SwitchTarget(r) PROVE UNCHANGED session
  BY <1>6 DEF ScriptStep, StartRun, BeginRun, Gate, Resynchronize, MarkRun, InlineTick,
              ReachServicePoint, Claim, Confirm, Dispatch, ReturnFromBridge,
              Publish, EndRun, Interrupt
<1>7. ASSUME NEW r \in Runs, ScriptStep(r), NEW s \in Runs
      PROVE  OnTarget(run'[s], pc'[s], session', targetOf')
  BY <1>3, <1>4, <1>5, <1>6, <1>7, OtherRuns
<1>8. CASE PollFragment \/ CallerStep \/ CloseSession \/ Tick \/ UNCHANGED vars
  <2>1. UNCHANGED <<pc, run, session>>
    BY <1>8 DEF PollFragment, CallerStep, FetchEpoch, SubmitRequest, PeekReply, TakeReply,
                CloseSession, Tick, vars, scriptVars
  <2> QED BY <1>3, <2>1, SerialStep
<1> QED BY <1>7, <1>8, SerialStep DEF Next

(* Given to the bridge, or answered by it: what the reply is about.        *)
LEMMA ContentInvStep ==
  ASSUME TypeOK, WellFormed(mb), EpochInv, CallerInv, SlotInv, ClaimInv, ServiceInv,
         ContentInv, [Next]_vars
  PROVE  ContentInv'
<1>1. /\ run \in [Runs -> RunType] /\ pc \in [Runs -> PcLabels]
      /\ \A r \in Runs : run[r].claimEpoch \in 0..epochs
      /\ \A r \in Runs : pc[r] \in Claiming => run[r].claimEpoch # None
      /\ mb.request_epoch \in 0..epochs
  BY DEF TypeOK, RunType, MailboxType, EpochInv
<1>2. \A e \in 1..epochs : targetOf'[e] = targetOf[e]
  BY EpochsGrow
<1>3. ASSUME NEW s \in Runs, pc'[s] \in Claiming \ {"copy", "dispatch"}
      PROVE  run'[s].reply.content \in {None, targetOf'[run'[s].claimEpoch]}
  <2>1. CASE Dispatch(s)
    <3>1. PICK reply \in {NoReply, [request |-> run[s].request, content |-> Captured(s)]} :
            run' = [run EXCEPT ![s].reply = reply]
      BY <2>1 DEF Dispatch
    <3>2. run'[s].reply = reply /\ run'[s].claimEpoch = run[s].claimEpoch
      BY <1>1, <3>1 DEF RunType
    <3>3. pc[s] = "dispatch" /\ UNCHANGED targetOf
      BY <2>1 DEF Dispatch
    <3>4. Captured(s) \in {None, targetOf[run[s].claimEpoch]}
      BY <3>3, PumpAssumption DEF Captured, ServiceInv
    <3> QED BY <3>1, <3>2, <3>3, <3>4 DEF NoReply
  <2>2. CASE ~Dispatch(s)
    <3>1. pc[s] \in Claiming \ {"copy", "dispatch"}
          /\ run'[s].reply = run[s].reply /\ run'[s].claimEpoch = run[s].claimEpoch
      <4>1. CASE pc'[s] = pc[s] /\ run'[s] = run[s]
        BY <1>3, <4>1
      <4>2. CASE ScriptStep(s)
        <5> USE DEF Goto, Leave
        <5>1. CASE Gate(s)
          <6>1. PICK e : run' = [run EXCEPT ![s].args = None, ![s].epoch = e]
            BY <5>1, GateLemma DEF Gate, Passes
          <6>2. run'[s].reply = run[s].reply /\ run'[s].claimEpoch = run[s].claimEpoch
            BY <1>1, <6>1 DEF RunType
          <6> QED BY <1>1, <1>3, <5>1, <6>2 DEF Gate, Claiming
        <5>2. CASE Resynchronize(s)
          BY <1>1, <1>3, <5>2 DEF Resynchronize, Claiming
        <5>3. CASE ReturnFromBridge(s)
          BY <1>1, <1>3, <5>3 DEF ReturnFromBridge, RunType, Claiming
        <5>4. CASE SwitchTarget(s)
          BY <1>1, <1>3, <5>4 DEF SwitchTarget, Claiming
        <5>5. CASE \/ StartRun(s) \/ BeginRun(s) \/ MarkRun(s) \/ InlineTick(s)
                   \/ ReachServicePoint(s) \/ Claim(s) \/ Confirm(s) \/ Publish(s)
                   \/ EndRun(s) \/ Interrupt(s)
          BY <1>1, <1>3, <5>5
             DEF StartRun, BeginRun, MarkRun, InlineTick, ReachServicePoint, Claim, Confirm,
                 Publish, EndRun, Interrupt, Claiming
        <5> QED BY <2>2, <4>2, <5>1, <5>2, <5>3, <5>4, <5>5 DEF ScriptStep
      <4>3. CASE \E r \in Runs \ {s} : ScriptStep(r)
        BY <4>1, <4>3, OtherRuns
      <4>4. CASE PollFragment \/ CallerStep \/ CloseSession \/ Tick \/ UNCHANGED vars
        BY <4>1, <4>4 DEF PollFragment, CallerStep, FetchEpoch, SubmitRequest, PeekReply,
                          TakeReply, CloseSession, Tick, vars, scriptVars
      <4> QED BY <4>2, <4>3, <4>4 DEF Next
    <3>2. run[s].reply.content \in {None, targetOf[run[s].claimEpoch]}
      BY <3>1 DEF ContentInv
    <3>3. run[s].claimEpoch \in 1..epochs
      BY <1>1, <3>1
    <3> QED BY <1>2, <3>1, <3>2, <3>3
  <2> QED BY <2>1, <2>2
<1>4. ASSUME mb'.state = "reply_ready", mb'.reply_status = "completed"
      PROVE  /\ mb'.reply.request = slot'
             /\ mb'.reply.content \in {None, targetOf'[mb'.request_epoch]}
  <2>1. CASE Settles
    <3>1. /\ mb.state = "reply_ready" /\ mb.reply_status = "completed"
          /\ mb'.reply = mb.reply /\ mb'.request_epoch = mb.request_epoch /\ slot' = slot
      BY <1>4, <2>1, SettlesIsQuiet DEF Quiet
    <3>2. mb.request_epoch \in 1..epochs
      BY <1>1, <3>1 DEF WellFormed
    <3> QED BY <1>2, <3>1, <3>2 DEF ContentInv
  <2>2. ASSUME NEW r \in Runs, Answers(r)
        PROVE  /\ mb'.reply.request = slot'
               /\ mb'.reply.content \in {None, targetOf'[mb'.request_epoch]}
    <3>1. /\ mb.state = "executing" /\ mb.claim_id = run[r].claim
          /\ mb'.reply = run[r].reply /\ mb'.request_epoch = mb.request_epoch
          /\ run[r].reply # NoReply /\ pc[r] = "complete" /\ slot' = slot
          /\ UNCHANGED targetOf
      BY <2>2 DEF Answers, Publishes, Completed, Publish
    <3>2. run[r].request = mb.request /\ run[r].claimEpoch = mb.request_epoch
          /\ run[r].reply.request = run[r].request
      BY <3>1 DEF ClaimInv, Claiming
    <3>3. mb.request = slot
      BY <3>1 DEF SlotInv
    <3>4. run[r].reply.content \in {None, targetOf[run[r].claimEpoch]}
      BY <3>1 DEF ContentInv, Claiming
    <3> QED BY <3>1, <3>2, <3>3, <3>4
  <2>3. CASE Accepts \/ Collects \/ Closes \/ \E r \in Runs : Claims(r)
    BY <1>4, <2>3 DEF Accepts, Submitted, Collects, Taken, Closes, Closed, Claims, Claimed
  <2> QED BY <2>1, <2>2, <2>3, StepKinds
<1> QED BY <1>3, <1>4 DEF ContentInv

-----------------------------------------------------------------------------
(* The inductive invariant and the theorems. *)

(* The inductive invariant holds initially. *)
LEMMA IInvInit == Init => IInv
<1> SUFFICES ASSUME Init PROVE IInv
  OBVIOUS
<1>1. TypeOK /\ WellFormed(mb)
  BY TypeInit
<1>2. SlotInv
  <2>1. slot = None /\ slot <= requests /\ mb.state = "idle" /\ mb.closed = FALSE /\ closed = FALSE
    BY DEF Init, InitMailbox
  <2> QED BY <2>1 DEF SlotInv, Unclaimed
<1>3. CallerInv
  BY DEF Init, NoCall, CallerInv
<1>4. ClaimInv
  BY DEF Init, InitMailbox, NoRun, ClaimInv, Claiming
<1>5. DispatchInv
  BY DEF Init, InitMailbox, DispatchInv, Unclaimed, Claiming
<1>6. EpochInv
  BY DEF Init, InitMailbox, NoRun, EpochInv, Claiming
<1>7. ServiceInv
  BY DEF Init, ServiceInv
<1>8. ContentInv
  BY DEF Init, InitMailbox, ContentInv, Claiming
<1> QED BY <1>1, <1>2, <1>3, <1>4, <1>5, <1>6, <1>7, <1>8 DEF IInv

(* Every step keeps the inductive invariant. *)
LEMMA IInvStep == IInv /\ [Next]_vars => IInv'
<1> SUFFICES ASSUME IInv, [Next]_vars PROVE IInv'
  OBVIOUS
<1>1. /\ TypeOK /\ WellFormed(mb) /\ SlotInv /\ CallerInv /\ ClaimInv /\ DispatchInv
      /\ EpochInv /\ ServiceInv /\ ContentInv
  BY DEF IInv
<1>2. TypeOK' /\ WellFormed(mb')
  BY <1>1, TypeStep, MailboxStep DEF IsMailbox
<1>3. SlotInv' /\ CallerInv'
  BY <1>1, SlotStep, CallerInvStep
<1>4. ClaimInv' /\ DispatchInv'
  BY <1>1, ClaimInvStep, DispatchInvStep
<1>5. EpochInv' /\ ServiceInv' /\ ContentInv'
  BY <1>1, EpochInvStep, ServiceInvStep, ContentInvStep
<1> QED BY <1>2, <1>3, <1>4, <1>5 DEF IInv

(* The inductive invariant holds in every reachable state of the pump. *)
THEOREM Inductive == Spec => []IInv
BY IInvInit, IInvStep, PTL DEF Spec

(* Every variable of the pump keeps its type, and the wake backoff its     *)
(* bound, whatever runs, calls and releases interleave.                    *)
THEOREM TypeCorrect == Spec => []TypeOK
<1>1. IInv => TypeOK BY DEF IInv
<1> QED BY <1>1, Inductive, PTL

(* A completed reply in the mailbox answers the request that occupies it,  *)
(* for the current target, from the Project that target stands for.        *)
THEOREM ReplyCurrency == Spec => []RepliesAreCurrent
<1>1. IInv => RepliesAreCurrent
  BY DEF IInv, WellFormed, ContentInv, RepliesAreCurrent
<1> QED BY <1>1, Inductive, PTL

(* No accepted request reaches the bridge twice.                           *)
THEOREM AtMostOnce == Spec => []DispatchedAtMostOnce
<1>1. IInv => DispatchedAtMostOnce
  BY DEF IInv, DispatchInv, DispatchedAtMostOnce
<1> QED BY <1>1, Inductive, PTL

(* Work is given to the bridge before its deadline and for the target it   *)
(* was submitted for, in every step.                                       *)
THEOREM TimelyDispatch == Spec => DispatchIsTimely
<1> DEFINE Timely ==
      \A r \in Runs : pc[r] = "copy" /\ pc'[r] = "dispatch" =>
        /\ clock < mb.deadline
        /\ mb.request_epoch = mb.target_epoch
        /\ ~FastReruns => targetOf[mb.request_epoch] = session
<1>1. ASSUME IInv, [Next]_vars PROVE Timely
  <2>1. SUFFICES ASSUME NEW r \in Runs, pc[r] = "copy", pc'[r] = "dispatch"
                 PROVE  /\ clock < mb.deadline
                        /\ mb.request_epoch = mb.target_epoch
                        /\ ~FastReruns => targetOf[mb.request_epoch] = session
    OBVIOUS
  <2>2. TypeOK /\ WellFormed(mb) /\ ServiceInv
    BY <1>1 DEF IInv
  <2>3. Confirm(r)
    <3>1. CASE \E s \in Runs \ {r} : ScriptStep(s)
      BY <2>1, <2>2, <3>1, OtherRuns
    <3>2. CASE ScriptStep(r)
      BY <2>1, <2>2, <3>2
         DEF ScriptStep, StartRun, BeginRun, Gate, Resynchronize, MarkRun, InlineTick,
             SwitchTarget, ReachServicePoint, Claim, Dispatch, ReturnFromBridge,
             Publish, EndRun, Interrupt, Leave, Goto, TypeOK
    <3>3. CASE PollFragment \/ CallerStep \/ CloseSession \/ Tick \/ UNCHANGED vars
      BY <2>1, <3>3 DEF PollFragment, CallerStep, FetchEpoch, SubmitRequest, PeekReply,
                        TakeReply, CloseSession, Tick, vars, scriptVars
    <3> QED BY <1>1, <3>1, <3>2, <3>3 DEF Next
  <2>4. ClaimConfirmed(mb, run[r].claimEpoch, run[r].claim, clock)
    BY <2>1, <2>2, <2>3 DEF Confirm, Leave, Goto, TypeOK
  <2>5. mb.deadline # None /\ mb.deadline \in Nat /\ clock \in Nat
    BY <2>2, <2>4 DEF ClaimConfirmed, Holds, WellFormed, TypeOK, MailboxType
  <2> QED BY <2>1, <2>2, <2>4, <2>5 DEF ClaimConfirmed, IsExpired, ServiceInv
<1>2. IInv /\ [Next]_vars => [Timely]_vars
  BY <1>1
<1> QED BY <1>2, Inductive, PTL DEF Spec, DispatchIsTimely

-----------------------------------------------------------------------------
(* What a call gets. *)

(* A mailbox's outcome is replaced, taken or released only together with a *)
(* new reply generation.                                                   *)
SameOutcome(m, n) ==
  /\ m.reply_generation <= n.reply_generation
  /\ m.reply_generation = n.reply_generation /\ m.state = "reply_ready" =>
       n.state = "reply_ready" /\ n.reply_status = m.reply_status

(* The reply generation a reader saw names the outcome it saw: while the   *)
(* mailbox still has that generation, it still holds that outcome.         *)
ReaderInv ==
  gateway.state = "copying" =>
    /\ gateway.generation <= mb.reply_generation
    /\ gateway.generation = mb.reply_generation =>
         mb.state = "reply_ready" /\ mb.reply_status = gateway.status

(* Nothing happening keeps the outcome. *)
LEMMA SameOutcomeRefl == ASSUME NEW m \in MailboxType PROVE SameOutcome(m, m)
BY DEF SameOutcome, MailboxType

(* What ends in a refusal, a completion or nothing has a new generation. *)
LEMMA NewOutcomes ==
  ASSUME NEW m \in MailboxType
  PROVE  /\ \A status : SameOutcome(m, SetTerminal(m, status))
         /\ \A reply, review : SameOutcome(m, SetCompleted(m, reply, review))
         /\ SameOutcome(m, ClearOutcome(m))
         /\ SameOutcome(m, Close(m))
<1>1. m.reply_generation \in Nat
  BY DEF MailboxType
<1>2. ASSUME NEW status PROVE SameOutcome(m, SetTerminal(m, status))
  <2>1. SetTerminal(m, status).reply_generation = m.reply_generation + 1
    BY DEF SetTerminal, ClearRequestPayload, MailboxType
  <2> QED BY <1>1, <2>1 DEF SameOutcome
<1>3. ASSUME NEW reply, NEW review PROVE SameOutcome(m, SetCompleted(m, reply, review))
  <2>1. SetCompleted(m, reply, review).reply_generation = m.reply_generation + 1
    BY DEF SetCompleted, ClearRequestPayload, MailboxType
  <2> QED BY <1>1, <2>1 DEF SameOutcome
<1>4. SameOutcome(m, ClearOutcome(m))
  <2>1. ClearOutcome(m).reply_generation = m.reply_generation + 1
    BY DEF ClearOutcome, MailboxType
  <2> QED BY <1>1, <2>1 DEF SameOutcome
<1>5. SameOutcome(m, Close(m))
  <2>1. Close(m).reply_generation = m.reply_generation + 1
    BY DEF Close, MailboxType
  <2> QED BY <1>1, <2>1 DEF SameOutcome
<1> QED BY <1>2, <1>3, <1>4, <1>5

(* A change of the target refuses a completed reply and keeps a refusal. *)
LEMMA SynchronizeOutcome ==
  ASSUME NEW m \in MailboxType, NEW epoch \in Nat
  PROVE  SameOutcome(m, SynchronizeTargetEpoch(m, epoch))
<1> DEFINE n == [m EXCEPT !.target_epoch = epoch]
<1>1. /\ n \in MailboxType /\ n.reply_generation = m.reply_generation
      /\ n.state = m.state /\ n.reply_status = m.reply_status
  BY DEF MailboxType
<1>2. m.reply_generation \in Nat /\ SameOutcome(m, m)
  BY SameOutcomeRefl DEF MailboxType
<1>3. SynchronizeTargetEpoch(m, epoch) \in {m, InvalidateTarget(n)}
  BY DEF SynchronizeTargetEpoch
<1> HIDE DEF n
<1>4. \/ InvalidateTarget(n) \in {n, SetTerminal(n, "stale_target")}
      \/ n.state = "executing"
         /\ InvalidateTarget(n) = [n EXCEPT !.invalidated = TRUE]
  BY DEF InvalidateTarget
<1>5. CASE InvalidateTarget(n) = n
  BY <1>1, <1>2, <1>3, <1>5 DEF SameOutcome
<1>6. CASE InvalidateTarget(n) = SetTerminal(n, "stale_target")
  <2>1. SameOutcome(n, InvalidateTarget(n))
    BY <1>1, <1>6, NewOutcomes
  <2> QED BY <1>1, <1>2, <1>3, <2>1 DEF SameOutcome
<1>7. CASE n.state = "executing" /\ InvalidateTarget(n) = [n EXCEPT !.invalidated = TRUE]
  <2>1. InvalidateTarget(n).reply_generation = n.reply_generation
    BY <1>1, <1>7 DEF MailboxType
  <2> QED BY <1>1, <1>2, <1>3, <1>7, <2>1 DEF SameOutcome
<1> QED BY <1>4, <1>5, <1>6, <1>7

(* Runs and ticks move unclaimed requests or refuse them. *)
LEMMA RunOutcome ==
  ASSUME NEW m \in MailboxType, NEW now
  PROVE  SameOutcome(m, BeginFullAppRun(m, now)) /\ SameOutcome(m, FragmentTick(m, now))
<1>1. m.reply_generation \in Nat /\ SameOutcome(m, m)
  BY SameOutcomeRefl DEF MailboxType
<1>2. SameOutcome(m, BeginFullAppRun(m, now))
  <2> DEFINE marked == [m EXCEPT !.first_tick = TRUE]
             due == [marked EXCEPT !.state = "service_due", !.retry_at = None]
  <2>1. /\ marked \in MailboxType /\ marked.reply_generation = m.reply_generation
        /\ marked.state = m.state /\ marked.reply_status = m.reply_status
    BY DEF MailboxType
  <2>2. due.reply_generation = marked.reply_generation
    BY DEF MailboxType
  <2>3. SameOutcome(m, SetTerminal(marked, "expired"))
    BY <1>1, <2>1, NewOutcomes DEF SameOutcome
  <2>4. m.state \in {"pending", "wake_requested"} => SameOutcome(m, due)
    BY <1>1, <2>1, <2>2 DEF SameOutcome
  <2>5. SameOutcome(m, marked)
    BY <1>1, <2>1 DEF SameOutcome
  <2> QED BY <1>1, <2>3, <2>4, <2>5 DEF BeginFullAppRun
<1>3. SameOutcome(m, FragmentTick(m, now))
  <2>1. SameOutcome(m, [m EXCEPT !.first_tick = FALSE])
    BY <1>1 DEF SameOutcome, MailboxType
  <2>2. TickWakes(m, now) => SameOutcome(m, MarkWakeRequested(m, now))
    <3>1. MarkWakeRequested(m, now).reply_generation = m.reply_generation
      BY DEF MarkWakeRequested, MailboxType
    <3> QED BY <1>1, <3>1 DEF SameOutcome, TickWakes
  <2> QED BY <1>1, <2>1, <2>2, NewOutcomes DEF FragmentTick
<1> QED BY <1>2, <1>3

(* So do a submission, a claim and an answer. *)
LEMMA ServiceOutcome ==
  ASSUME NEW m \in MailboxType
  PROVE  /\ \A epoch, request, pairing, deadline :
              SubmitStatus(m, epoch) = "accepted" =>
                SameOutcome(m, Submit(m, epoch, request, pairing, deadline))
         /\ \A epoch, claim, now : SameOutcome(m, ClaimTake(m, epoch, claim, now))
         /\ \A epoch, claim, now : SameOutcome(m, ClaimCheck(m, epoch, claim, now))
         /\ \A claim, claimEpoch, reply, epoch, now :
              SameOutcome(m, Complete(m, claim, claimEpoch, reply, epoch, now))
<1>1. m.reply_generation \in Nat /\ SameOutcome(m, m)
  BY SameOutcomeRefl DEF MailboxType
<1>2. ASSUME NEW epoch, NEW request, NEW pairing, NEW deadline,
             SubmitStatus(m, epoch) = "accepted"
      PROVE  SameOutcome(m, Submit(m, epoch, request, pairing, deadline))
  <2>1. Submit(m, epoch, request, pairing, deadline).reply_generation = m.reply_generation + 1
    BY DEF Submit, MailboxType
  <2> QED BY <1>1, <2>1 DEF SameOutcome
<1>3. ASSUME NEW epoch, NEW claim, NEW now
      PROVE  SameOutcome(m, ClaimTake(m, epoch, claim, now))
  <2> DEFINE taken == [m EXCEPT !.state = "executing", !.claim_id = claim, !.retry_at = None]
  <2>1. taken.reply_generation = m.reply_generation
    BY DEF MailboxType
  <2>2. m.state \in Unclaimed => SameOutcome(m, taken)
    BY <1>1, <2>1 DEF SameOutcome, Unclaimed
  <2> HIDE DEF taken
  <2>3. \/ ClaimTake(m, epoch, claim, now) = m
        \/ \E status : ClaimTake(m, epoch, claim, now) = SetTerminal(m, status)
        \/ m.state \in Unclaimed /\ ClaimTake(m, epoch, claim, now) = taken
    BY DEF ClaimTake, taken
  <2> QED BY <1>1, <2>2, <2>3, NewOutcomes
<1>4. ASSUME NEW epoch, NEW claim, NEW now
      PROVE  SameOutcome(m, ClaimCheck(m, epoch, claim, now))
  BY <1>1, NewOutcomes DEF ClaimCheck
<1>5. ASSUME NEW claim, NEW claimEpoch, NEW reply, NEW epoch, NEW now
      PROVE  SameOutcome(m, Complete(m, claim, claimEpoch, reply, epoch, now))
  BY <1>1, NewOutcomes DEF Complete
<1> QED BY <1>2, <1>3, <1>4, <1>5

(* Every step keeps the mailbox's outcome or gives it a new generation. *)
LEMMA OutcomeStep ==
  ASSUME TypeOK, [Next]_vars
  PROVE  SameOutcome(mb, mb')
<1>1. mb \in MailboxType /\ SameOutcome(mb, mb)
  BY SameOutcomeRefl DEF TypeOK
<1>2. CASE UNCHANGED mb
  BY <1>1, <1>2
<1>3. ASSUME NEW r \in Runs, ScriptStep(r) PROVE SameOutcome(mb, mb')
  <2>1. run[r].epoch \in Nat
    BY DEF TypeOK, RunType
  <2>2. CASE Gate(r)
    <3>1. UNCHANGED mb \/ \E e \in Epochs : mb' = SynchronizeTargetEpoch(mb, e)
      BY <2>2, GateLemma DEF Gate, Passes
    <3>2. Epochs \subseteq Nat
      BY DEF Epochs
    <3> QED BY <1>1, <1>2, <3>1, <3>2, SynchronizeOutcome
  <2>3. CASE Resynchronize(r)
    BY <1>1, <2>1, <2>3, SynchronizeOutcome DEF Resynchronize
  <2>4. CASE MarkRun(r) \/ InlineTick(r)
    BY <1>1, <2>4, RunOutcome DEF MarkRun, InlineTick
  <2>5. CASE Claim(r) \/ Confirm(r) \/ Publish(r)
    BY <1>1, <2>5, ServiceOutcome DEF Claim, Confirm, Publish
  <2>6. CASE \/ StartRun(r) \/ BeginRun(r) \/ SwitchTarget(r) \/ ReachServicePoint(r)
             \/ Dispatch(r) \/ ReturnFromBridge(r) \/ EndRun(r) \/ Interrupt(r)
    BY <1>2, <2>6 DEF StartRun, BeginRun, SwitchTarget, ReachServicePoint, Dispatch,
                      ReturnFromBridge, EndRun, Interrupt
  <2> QED BY <1>3, <2>2, <2>3, <2>4, <2>5, <2>6 DEF ScriptStep
<1>4. CASE PollFragment
  BY <1>1, <1>4, RunOutcome DEF PollFragment
<1>5. CASE SubmitRequest
  BY <1>1, <1>5, ServiceOutcome DEF SubmitRequest
<1>6. CASE PeekReply
  BY <1>1, <1>6, NewOutcomes DEF PeekReply, Peek
<1>7. CASE TakeReply
  BY <1>1, <1>7, NewOutcomes DEF TakeReply, Take
<1>8. CASE CloseSession
  BY <1>1, <1>8, NewOutcomes DEF CloseSession
<1>9. CASE FetchEpoch \/ Tick \/ UNCHANGED vars
  BY <1>2, <1>9 DEF FetchEpoch, Tick, vars
<1> QED BY <1>3, <1>4, <1>5, <1>6, <1>7, <1>8, <1>9 DEF Next, CallerStep

(* Every step keeps what a reader may rely on. *)
LEMMA ReaderStep ==
  ASSUME TypeOK, TypeOK', ReaderInv, [Next]_vars
  PROVE  ReaderInv'
<1>1. SUFFICES ASSUME gateway'.state = "copying"
               PROVE  /\ gateway'.generation <= mb'.reply_generation
                      /\ gateway'.generation = mb'.reply_generation =>
                           mb'.state = "reply_ready" /\ mb'.reply_status = gateway'.status
  BY DEF ReaderInv
<1>2. /\ gateway \in GatewayType /\ gateway.generation \in Nat
      /\ mb.reply_generation \in Nat /\ mb'.reply_generation \in Nat
  BY DEF TypeOK, GatewayType, MailboxType
<1>3. CASE UNCHANGED gateway
  <2>1. SameOutcome(mb, mb')
    BY OutcomeStep
  <2> QED BY <1>1, <1>2, <1>3, <2>1 DEF SameOutcome, ReaderInv
<1>4. ASSUME NEW status PROVE AfterPoll(status).state # "copying"
  BY <1>2 DEF AfterPoll, NoCall, GatewayType
<1>5. CASE PeekReply
  <2>1. PeekStatus(mb, gateway.epoch) = "read"
    BY <1>1, <1>4, <1>5 DEF PeekReply
  <2>2. gateway' = [gateway EXCEPT !.state = "copying", !.generation = mb'.reply_generation,
                                   !.status = mb'.reply_status]
    BY <1>5, <2>1 DEF PeekReply
  <2>3. gateway'.generation = mb'.reply_generation /\ gateway'.status = mb'.reply_status
    BY <1>2, <2>2 DEF GatewayType
  <2>4. mb.state = "reply_ready"
    BY <2>1 DEF PeekStatus
  <2>5. SetTerminal(mb, "expired").state = "reply_ready"
    BY DEF SetTerminal, ClearRequestPayload, TypeOK, MailboxType
  <2>6. mb'.state = "reply_ready"
    BY <1>5, <2>4, <2>5 DEF PeekReply, Peek
  <2> QED BY <1>2, <2>3, <2>6
<1>6. CASE TakeReply
  BY <1>1, <1>4, <1>6 DEF TakeReply
<1>7. CASE FetchEpoch \/ SubmitRequest
  <2> DEFINE Fetched(e) == [NoCall EXCEPT !.state = "fetched", !.epoch = e]
             Waiting(q, d) ==
               [gateway EXCEPT !.state = "waiting", !.request = q, !.deadline = d]
  <2>1. /\ NoCall.state = "idle"
        /\ \A e : Fetched(e).state = "fetched"
        /\ \A q, d : Waiting(q, d).state = "waiting"
    BY <1>2 DEF NoCall, GatewayType
  <2>2. \/ gateway' = NoCall \/ gateway' = Fetched(mb.target_epoch)
        \/ gateway' = Waiting(requests + 1, clock + ResultWait)
    BY <1>7, Zenon DEF FetchEpoch, SubmitRequest
  <2> HIDE DEF Fetched, Waiting
  <2> QED BY <1>1, <2>1, <2>2
<1>8. ASSUME NEW r \in Runs, ScriptStep(r) PROVE UNCHANGED gateway
  BY <1>8 DEF ScriptStep, StartRun, BeginRun, Gate, Resynchronize, MarkRun, InlineTick,
              SwitchTarget, ReachServicePoint, Claim, Confirm, Dispatch, ReturnFromBridge,
              Publish, EndRun, Interrupt, callerVars
<1>9. CASE PollFragment \/ CloseSession \/ Tick \/ UNCHANGED vars
  BY <1>3, <1>9 DEF PollFragment, CloseSession, Tick, vars, callerVars
<1> QED BY <1>3, <1>5, <1>6, <1>7, <1>8, <1>9 DEF Next, CallerStep

(* A reader can rely on its generation in every reachable state. *)
THEOREM ReaderHolds == Spec => []ReaderInv
<1>1. Init => ReaderInv
  BY DEF Init, NoCall, ReaderInv
<1>2. IInv /\ ReaderInv /\ [Next]_vars => ReaderInv'
  BY IInvStep, ReaderStep DEF IInv
<1> QED BY <1>1, <1>2, Inductive, PTL DEF Spec

(* What a call gets as completed is the answer to its own request, for the *)
(* target it submitted to, and that target is still the mailbox's,         *)
(* whatever happens between the reply's unlocked copy and its taking.      *)
THEOREM DeliveriesAreCurrent == Spec => DeliveryIsCurrent
<1> DEFINE Current ==
      gateway.state = "copying" /\ gateway'.state = "idle"
      /\ TakeStatus(mb, gateway.epoch, gateway.generation, gateway.status) = "completed" =>
        /\ mb.state = "reply_ready" /\ mb.reply_status = "completed"
        /\ mb.reply.request = gateway.request
        /\ mb.target_epoch = gateway.epoch
        /\ slot' = None
<1>1. ASSUME IInv, ReaderInv, [Next]_vars PROVE Current
  <2>1. SUFFICES ASSUME gateway.state = "copying", gateway'.state = "idle",
                        TakeStatus(mb, gateway.epoch, gateway.generation, gateway.status)
                          = "completed"
                 PROVE  /\ mb.state = "reply_ready" /\ mb.reply_status = "completed"
                        /\ mb.reply.request = gateway.request
                        /\ mb.target_epoch = gateway.epoch
                        /\ slot' = None
    OBVIOUS
  <2>2. TypeOK /\ WellFormed(mb) /\ SlotInv /\ CallerInv /\ ContentInv
    BY <1>1 DEF IInv
  <2>3. /\ mb.state = "reply_ready" /\ mb.reply_generation = gateway.generation
        /\ ~mb.closed /\ gateway.epoch = mb.request_epoch
        /\ gateway.status = "completed" /\ mb.target_epoch = mb.request_epoch
    BY <2>1 DEF TakeStatus, TerminalStatuses
  <2>4. mb.reply_status = "completed"
    BY <1>1, <2>1, <2>3 DEF ReaderInv
  <2>5. mb.reply.request = slot /\ slot = gateway.request
    BY <2>1, <2>2, <2>3, <2>4 DEF ContentInv, CallerInv, SlotInv
  <2>6. gateway' # gateway
    BY <2>1
  <2>7. TakeReply
    <3>1. ASSUME NEW r \in Runs, ScriptStep(r) PROVE UNCHANGED gateway
      BY <3>1 DEF ScriptStep, StartRun, BeginRun, Gate, Resynchronize, MarkRun, InlineTick,
                  SwitchTarget, ReachServicePoint, Claim, Confirm, Dispatch,
                  ReturnFromBridge, Publish, EndRun, Interrupt, callerVars
    <3>2. CASE \/ PollFragment \/ CloseSession \/ Tick \/ UNCHANGED vars
      BY <2>6, <3>2 DEF PollFragment, CloseSession, Tick, vars, callerVars
    <3>3. CASE FetchEpoch \/ SubmitRequest \/ PeekReply
      BY <2>1, <3>3 DEF FetchEpoch, SubmitRequest, PeekReply
    <3> QED BY <1>1, <2>6, <3>1, <3>2, <3>3 DEF Next, CallerStep
  <2>8. slot' = None
    BY <2>3, <2>7 DEF TakeReply, Takes
  <2> QED BY <2>3, <2>4, <2>5, <2>8
<1>2. IInv /\ ReaderInv /\ [Next]_vars => [Current]_vars
  BY <1>1
<1> QED BY <1>2, Inductive, ReaderHolds, PTL DEF Spec, DeliveryIsCurrent

-----------------------------------------------------------------------------
(* The pump implements the abstract one-slot service. *)

(* A new session maps to a free slot. *)
LEMMA SlotInit == Init => Slot!Init
<1> SUFFICES ASSUME Init PROVE Slot!Init
  OBVIOUS
<1>1. mb.state = "idle" /\ mb.target_epoch = 0 /\ mb.invalidated = FALSE
  BY DEF Init, InitMailbox
<1>2. SlotPhase = "free"
  BY <1>1 DEF SlotPhase, Unclaimed
<1> QED BY <1>1, <1>2 DEF Init, Slot!Init

(* Every kind of step is a step of the service or leaves the slot alone.   *)
LEMMA SlotNext ==
  ASSUME IInv, [Next]_vars
  PROVE  Slot!Next \/ UNCHANGED Slot!vars
<1>1. /\ TypeOK /\ WellFormed(mb) /\ SlotInv /\ CallerInv /\ ClaimInv /\ EpochInv
      /\ mb.state \in MailboxStates /\ mb'.state \in MailboxStates
      /\ mb.invalidated \in BOOLEAN
  BY IInvStep DEF IInv, TypeOK, MailboxType
<1>2. CASE Harmless(mb, mb') /\ UNCHANGED <<slot, requests, closed>>
  <2>1. mb'.target_epoch = mb.target_epoch
    BY <1>2 DEF Harmless
  <2>2. CASE SlotPhase' = SlotPhase /\ mb'.invalidated = mb.invalidated
    BY <1>2, <2>1, <2>2 DEF Slot!vars
  <2>3. CASE /\ SlotPhase \in {"accepted", "started", "completed"}
             /\ SlotPhase' = "refused" /\ mb'.invalidated = FALSE
    BY <1>2, <2>1, <2>3 DEF Slot!Next, Slot!Refuse
  <2>4. CASE mb'.state = "reply_ready" /\ mb'.reply_status \in TerminalStatuses
             /\ mb'.invalidated = FALSE
    <3>1. SlotPhase' = "refused"
      BY <2>4 DEF SlotPhase, Unclaimed, TerminalStatuses
    <3>2. mb.state \notin {"idle", "closed"}
      BY <1>2, <2>4 DEF Harmless, Quiet
    <3>3. CASE mb.state = "reply_ready" /\ mb.reply_status # "completed"
      BY <1>1, <2>2, <2>4, <3>1, <3>3 DEF SlotPhase, Unclaimed, WellFormed
    <3>4. CASE ~(mb.state = "reply_ready" /\ mb.reply_status # "completed")
      BY <1>1, <2>3, <2>4, <3>1, <3>2, <3>4 DEF SlotPhase, Unclaimed, MailboxStates
    <3> QED BY <3>3, <3>4
  <2>5. CASE /\ mb'.state = mb.state \/ (mb'.state \in Unclaimed /\ mb.state \in Unclaimed)
             /\ mb'.reply_status = mb.reply_status /\ mb'.invalidated = mb.invalidated
    <3>1. SlotPhase' = SlotPhase
      BY <2>5 DEF SlotPhase, Unclaimed
    <3> QED BY <2>2, <2>5, <3>1
  <2> QED BY <1>2, <2>4, <2>5 DEF Harmless
<1>3. ASSUME NEW e, Synchronized(mb, mb', e), UNCHANGED <<slot, requests, closed>>
      PROVE  Slot!Next \/ UNCHANGED Slot!vars
  <2>1. CASE mb' = mb
    BY <1>3, <2>1 DEF Slot!vars, SlotPhase
  <2>2. CASE Retargets(mb, mb')
    <3>1. mb'.target_epoch # mb.target_epoch /\ SlotPhase # "closed"
      BY <2>2 DEF Retargets, SlotPhase, Unclaimed
    <3>2. SlotPhase' = IF SlotPhase \in {"accepted", "completed"} THEN "refused" ELSE SlotPhase
      BY <2>2 DEF Retargets, SlotPhase, Unclaimed
    <3>3. mb'.invalidated = (SlotPhase = "started")
      BY <2>2 DEF Retargets, SlotPhase, Unclaimed
    <3> QED BY <1>3, <3>1, <3>2, <3>3 DEF Slot!Next, Slot!Retarget
  <2> QED BY <1>3, <2>1, <2>2 DEF Synchronized
<1>4. CASE Accepts
  BY <1>4 DEF Accepts, Submitted, SlotPhase, Unclaimed, Slot!Next, Slot!Accept
<1>5. ASSUME NEW r \in Runs, Claims(r) PROVE Slot!Next
  BY <1>5 DEF Claims, Claimed, SlotPhase, Unclaimed, Slot!Next, Slot!Start
<1>6. ASSUME NEW r \in Runs, Answers(r) PROVE Slot!Next
  BY <1>6 DEF Answers, Publishes, Completed, SlotPhase, Unclaimed, Slot!Next, Slot!Complete
<1>7. CASE Collects
  BY <1>7 DEF Collects, Taken, SlotPhase, Unclaimed, Slot!Next, Slot!Collect
<1>8. CASE Closes
  <2>1. mb.state # "closed"
    BY <1>1, <1>8 DEF Closes, CloseSession, SlotInv, WellFormed
  <2> QED
    BY <1>1, <1>8, <2>1
       DEF Closes, Closed, SlotPhase, Unclaimed, MailboxStates, Slot!Next, Slot!Close
<1> QED BY <1>1, <1>2, <1>3, <1>4, <1>5, <1>6, <1>7, <1>8, StepKinds DEF Settles

(* Runs, fragment, caller and release together implement RequestSlot. *)
THEOREM Refinement == Spec => ImplementsRequestSlot
<1>1. IInv /\ [Next]_vars => [Slot!Next]_(Slot!vars)
  BY SlotNext
<1> QED BY <1>1, SlotInit, Inductive, PTL DEF Spec, Slot!Spec, ImplementsRequestSlot
=============================================================================
