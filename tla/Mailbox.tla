------------------------------ MODULE Mailbox ------------------------------
(***************************************************************************)
(* The capacity-one request/reply mailbox of one browser session           *)
(* (ui/project_agent_session_mailbox.py).  A mailbox is a record; every    *)
(* operator below is one critical section of the Python class, that is,    *)
(* everything one `with self._lock` block does.  A method that releases    *)
(* its lock in the middle is two operators, so that the modules using them *)
(* can let other threads run in between.                                   *)
(*                                                                         *)
(* Opaque identities (epochs, request ids, claim ids) are positive         *)
(* numbers and None is 0.  Times are seconds of the monotonic clock; a     *)
(* deadline is never 0, so None serves there too.                          *)
(***************************************************************************)
EXTENDS Naturals

CONSTANT MaxWakeRetry    \* MAX_WAKE_RETRY_SECONDS

ASSUME MaxWakeRetryAssumption == MaxWakeRetry \in 1..256

None == 0

Unclaimed == {"pending", "wake_requested", "service_due"}

MailboxStates == Unclaimed \cup {"idle", "executing", "reply_ready", "closed"}

TerminalStatuses ==
  {"stale_target", "expired", "internal_error", "review_cancelled", "session_closed"}

ReplyStatuses == TerminalStatuses \cup {"none", "completed"}

(* A detached bridge reply: the request it answers and its content, the    *)
(* Project target it was computed from or the proposal it acknowledges.    *)
NoReply == [request |-> None, content |-> None]

(* _reply_review_owner and _reply_review_identity, set and reset together  *)
(* with _reply_is_review_request.                                          *)
NoReview == [owner |-> "none", request |-> None, pairing |-> None,
             epoch |-> None, proposal |-> None]

InitMailbox ==
  [state |-> "idle", closed |-> FALSE, target_epoch |-> None,
   request |-> None, request_epoch |-> None, pairing |-> None,
   deadline |-> None, claim_id |-> None, invalidated |-> FALSE,
   reply_status |-> "none", reply |-> NoReply, review |-> NoReview,
   reply_generation |-> 0, first_tick |-> FALSE,
   wake_delay |-> 0, retry_at |-> None]

IsExpired(m, now) == m.deadline # None /\ now >= m.deadline

ClearRequestPayload(m) ==
  [m EXCEPT !.request = None, !.pairing = None, !.claim_id = None,
            !.invalidated = FALSE, !.wake_delay = 0, !.retry_at = None]

(* _set_terminal_locked: the outcome replaces request and reply; the       *)
(* request epoch and the deadline stay until the outcome is consumed.      *)
SetTerminal(m, status) ==
  [ClearRequestPayload(m) EXCEPT
     !.state = "reply_ready", !.reply_status = status, !.reply = NoReply,
     !.review = NoReview, !.reply_generation = m.reply_generation + 1]

SetCompleted(m, reply, review) ==
  [ClearRequestPayload(m) EXCEPT
     !.state = "reply_ready", !.reply_status = "completed", !.reply = reply,
     !.review = review, !.reply_generation = m.reply_generation + 1]

ClearOutcome(m) ==
  [m EXCEPT !.state = "idle", !.reply_status = "none", !.reply = NoReply,
            !.review = NoReview, !.request_epoch = None, !.deadline = None,
            !.claim_id = None, !.invalidated = FALSE,
            !.reply_generation = m.reply_generation + 1,
            !.wake_delay = 0, !.retry_at = None]

-----------------------------------------------------------------------------
(* submit *)

SubmitStatus(m, epoch) ==
  IF m.closed THEN "session_closed"
  ELSE IF epoch # m.target_epoch THEN "stale_target"
  ELSE IF m.state # "idle" THEN "busy"
  ELSE "accepted"

Submit(m, epoch, request, pairing, deadline) ==
  [m EXCEPT !.request = request, !.request_epoch = epoch, !.pairing = pairing,
            !.deadline = deadline, !.claim_id = None, !.invalidated = FALSE,
            !.reply = NoReply, !.reply_status = "none", !.review = NoReview,
            !.reply_generation = m.reply_generation + 1,
            !.wake_delay = 0, !.retry_at = None, !.state = "pending"]

-----------------------------------------------------------------------------
(* synchronize_target_epoch and _invalidate_target_locked *)

(* Faulty variant: an unconsumed completed reply survives the switch. *)
InvalidateKeepsReply(m) ==
  IF m.state = "executing" THEN [m EXCEPT !.invalidated = TRUE]
  ELSE IF m.state \in Unclaimed THEN SetTerminal(m, "stale_target") ELSE m

(* Faulty variant: a request already due for service survives the switch. *)
InvalidateKeepsDue(m) ==
  IF m.state = "executing" THEN [m EXCEPT !.invalidated = TRUE]
  ELSE IF m.state \in {"pending", "wake_requested", "reply_ready"}
       THEN SetTerminal(m, "stale_target") ELSE m

InvalidateTarget(m) ==
  IF m.state = "executing" THEN [m EXCEPT !.invalidated = TRUE]
  ELSE IF \/ m.state \in Unclaimed
          \/ m.state = "reply_ready" /\ m.reply_status = "completed"
       THEN SetTerminal(m, "stale_target")
       ELSE m

SynchronizeTargetEpoch(m, epoch) ==
  IF m.closed \/ epoch = None \/ epoch = m.target_epoch THEN m
  ELSE InvalidateTarget([m EXCEPT !.target_epoch = epoch])

-----------------------------------------------------------------------------
(* begin_full_app_run (after its synchronization) and fragment_tick *)

BeginFullAppRun(m, now) ==
  IF m.closed THEN m
  ELSE LET marked == [m EXCEPT !.first_tick = TRUE]
       IN  IF m.state \notin {"pending", "wake_requested"} THEN marked
           ELSE IF IsExpired(m, now) THEN SetTerminal(marked, "expired")
           ELSE [marked EXCEPT !.state = "service_due", !.retry_at = None]

(* The delay after the n-th wake, min(MAX_WAKE_RETRY_SECONDS,              *)
(* 1 * 2 ** min(n - 1, 8)), from the delay before it; wake_delay, 0 before *)
(* the first wake, stands for _wake_retry_count.                           *)
NextWakeDelay(delay) ==
  IF delay = 0 THEN 1
  ELSE IF 2 * delay < MaxWakeRetry THEN 2 * delay ELSE MaxWakeRetry

MarkWakeRequested(m, now) ==
  [m EXCEPT !.state = "wake_requested",
            !.wake_delay = NextWakeDelay(m.wake_delay),
            !.retry_at = now + NextWakeDelay(m.wake_delay)]

(* Faulty variant: only a request no tick has seen yet expires. *)
ExpiredPending(m, now) == m.state = "pending" /\ IsExpired(m, now)

ExpiredUnclaimed(m, now) == m.state \in Unclaimed /\ IsExpired(m, now)

(* Whether this tick asks for st.rerun(scope="app"). *)
TickWakes(m, now) ==
  /\ ~m.closed
  /\ ~ExpiredUnclaimed(m, now)
  /\ ~m.first_tick
  /\ \/ m.state \in {"pending", "service_due"}
     \/ m.state = "wake_requested" /\ m.retry_at # None /\ now >= m.retry_at

FragmentTick(m, now) ==
  IF m.closed THEN m
  ELSE IF ExpiredUnclaimed(m, now) THEN SetTerminal(m, "expired")
  ELSE IF m.first_tick THEN [m EXCEPT !.first_tick = FALSE]
  ELSE IF TickWakes(m, now) THEN MarkWakeRequested(m, now)
  ELSE m

-----------------------------------------------------------------------------
(* _claim_for_service: the first critical section takes the request, the   *)
(* second, after the unlocked copy, confirms the claim.                    *)

Claimable(m, epoch, now) ==
  /\ ~m.closed
  /\ m.state \in Unclaimed
  /\ ~IsExpired(m, now)
  /\ m.request_epoch = epoch
  /\ m.target_epoch = epoch

ClaimTake(m, epoch, claim, now) ==
  IF m.closed \/ m.state \notin Unclaimed THEN m
  ELSE IF IsExpired(m, now) THEN SetTerminal(m, "expired")
  ELSE IF m.request_epoch # epoch \/ m.target_epoch # epoch
       THEN SetTerminal(m, "stale_target")
  ELSE [m EXCEPT !.state = "executing", !.claim_id = claim, !.retry_at = None]

Holds(m, claim) == ~m.closed /\ m.state = "executing" /\ m.claim_id = claim

ClaimConfirmed(m, epoch, claim, now) ==
  /\ Holds(m, claim)
  /\ ~m.invalidated /\ m.target_epoch = epoch /\ m.request_epoch = epoch
  /\ ~IsExpired(m, now)

ClaimCheck(m, epoch, claim, now) ==
  IF ~Holds(m, claim) \/ ClaimConfirmed(m, epoch, claim, now) THEN m
  ELSE IF m.invalidated \/ m.target_epoch # epoch \/ m.request_epoch # epoch
       THEN SetTerminal(m, "stale_target")
  ELSE SetTerminal(m, "expired")

-----------------------------------------------------------------------------
(* complete (after its synchronization); reply = NoReply stands for a      *)
(* bridge result that is not a JSON object.                                *)

Complete(m, claim, claimEpoch, reply, epoch, now) ==
  IF ~Holds(m, claim) THEN m
  ELSE IF m.invalidated \/ claimEpoch # epoch \/ m.target_epoch # epoch
       THEN SetTerminal(m, "stale_target")
  ELSE IF IsExpired(m, now) THEN SetTerminal(m, "expired")
  ELSE IF reply = NoReply THEN SetTerminal(m, "internal_error")
  ELSE SetCompleted(m, reply, NoReview)

-----------------------------------------------------------------------------
(* consume_reply: the first critical section looks (and expires a late     *)
(* reply), the second, after the unlocked copy, takes the outcome.         *)

PeekStatus(m, epoch) ==
  IF m.closed THEN "session_closed"
  ELSE IF m.state # "reply_ready"
       THEN IF epoch # m.target_epoch THEN "stale_target"
            ELSE IF m.state = "idle" THEN "idle" ELSE "busy"
  ELSE IF epoch # m.request_epoch THEN "stale_target"
  ELSE "read"

Peek(m, epoch, now) ==
  IF PeekStatus(m, epoch) = "read" /\ IsExpired(m, now) /\ m.reply_status = "completed"
  THEN SetTerminal(m, "expired")
  ELSE m

(* Faulty variant: the generation is not compared after the copy. *)
TakeAnyGeneration(m, epoch, generation, status) ==
  IF m.closed THEN "session_closed"
  ELSE IF m.state # "reply_ready" THEN "busy"
  ELSE IF epoch # m.request_epoch THEN "stale_target"
  ELSE status

(* The outcome the second critical section returns for a reader that saw   *)
(* this generation and status.                                             *)
TakeStatus(m, epoch, generation, status) ==
  IF m.closed THEN "session_closed"
  ELSE IF m.state # "reply_ready" \/ m.reply_generation # generation
       THEN IF /\ m.state = "reply_ready"
               /\ m.reply_status \in TerminalStatuses \ {"session_closed"}
            THEN IF epoch # m.request_epoch THEN "stale_target" ELSE m.reply_status
            ELSE "busy"
  ELSE IF epoch # m.request_epoch THEN "stale_target"
  ELSE IF status = "completed" /\ m.target_epoch # m.request_epoch THEN "stale_target"
  ELSE status

(* Whether it hands the outcome out and frees the mailbox.  (The code      *)
(* first marks a stale completed outcome stale_target and then clears it   *)
(* under the same lock; only the clear is visible.)                        *)
Takes(m, epoch, generation) ==
  /\ ~m.closed
  /\ m.state = "reply_ready"
  /\ epoch = m.request_epoch
  /\ \/ m.reply_generation = generation
     \/ m.reply_status \in TerminalStatuses \ {"session_closed"}

Take(m, epoch, generation) ==
  IF Takes(m, epoch, generation) THEN ClearOutcome(m) ELSE m

-----------------------------------------------------------------------------
Close(m) ==
  [m EXCEPT !.closed = TRUE, !.state = "closed", !.target_epoch = None,
            !.request = None, !.request_epoch = None, !.pairing = None,
            !.deadline = None, !.claim_id = None, !.invalidated = FALSE,
            !.reply_status = "none", !.reply = NoReply, !.review = NoReview,
            !.reply_generation = m.reply_generation + 1,
            !.first_tick = FALSE, !.retry_at = None]

-----------------------------------------------------------------------------
(* What a mailbox looks like between two critical sections. *)

ReplyType == [request : Nat, content : Nat]

ReviewType == [owner : {"none", "swap", "generation"}, request : Nat, pairing : Nat,
               epoch : Nat, proposal : Nat]

MailboxType ==
  [state : MailboxStates, closed : BOOLEAN, target_epoch : Nat, request : Nat,
   request_epoch : Nat, pairing : Nat, deadline : Nat, claim_id : Nat,
   invalidated : BOOLEAN, reply_status : ReplyStatuses, reply : ReplyType,
   review : ReviewType, reply_generation : Nat, first_tick : BOOLEAN,
   wake_delay : 0..MaxWakeRetry, retry_at : Nat]

(* The fields agree with the state; unclaimed work and completed replies   *)
(* are always for the current target, executing work is or is marked.      *)
WellFormed(m) ==
  /\ m.closed <=> m.state = "closed"
  /\ m.state \in {"idle", "closed"} =>
       m.request_epoch = None /\ m.claim_id = None /\ ~m.invalidated
  /\ m.state = "closed" => m.target_epoch = None
  /\ m.state \in Unclaimed =>
       /\ m.request # None /\ m.claim_id = None /\ ~m.invalidated
       /\ m.deadline # None
       /\ m.request_epoch # None /\ m.request_epoch = m.target_epoch
  /\ m.state = "executing" =>
       /\ m.request # None /\ m.claim_id # None /\ m.deadline # None
       /\ m.request_epoch # None
       /\ m.invalidated \/ m.request_epoch = m.target_epoch
  /\ m.state = "reply_ready" =>
       /\ m.request_epoch # None /\ m.claim_id = None /\ ~m.invalidated
       /\ m.reply_status # "none"
       /\ m.reply_status = "completed" => m.request_epoch = m.target_epoch

(* From m to n nothing was accepted, claimed, completed, taken or closed:  *)
(* at most an outcome was refused or a claim marked.                       *)
Quiet(m, n) ==
  /\ n.closed = m.closed
  /\ n.request_epoch = m.request_epoch
  /\ n.state = "idle" <=> m.state = "idle"
  /\ n.state = "closed" <=> m.state = "closed"
  /\ n.state \in Unclaimed => m.state \in Unclaimed /\ n.request = m.request
  /\ n.state = "executing" =>
       m.state = "executing" /\ n.request = m.request /\ n.claim_id = m.claim_id
  /\ n.state = "reply_ready" /\ n.reply_status = "completed" =>
       m.state = "reply_ready" /\ m.reply_status = "completed" /\ n.reply = m.reply
=============================================================================
