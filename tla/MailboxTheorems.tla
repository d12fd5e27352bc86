-------------------------- MODULE MailboxTheorems --------------------------
(***************************************************************************)
(* What the mailbox operations preserve: each keeps a mailbox a            *)
(* well-formed mailbox, and all but the five that accept, claim, complete, *)
(* take and close are Quiet.                                               *)
(***************************************************************************)
EXTENDS Mailbox, TLAPS

(* A mailbox as it is between two critical sections. *)
IsMailbox(m) == m \in MailboxType /\ WellFormed(m)

USE DEF None

(* The constants the operations write are of their fields' types. *)
LEMMA Members ==
  /\ NoReply \in ReplyType /\ NoReview \in ReviewType
  /\ {"none", "completed"} \subseteq ReplyStatuses
  /\ TerminalStatuses \subseteq ReplyStatuses
  /\ {"idle", "pending", "wake_requested", "service_due", "executing", "reply_ready",
      "closed"} \subseteq MailboxStates
  /\ 0 \in 0..MaxWakeRetry
<1>1. NoReply \in ReplyType BY DEF NoReply, ReplyType
<1>2. NoReview \in ReviewType BY DEF NoReview, ReviewType
<1>3. 0 \in 0..MaxWakeRetry BY MaxWakeRetryAssumption
<1>4. {"none", "completed"} \subseteq ReplyStatuses /\ TerminalStatuses \subseteq ReplyStatuses
  BY DEF ReplyStatuses
<1>5. {"idle", "pending", "wake_requested", "service_due", "executing", "reply_ready",
       "closed"} \subseteq MailboxStates
  BY DEF MailboxStates, Unclaimed
<1> QED BY <1>1, <1>2, <1>3, <1>4, <1>5

(* The wake backoff never exceeds its cap. *)
LEMMA NextWakeDelayLemma ==
  ASSUME NEW d \in 0..MaxWakeRetry
  PROVE  NextWakeDelay(d) \in 1..MaxWakeRetry
BY MaxWakeRetryAssumption DEF NextWakeDelay

(* Nothing happening is quiet, and quiet steps compose. *)
LEMMA QuietRefl == ASSUME NEW m PROVE Quiet(m, m)
BY DEF Quiet

(* Quiet steps compose. *)
LEMMA QuietTrans ==
  ASSUME NEW m, NEW n, NEW k, Quiet(m, n), Quiet(n, k)
  PROVE  Quiet(m, k)
BY DEF Quiet

(* _set_terminal_locked refuses the request that occupies the mailbox.     *)
Refused(m, n, status) ==
  /\ IsMailbox(n) /\ Quiet(m, n)
  /\ n.state = "reply_ready" /\ n.reply_status = status
  /\ n.target_epoch = m.target_epoch
  /\ n.invalidated = FALSE /\ n.claim_id = None

(* _set_terminal_locked keeps a mailbox well-formed. *)
LEMMA SetTerminalLemma ==
  ASSUME NEW m, IsMailbox(m), NEW status \in TerminalStatuses,
         m.state \notin {"idle", "closed"}
  PROVE  Refused(m, SetTerminal(m, status), status)
<1>1. m.reply_generation + 1 \in Nat /\ status \in ReplyStatuses
  BY Members DEF IsMailbox, MailboxType
<1>2. SetTerminal(m, status) \in MailboxType
  BY <1>1, Members DEF IsMailbox, MailboxType, SetTerminal, ClearRequestPayload
<1>3. WellFormed(SetTerminal(m, status))
  BY DEF IsMailbox, MailboxType, WellFormed, SetTerminal, ClearRequestPayload,
         MailboxStates, Unclaimed, TerminalStatuses, ReplyStatuses
<1>4. Quiet(m, SetTerminal(m, status))
  BY DEF IsMailbox, MailboxType, Quiet, SetTerminal, ClearRequestPayload,
         MailboxStates, Unclaimed, TerminalStatuses, ReplyStatuses
<1>5. LET n == SetTerminal(m, status)
      IN  /\ n.state = "reply_ready" /\ n.reply_status = status
          /\ n.target_epoch = m.target_epoch
          /\ n.invalidated = FALSE /\ n.claim_id = None
  BY DEF IsMailbox, MailboxType, SetTerminal, ClearRequestPayload
<1> QED BY <1>2, <1>3, <1>4, <1>5 DEF IsMailbox, Refused

(* Publishing a reply for an executing request that was not invalidated.   *)
Completed(m, n, reply) ==
  /\ IsMailbox(n)
  /\ n.state = "reply_ready" /\ n.reply_status = "completed" /\ n.reply = reply
  /\ n.request_epoch = m.request_epoch /\ n.target_epoch = m.target_epoch
  /\ n.invalidated = FALSE /\ n.claim_id = None /\ n.closed = m.closed

(* The publication at the end of complete keeps a mailbox well-formed. *)
LEMMA SetCompletedLemma ==
  ASSUME NEW m, IsMailbox(m), NEW reply \in ReplyType, NEW review \in ReviewType,
         m.state = "executing", ~m.invalidated
  PROVE  Completed(m, SetCompleted(m, reply, review), reply)
<1>1. m.reply_generation + 1 \in Nat
  BY DEF IsMailbox, MailboxType
<1>2. SetCompleted(m, reply, review) \in MailboxType
  BY <1>1, Members DEF IsMailbox, MailboxType, SetCompleted, ClearRequestPayload
<1>3. WellFormed(SetCompleted(m, reply, review))
  BY DEF IsMailbox, MailboxType, WellFormed, SetCompleted, ClearRequestPayload,
         MailboxStates, Unclaimed, ReplyStatuses
<1>4. LET n == SetCompleted(m, reply, review)
      IN  /\ n.state = "reply_ready" /\ n.reply_status = "completed" /\ n.reply = reply
          /\ n.request_epoch = m.request_epoch /\ n.target_epoch = m.target_epoch
          /\ n.invalidated = FALSE /\ n.claim_id = None /\ n.closed = m.closed
  BY DEF IsMailbox, MailboxType, SetCompleted, ClearRequestPayload
<1> QED BY <1>2, <1>3, <1>4 DEF IsMailbox, Completed

(* An accepted submission. *)
Submitted(m, n, epoch, request) ==
  /\ m.state = "idle" /\ epoch = m.target_epoch /\ ~m.closed
  /\ IsMailbox(n)
  /\ n.state = "pending" /\ n.request = request /\ n.request_epoch = epoch
  /\ n.target_epoch = m.target_epoch /\ n.claim_id = None
  /\ n.invalidated = FALSE /\ n.closed = FALSE

(* submit keeps a mailbox well-formed and starts from a free one. *)
LEMMA SubmitLemma ==
  ASSUME NEW m, IsMailbox(m), NEW epoch \in Nat \ {0}, NEW request \in Nat \ {0},
         NEW pairing \in Nat, NEW deadline \in Nat \ {0},
         SubmitStatus(m, epoch) = "accepted"
  PROVE  Submitted(m, Submit(m, epoch, request, pairing, deadline), epoch, request)
<1>1. m.reply_generation + 1 \in Nat
  BY DEF IsMailbox, MailboxType
<1>2. Submit(m, epoch, request, pairing, deadline) \in MailboxType
  BY <1>1, Members DEF IsMailbox, MailboxType, Submit
<1>3. m.state = "idle" /\ epoch = m.target_epoch /\ ~m.closed
  BY DEF SubmitStatus
<1>4. WellFormed(Submit(m, epoch, request, pairing, deadline))
  BY <1>3 DEF IsMailbox, MailboxType, WellFormed, Submit, MailboxStates, Unclaimed
<1>5. LET n == Submit(m, epoch, request, pairing, deadline)
      IN  /\ n.state = "pending" /\ n.request = request /\ n.request_epoch = epoch
          /\ n.target_epoch = m.target_epoch /\ n.claim_id = None
          /\ n.invalidated = FALSE /\ n.closed = FALSE
  BY <1>3 DEF IsMailbox, MailboxType, Submit
<1> QED BY <1>2, <1>3, <1>4, <1>5 DEF IsMailbox, Submitted

(* From m to n the target changed and with it, in the same step, what the  *)
(* old target's request had or could still get.                            *)
Retargets(m, n) ==
  /\ ~m.closed /\ n.target_epoch # m.target_epoch
  /\ \/ m.state = "executing" /\ n.state = "executing" /\ n.invalidated = TRUE
     \/ /\ m.state \in Unclaimed \/ (m.state = "reply_ready" /\ m.reply_status = "completed")
        /\ n.state = "reply_ready" /\ n.reply_status = "stale_target"
        /\ n.invalidated = FALSE
     \/ /\ m.state = "idle" \/ (m.state = "reply_ready" /\ m.reply_status # "completed")
        /\ n.state = m.state /\ n.reply_status = m.reply_status
        /\ n.invalidated = FALSE /\ m.invalidated = FALSE

Synchronized(m, n, epoch) ==
  /\ IsMailbox(n) /\ Quiet(m, n)
  /\ n.target_epoch \in {m.target_epoch, epoch}
  /\ n.claim_id <= m.claim_id
  /\ n = m \/ Retargets(m, n)

(* synchronize_target_epoch leaves the mailbox alone or retargets it.      *)
LEMMA SynchronizeLemma ==
  ASSUME NEW m, IsMailbox(m), NEW epoch \in Nat
  PROVE  Synchronized(m, SynchronizeTargetEpoch(m, epoch), epoch)
<1> DEFINE n == SynchronizeTargetEpoch(m, epoch)
           k == [m EXCEPT !.target_epoch = epoch]
<1>1. CASE m.closed \/ epoch = None \/ epoch = m.target_epoch
  <2>1. n = m BY <1>1 DEF SynchronizeTargetEpoch
  <2>2. m.claim_id <= m.claim_id BY DEF IsMailbox, MailboxType
  <2> QED BY <2>1, <2>2, QuietRefl DEF Synchronized
<1>2. CASE ~(m.closed \/ epoch = None \/ epoch = m.target_epoch)
  <2>1. n = InvalidateTarget(k) BY <1>2 DEF SynchronizeTargetEpoch
  <2>2. k \in MailboxType BY DEF IsMailbox, MailboxType
  <2>3. CASE m.state = "executing"
    <3>1. n = [k EXCEPT !.invalidated = TRUE]
      BY <2>1, <2>3 DEF InvalidateTarget, IsMailbox, MailboxType
    <3>2. n \in MailboxType
      <4> HIDE DEF n, k
      <4> QED BY <2>2, <3>1 DEF MailboxType
    <3>3. WellFormed(n)
      BY <1>2, <2>3, <3>1 DEF IsMailbox, MailboxType, WellFormed, Unclaimed
    <3>4. Quiet(m, n)
      BY <2>3, <3>1 DEF IsMailbox, MailboxType, Quiet, Unclaimed
    <3>5. /\ n.target_epoch = epoch /\ n.state = "executing" /\ n.invalidated = TRUE
          /\ n.claim_id <= m.claim_id
      BY <2>3, <3>1 DEF IsMailbox, MailboxType
    <3> QED BY <1>2, <2>3, <3>2, <3>3, <3>4, <3>5 DEF IsMailbox, Synchronized, Retargets
  <2>4. CASE m.state \in Unclaimed \/ (m.state = "reply_ready" /\ m.reply_status = "completed")
    <3>1. n = SetTerminal(k, "stale_target")
      BY <2>1, <2>4 DEF InvalidateTarget, IsMailbox, MailboxType, Unclaimed
    <3>2. k.reply_generation + 1 \in Nat /\ "stale_target" \in ReplyStatuses
      BY <2>2, Members DEF MailboxType, TerminalStatuses
    <3>3. n \in MailboxType
      <4> HIDE DEF n, k
      <4> QED BY <2>2, <3>1, <3>2, Members DEF MailboxType, SetTerminal, ClearRequestPayload
    <3>4. WellFormed(n)
      BY <1>2, <2>4, <3>1
         DEF IsMailbox, MailboxType, WellFormed, Unclaimed, SetTerminal, ClearRequestPayload
    <3>5. Quiet(m, n)
      BY <1>2, <2>4, <3>1
         DEF IsMailbox, MailboxType, Quiet, Unclaimed, SetTerminal, ClearRequestPayload
    <3>6. /\ n.target_epoch = epoch /\ n.state = "reply_ready"
          /\ n.reply_status = "stale_target" /\ n.invalidated = FALSE
          /\ n.claim_id <= m.claim_id
      BY <2>4, <3>1 DEF IsMailbox, MailboxType, SetTerminal, ClearRequestPayload
    <3> QED BY <1>2, <2>4, <3>3, <3>4, <3>5, <3>6 DEF IsMailbox, Synchronized, Retargets
  <2>5. CASE m.state = "idle" \/ (m.state = "reply_ready" /\ m.reply_status # "completed")
    <3>1. n = k
      BY <2>1, <2>5 DEF InvalidateTarget, IsMailbox, MailboxType, Unclaimed
    <3>2. WellFormed(n)
      BY <1>2, <2>5, <3>1 DEF IsMailbox, MailboxType, WellFormed, Unclaimed
    <3>3. Quiet(m, n)
      BY <3>1 DEF IsMailbox, MailboxType, Quiet
    <3>4. /\ n.target_epoch = epoch /\ n.state = m.state /\ n.reply_status = m.reply_status
          /\ n.invalidated = FALSE /\ m.invalidated = FALSE /\ n.claim_id <= m.claim_id
      BY <2>5, <3>1 DEF IsMailbox, MailboxType, WellFormed
    <3> QED BY <1>2, <2>2, <2>5, <3>1, <3>2, <3>3, <3>4 DEF IsMailbox, Synchronized, Retargets
  <2>6. m.state # "closed" BY <1>2 DEF IsMailbox, WellFormed
  <2> QED
    BY <2>3, <2>4, <2>5, <2>6 DEF IsMailbox, MailboxType, MailboxStates, Unclaimed
<1> QED BY <1>1, <1>2

(* The steps of the fragment and of a beginning run, a confirmed or        *)
(* refused claim and a peek are quiet: they leave the slot's request where *)
(* it was or refuse it.                                                    *)
Harmless(m, n) ==
  /\ IsMailbox(n) /\ Quiet(m, n)
  /\ n.target_epoch = m.target_epoch
  /\ n.claim_id <= m.claim_id
  /\ \/ n.state = "reply_ready" /\ n.reply_status \in TerminalStatuses /\ n.invalidated = FALSE
     \/ /\ n.state = m.state \/ (n.state \in Unclaimed /\ m.state \in Unclaimed)
        /\ n.reply_status = m.reply_status /\ n.invalidated = m.invalidated

(* Doing nothing is harmless. *)
LEMMA HarmlessRefl == ASSUME NEW m, IsMailbox(m) PROVE Harmless(m, m)
BY QuietRefl DEF Harmless, IsMailbox, MailboxType

(* Refusing what occupies the mailbox is harmless. *)
LEMMA HarmlessRefusal ==
  ASSUME NEW m, IsMailbox(m), NEW status \in TerminalStatuses,
         m.state \notin {"idle", "closed"}
  PROVE  Harmless(m, SetTerminal(m, status))
<1>1. 0 <= m.claim_id BY DEF IsMailbox, MailboxType
<1> QED BY <1>1, SetTerminalLemma DEF Harmless, Refused

(* begin_full_app_run after its synchronization. *)
LEMMA BeginLemma ==
  ASSUME NEW m, IsMailbox(m), NEW now \in Nat
  PROVE  Harmless(m, BeginFullAppRun(m, now))
<1> DEFINE k == [m EXCEPT !.first_tick = TRUE]
<1>1. IsMailbox(k) /\ Harmless(m, k)
  <2>1. k \in MailboxType BY DEF IsMailbox, MailboxType
  <2>2. WellFormed(k) BY DEF IsMailbox, MailboxType, WellFormed
  <2>3. Quiet(m, k) BY DEF IsMailbox, MailboxType, Quiet
  <2> QED BY <2>1, <2>2, <2>3 DEF Harmless, IsMailbox, MailboxType
<1>2. CASE m.closed
  BY <1>2, HarmlessRefl DEF BeginFullAppRun
<1>3. CASE ~m.closed /\ m.state \notin {"pending", "wake_requested"}
  BY <1>1, <1>3 DEF BeginFullAppRun
<1>4. CASE ~m.closed /\ m.state \in {"pending", "wake_requested"} /\ IsExpired(m, now)
  <2>1. BeginFullAppRun(m, now) = SetTerminal(k, "expired")
    BY <1>4 DEF BeginFullAppRun
  <2>2. k.state = m.state /\ k.claim_id = m.claim_id /\ k.target_epoch = m.target_epoch
    BY DEF IsMailbox, MailboxType
  <2>3. Harmless(k, SetTerminal(k, "expired"))
    BY <1>1, <1>4, <2>2, HarmlessRefusal DEF TerminalStatuses
  <2>4. Quiet(m, SetTerminal(k, "expired"))
    BY <1>1, <2>3, QuietTrans DEF Harmless
  <2>5. /\ SetTerminal(k, "expired").state = "reply_ready"
        /\ SetTerminal(k, "expired").reply_status = "expired"
        /\ SetTerminal(k, "expired").invalidated = FALSE
    BY <1>1, <1>4, <2>2, SetTerminalLemma DEF TerminalStatuses, Refused
  <2> HIDE DEF k
  <2> QED BY <2>1, <2>2, <2>3, <2>4, <2>5 DEF Harmless, TerminalStatuses
<1>5. CASE ~m.closed /\ m.state \in {"pending", "wake_requested"} /\ ~IsExpired(m, now)
  <2> DEFINE j == [k EXCEPT !.state = "service_due", !.retry_at = None]
  <2>1. BeginFullAppRun(m, now) = j
    BY <1>5 DEF BeginFullAppRun
  <2>2. j \in MailboxType
    <3>1. k \in MailboxType BY <1>1 DEF IsMailbox
    <3> HIDE DEF k
    <3> QED BY <3>1, Members DEF MailboxType
  <2>3. WellFormed(j)
    BY <1>5 DEF IsMailbox, MailboxType, WellFormed, Unclaimed
  <2>4. Quiet(m, j)
    BY <1>5 DEF IsMailbox, MailboxType, Quiet, Unclaimed
  <2>5. /\ j.target_epoch = m.target_epoch /\ j.claim_id <= m.claim_id
        /\ j.state \in Unclaimed /\ m.state \in Unclaimed
        /\ j.reply_status = m.reply_status /\ j.invalidated = m.invalidated
    BY <1>5 DEF IsMailbox, MailboxType, Unclaimed
  <2> HIDE DEF j
  <2> QED BY <2>1, <2>2, <2>3, <2>4, <2>5 DEF Harmless, IsMailbox
<1> QED BY <1>2, <1>3, <1>4, <1>5

(* fragment_tick. *)
LEMMA TickLemma ==
  ASSUME NEW m, IsMailbox(m), NEW now \in Nat
  PROVE  Harmless(m, FragmentTick(m, now))
<1>1. CASE m.closed
  BY <1>1, HarmlessRefl DEF FragmentTick
<1>2. CASE ~m.closed /\ ExpiredUnclaimed(m, now)
  <2>1. FragmentTick(m, now) = SetTerminal(m, "expired") BY <1>2 DEF FragmentTick
  <2>2. m.state \notin {"idle", "closed"} BY <1>2 DEF ExpiredUnclaimed, Unclaimed
  <2> QED BY <2>1, <2>2, HarmlessRefusal DEF TerminalStatuses
<1>3. CASE ~m.closed /\ ~ExpiredUnclaimed(m, now) /\ m.first_tick
  <2> DEFINE k == [m EXCEPT !.first_tick = FALSE]
  <2>1. FragmentTick(m, now) = k BY <1>3 DEF FragmentTick
  <2>2. k \in MailboxType BY DEF IsMailbox, MailboxType
  <2>3. WellFormed(k) BY DEF IsMailbox, MailboxType, WellFormed
  <2>4. Quiet(m, k) BY DEF IsMailbox, MailboxType, Quiet
  <2> QED BY <2>1, <2>2, <2>3, <2>4 DEF Harmless, IsMailbox, MailboxType
<1>4. CASE ~m.closed /\ ~ExpiredUnclaimed(m, now) /\ ~m.first_tick /\ TickWakes(m, now)
  <2> DEFINE k == MarkWakeRequested(m, now)
  <2>1. FragmentTick(m, now) = k BY <1>4 DEF FragmentTick
  <2>2. m.state \in Unclaimed BY <1>4 DEF TickWakes, Unclaimed
  <2>3. NextWakeDelay(m.wake_delay) \in 0..MaxWakeRetry
        /\ now + NextWakeDelay(m.wake_delay) \in Nat
    BY NextWakeDelayLemma, MaxWakeRetryAssumption DEF IsMailbox, MailboxType
  <2>4. k \in MailboxType
    BY <2>3, Members DEF IsMailbox, MailboxType, MarkWakeRequested
  <2>5. WellFormed(k)
    BY <2>2 DEF IsMailbox, MailboxType, WellFormed, MarkWakeRequested, Unclaimed
  <2>6. Quiet(m, k)
    BY <2>2 DEF IsMailbox, MailboxType, Quiet, MarkWakeRequested, Unclaimed
  <2>7. /\ k.target_epoch = m.target_epoch /\ k.claim_id <= m.claim_id
        /\ k.state \in Unclaimed /\ k.reply_status = m.reply_status
        /\ k.invalidated = m.invalidated
    BY DEF IsMailbox, MailboxType, MarkWakeRequested, Unclaimed
  <2> HIDE DEF k
  <2> QED BY <2>1, <2>2, <2>4, <2>5, <2>6, <2>7 DEF Harmless, IsMailbox
<1>5. CASE ~m.closed /\ ~ExpiredUnclaimed(m, now) /\ ~m.first_tick /\ ~TickWakes(m, now)
  BY <1>5, HarmlessRefl DEF FragmentTick
<1> QED BY <1>1, <1>2, <1>3, <1>4, <1>5

(* The first critical section of _claim_for_service when it takes the      *)
(* request ...                                                             *)
Claimed(m, n, epoch, claim) ==
  /\ m.state \in Unclaimed /\ m.invalidated = FALSE /\ m.request_epoch = epoch
  /\ IsMailbox(n)
  /\ n.state = "executing" /\ n.claim_id = claim /\ n.request = m.request
  /\ n.request_epoch = m.request_epoch /\ n.target_epoch = m.target_epoch
  /\ n.closed = m.closed /\ n.invalidated = FALSE

(* _claim_for_service moves unclaimed, current work to executing. *)
LEMMA ClaimLemma ==
  ASSUME NEW m, IsMailbox(m), NEW epoch \in Nat, NEW claim \in Nat \ {0}, NEW now \in Nat,
         Claimable(m, epoch, now)
  PROVE  Claimed(m, ClaimTake(m, epoch, claim, now), epoch, claim)
<1> DEFINE n == [m EXCEPT !.state = "executing", !.claim_id = claim, !.retry_at = None]
<1>1. ClaimTake(m, epoch, claim, now) = n
  BY DEF ClaimTake, Claimable
<1>2. n \in MailboxType BY Members DEF IsMailbox, MailboxType
<1>3. WellFormed(n)
  BY DEF IsMailbox, MailboxType, WellFormed, Claimable, Unclaimed
<1>4. /\ n.state = "executing" /\ n.claim_id = claim /\ n.request = m.request
      /\ n.request_epoch = m.request_epoch /\ m.request_epoch = epoch
      /\ n.target_epoch = m.target_epoch /\ n.closed = m.closed
      /\ n.invalidated = FALSE /\ m.state \in Unclaimed /\ m.invalidated = FALSE
  BY DEF IsMailbox, MailboxType, WellFormed, Claimable, Unclaimed
<1> HIDE DEF n
<1> QED BY <1>1, <1>2, <1>3, <1>4 DEF IsMailbox, Claimed

(* ... and when it does not. *)
LEMMA NoClaimLemma ==
  ASSUME NEW m, IsMailbox(m), NEW epoch \in Nat, NEW claim \in Nat \ {0}, NEW now \in Nat,
         ~Claimable(m, epoch, now)
  PROVE  Harmless(m, ClaimTake(m, epoch, claim, now))
<1>1. CASE m.closed \/ m.state \notin Unclaimed
  BY <1>1, HarmlessRefl DEF ClaimTake
<1>2. CASE ~(m.closed \/ m.state \notin Unclaimed)
  <2>1. ClaimTake(m, epoch, claim, now) \in
          {SetTerminal(m, "expired"), SetTerminal(m, "stale_target")}
    BY <1>2 DEF ClaimTake, Claimable
  <2>2. m.state \notin {"idle", "closed"} BY <1>2 DEF Unclaimed
  <2> QED BY <2>1, <2>2, HarmlessRefusal DEF TerminalStatuses
<1> QED BY <1>1, <1>2

(* The second critical section of _claim_for_service. *)
LEMMA ConfirmLemma ==
  ASSUME NEW m, IsMailbox(m), NEW epoch \in Nat, NEW claim \in Nat, NEW now \in Nat
  PROVE  Harmless(m, ClaimCheck(m, epoch, claim, now))
<1>1. CASE ~Holds(m, claim) \/ ClaimConfirmed(m, epoch, claim, now)
  BY <1>1, HarmlessRefl DEF ClaimCheck
<1>2. CASE ~(~Holds(m, claim) \/ ClaimConfirmed(m, epoch, claim, now))
  <2>1. ClaimCheck(m, epoch, claim, now) \in
          {SetTerminal(m, "expired"), SetTerminal(m, "stale_target")}
    BY <1>2 DEF ClaimCheck
  <2>2. m.state \notin {"idle", "closed"} BY <1>2 DEF Holds
  <2> QED BY <2>1, <2>2, HarmlessRefusal DEF TerminalStatuses
<1> QED BY <1>1, <1>2

(* complete either publishes the reply of an executing, current claim or   *)
(* is harmless.                                                            *)
Publishes(m, n, claim, reply, epoch) ==
  /\ m.state = "executing" /\ m.claim_id = claim /\ m.invalidated = FALSE
  /\ m.target_epoch = epoch /\ m.request_epoch = epoch
  /\ Completed(m, n, reply)

(* complete publishes once, for the claim it was given, or is harmless. *)
LEMMA CompleteLemma ==
  ASSUME NEW m, IsMailbox(m), NEW claim \in Nat, NEW claimEpoch \in Nat,
         NEW reply \in ReplyType, NEW epoch \in Nat, NEW now \in Nat
  PROVE  \/ Harmless(m, Complete(m, claim, claimEpoch, reply, epoch, now))
         \/ /\ reply # NoReply
            /\ Publishes(m, Complete(m, claim, claimEpoch, reply, epoch, now),
                         claim, reply, epoch)
<1> DEFINE n == Complete(m, claim, claimEpoch, reply, epoch, now)
<1>1. CASE ~Holds(m, claim)
  BY <1>1, HarmlessRefl DEF Complete
<1>2. CASE Holds(m, claim) /\
           (m.invalidated \/ claimEpoch # epoch \/ m.target_epoch # epoch
            \/ IsExpired(m, now) \/ reply = NoReply)
  <2>1. n \in {SetTerminal(m, "expired"), SetTerminal(m, "stale_target"),
                SetTerminal(m, "internal_error")}
    BY <1>2 DEF Complete
  <2>2. m.state \notin {"idle", "closed"} BY <1>2 DEF Holds
  <2> QED BY <2>1, <2>2, HarmlessRefusal DEF TerminalStatuses
<1>3. CASE Holds(m, claim) /\
           ~(m.invalidated \/ claimEpoch # epoch \/ m.target_epoch # epoch
             \/ IsExpired(m, now) \/ reply = NoReply)
  <2>1. n = SetCompleted(m, reply, NoReview) BY <1>3 DEF Complete
  <2>2. m.state = "executing" /\ ~m.invalidated BY <1>3 DEF Holds
  <2>3. m.claim_id = claim /\ m.target_epoch = epoch /\ m.request_epoch = epoch
        /\ m.invalidated = FALSE
    BY <1>3 DEF Holds, IsMailbox, WellFormed, MailboxType
  <2>4. Completed(m, n, reply)
    BY <2>1, <2>2, Members, SetCompletedLemma
  <2> HIDE DEF n
  <2>5. Publishes(m, n, claim, reply, epoch)
    BY <2>2, <2>3, <2>4 DEF Publishes
  <2> QED BY <1>3, <2>5 DEF n
<1> QED BY <1>1, <1>2, <1>3

(* The first critical section of consume_reply. *)
LEMMA PeekLemma ==
  ASSUME NEW m, IsMailbox(m), NEW epoch \in Nat, NEW now \in Nat
  PROVE  Harmless(m, Peek(m, epoch, now))
<1>1. CASE PeekStatus(m, epoch) = "read" /\ IsExpired(m, now) /\ m.reply_status = "completed"
  <2>1. m.state = "reply_ready" BY <1>1 DEF PeekStatus
  <2>2. Peek(m, epoch, now) = SetTerminal(m, "expired") BY <1>1 DEF Peek
  <2> QED BY <2>1, <2>2, HarmlessRefusal DEF TerminalStatuses
<1>2. CASE ~(PeekStatus(m, epoch) = "read" /\ IsExpired(m, now) /\ m.reply_status = "completed")
  BY <1>2, HarmlessRefl DEF Peek
<1> QED BY <1>1, <1>2

(* The second critical section of consume_reply when it takes the outcome. *)
Taken(m, n) ==
  /\ m.state = "reply_ready"
  /\ IsMailbox(n) /\ n.state = "idle"
  /\ n.target_epoch = m.target_epoch /\ n.request_epoch = None
  /\ n.closed = m.closed /\ n.claim_id = None /\ n.invalidated = FALSE

(* consume_reply frees the mailbox. *)
LEMMA TakeLemma ==
  ASSUME NEW m, IsMailbox(m), NEW epoch \in Nat, NEW generation \in Nat,
         Takes(m, epoch, generation)
  PROVE  Taken(m, Take(m, epoch, generation))
<1> DEFINE n == ClearOutcome(m)
<1>1. Take(m, epoch, generation) = n /\ m.state = "reply_ready" /\ ~m.closed
  BY DEF Take, Takes
<1>2. m.reply_generation + 1 \in Nat BY DEF IsMailbox, MailboxType
<1>3. n \in MailboxType
  BY <1>2, Members DEF IsMailbox, MailboxType, ClearOutcome
<1>4. WellFormed(n)
  BY <1>1 DEF IsMailbox, MailboxType, WellFormed, ClearOutcome, Unclaimed
<1>5. /\ n.state = "idle" /\ n.target_epoch = m.target_epoch /\ n.request_epoch = None
      /\ n.closed = m.closed /\ n.claim_id = None /\ n.invalidated = FALSE
  BY DEF IsMailbox, MailboxType, ClearOutcome
<1> HIDE DEF n
<1> QED BY <1>1, <1>3, <1>4, <1>5 DEF IsMailbox, Taken

(* close. *)
Closed(n) ==
  /\ IsMailbox(n) /\ n.state = "closed" /\ n.closed = TRUE
  /\ n.target_epoch = None /\ n.request_epoch = None
  /\ n.claim_id = None /\ n.invalidated = FALSE

(* close leaves a closed, empty mailbox. *)
LEMMA CloseLemma ==
  ASSUME NEW m, IsMailbox(m)
  PROVE  Closed(Close(m))
<1>1. m.reply_generation + 1 \in Nat BY DEF IsMailbox, MailboxType
<1>2. Close(m) \in MailboxType BY <1>1, Members DEF IsMailbox, MailboxType, Close
<1>3. WellFormed(Close(m)) BY DEF IsMailbox, MailboxType, WellFormed, Close, Unclaimed
<1>4. /\ Close(m).state = "closed" /\ Close(m).closed = TRUE
      /\ Close(m).target_epoch = None /\ Close(m).request_epoch = None
      /\ Close(m).claim_id = None /\ Close(m).invalidated = FALSE
  BY DEF IsMailbox, MailboxType, Close
<1> QED BY <1>2, <1>3, <1>4 DEF IsMailbox, Closed
=============================================================================
