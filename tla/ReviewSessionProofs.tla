------------------------ MODULE ReviewSessionProofs ------------------------
(***************************************************************************)
(* Safety of the reviewed proposals for every number of requests,          *)
(* Projects, targets, proposals and pairings, with either or both          *)
(* custodians, with and without interrupted runs.                          *)
(***************************************************************************)
EXTENDS ReviewSession, MailboxTheorems, SequenceTheorems, FiniteSetTheorems

(* Every variable has its type, the history ones included. *)
OriginType ==
  [kind : {"none", "swap", "generation"}, request : Nat, project : Projects, content : Nat,
   expires : Nat]

Typed == TypeOK /\ origin \in [Proposals -> OriginType]

(* Mailbox, custodians and tracker are of the same session and of the same *)
(* target.                                                                 *)
SameTarget ==
  /\ mb.closed = closed /\ mb.target_epoch = tracker.epoch
  /\ \A k \in Kinds : cust[k].closed = closed /\ (~closed => cust[k].epoch = tracker.epoch)
  /\ IF tracker.initialized THEN ~closed /\ tracker.epoch \in 1..epochs
     ELSE tracker.epoch = None /\ tracker.target = None

MailOK ==
  /\ WellFormed(mb)
  /\ mb.state \in Unclaimed \cup {"executing"} => mb.request \in Payloads
  /\ mb.review.owner \in Kinds \cup {"none"}

(* A custodian's record is of a proposal made and a target met, no two     *)
(* custodians hold the same; only a Scene Module Swap is ever applied.     *)
RecordsOK ==
  \A k \in Kinds :
    LET r == cust[k].record
    IN  /\ IF HasRecord(cust[k])
           THEN r.proposal \in 1..proposals /\ r.epoch \in 1..epochs
           ELSE r = NoRecord
        /\ r.state = "applying" => k = "swap"
        /\ r.published => r.state = "applying"
        /\ \A j \in Kinds \ {k} : HasRecord(cust[k]) => cust[j].record.proposal # r.proposal

Committed == {"pending", "applying"}

(* A committed proposal is what its history says of it.                    *)
OriginOK ==
  \A k \in Kinds :
    LET r == cust[k].record
    IN  r.state \in Committed =>
          /\ origin[r.proposal].kind = k
          /\ origin[r.proposal].content = r.preview
          /\ r.state = "pending" => origin[r.proposal].expires = r.expires
          /\ tracker.initialized /\ r.epoch = tracker.epoch =>
               origin[r.proposal].project = tracker.target

(* The script thread serving a request: its target is the session's, and   *)
(* its request occupies the mailbox; it prepares into an empty custodian,  *)
(* and what it prepared is a preview of the live Project.                  *)
Claiming == {"confirm", "check", "prepare", "publish"}

ServiceOK ==
  /\ pc \in Claiming \cup {"claim"} /\ ~closed =>
       /\ tracker.initialized /\ tracker.target = session.project
       /\ tracker.epoch = run.epoch
  /\ pc \in Claiming => run.payload \in Payloads /\ (closed \/ mb.state = "executing")
  /\ pc = "prepare" /\ run.proposal = None => ~HasRecord(cust[Kind])
  /\ pc = "publish" /\ run.carrier = "prepared" =>
       /\ run.proposal \in 1..proposals
       /\ cust[Kind].record.proposal = run.proposal =>
            cust[Kind].record.preview = session.content

(* The script thread applying a proposal. *)
Applying ==
  {"inspect", "stale", "recheck", "apply_claim", "core", "apply_publish", "assign", "retire",
   "observe", "save", "finish", "look"}

ApplyOK ==
  /\ pc \in Applying => "swap" \in Kinds /\ run.proposal \in 1..proposals
  /\ pc \in {"recheck", "apply_claim", "core", "apply_publish", "assign"} =>
       session.content = run.preview
  /\ pc \in {"core", "apply_publish"} /\ Swap.record.proposal = run.proposal =>
       Swap.record.preview = run.preview /\ ~Swap.record.published
  /\ pc \in {"retire", "observe"} => gate /\ ~closed
  /\ pc = "finish" => run.status # "none"
  /\ pc \in {"retire", "observe", "save"} \/ (pc = "finish" /\ run.status \in Applied) =>
       replaced[run.proposal] = 1

(* Between the staging of a publication and the assignment. *)
Staged ==
  /\ gate /\ ~closed
  /\ Swap.record.state = "applying" /\ Swap.record.published
  /\ Swap.record.proposal = run.proposal /\ Swap.record.preview = run.preview
  /\ Swap.record.epoch = tracker.epoch
  /\ tracker.initialized /\ tracker.target = session.project
  /\ replaced[run.proposal] = 0
  /\ Len(run.undo) <= MaxHistory
  /\ history = Append20(run.undo, session.content)
  /\ run.evicted = IF Len(run.undo) >= MaxHistory THEN run.undo[1] ELSE None

StagedOK == pc = "assign" => Staged

(* An acknowledgment nobody has read is of a committed proposal, or its    *)
(* time has run out; a reader that copied the reply of this generation     *)
(* copied this reply.                                                      *)
AckOK ==
  UnreadAck =>
    LET p == mb.review.proposal
    IN  /\ p \in 1..proposals
        /\ \/ /\ cust[mb.review.owner].record.proposal = p
              /\ cust[mb.review.owner].record.state \in Committed
           \/ clock >= origin[p].expires

ReaderOK ==
  client.state = "copying" =>
    /\ client.generation <= mb.reply_generation
    /\ client.generation = mb.reply_generation =>
         /\ mb.state = "reply_ready" /\ mb.reply_status = client.status
         /\ mb.review = client.review

(* What was replaced, and what the human was told. *)
ReplacedOK ==
  /\ \A p \in Proposals : replaced[p] \in {0, 1} /\ (p > proposals => replaced[p] = 0)
  /\ \A k \in Kinds : HasRecord(cust[k]) /\ ~cust[k].record.published =>
       replaced[cust[k].record.proposal] = 0
  /\ \A p \in Proposals : outcome[p] \in Applied => replaced[p] = 1
  /\ \A p \in Proposals : replaced[p] = 1 =>
       \/ "swap" \in Kinds /\ Swap.record.proposal = p /\ Swap.record.published
       \/ outcome[p] \in Applied \cup {"session_unavailable"}

IInv ==
  /\ Typed /\ SameTarget /\ MailOK /\ RecordsOK /\ OriginOK /\ ServiceOK /\ ApplyOK
  /\ StagedOK /\ AckOK /\ ReaderOK /\ ReplacedOK

(* The requests remembered in a sequence of tombstones, and by a           *)
(* custodian.                                                              *)
Asked(s) == {s[i].request : i \in 1..Len(s)}

Known(c) == Asked(c.tombstones)

(* No request twice in a sequence of tombstones. *)
Distinct(s) == \A i, j \in 1..Len(s) : i # j => s[i].request # s[j].request

(* A custodian remembers each request once, of those in use. *)
Knows(c) ==
  /\ Distinct(c.tombstones) /\ Known(c) \subseteq Ids
  /\ HasRecord(c) => c.record.request \in Ids

(* While the session is open it remembers every request it ever queued,    *)
(* unless the proposal is still there; what it prepares was not queued     *)
(* before.                                                                 *)
Remembered(k) ==
  LET c == cust[k]
  IN  /\ Knows(c)
      /\ \A p \in 1..proposals : origin[p].kind = k =>
           IF c.record.proposal = p
           THEN c.record.state \in Committed /\ c.record.request = origin[p].request
           ELSE closed \/ origin[p].request \in Known(c)
      /\ c.record.state = "prepared" =>
           \A p \in 1..proposals : origin[p].kind = k => origin[p].request # c.record.request

OnceOK ==
  /\ \A p \in Proposals : p > proposals => origin[p].kind = "none"
  /\ \A k \in Kinds : Remembered(k)
  /\ \A p, o \in 1..proposals :
       p # o /\ origin[p].kind # "none" /\ origin[p].kind = origin[o].kind
       => origin[p].request # origin[o].request

FInv == FewIds => OnceOK

USE DEF None

-----------------------------------------------------------------------------
(* The mailbox. *)

Unread(m) == m.state = "reply_ready" /\ m.reply_status = "completed" /\ m.review.owner # "none"

(* What a reader that looked at m may still find in n. *)
Reads(m, n) ==
  \/ n.reply_generation > m.reply_generation
  \/ /\ n.reply_generation = m.reply_generation
     /\ m.state = "reply_ready" =>
          n.state = "reply_ready" /\ n.reply_status = m.reply_status /\ n.review = m.review

(* No request is accepted or claimed from m to n, and no acknowledgment    *)
(* queued.                                                                 *)
Calm(m, n) ==
  /\ IsMailbox(n) /\ n.closed = m.closed
  /\ n.state \in Unclaimed \cup {"executing"} =>
       m.state \in Unclaimed \cup {"executing"} /\ n.request = m.request
  /\ n.review \in {m.review, NoReview}
  /\ Reads(m, n)
  /\ Unread(n) => Unread(m) /\ n.review = m.review

(* At most a queued reply is taken back.                                   *)
Withdraws(m, n) ==
  /\ Calm(m, n) /\ n.target_epoch = m.target_epoch
  /\ m.state # "reply_ready" => n = m

(* Doing nothing is calm. *)
LEMMA CalmRefl == ASSUME NEW m, IsMailbox(m) PROVE Withdraws(m, m) /\ Calm(m, m)
BY DEF Withdraws, Calm, Reads, IsMailbox, MailboxType

(* _set_terminal_locked queues an outcome, never an acknowledgment. *)
LEMMA CalmRefusal ==
  ASSUME NEW m, IsMailbox(m), NEW status \in TerminalStatuses, m.state \notin {"idle", "closed"}
  PROVE  /\ Calm(m, SetTerminal(m, status)) /\ ~Unread(SetTerminal(m, status))
         /\ SetTerminal(m, status).target_epoch = m.target_epoch
<1> DEFINE n == SetTerminal(m, status)
<1>0. Refused(m, n, status) BY SetTerminalLemma
<1>1. IsMailbox(n) /\ n.closed = m.closed /\ n.target_epoch = m.target_epoch
      /\ n.state = "reply_ready" /\ n.reply_status = status
  <2> HIDE DEF n
  <2> QED BY <1>0 DEF Refused, Quiet
<1>2. n.review = NoReview /\ n.reply_generation = m.reply_generation + 1
  BY DEF IsMailbox, MailboxType, SetTerminal, ClearRequestPayload
<1>3. n.reply_generation > m.reply_generation
  BY <1>2 DEF IsMailbox, MailboxType
<1>4. ~Unread(n)
  BY <1>1 DEF Unread, TerminalStatuses
<1> HIDE DEF n
<1>5. Calm(m, n)
  BY <1>1, <1>2, <1>3, <1>4 DEF Calm, Reads, Unclaimed
<1> QED BY <1>1, <1>4, <1>5 DEF n

(* _discard_review_ack_locked takes back the acknowledgment of its         *)
(* proposal only.                                                          *)
LEMMA DiscardLemma ==
  ASSUME NEW m, IsMailbox(m), NEW p, NEW status \in TerminalStatuses
  PROVE  /\ Withdraws(m, DiscardAck(m, p, status))
         /\ Unread(DiscardAck(m, p, status)) => m.review.proposal # p
<1>1. CASE m.state = "reply_ready" /\ m.reply_status = "completed"
           /\ m.review.owner # "none" /\ m.review.proposal = p
  <2>1. DiscardAck(m, p, status) = SetTerminal(m, status) BY <1>1 DEF DiscardAck
  <2> QED BY <2>1, <1>1, CalmRefusal DEF Withdraws
<1>2. CASE ~(m.state = "reply_ready" /\ m.reply_status = "completed"
             /\ m.review.owner # "none" /\ m.review.proposal = p)
  <2>1. DiscardAck(m, p, status) = m BY <1>2 DEF DiscardAck
  <2> QED BY <2>1, <1>2, CalmRefl DEF Unread
<1> QED BY <1>1, <1>2

(* What the human was shown names an outcome of the request. *)
LEMMA OutcomeNames ==
  /\ DOMAIN InspectOutcomes =
       {"expired", "stale", "rejected", "dismissed", "applied", "applied_save_failed",
        "apply_failed"}
  /\ \A h \in DOMAIN InspectOutcomes : InspectOutcomes[h] \in TerminalStatuses
BY DEF InspectOutcomes, TerminalStatuses

(* inspect_review_custody. *)
LEMMA InspectAckLemma ==
  ASSUME NEW m, IsMailbox(m), NEW c, NEW owner
  PROVE  Withdraws(m, InspectAck(m, c, owner))
BY CalmRefl, DiscardLemma, OutcomeNames DEF InspectAck

(* resolve_review_proposal. *)
LEMMA ResolveAckLemma ==
  ASSUME NEW m, IsMailbox(m), NEW c, NEW owner, NEW p
  PROVE  /\ Withdraws(m, ResolveAck(m, c, owner, p))
         /\ /\ Unread(ResolveAck(m, c, owner, p)) /\ m.review.owner = owner /\ ~c.closed
            /\ c.human \in {"rejected", "dismissed", "expired", "stale"}
            => m.review.proposal # p
BY CalmRefl, DiscardLemma, OutcomeNames DEF ResolveAck

(* mark_review_proposal_stale. *)
LEMMA StaleAckLemma ==
  ASSUME NEW m, IsMailbox(m), NEW c, NEW owner, NEW p
  PROVE  /\ Withdraws(m, StaleAck(m, c, owner, p))
         /\ /\ Unread(StaleAck(m, c, owner, p)) /\ m.review.owner = owner /\ ~c.closed
            /\ c.human \in {"expired", "stale"}
            => m.review.proposal # p
BY CalmRefl, DiscardLemma, OutcomeNames DEF StaleAck

(* cancel_review_custody leaves no acknowledgment of its owner. *)
LEMMA CancelAckLemma ==
  ASSUME NEW m, IsMailbox(m), NEW owner
  PROVE  /\ Withdraws(m, CancelAck(m, owner))
         /\ m.review.owner = owner => ~Unread(CancelAck(m, owner))
<1>1. CASE m.state = "reply_ready" /\ m.reply_status = "completed" /\ m.review.owner = owner
  <2>1. CancelAck(m, owner) = SetTerminal(m, "review_cancelled") BY <1>1 DEF CancelAck
  <2> QED BY <2>1, <1>1, CalmRefusal DEF Withdraws, TerminalStatuses
<1>2. CASE ~(m.state = "reply_ready" /\ m.reply_status = "completed" /\ m.review.owner = owner)
  <2>1. CancelAck(m, owner) = m BY <1>2 DEF CancelAck
  <2> QED BY <2>1, <1>2, CalmRefl DEF Unread
<1> QED BY <1>1, <1>2

(* synchronize_target_epoch: under a new target no acknowledgment of the   *)
(* old one is left; a claim of the current one stays.                      *)
LEMMA SyncMail ==
  ASSUME NEW m, IsMailbox(m), NEW epoch \in Nat \ {0}, ~m.closed
  PROVE  LET n == SynchronizeTargetEpoch(m, epoch)
         IN  /\ Calm(m, n) /\ n.target_epoch = epoch
             /\ epoch # m.target_epoch => ~Unread(n)
             /\ epoch = m.target_epoch => n = m
<1> DEFINE n == SynchronizeTargetEpoch(m, epoch)
           k == [m EXCEPT !.target_epoch = epoch]
<1>1. CASE epoch = m.target_epoch
  BY <1>1, CalmRefl DEF SynchronizeTargetEpoch
<1>2. CASE epoch # m.target_epoch
  <2>1. n = InvalidateTarget(k) BY <1>2 DEF SynchronizeTargetEpoch
  <2>2. IsMailbox(n) /\ Quiet(m, n)
    BY SynchronizeLemma DEF Synchronized
  <2>3. /\ k.state = m.state /\ k.reply_status = m.reply_status /\ k.review = m.review
        /\ k.reply_generation = m.reply_generation /\ k.target_epoch = epoch
        /\ k.request = m.request
    BY DEF IsMailbox, MailboxType
  <2>4. CASE m.state = "executing"
    <3>1. n = [k EXCEPT !.invalidated = TRUE] BY <2>1, <2>3, <2>4 DEF InvalidateTarget
    <3>2. /\ n.state = m.state /\ n.reply_status = m.reply_status /\ n.review = m.review
          /\ n.reply_generation = m.reply_generation /\ n.target_epoch = epoch
      BY <3>1 DEF IsMailbox, MailboxType
    <3> HIDE DEF n, k
    <3>3. Calm(m, n) /\ ~Unread(n)
      BY <2>2, <2>4, <3>2 DEF Calm, Reads, Unread, Quiet
    <3> QED BY <1>2, <3>2, <3>3 DEF n
  <2>5. CASE m.state \in Unclaimed \/ (m.state = "reply_ready" /\ m.reply_status = "completed")
    <3>1. n = SetTerminal(k, "stale_target")
      BY <2>1, <2>3, <2>5 DEF InvalidateTarget, Unclaimed
    <3>2. /\ n.state = "reply_ready" /\ n.reply_status = "stale_target" /\ n.review = NoReview
          /\ n.reply_generation = m.reply_generation + 1 /\ n.target_epoch = epoch
      BY <3>1 DEF IsMailbox, MailboxType, SetTerminal, ClearRequestPayload
    <3>3. n.reply_generation > m.reply_generation
      BY <3>2 DEF IsMailbox, MailboxType
    <3> HIDE DEF n, k
    <3>4. Calm(m, n) /\ ~Unread(n)
      BY <2>2, <3>2, <3>3 DEF Calm, Reads, Unread, Quiet
    <3> QED BY <1>2, <3>2, <3>4 DEF n
  <2>6. CASE m.state = "idle" \/ (m.state = "reply_ready" /\ m.reply_status # "completed")
    <3>1. n = k BY <2>1, <2>3, <2>6 DEF InvalidateTarget, Unclaimed
    <3> HIDE DEF n, k
    <3>2. Calm(m, n) /\ ~Unread(n)
      BY <2>2, <2>3, <2>6, <3>1 DEF Calm, Reads, Unread, Quiet, Unclaimed
    <3> QED BY <1>2, <2>3, <3>1, <3>2 DEF n
  <2>7. m.state # "closed" BY DEF IsMailbox, WellFormed
  <2> QED
    BY <2>4, <2>5, <2>6, <2>7 DEF IsMailbox, MailboxType, MailboxStates, Unclaimed
<1> QED BY <1>1, <1>2

(* A claim taken, refused or confirmed.                                    *)
LEMMA ClaimMail ==
  ASSUME NEW m, IsMailbox(m), NEW epoch \in Nat, NEW claim \in Nat \ {0}, NEW now \in Nat
  PROVE  LET n == ClaimTake(m, epoch, claim, now)
         IN  /\ Calm(m, n) /\ n.target_epoch = m.target_epoch
             /\ Claimable(m, epoch, now) =>
                  n.state = "executing" /\ m.state \in Unclaimed /\ ~m.closed
<1> DEFINE n == ClaimTake(m, epoch, claim, now)
<1>1. CASE Claimable(m, epoch, now)
  <2>1. Claimed(m, n, epoch, claim) BY <1>1, ClaimLemma
  <2>2. n = [m EXCEPT !.state = "executing", !.claim_id = claim, !.retry_at = None]
    BY <1>1 DEF ClaimTake, Claimable
  <2>3. n.review = m.review /\ n.reply_generation = m.reply_generation
    BY <2>2 DEF IsMailbox, MailboxType
  <2> HIDE DEF n
  <2>4. Calm(m, n)
    BY <2>1, <2>3 DEF Calm, Claimed, Reads, Unread, Unclaimed
  <2> QED BY <1>1, <2>1, <2>4 DEF Claimed, Claimable, n
<1>2. CASE ~Claimable(m, epoch, now)
  <2>1. n \in {m, SetTerminal(m, "expired"), SetTerminal(m, "stale_target")}
    BY <1>2 DEF ClaimTake, Claimable
  <2>2. n # m => m.state \notin {"idle", "closed"} BY DEF ClaimTake, Unclaimed
  <2> QED BY <1>2, <2>1, <2>2, CalmRefl, CalmRefusal DEF TerminalStatuses
<1> QED BY <1>1, <1>2

(* The second critical section of _claim_for_service. *)
LEMMA ConfirmMail ==
  ASSUME NEW m, IsMailbox(m), NEW epoch \in Nat, NEW claim \in Nat, NEW now \in Nat
  PROVE  LET n == ClaimCheck(m, epoch, claim, now)
         IN  /\ Calm(m, n) /\ n.target_epoch = m.target_epoch
             /\ ClaimConfirmed(m, epoch, claim, now) => n = m /\ m.state = "executing"
<1> DEFINE n == ClaimCheck(m, epoch, claim, now)
<1>1. n \in {m, SetTerminal(m, "expired"), SetTerminal(m, "stale_target")}
  BY DEF ClaimCheck
<1>2. n # m => m.state \notin {"idle", "closed"} BY DEF ClaimCheck, Holds
<1>3. ClaimConfirmed(m, epoch, claim, now) => n = m /\ m.state = "executing"
  BY DEF ClaimCheck, ClaimConfirmed, Holds
<1> QED BY <1>1, <1>2, <1>3, CalmRefl, CalmRefusal DEF TerminalStatuses

(* A reply or an acknowledgment for the executing request is queued.       *)
LEMMA CompletedMail ==
  ASSUME NEW m, IsMailbox(m), NEW reply \in ReplyType, NEW review \in ReviewType,
         m.state = "executing", ~m.invalidated
  PROVE  LET n == SetCompleted(m, reply, review)
         IN  /\ IsMailbox(n) /\ n.closed = m.closed /\ n.target_epoch = m.target_epoch
             /\ n.state = "reply_ready" /\ n.reply_status = "completed" /\ n.review = review
             /\ Reads(m, n)
<1> DEFINE n == SetCompleted(m, reply, review)
<1>1. Completed(m, n, reply) BY SetCompletedLemma
<1>2. n.review = review /\ n.reply_generation = m.reply_generation + 1
  BY DEF IsMailbox, MailboxType, SetCompleted, ClearRequestPayload
<1>3. n.reply_generation > m.reply_generation BY <1>2 DEF IsMailbox, MailboxType
<1> HIDE DEF n
<1> QED BY <1>1, <1>2, <1>3 DEF Completed, Reads, n

(* complete queues a plain reply. *)
LEMMA CompleteMail ==
  ASSUME NEW m, IsMailbox(m), NEW claim \in Nat, NEW claimEpoch \in Nat,
         NEW reply \in ReplyType, NEW epoch \in Nat, NEW now \in Nat
  PROVE  LET n == Complete(m, claim, claimEpoch, reply, epoch, now)
         IN  Calm(m, n) /\ n.target_epoch = m.target_epoch
<1> DEFINE n == Complete(m, claim, claimEpoch, reply, epoch, now)
           done == SetCompleted(m, reply, NoReview)
<1>1. \/ n \in {m, SetTerminal(m, "expired"), SetTerminal(m, "stale_target"),
                SetTerminal(m, "internal_error")}
      \/ n = done /\ m.state = "executing" /\ ~m.invalidated
  BY DEF Complete, Holds
<1>2. n # m => m.state \notin {"idle", "closed"} BY DEF Complete, Holds
<1>3. CASE n = done /\ m.state = "executing" /\ ~m.invalidated
  <2>1. /\ IsMailbox(done) /\ done.closed = m.closed /\ done.target_epoch = m.target_epoch
        /\ done.state = "reply_ready" /\ done.reply_status = "completed"
        /\ done.review = NoReview /\ Reads(m, done)
    BY <1>3, Members, CompletedMail
  <2>2. NoReview.owner = "none" BY DEF NoReview
  <2> HIDE DEF done, n
  <2> QED BY <1>3, <2>1, <2>2 DEF Calm, Unread, Unclaimed, n
<1> QED BY <1>1, <1>2, <1>3, CalmRefl, CalmRefusal DEF TerminalStatuses

(* The first critical section of consume_reply. *)
LEMMA PeekMail ==
  ASSUME NEW m, IsMailbox(m), NEW epoch, NEW now
  PROVE  LET n == Peek(m, epoch, now)
         IN  /\ Withdraws(m, n)
             /\ PeekStatus(m, epoch) = "read" => n.state = "reply_ready"
<1> DEFINE n == Peek(m, epoch, now)
<1>1. CASE PeekStatus(m, epoch) = "read" /\ IsExpired(m, now) /\ m.reply_status = "completed"
  <2>1. n = SetTerminal(m, "expired") /\ m.state = "reply_ready" BY <1>1 DEF Peek, PeekStatus
  <2>2. n.state = "reply_ready"
    BY <2>1 DEF IsMailbox, MailboxType, SetTerminal, ClearRequestPayload
  <2> HIDE DEF n
  <2> QED BY <2>1, <2>2, CalmRefusal DEF Withdraws, TerminalStatuses, n
<1>2. CASE ~(PeekStatus(m, epoch) = "read" /\ IsExpired(m, now) /\ m.reply_status = "completed")
  <2>1. n = m BY <1>2 DEF Peek
  <2> QED BY <2>1, CalmRefl DEF PeekStatus
<1> QED BY <1>1, <1>2

(* The second one. *)
LEMMA TakeMail ==
  ASSUME NEW m, IsMailbox(m), NEW epoch, NEW generation
  PROVE  Withdraws(m, Take(m, epoch, generation))
<1>1. CASE ~Takes(m, epoch, generation)
  BY <1>1, CalmRefl DEF Take
<1>2. CASE Takes(m, epoch, generation)
  <2> DEFINE n == ClearOutcome(m)
  <2>1. Take(m, epoch, generation) = n /\ m.state = "reply_ready" /\ ~m.closed
    BY <1>2 DEF Take, Takes
  <2>2. m.reply_generation + 1 \in Nat /\ m.reply_generation + 1 > m.reply_generation
    BY DEF IsMailbox, MailboxType
  <2>3. n \in MailboxType BY <2>2, Members DEF IsMailbox, MailboxType, ClearOutcome
  <2>4. WellFormed(n)
    BY <2>1 DEF IsMailbox, MailboxType, WellFormed, ClearOutcome, Unclaimed
  <2>5. /\ n.state = "idle" /\ n.target_epoch = m.target_epoch /\ n.closed = m.closed
        /\ n.review = NoReview /\ n.reply_generation = m.reply_generation + 1
    BY DEF IsMailbox, MailboxType, ClearOutcome
  <2> HIDE DEF n
  <2> QED
    BY <2>1, <2>2, <2>3, <2>4, <2>5 DEF Withdraws, Calm, Reads, Unread, IsMailbox, Unclaimed
<1> QED BY <1>1, <1>2

(* submit into the free mailbox. *)
LEMMA SubmitMail ==
  ASSUME NEW m, IsMailbox(m), NEW epoch \in Nat \ {0}, NEW request \in Nat \ {0},
         NEW asker \in Nat, NEW deadline \in Nat \ {0}, SubmitStatus(m, epoch) = "accepted"
  PROVE  LET n == Submit(m, epoch, request, asker, deadline)
         IN  /\ IsMailbox(n) /\ n.closed = m.closed /\ n.target_epoch = m.target_epoch
             /\ n.state = "pending" /\ n.request = request /\ n.review = NoReview
             /\ m.state = "idle" /\ Reads(m, n)
<1> DEFINE n == Submit(m, epoch, request, asker, deadline)
<1>1. Submitted(m, n, epoch, request) BY SubmitLemma
<1>2. n.review = NoReview /\ n.reply_generation = m.reply_generation + 1
  BY DEF IsMailbox, MailboxType, Submit
<1>3. n.reply_generation > m.reply_generation BY <1>2 DEF IsMailbox, MailboxType
<1>4. m.closed = FALSE BY <1>1 DEF Submitted, IsMailbox, MailboxType
<1> HIDE DEF n
<1> QED BY <1>1, <1>2, <1>3, <1>4 DEF Submitted, Reads, n

(* close. *)
LEMMA CloseMail ==
  ASSUME NEW m, IsMailbox(m)
  PROVE  LET n == Close(m)
         IN  /\ IsMailbox(n) /\ n.closed = TRUE /\ n.target_epoch = None
             /\ n.state = "closed" /\ n.review = NoReview /\ Reads(m, n)
<1> DEFINE n == Close(m)
<1>1. Closed(n) BY CloseLemma
<1>2. n.review = NoReview /\ n.reply_generation = m.reply_generation + 1
  BY DEF IsMailbox, MailboxType, Close
<1>3. n.reply_generation > m.reply_generation BY <1>2 DEF IsMailbox, MailboxType
<1> HIDE DEF n
<1> QED BY <1>1, <1>2, <1>3 DEF Closed, Reads, n

-----------------------------------------------------------------------------
(* The custodians. *)

(* A custodian between two calls. *)
Orderly(c) ==
  /\ c \in CustodianType
  /\ c.record.published => c.record.state = "applying"
  /\ ~HasRecord(c) => c.record = NoRecord

(* From c to d the proposal stays or leaves; one that was published leaves *)
(* as applied or with the session, another one never as applied.           *)
Lets(c, d) ==
  /\ Orderly(d)
  /\ \/ d.record = c.record /\ (d.human \in Applied => d.human = c.human)
     \/ /\ d.record = NoRecord
        /\ d.human \in Applied => c.record.published
        /\ c.record.published => d.human \in Applied \cup {"session_unavailable"}

(* Nothing but an unpublished proposal leaves. *)
Keeps(c, d) ==
  /\ Lets(c, d) /\ d.closed = c.closed /\ d.epoch = c.epoch
  /\ c.record.published => d.record = c.record

(* The empty record is of its type. *)
LEMMA NoRecordType ==
  /\ NoRecord \in RecordType /\ NoRecord.state = "absent" /\ NoRecord.published = FALSE
  /\ NoRecord.proposal = 0
BY DEF NoRecord, RecordType, RecordStates

(* Doing nothing keeps. *)
LEMMA KeepsRefl == ASSUME NEW c, Orderly(c) PROVE Keeps(c, c)
BY DEF Keeps, Lets

(* The tombstones without the request's. *)
LEMMA OthersType ==
  ASSUME NEW c \in CustodianType, NEW request
  PROVE  Others(c, request) \in Seq(TombstoneType)
<1> DEFINE T == c.tombstones
<1>1. T \in Seq(TombstoneType) BY DEF CustodianType
<1>2. CASE Tombs(c, request) = {}
  BY <1>1, <1>2 DEF Others
<1>3. CASE Tombs(c, request) # {}
  <2> DEFINE i == CHOOSE i \in Tombs(c, request) : TRUE
             n == Len(T) - 1
             f == [j \in 1..n |-> T[IF j < i THEN j ELSE j + 1]]
  <2>1. i \in 1..Len(T) /\ Len(T) \in Nat BY <1>1, <1>3 DEF Tombs
  <2>2. n \in Nat BY <2>1
  <2>3. \A j \in 1..n : T[IF j < i THEN j ELSE j + 1] \in TombstoneType
    <3> TAKE j \in 1..n
    <3>1. (IF j < i THEN j ELSE j + 1) \in 1..Len(T) BY <2>1
    <3> HIDE DEF i, n, T
    <3> QED BY <1>1, <3>1, ElementOfSeq
  <2>4. f \in [1..n -> TombstoneType]
    <3> HIDE DEF i, n, T
    <3> QED BY <2>3
  <2>5. f \in Seq(TombstoneType)
    <3> HIDE DEF f, n
    <3> QED BY <2>2, <2>4, SeqDef
  <2> QED BY <1>3, <2>5 DEF Others
<1> QED BY <1>2, <1>3

(* From c to d only the tombstones differ. *)
SameBut(c, d) ==
  /\ d \in CustodianType /\ d.closed = c.closed /\ d.epoch = c.epoch
  /\ d.record = c.record /\ d.revision = c.revision /\ d.human = c.human

(* _remember_locked changes the tombstones only. *)
LEMMA RememberLemma ==
  ASSUME NEW c \in CustodianType, NEW request \in Nat, NEW asker \in Nat, NEW intent \in Nat,
         NEW reason \in Reasons
  PROVE  SameBut(c, Remember(c, request, asker, intent, reason))
<1> DEFINE t == [request |-> request, pairing |-> asker, intent |-> intent, reason |-> reason]
           all == Append(Others(c, request), t)
           kept == IF Len(all) > MaxTombstones THEN Tail(all) ELSE all
<1>1. t \in TombstoneType BY DEF TombstoneType
<1>2. all \in Seq(TombstoneType) /\ all # <<>>
  <2> HIDE DEF t
  <2> QED BY <1>1, OthersType, AppendProperties
<1>3. kept \in Seq(TombstoneType)
  <2> HIDE DEF all
  <2> QED BY <1>2, HeadTailProperties
<1>4. Remember(c, request, asker, intent, reason) = [c EXCEPT !.tombstones = kept]
  BY DEF Remember
<1> HIDE DEF kept
<1> QED BY <1>3, <1>4 DEF CustodianType, SameBut

(* From c to d the proposal left, as the human is told. *)
Left(c, d, human) ==
  /\ Orderly(d) /\ d.closed = c.closed /\ d.epoch = c.epoch
  /\ d.record = NoRecord /\ d.human = human

(* A proposal leaves custody. *)
LEMMA RetireLemma ==
  ASSUME NEW c, Orderly(c), NEW reason \in Reasons, NEW human \in HumanStates
  PROVE  Left(c, Retire(c, reason, human), human)
<1> DEFINE r == Remember(c, c.record.request, c.record.pairing, c.record.intent, reason)
<1>1. c.record.request \in Nat /\ c.record.pairing \in Nat /\ c.record.intent \in Nat
      /\ c \in CustodianType /\ c.revision + 1 \in Nat
  BY DEF Orderly, CustodianType, RecordType
<1>2. r \in CustodianType /\ r.closed = c.closed /\ r.epoch = c.epoch
  <2>1. SameBut(c, r) BY <1>1, RememberLemma
  <2> HIDE DEF r
  <2> QED BY <2>1 DEF SameBut
<1>3. Retire(c, reason, human) =
        [r EXCEPT !.record = NoRecord, !.revision = c.revision + 1, !.human = human]
  BY DEF Retire
<1> HIDE DEF r
<1>4. Retire(c, reason, human) \in CustodianType
  BY <1>1, <1>2, <1>3, NoRecordType DEF CustodianType
<1>5. /\ Retire(c, reason, human).closed = c.closed /\ Retire(c, reason, human).epoch = c.epoch
      /\ Retire(c, reason, human).record = NoRecord /\ Retire(c, reason, human).human = human
  BY <1>2, <1>3 DEF CustodianType
<1> QED BY <1>4, <1>5, NoRecordType DEF Orderly, HasRecord, Left

(* An unpublished proposal retired as anything but applied is let go.      *)
LEMMA RetireKeeps ==
  ASSUME NEW c, Orderly(c), ~c.record.published, NEW reason \in Reasons,
         NEW human \in HumanStates \ Applied
  PROVE  Keeps(c, Retire(c, reason, human))
BY RetireLemma DEF Keeps, Lets, Left

(* Expiry: only what is waiting and whose time has run out leaves.         *)
LEMMA ExpireLemma ==
  ASSUME NEW c, Orderly(c), NEW now \in Nat
  PROVE  LET d == Expire(c, now)
         IN  /\ Keeps(c, d)
             /\ d.record = c.record
                \/ (d.record = NoRecord /\ c.record.state \in {"prepared", "pending"}
                    /\ now >= c.record.expires)
             /\ d.record.state \in {"prepared", "pending"} => now < d.record.expires
<1>1. CASE c.record.state \notin {"prepared", "pending"} \/ now < c.record.expires
  BY <1>1, KeepsRefl DEF Expire
<1>2. CASE ~(c.record.state \notin {"prepared", "pending"} \/ now < c.record.expires)
  <2>1. Expire(c, now) \in {Retire(c, "review_unavailable", "computation_failure"),
                            Retire(c, "proposal_expired", "expired")}
    BY <1>2 DEF Expire
  <2>2. ~c.record.published BY <1>2 DEF Orderly
  <2>3. {"computation_failure", "expired"} \subseteq HumanStates \ Applied
    BY DEF HumanStates, Applied
  <2>4. Keeps(c, Expire(c, now)) /\ Expire(c, now).record = NoRecord
    <3>1. CASE Expire(c, now) = Retire(c, "review_unavailable", "computation_failure")
      <4>1. Left(c, Expire(c, now), "computation_failure")
        BY <2>3, <3>1, RetireLemma DEF Reasons
      <4>2. Keeps(c, Expire(c, now)) BY <2>2, <2>3, <3>1, RetireKeeps DEF Reasons
      <4> QED BY <4>1, <4>2 DEF Left
    <3>2. CASE Expire(c, now) = Retire(c, "proposal_expired", "expired")
      <4>1. Left(c, Expire(c, now), "expired") BY <2>3, <3>2, RetireLemma DEF Reasons
      <4>2. Keeps(c, Expire(c, now)) BY <2>2, <2>3, <3>2, RetireKeeps DEF Reasons
      <4> QED BY <4>1, <4>2 DEF Left
    <3> QED BY <2>1, <3>1, <3>2
  <2>5. now >= c.record.expires /\ c.record.state \in {"prepared", "pending"}
    BY <1>2 DEF Orderly, CustodianType, RecordType
  <2> QED BY <2>4, <2>5, NoRecordType
<1> QED BY <1>1, <1>2

(* Keeping twice is keeping. *)
LEMMA KeepsTrans ==
  ASSUME NEW c, NEW d, NEW e, Orderly(c), Keeps(c, d), Keeps(d, e)
  PROVE  Keeps(c, e)
<1>1. Orderly(e) /\ e.closed = c.closed /\ e.epoch = c.epoch BY DEF Keeps, Lets
<1>2. c.record.published => e.record = c.record BY DEF Keeps
<1>3. CASE d.record = c.record
  BY <1>1, <1>2, <1>3 DEF Keeps, Lets
<1>4. CASE d.record # c.record
  <2>1. d.record = NoRecord /\ ~c.record.published BY <1>4 DEF Keeps, Lets
  <2>2. e.record = NoRecord BY <2>1, NoRecordType DEF Keeps, Lets
  <2>3. e.human \notin Applied
    BY <2>1, <2>2, <1>4, NoRecordType DEF Keeps, Lets
  <2> QED BY <1>1, <1>2, <2>1, <2>2, <2>3 DEF Keeps, Lets
<1> QED BY <1>3, <1>4

(* mark_stale. *)
LEMMA MarkStaleLemma ==
  ASSUME NEW c, Orderly(c), NEW p
  PROVE  /\ Keeps(c, MarkStale(c, p))
         /\ MarkStale(c, p).record # c.record =>
              c.record.proposal = p /\ c.record.state = "pending" /\ ~c.closed
              /\ MarkStale(c, p).human = "stale"
<1>1. CASE IsPending(c, p)
  <2>1. ~c.record.published BY <1>1 DEF Orderly, IsPending
  <2>2. "stale" \in HumanStates \ Applied BY DEF HumanStates, Applied
  <2>3. MarkStale(c, p) = Retire(c, "stale_target", "stale") BY <1>1 DEF MarkStale
  <2>4. Keeps(c, MarkStale(c, p)) BY <2>1, <2>2, <2>3, RetireKeeps DEF Reasons
  <2>5. Left(c, MarkStale(c, p), "stale") BY <2>2, <2>3, RetireLemma DEF Reasons
  <2> QED BY <1>1, <2>4, <2>5 DEF IsPending, Left
<1>2. CASE ~IsPending(c, p)
  BY <1>2, KeepsRefl DEF MarkStale
<1> QED BY <1>1, <1>2

(* The generation custodian drops a proposal of another pairing. *)
LEMMA DropLemma ==
  ASSUME NEW c, Orderly(c), ~c.record.published, NEW asker, NEW epoch
  PROVE  Keeps(c, DropOtherPairing(c, asker, epoch))
<1> DEFINE d == DropOtherPairing(c, asker, epoch)
<1>1. "stale" \in HumanStates \ Applied /\ "stale_target" \in Reasons
  BY DEF HumanStates, Applied, Reasons
<1>2. d = c \/ d = Retire(c, "stale_target", "stale") BY DEF DropOtherPairing
<1> HIDE DEF d
<1>3. Keeps(c, d) BY <1>1, <1>2, RetireKeeps, KeepsRefl
<1> QED BY <1>3 DEF d

(* reject and dismiss. *)
LEMMA ResolveLemma ==
  ASSUME NEW c, Orderly(c), NEW p, NEW human \in {"rejected", "dismissed"}
  PROVE  /\ Keeps(c, Resolve(c, p, human))
         /\ Resolve(c, p, human).record # c.record =>
              c.record.proposal = p /\ ~c.closed /\ Resolve(c, p, human).human = human
<1>1. CASE IsPending(c, p)
  <2>1. ~c.record.published BY <1>1 DEF Orderly, IsPending
  <2>2. human \in HumanStates \ Applied BY DEF HumanStates, Applied
  <2>3. Resolve(c, p, human) = Retire(c, "proposal_cancelled", human) BY <1>1 DEF Resolve
  <2>4. Keeps(c, Resolve(c, p, human)) BY <2>1, <2>2, <2>3, RetireKeeps DEF Reasons
  <2>5. Left(c, Resolve(c, p, human), human) BY <2>2, <2>3, RetireLemma DEF Reasons
  <2> QED BY <1>1, <2>4, <2>5 DEF IsPending, Left
<1>2. CASE ~IsPending(c, p)
  BY <1>2, KeepsRefl DEF Resolve
<1> QED BY <1>1, <1>2

(* abort_prepared and abort_prepared_for_claim end prepared proposals only. *)
LEMMA AbortLemma ==
  ASSUME NEW c, Orderly(c), NEW p, NEW reason \in Reasons
  PROVE  /\ Keeps(c, AbortPrepared(c, p, reason))
         /\ AbortPrepared(c, p, reason).record # c.record => c.record.state = "prepared"
<1>1. CASE c.record.state = "prepared" /\ c.record.proposal = p
  <2>1. ~c.record.published BY <1>1 DEF Orderly
  <2>2. "computation_failure" \in HumanStates \ Applied BY DEF HumanStates, Applied
  <2>3. AbortPrepared(c, p, reason) = Retire(c, reason, "computation_failure")
    BY <1>1 DEF AbortPrepared
  <2> QED BY <1>1, <2>1, <2>2, <2>3, RetireKeeps
<1>2. CASE ~(c.record.state = "prepared" /\ c.record.proposal = p)
  BY <1>2, KeepsRefl DEF AbortPrepared
<1> QED BY <1>1, <1>2

(* The same for a claim. *)
LEMMA AbortForClaimLemma ==
  ASSUME NEW c, Orderly(c), NEW request, NEW asker, NEW epoch
  PROVE  LET d == AbortPreparedForClaim(c, request, asker, epoch)
         IN  Keeps(c, d) /\ (d.record # c.record => c.record.state = "prepared")
<1> DEFINE hit == /\ c.record.state = "prepared" /\ c.record.request = request
                  /\ c.record.pairing = asker /\ c.record.epoch = epoch
<1>1. CASE hit
  <2>1. ~c.record.published BY <1>1 DEF Orderly
  <2>2. "computation_failure" \in HumanStates \ Applied BY DEF HumanStates, Applied
  <2>3. AbortPreparedForClaim(c, request, asker, epoch) =
          Retire(c, "review_unavailable", "computation_failure")
    BY <1>1 DEF AbortPreparedForClaim
  <2> QED BY <1>1, <2>1, <2>2, <2>3, RetireKeeps DEF Reasons
<1>2. CASE ~hit
  BY <1>2, KeepsRefl DEF AbortPreparedForClaim
<1> QED BY <1>1, <1>2

(* From c to d only record, tombstones, revision and what the human is     *)
(* shown may differ.                                                       *)
Same(c, d) == Orderly(d) /\ d.closed = c.closed /\ d.epoch = c.epoch

(* check_request and prepare find a request new only in an open custodian  *)
(* of its target, without a record and without a tombstone of it.          *)
LEMMA DecisionLemma ==
  ASSUME NEW c, Orderly(c), NEW request, NEW asker, NEW epoch, NEW intent
  PROVE  /\ Decision(c, request, asker, epoch, intent) = "new" =>
              ~c.closed /\ c.epoch = epoch /\ ~HasRecord(c) /\ Tombs(c, request) = {}
         /\ Decision(c, request, asker, epoch, intent) = "retry_pending" =>
              ~c.closed /\ c.epoch = epoch /\ c.record.state = "pending"
<1> DEFINE d == Decision(c, request, asker, epoch, intent)
           t == c.tombstones[CHOOSE i \in Tombs(c, request) : TRUE]
<1>1. CASE ~c.closed /\ epoch = c.epoch /\ Tombs(c, request) # {}
  <2>1. t \in TombstoneType
    <3>1. (CHOOSE i \in Tombs(c, request) : TRUE) \in 1..Len(c.tombstones)
      BY <1>1 DEF Tombs
    <3>2. c.tombstones \in Seq(TombstoneType) BY DEF Orderly, CustodianType
    <3> QED BY <3>1, <3>2, ElementOfSeq
  <2>2. d = Replayed(t, asker, intent, t.reason) BY <1>1 DEF Decision
  <2>3. t.reason \notin {"new", "retry_pending"} BY <2>1 DEF TombstoneType, Reasons
  <2> HIDE DEF t
  <2> QED BY <2>2, <2>3 DEF Replayed
<1>2. CASE ~c.closed /\ epoch = c.epoch /\ Tombs(c, request) = {}
  BY <1>2 DEF Decision, Replayed, HasRecord
<1>3. CASE c.closed \/ epoch # c.epoch
  BY <1>3 DEF Decision
<1> QED BY <1>1, <1>2, <1>3

(* What prepare records for a new request. *)
Prepared(c, d, request, epoch, preview, proposal) ==
  /\ Same(c, d) /\ ~HasRecord(c) /\ ~c.closed /\ c.epoch = epoch
  /\ d.record.state = "prepared" /\ d.record.proposal = proposal
  /\ d.record.request = request /\ d.record.epoch = epoch
  /\ d.record.preview = preview /\ d.record.published = FALSE
  /\ d.human = "prepared" /\ d.tombstones = c.tombstones
  /\ Tombs(c, request) = {}

(* From c to d a new request was prepared, or the record kept. *)
PrepareStep(c, d, decision, request, epoch, preview, proposal) ==
  IF decision = "new" THEN Prepared(c, d, request, epoch, preview, proposal)
  ELSE Keeps(c, d) /\ d.record = c.record

(* prepare records a new request and keeps the record otherwise. *)
LEMMA PrepareLemma ==
  ASSUME NEW c, Orderly(c), NEW request \in Nat, NEW asker \in Nat, NEW epoch \in Nat,
         NEW intent \in Nat, NEW revision, NEW preview \in Nat, NEW proposal \in Nat,
         NEW now \in Nat
  PROVE  PrepareStep(c, Prepare(c, request, asker, epoch, intent, revision, preview, proposal, now),
                     PrepareDecision(c, request, asker, epoch, intent, revision),
                     request, epoch, preview, proposal)
<1> DEFINE decision == PrepareDecision(c, request, asker, epoch, intent, revision)
           d == Prepare(c, request, asker, epoch, intent, revision, preview, proposal, now)
<1>1. CASE decision = "new"
  <2> DEFINE r == [state |-> "prepared", proposal |-> proposal,
                   request |-> request, pairing |-> asker,
                   epoch |-> epoch, intent |-> intent, preview |-> preview,
                   expires |-> now + PreparedLifetime, published |-> FALSE]
  <2>1. Decision(c, request, asker, epoch, intent) = "new" BY <1>1 DEF PrepareDecision
  <2>2. ~c.closed /\ c.epoch = epoch /\ ~HasRecord(c) /\ Tombs(c, request) = {}
    BY <2>1, DecisionLemma
  <2>3. r \in RecordType
    BY CustodyAssumption DEF RecordType, RecordStates
  <2>4. d = [c EXCEPT !.human = "prepared", !.record = r]
    BY <1>1 DEF Prepare
  <2>5. /\ r.state = "prepared" /\ r.proposal = proposal /\ r.request = request
        /\ r.epoch = epoch /\ r.preview = preview /\ r.published = FALSE
    OBVIOUS
  <2> HIDE DEF r, d, decision
  <2>6. d \in CustodianType
    BY <2>3, <2>4 DEF Orderly, CustodianType, HumanStates
  <2>7. d.closed = c.closed /\ d.epoch = c.epoch /\ d.record = r /\ d.human = "prepared"
        /\ d.tombstones = c.tombstones
    BY <2>4 DEF Orderly, CustodianType
  <2>8. Prepared(c, d, request, epoch, preview, proposal)
    BY <2>2, <2>5, <2>6, <2>7 DEF Prepared, Same, Orderly, HasRecord
  <2> QED BY <1>1, <2>8 DEF d, decision, PrepareStep
<1>2. CASE decision # "new"
  <2>1. CASE ~c.closed /\ (epoch # c.epoch \/ revision # c.revision)
    <3>1. decision \in Reasons
      BY <2>1 DEF PrepareDecision, Decision, Reasons
    <3>2. d = Remember(c, request, asker, intent, decision)
      BY <1>2, <2>1 DEF Prepare
    <3>3. c \in CustodianType BY DEF Orderly
    <3> HIDE DEF decision, d
    <3>4. SameBut(c, d) BY <3>1, <3>2, <3>3, RememberLemma
    <3>5. Keeps(c, d) /\ d.record = c.record
      BY <3>4 DEF SameBut, Keeps, Lets, Orderly, HasRecord
    <3> QED BY <1>2, <3>5 DEF d, decision, PrepareStep
  <2>2. CASE ~(~c.closed /\ (epoch # c.epoch \/ revision # c.revision))
    <3>1. d = c BY <1>2, <2>2 DEF Prepare
    <3> QED BY <1>2, <3>1, KeepsRefl DEF PrepareStep
  <2> QED BY <2>1, <2>2
<1> QED BY <1>1, <1>2

(* remember_failure keeps the record. *)
LEMMA FailureLemma ==
  ASSUME NEW c, Orderly(c), NEW request \in Nat, NEW asker \in Nat, NEW epoch,
         NEW intent \in Nat, NEW revision
  PROVE  LET d == RememberFailure(c, request, asker, epoch, intent, revision,
                                  "invalid_preview")
         IN  Keeps(c, d) /\ d.record = c.record
<1> DEFINE d == RememberFailure(c, request, asker, epoch, intent, revision, "invalid_preview")
<1>1. d = c \/ d = Remember(c, request, asker, intent, "invalid_preview")
  BY DEF RememberFailure
<1>2. CASE d = Remember(c, request, asker, intent, "invalid_preview")
  <2>1. SameBut(c, d) BY <1>2, RememberLemma DEF Orderly, Reasons
  <2> HIDE DEF d
  <2>2. Keeps(c, d) /\ d.record = c.record
    BY <2>1 DEF SameBut, Keeps, Lets, Orderly, HasRecord
  <2> QED BY <2>2 DEF d
<1> QED BY <1>1, <1>2, KeepsRefl

(* From r to s only the state, its end and the mark of a record changed.   *)
SameProposal(r, s) ==
  /\ s.proposal = r.proposal /\ s.request = r.request /\ s.epoch = r.epoch
  /\ s.preview = r.preview /\ s.pairing = r.pairing

(* commit makes the prepared proposal pending. *)
LEMMA CommitLemma ==
  ASSUME NEW c, Orderly(c), c.record.state = "prepared", NEW now \in Nat
  PROVE  LET d == Commit(c, now)
         IN  /\ Same(c, d) /\ SameProposal(c.record, d.record)
             /\ d.record.state = "pending" /\ d.record.expires = now + ProposalTTL
             /\ d.record.published = FALSE /\ d.tombstones = c.tombstones
             /\ d.human = "pending"
<1> DEFINE r == c.record
           s == [r EXCEPT !.state = "pending", !.expires = now + ProposalTTL]
           d == Commit(c, now)
<1>1. r \in RecordType /\ r.published = FALSE BY DEF Orderly, CustodianType, RecordType
<1>2. now + ProposalTTL \in Nat BY CustodyAssumption
<1> HIDE DEF r
<1>3. /\ s \in RecordType /\ s.state = "pending" /\ s.expires = now + ProposalTTL
      /\ s.published = FALSE /\ SameProposal(r, s)
  BY <1>1, <1>2 DEF RecordType, RecordStates, SameProposal
<1>4. d = [c EXCEPT !.record = s, !.human = "pending"]
  BY DEF Commit, r, Orderly, CustodianType, RecordType
<1> HIDE DEF s, d
<1>5. d \in CustodianType /\ d.closed = c.closed /\ d.epoch = c.epoch /\ d.record = s
      /\ d.tombstones = c.tombstones /\ d.human = "pending"
  BY <1>3, <1>4 DEF Orderly, CustodianType, HumanStates
<1>6. Same(c, d) BY <1>3, <1>5 DEF Same, Orderly, HasRecord
<1> QED BY <1>3, <1>5, <1>6 DEF d, r

(* claim_for_apply. *)
LEMMA ClaimApplyLemma ==
  ASSUME NEW c, Orderly(c), c.record.state = "pending"
  PROVE  LET d == ClaimForApply(c)
         IN  /\ Same(c, d) /\ SameProposal(c.record, d.record)
             /\ d.record.state = "applying" /\ d.record.published = FALSE
             /\ d.tombstones = c.tombstones /\ d.human = "applying"
<1> DEFINE r == c.record
           s == [r EXCEPT !.state = "applying"]
           d == ClaimForApply(c)
<1>1. r \in RecordType /\ r.published = FALSE BY DEF Orderly, CustodianType, RecordType
<1> HIDE DEF r
<1>3. /\ s \in RecordType /\ s.state = "applying" /\ s.published = FALSE /\ SameProposal(r, s)
  BY <1>1 DEF RecordType, RecordStates, SameProposal
<1>4. d = [c EXCEPT !.record = s, !.revision = c.revision + 1, !.human = "applying"]
  BY DEF ClaimForApply, r, Orderly, CustodianType
<1> HIDE DEF s, d
<1>5. c.revision + 1 \in Nat BY DEF Orderly, CustodianType
<1>6. d \in CustodianType /\ d.closed = c.closed /\ d.epoch = c.epoch /\ d.record = s
      /\ d.tombstones = c.tombstones /\ d.human = "applying"
  BY <1>3, <1>4, <1>5 DEF Orderly, CustodianType, HumanStates
<1>7. Same(c, d) BY <1>3, <1>6 DEF Same, Orderly, HasRecord
<1> QED BY <1>3, <1>6, <1>7 DEF d, r

(* The mark of an apply is set and taken back. *)
LEMMA MarkLemma ==
  ASSUME NEW c, Orderly(c), c.record.state = "applying", NEW b \in BOOLEAN
  PROVE  LET d == [c EXCEPT !.record.published = b, !.revision = @ + 1]
         IN  /\ Same(c, d) /\ SameProposal(c.record, d.record)
             /\ d.record.state = "applying" /\ d.record.published = b
             /\ d.record.expires = c.record.expires
             /\ d.tombstones = c.tombstones /\ d.human = c.human
<1> DEFINE r == c.record
           s == [r EXCEPT !.published = b]
           d == [c EXCEPT !.record.published = b, !.revision = @ + 1]
<1>1. r \in RecordType /\ r.state = "applying" BY DEF Orderly, CustodianType
<1> HIDE DEF r
<1>3. /\ s \in RecordType /\ s.state = "applying" /\ s.published = b /\ SameProposal(r, s)
      /\ s.expires = r.expires
  BY <1>1 DEF RecordType, RecordStates, SameProposal
<1>4. d = [c EXCEPT !.record = s, !.revision = c.revision + 1]
  BY DEF r, Orderly, CustodianType
<1> HIDE DEF s, d
<1>5. c.revision + 1 \in Nat BY DEF Orderly, CustodianType
<1>6. d \in CustodianType /\ d.closed = c.closed /\ d.epoch = c.epoch /\ d.record = s
      /\ d.tombstones = c.tombstones /\ d.human = c.human
  BY <1>3, <1>4, <1>5 DEF Orderly, CustodianType
<1>7. Same(c, d) BY <1>3, <1>6 DEF Same, Orderly, HasRecord
<1> QED BY <1>3, <1>6, <1>7 DEF d, r

(* A new target retires the proposal unless its apply made the target.     *)
LEMMA SyncCustodian ==
  ASSUME NEW c, Orderly(c), NEW epoch \in Nat \ {0}, ~c.closed
  PROVE  LET d == SynchronizeCustody(c, epoch)
         IN  /\ Lets(c, d) /\ d.closed = c.closed /\ d.epoch = epoch
             /\ c.record.published => d.record = c.record
             /\ epoch = c.epoch => d = c
<1> DEFINE k == [c EXCEPT !.epoch = epoch]
           d == SynchronizeCustody(c, epoch)
<1>1. CASE epoch = c.epoch
  BY <1>1, KeepsRefl DEF SynchronizeCustody, Keeps
<1>2. CASE epoch # c.epoch /\ HasRecord(c) /\ ~c.record.published
  <2>1. /\ k \in CustodianType /\ k.record = c.record /\ k.epoch = epoch
        /\ k.closed = c.closed
    BY DEF Orderly, CustodianType
  <2>2. "stale" \in HumanStates /\ "stale" \notin Applied /\ "stale_target" \in Reasons
    BY DEF HumanStates, Applied, Reasons
  <2>3. d = Retire(k, "stale_target", "stale") BY <1>2 DEF SynchronizeCustody
  <2> HIDE DEF k, d
  <2>4. Orderly(k) BY <2>1 DEF Orderly, HasRecord
  <2>5. Left(k, d, "stale") BY <2>2, <2>3, <2>4, RetireLemma
  <2>6. Lets(c, d) /\ d.closed = c.closed /\ d.epoch = epoch
    BY <1>2, <2>1, <2>2, <2>5 DEF Left, Lets
  <2> QED BY <1>2, <2>6 DEF d
<1>3. CASE epoch # c.epoch /\ ~(HasRecord(c) /\ ~c.record.published)
  <2>1. d = [c EXCEPT !.epoch = epoch, !.revision = c.revision + 1]
    BY <1>3 DEF SynchronizeCustody, Orderly, CustodianType
  <2>0. c.revision + 1 \in Nat BY DEF Orderly, CustodianType
  <2> HIDE DEF d
  <2>2. /\ d \in CustodianType /\ d.record = c.record /\ d.epoch = epoch
        /\ d.closed = c.closed /\ d.human = c.human
    BY <2>0, <2>1 DEF Orderly, CustodianType
  <2>3. Lets(c, d) BY <2>2 DEF Lets, Orderly, HasRecord
  <2> QED BY <1>3, <2>2, <2>3 DEF d
<1> QED BY <1>1, <1>2, <1>3

(* cancel. *)
LEMMA CancelLemma ==
  ASSUME NEW c, Orderly(c)
  PROVE  /\ Keeps(c, CancelCustody(c))
         /\ ~c.record.published => CancelCustody(c).record = NoRecord
<1>1. CASE c.record.published
  BY <1>1, KeepsRefl DEF CancelCustody
<1>2. CASE ~c.record.published /\ HasRecord(c)
  <2>1. CancelCustody(c) = Retire(c, "proposal_cancelled", "dismissed")
    BY <1>2 DEF CancelCustody
  <2>2. "dismissed" \in HumanStates \ Applied /\ "proposal_cancelled" \in Reasons
    BY DEF HumanStates, Applied, Reasons
  <2>3. Keeps(c, CancelCustody(c)) BY <1>2, <2>1, <2>2, RetireKeeps
  <2>4. Left(c, CancelCustody(c), "dismissed") BY <2>1, <2>2, RetireLemma
  <2> QED BY <2>3, <2>4 DEF Left
<1>3. CASE ~c.record.published /\ ~HasRecord(c)
  <2> DEFINE d == [c EXCEPT !.revision = @ + 1]
  <2>1. CancelCustody(c) = d BY <1>3 DEF CancelCustody
  <2>2. /\ d \in CustodianType /\ d.record = c.record /\ d.epoch = c.epoch
        /\ d.closed = c.closed /\ d.human = c.human
    BY DEF Orderly, CustodianType
  <2> HIDE DEF d
  <2>3. Keeps(c, d) BY <2>2 DEF Keeps, Lets, Orderly, HasRecord
  <2> QED BY <1>3, <2>1, <2>2, <2>3 DEF Orderly
<1> QED BY <1>1, <1>2, <1>3

(* close. *)
LEMMA CloseCustodian ==
  ASSUME NEW c, Orderly(c)
  PROVE  LET d == CloseCustody(c)
         IN  Lets(c, d) /\ d.closed = TRUE /\ d.record = NoRecord
             /\ d.human = "session_unavailable" /\ d.tombstones = <<>>
<1> DEFINE d == CloseCustody(c)
<1>1. <<>> \in Seq(TombstoneType) /\ c.revision + 1 \in Nat
      /\ "session_unavailable" \in HumanStates
      /\ "session_unavailable" \notin Applied
  BY DEF Orderly, CustodianType, HumanStates, Applied
<1>2. d \in CustodianType /\ d.closed = TRUE /\ d.record = NoRecord
      /\ d.human = "session_unavailable" /\ d.tombstones = <<>>
  BY <1>1, NoRecordType DEF CloseCustody, Orderly, CustodianType
<1> HIDE DEF d
<1>3. Lets(c, d) BY <1>1, <1>2, NoRecordType DEF Lets, Orderly, HasRecord
<1> QED BY <1>2, <1>3 DEF d

-----------------------------------------------------------------------------
(* What the steps have in common. *)

CustodyParts ==
  /\ cust \in [Kinds -> CustodianType] /\ outcome \in [Proposals -> HumanStates]
  /\ RecordsOK /\ OriginOK /\ ReplacedOK

(* Mailbox and custodians are what their lemmas ask for. *)
LEMMA Usable ==
  ASSUME IInv
  PROVE  /\ IsMailbox(mb)
         /\ \A k \in Kinds : Orderly(cust[k])
         /\ CustodyParts /\ clock \in Nat
<1>1. IsMailbox(mb) BY DEF IInv, Typed, TypeOK, MailOK, IsMailbox
<1>2. \A k \in Kinds : Orderly(cust[k])
  BY DEF IInv, Typed, TypeOK, RecordsOK, Orderly
<1>3. CustodyParts /\ clock \in Nat BY DEF IInv, Typed, TypeOK, CustodyParts
<1> QED BY <1>1, <1>2, <1>3

(* Only the outcome of a proposal that leaves its custodian is recorded.   *)
LEMMA OutcomeStep ==
  ASSUME CustodyParts, NEW c \in [Kinds -> CustodianType], Custody(c)
  PROVE  /\ cust' = c /\ outcome' \in [Proposals -> HumanStates]
         /\ \A p \in Proposals :
              \/ \E k \in Kinds : /\ cust[k].record.proposal = p /\ c[k].record.proposal # p
                                  /\ outcome'[p] = c[k].human
              \/ /\ \A k \in Kinds : cust[k].record.proposal = p => c[k].record.proposal = p
                 /\ outcome'[p] = outcome[p]
<1> DEFINE who(p) == CHOOSE k \in Kinds : cust[k].record.proposal = p
           leaves(p) == \E k \in Kinds : cust[k].record.proposal = p /\ c[k].record.proposal # p
<1>1. cust' = c
      /\ outcome' = [p \in Proposals |-> IF leaves(p) THEN c[who(p)].human ELSE outcome[p]]
  BY DEF Custody
<1>2. \A p \in Proposals : leaves(p) =>
        /\ who(p) \in Kinds /\ cust[who(p)].record.proposal = p
        /\ c[who(p)].record.proposal # p
  <2> SUFFICES ASSUME NEW p \in Proposals, NEW k \in Kinds,
                      cust[k].record.proposal = p, c[k].record.proposal # p
               PROVE  /\ who(p) \in Kinds /\ cust[who(p)].record.proposal = p
                      /\ c[who(p)].record.proposal # p
    OBVIOUS
  <2>1. who(p) \in Kinds /\ cust[who(p)].record.proposal = p OBVIOUS
  <2>2. HasRecord(cust[k])
    <3>1. p # 0 BY DEF Proposals
    <3> QED BY <3>1, NoRecordType DEF CustodyParts, RecordsOK
  <2>3. who(p) = k
    <3>1. PICK j \in Kinds : j = who(p) /\ cust[j].record.proposal = p BY <2>1
    <3>2. j = k BY <3>1, <2>2 DEF CustodyParts, RecordsOK
    <3> QED BY <3>1, <3>2
  <2> QED BY <2>1, <2>3
<1>3. \A p \in Proposals : leaves(p) => c[who(p)].human \in HumanStates
  BY <1>2 DEF CustodianType
<1> HIDE DEF who
<1>4. outcome' \in [Proposals -> HumanStates]
  BY <1>1, <1>3 DEF CustodyParts
<1>5. ASSUME NEW p \in Proposals
      PROVE  \/ \E k \in Kinds : /\ cust[k].record.proposal = p /\ c[k].record.proposal # p
                                 /\ outcome'[p] = c[k].human
             \/ /\ \A k \in Kinds : cust[k].record.proposal = p => c[k].record.proposal = p
                /\ outcome'[p] = outcome[p]
  BY <1>1, <1>2
<1> QED BY <1>1, <1>4, <1>5

(* The tracker keeps its target or has a new epoch. *)
Tracks ==
  /\ epochs \in Nat /\ epochs' \in Nat /\ epochs <= epochs'
  /\ tracker' = tracker \/ ~tracker'.initialized \/ tracker'.epoch = epochs + 1

(* Custodians that let proposals go keep the invariant. *)
LEMMA CustodyLets ==
  ASSUME CustodyParts, NEW c \in [Kinds -> CustodianType], Custody(c),
         \A k \in Kinds : Lets(cust[k], c[k]),
         \A k \in Kinds : c[k].record # cust[k].record /\ c[k].human \in Applied
                            => replaced[cust[k].record.proposal] = 1,
         UNCHANGED <<proposals, origin, replaced>>, Tracks, proposals \in 0..MaxProposals
  PROVE  CustodyParts'
<1>1. cust' = c /\ outcome' \in [Proposals -> HumanStates]
  BY OutcomeStep
<1>2. \A k \in Kinds : cust'[k].record = cust[k].record \/ cust'[k].record = NoRecord
  BY <1>1 DEF Lets
<1>3. RecordsOK'
  <2>1. ASSUME NEW k \in Kinds
        PROVE  LET r == cust'[k].record
               IN  /\ IF HasRecord(cust'[k])
                      THEN r.proposal \in 1..proposals' /\ r.epoch \in 1..epochs'
                      ELSE r = NoRecord
                   /\ r.state = "applying" => k = "swap"
                   /\ r.published => r.state = "applying"
                   /\ \A j \in Kinds \ {k} : HasRecord(cust'[k]) => cust'[j].record.proposal # r.proposal
    <3>1. CASE cust'[k].record = NoRecord
      BY <3>1, NoRecordType DEF HasRecord
    <3>2. CASE cust'[k].record = cust[k].record
      <4>1. HasRecord(cust[k]) => cust[k].record.proposal \in 1..proposals
        BY DEF CustodyParts, RecordsOK
      <4>2. HasRecord(cust[k]) => cust[k].record.proposal # 0
        BY <4>1
      <4>3. \A j \in Kinds \ {k} : HasRecord(cust[k]) =>
              cust'[j].record.proposal # cust[k].record.proposal
        BY <1>2, <4>2, NoRecordType DEF CustodyParts, RecordsOK
      <4>4. /\ IF HasRecord(cust[k])
               THEN cust[k].record.proposal \in 1..proposals' /\ cust[k].record.epoch \in 1..epochs'
               ELSE cust[k].record = NoRecord
            /\ cust[k].record.state = "applying" => k = "swap"
            /\ cust[k].record.published => cust[k].record.state = "applying"
        BY <4>1 DEF CustodyParts, RecordsOK, Tracks
      <4> QED BY <3>2, <4>3, <4>4 DEF HasRecord
    <3> QED BY <1>2, <3>1, <3>2
  <2> QED BY <2>1 DEF RecordsOK, HasRecord
<1>4. OriginOK'
  <2> SUFFICES ASSUME NEW k \in Kinds, cust'[k].record.state \in Committed
               PROVE  LET r == cust'[k].record
                      IN  /\ origin'[r.proposal].kind = k
                          /\ origin'[r.proposal].content = r.preview
                          /\ r.state = "pending" => origin'[r.proposal].expires = r.expires
                          /\ tracker'.initialized /\ r.epoch = tracker'.epoch =>
                               origin'[r.proposal].project = tracker'.target
    BY DEF OriginOK
  <2>1. cust'[k].record = cust[k].record BY <1>2, NoRecordType DEF Committed
  <2>2. cust[k].record.epoch \in 1..epochs
    BY <2>1 DEF CustodyParts, RecordsOK, HasRecord, Committed
  <2>3. tracker'.initialized /\ cust[k].record.epoch = tracker'.epoch => tracker' = tracker
    BY <2>2 DEF Tracks
  <2> QED BY <2>1, <2>3 DEF CustodyParts, OriginOK
<1>5. ReplacedOK'
  <2>1. \A p \in Proposals : replaced'[p] \in {0, 1} /\ (p > proposals' => replaced'[p] = 0)
    BY DEF CustodyParts, ReplacedOK
  <2>2. \A k \in Kinds : HasRecord(cust'[k]) /\ ~cust'[k].record.published =>
          replaced'[cust'[k].record.proposal] = 0
    BY <1>2, NoRecordType DEF CustodyParts, ReplacedOK, HasRecord
  <2>3. ASSUME NEW p \in Proposals, outcome'[p] \in Applied PROVE replaced'[p] = 1
    <3>1. CASE \E k \in Kinds : /\ cust[k].record.proposal = p /\ c[k].record.proposal # p
                                /\ outcome'[p] = c[k].human
      BY <2>3, <3>1
    <3>2. CASE outcome'[p] = outcome[p]
      BY <2>3, <3>2 DEF CustodyParts, ReplacedOK
    <3> QED BY <3>1, <3>2, OutcomeStep
  <2>4. ASSUME NEW p \in Proposals, replaced'[p] = 1
        PROVE  \/ "swap" \in Kinds /\ cust'["swap"].record.proposal = p
                    /\ cust'["swap"].record.published
               \/ outcome'[p] \in Applied \cup {"session_unavailable"}
    <3>1. \/ "swap" \in Kinds /\ Swap.record.proposal = p /\ Swap.record.published
          \/ outcome[p] \in Applied \cup {"session_unavailable"}
      BY <2>4 DEF CustodyParts, ReplacedOK
    <3>2. CASE \E k \in Kinds : /\ cust[k].record.proposal = p /\ c[k].record.proposal # p
                                /\ outcome'[p] = c[k].human
      <4>1. PICK k \in Kinds : /\ cust[k].record.proposal = p /\ c[k].record.proposal # p
                               /\ outcome'[p] = c[k].human
        BY <3>2
      <4>2. HasRecord(cust[k])
        <5>1. p # 0 BY DEF Proposals
        <5> QED BY <4>1, <5>1, NoRecordType DEF CustodyParts, RecordsOK
      <4>3. cust[k].record.published
        BY <2>4, <4>1, <4>2 DEF CustodyParts, ReplacedOK
      <4>4. c[k].record # cust[k].record BY <4>1
      <4> QED BY <4>1, <4>3, <4>4 DEF Lets
    <3>3. CASE /\ \A k \in Kinds : cust[k].record.proposal = p => c[k].record.proposal = p
               /\ outcome'[p] = outcome[p]
      <4>1. "swap" \in Kinds /\ Swap.record.proposal = p /\ Swap.record.published =>
              cust'["swap"].record.proposal = p /\ cust'["swap"].record.published
        <5>1. p # 0 BY DEF Proposals
        <5>2. ASSUME "swap" \in Kinds, Swap.record.proposal = p, Swap.record.published
              PROVE  cust'["swap"].record = Swap.record
          BY <1>1, <1>2, <3>3, <5>1, <5>2, NoRecordType DEF Swap
        <5> QED BY <5>2 DEF Swap
      <4> QED BY <3>1, <3>3, <4>1
    <3> QED BY <3>2, <3>3, OutcomeStep
  <2> QED BY <2>1, <2>2, <2>3, <2>4 DEF ReplacedOK, Swap
<1> QED BY <1>1, <1>3, <1>4, <1>5 DEF CustodyParts

(* One custodian lets a proposal go, ... *)
LEMMA CustodyOne ==
  ASSUME CustodyParts, NEW k \in Kinds, NEW d, Lets(cust[k], d),
         \A j \in Kinds : Orderly(cust[j]),
         d.record # cust[k].record /\ d.human \in Applied => replaced[cust[k].record.proposal] = 1,
         CustodyOf(k, d),
         UNCHANGED <<proposals, origin, replaced, tracker, epochs>>,
         epochs \in Nat, proposals \in 0..MaxProposals
  PROVE  /\ CustodyParts' /\ cust' = [cust EXCEPT ![k] = d] /\ cust'[k] = d
         /\ \A j \in Kinds \ {k} : cust'[j] = cust[j]
<1> DEFINE c == [cust EXCEPT ![k] = d]
<1>1. c \in [Kinds -> CustodianType] BY DEF CustodyParts, Lets, Orderly
<1>2. c[k] = d /\ \A j \in Kinds \ {k} : c[j] = cust[j] BY DEF CustodyParts
<1>3. Custody(c) BY DEF CustodyOf
<1> HIDE DEF c
<1>4. \A j \in Kinds : Lets(cust[j], c[j]) BY <1>2, KeepsRefl DEF Keeps
<1>5. \A j \in Kinds : c[j].record # cust[j].record /\ c[j].human \in Applied
                         => replaced[cust[j].record.proposal] = 1
  BY <1>2
<1>6. Tracks BY DEF Tracks
<1>7. CustodyParts' BY <1>1, <1>3, <1>4, <1>5, <1>6, CustodyLets
<1>8. cust' = c BY <1>3 DEF Custody
<1> QED BY <1>2, <1>7, <1>8 DEF c

(* ... or changes its record and not what the human was told of another.   *)
LEMMA OutcomeSame ==
  ASSUME CustodyParts, NEW k \in Kinds, NEW d \in CustodianType, CustodyOf(k, d),
         HasRecord(cust[k]) => d.record.proposal = cust[k].record.proposal
  PROVE  /\ outcome' = outcome /\ cust' \in [Kinds -> CustodianType]
         /\ cust' = [cust EXCEPT ![k] = d] /\ cust'[k] = d
         /\ \A j \in Kinds \ {k} : cust'[j] = cust[j]
<1> DEFINE c == [cust EXCEPT ![k] = d]
<1>1. c \in [Kinds -> CustodianType] BY DEF CustodyParts
<1>2. c[k] = d /\ \A j \in Kinds \ {k} : c[j] = cust[j] BY DEF CustodyParts
<1>3. Custody(c) BY DEF CustodyOf
<1>4. cust' = c BY <1>3 DEF Custody
<1> HIDE DEF c
<1>5. \A p \in Proposals, j \in Kinds : cust[j].record.proposal = p => c[j].record.proposal = p
  <2> SUFFICES ASSUME NEW p \in Proposals, NEW j \in Kinds, cust[j].record.proposal = p
               PROVE  c[j].record.proposal = p
    OBVIOUS
  <2>1. HasRecord(cust[j])
    <3>1. p # 0 BY DEF Proposals
    <3> QED BY <3>1, NoRecordType DEF CustodyParts, RecordsOK
  <2> QED BY <2>1, <1>2
<1>6. \A p \in Proposals : outcome'[p] = outcome[p]
  BY <1>1, <1>3, <1>5, OutcomeStep
<1>7. outcome' \in [Proposals -> HumanStates] BY <1>1, <1>3, OutcomeStep
<1>8. outcome' = outcome BY <1>6, <1>7 DEF CustodyParts
<1> QED BY <1>1, <1>2, <1>4, <1>8 DEF c

(* What an apply does to its record keeps the invariant. *)
LEMMA CustodyApply ==
  ASSUME CustodyParts, "swap" \in Kinds, NEW d, Same(Swap, d),
         SameProposal(Swap.record, d.record), Swap.record.state \in Committed,
         d.record.state = "applying",
         (d.record.published <=> Swap.record.published) \/ replaced[Swap.record.proposal] = 0,
         CustodyOf("swap", d), UNCHANGED <<proposals, origin, replaced, tracker, epochs>>
  PROVE  /\ CustodyParts' /\ cust'["swap"] = d
         /\ \A j \in Kinds \ {"swap"} : cust'[j] = cust[j]
<1>1. d \in CustodianType /\ HasRecord(d) /\ HasRecord(Swap)
  BY DEF Same, Orderly, HasRecord, Committed
<1>2. /\ outcome' = outcome /\ cust' \in [Kinds -> CustodianType] /\ cust'["swap"] = d
      /\ \A j \in Kinds \ {"swap"} : cust'[j] = cust[j]
  BY <1>1, OutcomeSame DEF SameProposal, Swap
<1>3. RecordsOK'
  <2>1. ASSUME NEW k \in Kinds
        PROVE  LET r == cust'[k].record
               IN  /\ IF HasRecord(cust'[k])
                      THEN r.proposal \in 1..proposals' /\ r.epoch \in 1..epochs'
                      ELSE r = NoRecord
                   /\ r.state = "applying" => k = "swap"
                   /\ r.published => r.state = "applying"
                   /\ \A j \in Kinds \ {k} :
                        HasRecord(cust'[k]) => cust'[j].record.proposal # r.proposal
    <3>1. CASE k = "swap"
      BY <1>1, <1>2, <3>1 DEF CustodyParts, RecordsOK, SameProposal, Swap
    <3>2. CASE k # "swap"
      BY <1>1, <1>2, <3>2 DEF CustodyParts, RecordsOK, SameProposal, Swap, HasRecord
    <3> QED BY <3>1, <3>2
  <2> QED BY <2>1 DEF RecordsOK, HasRecord
<1>4. OriginOK'
  <2>1. ASSUME NEW k \in Kinds, cust'[k].record.state \in Committed
        PROVE  LET r == cust'[k].record
               IN  /\ origin'[r.proposal].kind = k
                   /\ origin'[r.proposal].content = r.preview
                   /\ r.state = "pending" => origin'[r.proposal].expires = r.expires
                   /\ tracker'.initialized /\ r.epoch = tracker'.epoch =>
                        origin'[r.proposal].project = tracker'.target
    <3>1. CASE k = "swap"
      BY <1>2, <3>1 DEF CustodyParts, OriginOK, SameProposal, Swap
    <3>2. CASE k # "swap"
      BY <1>2, <2>1, <3>2 DEF CustodyParts, OriginOK
    <3> QED BY <3>1, <3>2
  <2> QED BY <2>1 DEF OriginOK
<1>5. ReplacedOK'
  <2>1. replaced' = replaced /\ proposals' = proposals OBVIOUS
  <2>2. HasRecord(Swap) /\ ~Swap.record.published => replaced[Swap.record.proposal] = 0
    BY DEF CustodyParts, ReplacedOK, Swap
  <2>3. \A k \in Kinds : HasRecord(cust'[k]) /\ ~cust'[k].record.published =>
          replaced'[cust'[k].record.proposal] = 0
    <3> SUFFICES ASSUME NEW k \in Kinds, HasRecord(cust'[k]), ~cust'[k].record.published
                 PROVE  replaced[cust'[k].record.proposal] = 0
      OBVIOUS
    <3>1. CASE k = "swap"
      BY <1>1, <1>2, <2>2, <3>1 DEF SameProposal
    <3>2. CASE k # "swap"
      BY <1>2, <3>2 DEF CustodyParts, ReplacedOK
    <3> QED BY <3>1, <3>2
  <2>4. \A p \in Proposals : replaced'[p] = 1 =>
          \/ "swap" \in Kinds /\ Swap'.record.proposal = p /\ Swap'.record.published
          \/ outcome'[p] \in Applied \cup {"session_unavailable"}
    <3> SUFFICES ASSUME NEW p \in Proposals, replaced[p] = 1,
                        outcome[p] \notin Applied \cup {"session_unavailable"}
                 PROVE  d.record.proposal = p /\ d.record.published
      BY <1>2 DEF Swap
    <3>1. Swap.record.proposal = p /\ Swap.record.published
      BY DEF CustodyParts, ReplacedOK
    <3> QED BY <3>1 DEF SameProposal
  <2> QED BY <1>2, <2>1, <2>3, <2>4 DEF CustodyParts, ReplacedOK
<1> QED BY <1>2, <1>3, <1>4, <1>5 DEF CustodyParts

(* A prepared proposal keeps the invariant. *)
LEMMA CustodyPrepare ==
  ASSUME CustodyParts, NEW k \in Kinds, NEW d, NEW request, NEW epoch \in 1..epochs, NEW preview,
         proposals \in Nat, proposals < MaxProposals, MaxProposals \in Nat,
         Prepared(cust[k], d, request, epoch, preview, proposals + 1),
         CustodyOf(k, d), proposals' = proposals + 1,
         UNCHANGED <<origin, replaced, tracker, epochs>>
  PROVE  /\ CustodyParts' /\ cust'[k] = d /\ \A j \in Kinds \ {k} : cust'[j] = cust[j]
<1>1. d \in CustodianType /\ HasRecord(d) /\ ~HasRecord(cust[k])
  BY DEF Prepared, Same, Orderly, HasRecord
<1>2. /\ outcome' = outcome /\ cust' \in [Kinds -> CustodianType] /\ cust'[k] = d
      /\ \A j \in Kinds \ {k} : cust'[j] = cust[j]
  BY <1>1, OutcomeSame
<1>3. RecordsOK'
  <2>1. ASSUME NEW i \in Kinds
        PROVE  LET r == cust'[i].record
               IN  /\ IF HasRecord(cust'[i])
                      THEN r.proposal \in 1..proposals' /\ r.epoch \in 1..epochs'
                      ELSE r = NoRecord
                   /\ r.state = "applying" => i = "swap"
                   /\ r.published => r.state = "applying"
                   /\ \A j \in Kinds \ {i} :
                        HasRecord(cust'[i]) => cust'[j].record.proposal # r.proposal
    <3>1. \A j \in Kinds : cust[j].record.proposal \in 0..proposals
      BY NoRecordType DEF CustodyParts, RecordsOK
    <3>2. CASE i = k
      BY <1>1, <1>2, <3>1, <3>2 DEF Prepared
    <3>3. CASE i # k
      <4>1. d.record.proposal = proposals + 1 BY DEF Prepared
      <4>2. \A j \in Kinds \ {i} : HasRecord(cust[i]) =>
              cust'[j].record.proposal # cust[i].record.proposal
        BY <1>2, <3>1, <3>3, <4>1 DEF CustodyParts, RecordsOK
      <4>3. /\ IF HasRecord(cust[i])
               THEN cust[i].record.proposal \in 1..proposals' /\ cust[i].record.epoch \in 1..epochs'
               ELSE cust[i].record = NoRecord
            /\ cust[i].record.state = "applying" => i = "swap"
            /\ cust[i].record.published => cust[i].record.state = "applying"
        BY DEF CustodyParts, RecordsOK
      <4> QED BY <1>2, <3>3, <4>2, <4>3
    <3> QED BY <3>2, <3>3
  <2> QED BY <2>1 DEF RecordsOK, HasRecord
<1>4. OriginOK'
  <2>1. d.record.state \notin Committed BY DEF Prepared, Committed
  <2> QED BY <1>2, <2>1 DEF CustodyParts, OriginOK
<1>5. ReplacedOK'
  <2>1. replaced' = replaced /\ proposals + 1 \in Proposals BY DEF Proposals
  <2>2. replaced[d.record.proposal] = 0
    BY <2>1 DEF CustodyParts, ReplacedOK, Prepared
  <2>3. \A i \in Kinds : HasRecord(cust'[i]) /\ ~cust'[i].record.published =>
          replaced'[cust'[i].record.proposal] = 0
    BY <1>2, <2>1, <2>2 DEF CustodyParts, ReplacedOK
  <2>4. "swap" \in Kinds /\ Swap.record.published => cust'["swap"] = Swap
    <3>1. ~cust[k].record.published BY <1>1, NoRecordType DEF CustodyParts, RecordsOK
    <3> QED BY <1>2, <3>1 DEF Swap
  <2>5. \A p \in Proposals : replaced'[p] = 1 =>
          \/ "swap" \in Kinds /\ Swap'.record.proposal = p /\ Swap'.record.published
          \/ outcome'[p] \in Applied \cup {"session_unavailable"}
    BY <1>2, <2>1, <2>4 DEF CustodyParts, ReplacedOK, Swap
  <2>6. \A p \in Proposals : replaced'[p] \in {0, 1} /\ (p > proposals' => replaced'[p] = 0)
    BY <2>1 DEF CustodyParts, ReplacedOK, Proposals
  <2> QED BY <1>2, <2>1, <2>3, <2>5, <2>6 DEF CustodyParts, ReplacedOK
<1> QED BY <1>2, <1>3, <1>4, <1>5 DEF CustodyParts

(* A committed proposal keeps the invariant. *)
LEMMA CustodyCommit ==
  ASSUME CustodyParts, NEW k \in Kinds, NEW d, Same(cust[k], d),
         SameProposal(cust[k].record, d.record),
         cust[k].record.state = "prepared", d.record.state = "pending",
         d.record.published = FALSE,
         CustodyOf(k, d), UNCHANGED <<proposals, replaced, tracker, epochs>>,
         origin' = [origin EXCEPT ![d.record.proposal] = origin'[d.record.proposal]],
         proposals \in 0..MaxProposals, MaxProposals \in Nat,
         LET o == origin'[d.record.proposal]
         IN  /\ o.kind = k /\ o.content = d.record.preview /\ o.expires = d.record.expires
             /\ tracker.initialized /\ d.record.epoch = tracker.epoch =>
                  o.project = tracker.target
  PROVE  /\ CustodyParts' /\ cust'[k] = d /\ \A j \in Kinds \ {k} : cust'[j] = cust[j]
<1>1. d \in CustodianType /\ HasRecord(d) /\ HasRecord(cust[k])
  BY DEF Same, Orderly, HasRecord
<1>2. /\ outcome' = outcome /\ cust' \in [Kinds -> CustodianType] /\ cust'[k] = d
      /\ \A j \in Kinds \ {k} : cust'[j] = cust[j]
  BY <1>1, OutcomeSame DEF SameProposal
<1>3. RecordsOK'
  <2>1. ASSUME NEW i \in Kinds
        PROVE  LET r == cust'[i].record
               IN  /\ IF HasRecord(cust'[i])
                      THEN r.proposal \in 1..proposals' /\ r.epoch \in 1..epochs'
                      ELSE r = NoRecord
                   /\ r.state = "applying" => i = "swap"
                   /\ r.published => r.state = "applying"
                   /\ \A j \in Kinds \ {i} :
                        HasRecord(cust'[i]) => cust'[j].record.proposal # r.proposal
    <3>1. CASE i = k
      BY <1>1, <1>2, <3>1 DEF CustodyParts, RecordsOK, SameProposal
    <3>2. CASE i # k
      BY <1>1, <1>2, <3>2 DEF CustodyParts, RecordsOK, SameProposal, HasRecord
    <3> QED BY <3>1, <3>2
  <2> QED BY <2>1 DEF RecordsOK, HasRecord
<1>4. OriginOK'
  <2>1. ASSUME NEW i \in Kinds, cust'[i].record.state \in Committed
        PROVE  LET r == cust'[i].record
               IN  /\ origin'[r.proposal].kind = i
                   /\ origin'[r.proposal].content = r.preview
                   /\ r.state = "pending" => origin'[r.proposal].expires = r.expires
                   /\ tracker'.initialized /\ r.epoch = tracker'.epoch =>
                        origin'[r.proposal].project = tracker'.target
    <3>1. CASE i = k
      BY <1>2, <3>1
    <3>2. CASE i # k
      <4>1. cust[i].record.proposal # d.record.proposal
        BY <1>1, <3>2 DEF CustodyParts, RecordsOK, SameProposal
      <4>2. origin'[cust[i].record.proposal] = origin[cust[i].record.proposal]
        <5> DEFINE x == origin'[d.record.proposal]
        <5>1. origin' = [origin EXCEPT ![d.record.proposal] = x] OBVIOUS
        <5> HIDE DEF x
        <5> QED BY <4>1, <5>1
      <4> QED BY <1>2, <2>1, <3>2, <4>2 DEF CustodyParts, OriginOK
    <3> QED BY <3>1, <3>2
  <2> QED BY <2>1 DEF OriginOK
<1>5. ReplacedOK'
  <2>1. replaced' = replaced /\ proposals' = proposals OBVIOUS
  <2>2. ~cust[k].record.published /\ replaced[cust[k].record.proposal] = 0
    BY <1>1 DEF CustodyParts, ReplacedOK, RecordsOK
  <2>3. \A i \in Kinds : HasRecord(cust'[i]) /\ ~cust'[i].record.published =>
          replaced'[cust'[i].record.proposal] = 0
    BY <1>2, <2>1, <2>2 DEF CustodyParts, ReplacedOK, SameProposal
  <2>4. "swap" \in Kinds /\ Swap.record.published => cust'["swap"] = Swap
    BY <1>2, <2>2 DEF Swap
  <2>5. \A p \in Proposals : replaced'[p] = 1 =>
          \/ "swap" \in Kinds /\ Swap'.record.proposal = p /\ Swap'.record.published
          \/ outcome'[p] \in Applied \cup {"session_unavailable"}
    BY <1>2, <2>1, <2>4 DEF CustodyParts, ReplacedOK, Swap
  <2> QED BY <1>2, <2>1, <2>3, <2>5 DEF CustodyParts, ReplacedOK
<1> QED BY <1>2, <1>3, <1>4, <1>5 DEF CustodyParts

(* An acknowledgment that is still there is of a proposal that is still    *)
(* there, unless its time has run out.                                     *)
LEMMA AckKept ==
  ASSUME Typed, MailOK, OriginOK, AckOK, Calm(mb, mb'),
         \A k \in Kinds : \/ cust'[k].record = cust[k].record
                          \/ /\ cust'[k].record.proposal = cust[k].record.proposal
                             /\ cust'[k].record.state \in Committed
                          \/ cust[k].record.state \notin Committed
                          \/ cust[k].record.state = "pending" /\ clock >= cust[k].record.expires
                          \/ ~(/\ Unread(mb') /\ mb.review.owner = k
                               /\ mb.review.proposal = cust[k].record.proposal),
         UNCHANGED <<origin, clock>>, proposals' \in Nat, proposals <= proposals'
  PROVE  AckOK'
<1> SUFFICES ASSUME Unread(mb')
             PROVE  LET p == mb'.review.proposal
                    IN  /\ p \in 1..proposals'
                        /\ \/ /\ cust'[mb'.review.owner].record.proposal = p
                              /\ cust'[mb'.review.owner].record.state \in Committed
                           \/ clock' >= origin'[p].expires
  BY DEF AckOK, UnreadAck, Unread
<1>1. Unread(mb) /\ mb'.review = mb.review BY DEF Calm
<1>2. PICK k \in Kinds : k = mb.review.owner BY <1>1 DEF MailOK, Unread
<1>3. PICK p \in 1..proposals : p = mb.review.proposal BY <1>1 DEF AckOK, UnreadAck, Unread
<1>4. \/ cust[k].record.proposal = p /\ cust[k].record.state \in Committed
      \/ clock >= origin[p].expires
  BY <1>1, <1>2, <1>3 DEF AckOK, UnreadAck, Unread
<1>5. p \in 1..proposals' BY <1>3 DEF Typed, TypeOK
<1>6. CASE clock >= origin[p].expires
  BY <1>1, <1>3, <1>5, <1>6
<1>7. CASE cust[k].record.proposal = p /\ cust[k].record.state \in Committed
  <2>1. CASE cust[k].record.state = "pending" /\ clock >= cust[k].record.expires
    <3>1. origin[p].expires = cust[k].record.expires BY <1>7, <2>1 DEF OriginOK
    <3> QED BY <2>1, <3>1, <1>1, <1>3, <1>5
  <2>2. CASE \/ cust'[k].record = cust[k].record
             \/ /\ cust'[k].record.proposal = cust[k].record.proposal
                /\ cust'[k].record.state \in Committed
    BY <2>2, <1>7, <1>1, <1>2, <1>3, <1>5
  <2> QED BY <2>1, <2>2, <1>2, <1>3, <1>7
<1> QED BY <1>4, <1>6, <1>7

(* A reader goes on from what it looked at. *)
LEMMA ReaderKept ==
  ASSUME Typed, ReaderOK, Reads(mb, mb'), mb' \in MailboxType, client' = client
  PROVE  ReaderOK'
<1>1. client.generation \in Nat /\ mb.reply_generation \in Nat /\ mb'.reply_generation \in Nat
  BY DEF Typed, TypeOK, CallType, MailboxType
<1> QED BY <1>1 DEF ReaderOK, Reads

(* A calm mailbox keeps its part. *)
LEMMA MailKept ==
  ASSUME MailOK, Calm(mb, mb')
  PROVE  MailOK' /\ mb' \in MailboxType
BY DEF MailOK, Calm, IsMailbox, NoReview, Unclaimed

(* A script thread that rests has nothing to keep. *)
LEMMA Rests ==
  ASSUME pc' = "off"
  PROVE  ServiceOK' /\ ApplyOK' /\ StagedOK'
BY DEF ServiceOK, ApplyOK, StagedOK, Claiming, Applying

(* What the other threads do leaves the script thread's locals true. *)
LEMMA ThreadKept ==
  ASSUME ServiceOK, ApplyOK, StagedOK, RecordsOK, ReviewAssumption,
         UNCHANGED <<pc, run, session, tracker, closed, gate, proposals, replaced, history>>,
         mb.state = "executing" => mb'.state = "executing",
         \A k \in Kinds : \/ cust'[k].record = cust[k].record
                          \/ cust'[k].record = NoRecord /\ ~cust[k].record.published,
         proposals \in Nat
  PROVE  ServiceOK' /\ ApplyOK' /\ StagedOK'
<1>1. ServiceOK'
  <2>1. pc \in {"prepare", "publish"} => Kind \in Kinds
    BY DEF Kind, ServiceOK, Claiming, ReviewAssumption
  <2>2. Kind' = Kind BY DEF Kind
  <2>3. ASSUME pc = "publish", run.carrier = "prepared",
               cust'[Kind].record.proposal = run.proposal
        PROVE  cust'[Kind].record = cust[Kind].record
    <3>1. run.proposal \in 1..proposals BY <2>3 DEF ServiceOK
    <3>2. run.proposal # 0 BY <3>1
    <3>3. PICK k \in Kinds : k = Kind BY <2>1, <2>3
    <3>4. cust'[k].record # NoRecord BY <2>3, <3>2, <3>3, NoRecordType
    <3> QED BY <3>3, <3>4
  <2>4. pc = "prepare" /\ ~HasRecord(cust[Kind]) => ~HasRecord(cust'[Kind])
    BY <2>1, NoRecordType DEF HasRecord
  <2> QED BY <2>2, <2>3, <2>4 DEF ServiceOK, Claiming
<1>2. ApplyOK'
  <2>1. pc \in {"core", "apply_publish"} /\ Swap'.record.proposal = run.proposal
          => Swap'.record = Swap.record
    BY NoRecordType DEF ApplyOK, Applying, Swap
  <2> QED BY <2>1 DEF ApplyOK
<1>3. StagedOK'
  <2>1. pc = "assign" => Swap'.record = Swap.record
    BY DEF StagedOK, Staged, ApplyOK, Applying, Swap
  <2> QED BY <2>1 DEF StagedOK, Staged
<1> QED BY <1>1, <1>2, <1>3

-----------------------------------------------------------------------------
(* The steps that touch neither mailbox nor custodians. *)

(* The bounds are numbers. *)
LEMMA Bounds ==
  /\ MaxTime \in Nat /\ MaxEpochs \in Nat /\ MaxProposals \in Nat /\ MaxHistory \in Nat \ {0}
  /\ Kinds \subseteq {"swap", "generation"} /\ None \in Projects
  /\ \A q \in Payloads : q \in Nat \ {0} /\ IdOf[q] \in Nat \ {0} /\ KindOf[q] \in Kinds
                          /\ IntentOf[q] \in Contents /\ IntentOf[q] \in Nat
  /\ Contents \subseteq Nat \ {0} /\ Timeout \in Nat \ {0} /\ ProposalTTL \in Nat \ {0}
BY ReviewAssumption, CustodyAssumption DEF ReviewAssumption, CustodyAssumption

(* The proposals made are among those there may be. *)
LEMMA Numbered ==
  ASSUME Typed
  PROVE  proposals \in Nat /\ \A p \in 1..proposals : p \in Proposals
BY Bounds DEF Typed, TypeOK, Proposals

(* A thread that rests has no locals, a client that rests no call. *)
LEMMA NoLocalsType == NoLocals \in LocalsType /\ NoCall \in CallType
<1>1. <<>> \in Seq(Contents) OBVIOUS
<1>2. NoLocals \in LocalsType BY <1>1, Bounds DEF NoLocals, LocalsType
<1>3. NoCall \in CallType BY Members DEF NoCall, CallType, NoReview, ReviewType
<1> QED BY <1>2, <1>3

(* Mailbox, custodians and target are as they were.                        *)
LEMMA Untouched ==
  ASSUME IInv, UNCHANGED <<mb, cust, outcome, proposals, origin, tracker, epochs, closed, client>>,
         clock' \in Nat, clock <= clock'
  PROVE  /\ SameTarget' /\ MailOK' /\ RecordsOK' /\ OriginOK' /\ AckOK' /\ ReaderOK'
         /\ replaced' = replaced => ReplacedOK'
<1>1. SameTarget' BY DEF IInv, SameTarget
<1>2. MailOK' BY DEF IInv, MailOK
<1>3. RecordsOK' BY DEF IInv, RecordsOK, HasRecord
<1>4. OriginOK' BY DEF IInv, OriginOK
<1>5. ReaderOK' BY DEF IInv, ReaderOK
<1>6. ASSUME replaced' = replaced PROVE ReplacedOK'
  BY <1>6 DEF IInv, ReplacedOK, Swap
<1>7. AckOK'
  <2> SUFFICES ASSUME UnreadAck
               PROVE  LET p == mb.review.proposal
                      IN  /\ p \in 1..proposals
                          /\ \/ /\ cust[mb.review.owner].record.proposal = p
                                /\ cust[mb.review.owner].record.state \in Committed
                             \/ clock' >= origin[p].expires
    BY DEF AckOK, UnreadAck
  <2>1. PICK p \in 1..proposals : p = mb.review.proposal BY DEF IInv, AckOK
  <2>2. origin[p].expires \in Nat /\ clock \in Nat
    BY <2>1, Numbered DEF IInv, Typed, TypeOK, OriginType
  <2>3. clock >= origin[p].expires => clock' >= origin[p].expires BY <2>2
  <2> QED BY <2>1, <2>3 DEF IInv, AckOK
<1> QED BY <1>1, <1>2, <1>3, <1>4, <1>5, <1>6, <1>7

(* Time passes. *)
LEMMA TickKeeps == ASSUME IInv, Tick PROVE IInv'
<1>1. UNCHANGED <<mb, cust, outcome, session, history, tracker, epochs, closed, gate, pc, run,
                  client, pairing, claims, proposals, origin, replaced>> /\ clock' = clock + 1
  BY DEF Tick, pipe, ghosts
<1>2. clock \in Nat /\ clock' \in Nat /\ clock <= clock' BY <1>1 DEF IInv, Typed, TypeOK
<1>3. /\ SameTarget' /\ MailOK' /\ RecordsOK' /\ OriginOK' /\ AckOK' /\ ReaderOK' /\ ReplacedOK'
  BY <1>1, <1>2, Untouched
<1>4. Typed' BY <1>1, <1>2 DEF IInv, Typed, TypeOK
<1>5. ServiceOK' /\ ApplyOK' /\ StagedOK'
  BY <1>1 DEF IInv, ServiceOK, ApplyOK, StagedOK, Staged, Kind, Swap
<1> QED BY <1>3, <1>4, <1>5 DEF IInv

(* The route is paired again. *)
LEMMA PairKeeps == ASSUME IInv, PairAgain PROVE IInv'
<1>1. UNCHANGED <<mb, cust, outcome, clock, session, history, tracker, epochs, closed, gate, pc,
                  run, client, claims, proposals, origin, replaced>> /\ pairing' = pairing + 1
  BY DEF PairAgain, world, ghosts
<1>2. clock' \in Nat /\ clock <= clock' /\ pairing' \in Nat
  BY <1>1 DEF IInv, Typed, TypeOK
<1>3. /\ SameTarget' /\ MailOK' /\ RecordsOK' /\ OriginOK' /\ AckOK' /\ ReaderOK' /\ ReplacedOK'
  BY <1>1, <1>2, Untouched
<1>4. Typed' BY <1>1, <1>2 DEF IInv, Typed, TypeOK
<1>5. ServiceOK' /\ ApplyOK' /\ StagedOK'
  BY <1>1 DEF IInv, ServiceOK, ApplyOK, StagedOK, Staged, Kind, Swap
<1> QED BY <1>3, <1>4, <1>5 DEF IInv

(* The page opens another Project or edits the live one. *)
LEMMA PageKeeps == ASSUME IInv, SwitchTarget \/ Edit PROVE IInv'
<1>1. UNCHANGED <<mb, cust, outcome, clock, history, tracker, epochs, closed, gate, pc,
                  run, client, pairing, claims, proposals, origin, replaced>> /\ pc = "off"
  BY DEF SwitchTarget, Edit, pipe, ghosts
<1>2. session' \in [project : Projects, content : Contents]
  BY DEF SwitchTarget, Edit, IInv, Typed, TypeOK
<1>3. clock' \in Nat /\ clock <= clock' BY <1>1 DEF IInv, Typed, TypeOK
<1>4. /\ SameTarget' /\ MailOK' /\ RecordsOK' /\ OriginOK' /\ AckOK' /\ ReaderOK' /\ ReplacedOK'
  BY <1>1, <1>3, Untouched
<1>5. Typed' BY <1>1, <1>2, <1>3 DEF IInv, Typed, TypeOK
<1> QED BY <1>1, <1>4, <1>5, Rests DEF IInv

(* A ScriptControlException ends the run. *)
LEMMA InterruptKeeps == ASSUME IInv, Interrupt PROVE IInv'
<1>1. UNCHANGED <<mb, cust, outcome, clock, session, history, tracker, epochs, closed, client,
                  pairing, claims, proposals, origin, replaced>>
      /\ gate' = FALSE /\ pc' = "off" /\ run' = NoLocals
  BY DEF Interrupt, End, pipe, ghosts
<1>2. clock' \in Nat /\ clock <= clock' BY <1>1 DEF IInv, Typed, TypeOK
<1>3. /\ SameTarget' /\ MailOK' /\ RecordsOK' /\ OriginOK' /\ AckOK' /\ ReaderOK' /\ ReplacedOK'
  BY <1>1, <1>2, Untouched
<1>4. Typed' BY <1>1, <1>2, NoLocalsType DEF IInv, Typed, TypeOK, Labels
<1> QED BY <1>1, <1>3, <1>4, Rests DEF IInv

(* A retry goes on to its publication. *)
LEMMA RetryKeeps == ASSUME IInv, RetryRequest PROVE IInv'
<1>1. UNCHANGED <<mb, cust, outcome, clock, session, history, tracker, epochs, closed, gate,
                  client, pairing, claims, proposals, origin, replaced>>
      /\ pc = "prepare" /\ pc' = "publish" /\ run' = [run EXCEPT !.carrier = "duplicate"]
  BY DEF RetryRequest, Goto, world, pipe, ghosts
<1>2. clock' \in Nat /\ clock <= clock' /\ run \in LocalsType
  BY <1>1 DEF IInv, Typed, TypeOK
<1>3. /\ SameTarget' /\ MailOK' /\ RecordsOK' /\ OriginOK' /\ AckOK' /\ ReaderOK' /\ ReplacedOK'
  BY <1>1, <1>2, Untouched
<1>4. run' \in LocalsType /\ run'.carrier = "duplicate" /\ run'.payload = run.payload
      /\ run'.epoch = run.epoch
  BY <1>1, <1>2 DEF LocalsType
<1>5. Typed' BY <1>1, <1>2, <1>4 DEF IInv, Typed, TypeOK, Labels
<1>6. ServiceOK' BY <1>1, <1>4 DEF IInv, ServiceOK, Claiming
<1>7. ApplyOK' /\ StagedOK' BY <1>1 DEF ApplyOK, StagedOK, Applying
<1> QED BY <1>3, <1>5, <1>6, <1>7 DEF IInv

(* The core computes the replacement or fails. *)
LEMMA CoreKeeps == ASSUME IInv, CoreApply PROVE IInv'
<1>1. UNCHANGED <<mb, cust, outcome, clock, session, history, tracker, epochs, closed, gate,
                  client, pairing, claims, proposals, origin, replaced>>
      /\ pc = "core"
  BY DEF CoreApply, world, pipe, ghosts
<1>2. \/ run' = run /\ pc' \in {"look", "apply_publish"}
      \/ \E status \in {"stale", "apply_failed"} :
           run' = [run EXCEPT !.status = status] /\ pc' = "finish"
  BY DEF CoreApply, Goto
<1>3. clock' \in Nat /\ clock <= clock' /\ run \in LocalsType
  BY <1>1 DEF IInv, Typed, TypeOK
<1>4. /\ SameTarget' /\ MailOK' /\ RecordsOK' /\ OriginOK' /\ AckOK' /\ ReaderOK' /\ ReplacedOK'
  BY <1>1, <1>3, Untouched
<1>5. run' \in LocalsType /\ run'.proposal = run.proposal /\ run'.preview = run.preview
      /\ (pc' = "finish" => run'.status \notin Applied /\ run'.status # "none")
  BY <1>2, <1>3 DEF LocalsType, Applied
<1>6. Typed' BY <1>1, <1>2, <1>3, <1>5 DEF IInv, Typed, TypeOK, Labels
<1>7. ServiceOK' BY <1>2 DEF ServiceOK, Claiming
<1>8. ApplyOK' BY <1>1, <1>2, <1>5 DEF IInv, ApplyOK, Applying, Swap
<1>9. StagedOK' BY <1>2 DEF StagedOK
<1> QED BY <1>4, <1>6, <1>7, <1>8, <1>9 DEF IInv

(* The Project is replaced. *)
LEMMA ReplaceKeeps == ASSUME IInv, ReplaceProject PROVE IInv'
<1>1. UNCHANGED <<mb, cust, outcome, clock, history, tracker, epochs, closed, gate, run,
                  client, pairing, claims, proposals, origin>>
      /\ pc = "assign" /\ pc' = "retire"
      /\ replaced' = [replaced EXCEPT ![run.proposal] = @ + 1]
  BY DEF ReplaceProject, Goto, pipe, ghosts
<1>2. session' \in [project : Projects, content : Contents]
  BY DEF ReplaceProject
<1>3. clock' \in Nat /\ clock <= clock' BY <1>1 DEF IInv, Typed, TypeOK
<1>4. /\ SameTarget' /\ MailOK' /\ RecordsOK' /\ OriginOK' /\ AckOK' /\ ReaderOK'
  BY <1>1, <1>3, Untouched
<1>5. run.proposal \in 1..proposals /\ "swap" \in Kinds /\ Staged
  BY <1>1 DEF IInv, ApplyOK, Applying, StagedOK
<1>6. run.proposal \in Proposals BY <1>5, Numbered DEF IInv
<1>7. replaced'[run.proposal] = 1 /\ \A p \in Proposals : p # run.proposal => replaced'[p] = replaced[p]
  BY <1>1, <1>5, <1>6 DEF Staged, IInv, Typed, TypeOK
<1>8. replaced' \in [Proposals -> Nat] BY <1>1, <1>6, <1>7 DEF IInv, Typed, TypeOK
<1>9. Typed' BY <1>1, <1>2, <1>3, <1>8 DEF IInv, Typed, TypeOK, Labels
<1>10. ReplacedOK'
  <2>1. \A p \in Proposals : replaced'[p] \in {0, 1} /\ (p > proposals' => replaced'[p] = 0)
    BY <1>1, <1>5, <1>7 DEF IInv, ReplacedOK, Typed, TypeOK
  <2>2. \A k \in Kinds : HasRecord(cust'[k]) /\ ~cust'[k].record.published =>
          replaced'[cust'[k].record.proposal] = 0
    <3> SUFFICES ASSUME NEW k \in Kinds, HasRecord(cust[k]), ~cust[k].record.published
                 PROVE  replaced'[cust[k].record.proposal] = 0
      BY <1>1
    <3>1. k # "swap" BY <1>5 DEF Staged, Swap
    <3>2. cust[k].record.proposal # run.proposal
      BY <1>5, <3>1 DEF IInv, RecordsOK, Staged, Swap
    <3>3. cust[k].record.proposal \in Proposals
      BY Numbered DEF IInv, RecordsOK
    <3> QED BY <1>7, <3>2, <3>3 DEF IInv, ReplacedOK
  <2>3. \A p \in Proposals : outcome'[p] \in Applied => replaced'[p] = 1
    BY <1>1, <1>7 DEF IInv, ReplacedOK
  <2>4. \A p \in Proposals : replaced'[p] = 1 =>
          \/ "swap" \in Kinds /\ Swap'.record.proposal = p /\ Swap'.record.published
          \/ outcome'[p] \in Applied \cup {"session_unavailable"}
    BY <1>1, <1>5, <1>7 DEF IInv, ReplacedOK, Staged, Swap
  <2> QED BY <2>1, <2>2, <2>3, <2>4 DEF ReplacedOK
<1>11. ServiceOK' /\ StagedOK' BY <1>1 DEF ServiceOK, StagedOK, Claiming
<1>12. ApplyOK' BY <1>1, <1>5, <1>7 DEF ApplyOK, Staged
<1> QED BY <1>4, <1>9, <1>10, <1>11, <1>12 DEF IInv

(* The save after an apply. *)
LEMMA SaveKeeps == ASSUME IInv, SaveApplied PROVE IInv'
<1>1. UNCHANGED <<mb, cust, outcome, clock, session, history, tracker, epochs, closed, gate,
                  client, pairing, claims, proposals, origin, replaced>>
      /\ pc = "save" /\ pc' = "finish"
      /\ \E status \in Applied : run' = [run EXCEPT !.status = status]
  BY DEF SaveApplied, Goto, world, pipe, ghosts, Applied
<1>2. clock' \in Nat /\ clock <= clock' /\ run \in LocalsType
  BY <1>1 DEF IInv, Typed, TypeOK
<1>3. /\ SameTarget' /\ MailOK' /\ RecordsOK' /\ OriginOK' /\ AckOK' /\ ReaderOK' /\ ReplacedOK'
  BY <1>1, <1>2, Untouched
<1>4. run' \in LocalsType /\ run'.proposal = run.proposal /\ run'.status # "none"
  BY <1>1, <1>2 DEF LocalsType, Applied
<1>5. Typed' BY <1>1, <1>2, <1>4 DEF IInv, Typed, TypeOK, Labels
<1>6. ServiceOK' /\ StagedOK' BY <1>1 DEF ServiceOK, StagedOK, Claiming
<1>7. ApplyOK' BY <1>1, <1>4 DEF IInv, ApplyOK, Applying
<1> QED BY <1>3, <1>5, <1>6, <1>7 DEF IInv

-----------------------------------------------------------------------------
(* Steps in which at most something waiting is taken back. *)

(* A committed proposal may leave when its time has run out, or when no    *)
(* acknowledgment of it is left.                                           *)
Timely(k, d) ==
  \/ d.record = cust[k].record \/ cust[k].record.state \notin Committed
  \/ cust[k].record.state = "pending" /\ clock >= cust[k].record.expires
  \/ ~(/\ Unread(mb') /\ mb.review.owner = k
       /\ mb.review.proposal = cust[k].record.proposal)

Kept ==
  /\ SameTarget' /\ MailOK' /\ CustodyParts' /\ AckOK' /\ ReaderOK'
  /\ mb' \in MailboxType
  /\ \A k \in Kinds : \/ cust'[k].record = cust[k].record
                      \/ cust'[k].record = NoRecord /\ ~cust[k].record.published

(* Such a step keeps mailbox, custodians and what ties them.               *)
LEMMA CalmStep ==
  ASSUME IInv, NEW c \in [Kinds -> CustodianType], Custody(c), Calm(mb, mb'),
         mb'.target_epoch = mb.target_epoch,
         \A k \in Kinds : Keeps(cust[k], c[k]) /\ Timely(k, c[k]),
         UNCHANGED <<clock, tracker, epochs, closed, proposals, origin, replaced>>,
         client' = client \/ ReaderOK'
  PROVE  Kept /\ cust' = c
<1>1. cust' = c BY DEF Custody
<1>2. \A k \in Kinds : \/ cust'[k].record = cust[k].record
                       \/ cust'[k].record = NoRecord /\ ~cust[k].record.published
  BY <1>1 DEF Keeps, Lets
<1>3. CustodyParts'
  <2>1. \A k \in Kinds : Lets(cust[k], c[k]) BY DEF Keeps
  <2>2. \A k \in Kinds : c[k].record # cust[k].record => c[k].human \notin Applied
    BY DEF Keeps, Lets
  <2>3. Tracks /\ proposals \in 0..MaxProposals BY Bounds DEF Tracks, IInv, Typed, TypeOK
  <2> QED BY <2>1, <2>2, <2>3, Usable, CustodyLets
<1>4. MailOK' /\ mb' \in MailboxType BY MailKept DEF IInv
<1>5. ReaderOK' BY <1>4, ReaderKept DEF IInv, Calm
<1>6. AckOK'
  <2>1. \A k \in Kinds : \/ cust'[k].record = cust[k].record
                         \/ cust[k].record.state \notin Committed
                         \/ cust[k].record.state = "pending" /\ clock >= cust[k].record.expires
                         \/ ~(/\ Unread(mb') /\ mb.review.owner = k
                              /\ mb.review.proposal = cust[k].record.proposal)
    BY <1>1 DEF Timely
  <2>2. proposals \in Nat /\ proposals' = proposals BY Numbered DEF IInv
  <2> QED BY <2>1, <2>2, AckKept DEF IInv
<1>7. SameTarget'
  BY <1>1 DEF IInv, SameTarget, Keeps, Calm
<1> QED BY <1>1, <1>2, <1>3, <1>4, <1>5, <1>6, <1>7 DEF Kept

(* One custodian is concerned. *)
LEMMA CalmOne ==
  ASSUME IInv, NEW k \in Kinds, NEW d, CustodyOf(k, d), Calm(mb, mb'),
         mb'.target_epoch = mb.target_epoch, Keeps(cust[k], d), Timely(k, d),
         UNCHANGED <<clock, tracker, epochs, closed, proposals, origin, replaced, client>>
  PROVE  Kept /\ cust' = [cust EXCEPT ![k] = d] /\ cust'[k] = d
<1> DEFINE c == [cust EXCEPT ![k] = d]
<1>1. c \in [Kinds -> CustodianType] BY Usable DEF CustodyParts, Keeps, Lets, Orderly
<1>2. c[k] = d /\ \A j \in Kinds \ {k} : c[j] = cust[j] BY Usable DEF CustodyParts
<1>3. Custody(c) BY DEF CustodyOf
<1> HIDE DEF c
<1>4. \A j \in Kinds : Keeps(cust[j], c[j]) /\ Timely(j, c[j])
  BY <1>2, Usable, KeepsRefl DEF Timely
<1> QED BY <1>1, <1>2, <1>3, <1>4, CalmStep DEF c

(* No custodian is concerned. *)
LEMMA CalmNone ==
  ASSUME IInv, UNCHANGED <<cust, outcome>>, Calm(mb, mb'), mb'.target_epoch = mb.target_epoch,
         UNCHANGED <<clock, tracker, epochs, closed, proposals, origin, replaced, client>>
  PROVE  Kept
<1>1. CustodyParts'
  BY Usable DEF CustodyParts, RecordsOK, OriginOK, ReplacedOK, HasRecord, Swap
<1>2. MailOK' /\ mb' \in MailboxType BY MailKept DEF IInv
<1>3. ReaderOK' BY <1>2, ReaderKept DEF IInv, Calm
<1>4. AckOK'
  <2>1. proposals \in Nat /\ proposals' = proposals BY Numbered DEF IInv
  <2> QED BY <2>1, AckKept DEF IInv
<1>5. SameTarget' BY DEF IInv, SameTarget, Calm
<1> QED BY <1>1, <1>2, <1>3, <1>4, <1>5 DEF Kept

(* Looking at a custodian's expiry. *)
LEMMA LookStep ==
  ASSUME IInv, NEW k \in Kinds
  PROVE  /\ Keeps(cust[k], Expired(k)) /\ Timely(k, Expired(k)) /\ Orderly(Expired(k))
         /\ Expired(k).record = cust[k].record
            \/ (Expired(k).record = NoRecord /\ cust[k].record.state \in {"prepared", "pending"}
                /\ clock >= cust[k].record.expires)
         /\ Expired(k).record.state \in {"prepared", "pending"} => clock < Expired(k).record.expires
<1>1. Orderly(cust[k]) /\ clock \in Nat BY Usable
<1>2. /\ Keeps(cust[k], Expired(k))
      /\ Expired(k).record = cust[k].record
            \/ (Expired(k).record = NoRecord /\ cust[k].record.state \in {"prepared", "pending"}
                /\ clock >= cust[k].record.expires)
      /\ Expired(k).record.state \in {"prepared", "pending"} => clock < Expired(k).record.expires
  BY <1>1, ExpireLemma DEF Expired
<1> QED BY <1>2 DEF Timely, Committed, Keeps, Lets

(* check_request looks at a custodian. *)
LEMMA LookedStep ==
  ASSUME IInv, NEW k \in Kinds
  PROVE  /\ Keeps(cust[k], Looked(k)) /\ Orderly(Looked(k))
         /\ Looked(k).record = cust[k].record \/ Looked(k).record = NoRecord
<1> DEFINE e == Expired(k)
           d == DropOtherPairing(e, run.pairing, run.epoch)
<1>1. Keeps(cust[k], e) /\ Orderly(e) /\ (e.record = cust[k].record \/ e.record = NoRecord)
  BY LookStep
<1>2. Looked(k) = e \/ (k = "generation" /\ Looked(k) = d) BY DEF Looked
<1> HIDE DEF e
<1>3. CASE Looked(k) = e BY <1>1, <1>3
<1>4. CASE k = "generation" /\ Looked(k) = d
  <2>1. ~cust[k].record.published BY <1>4 DEF IInv, RecordsOK
  <2>2. ~e.record.published BY <1>1, <2>1, NoRecordType
  <2>3. Keeps(e, d) BY <1>1, <2>2, DropLemma
  <2> HIDE DEF d
  <2>4. Keeps(cust[k], d) BY <1>1, <2>3, Usable, KeepsTrans
  <2> QED BY <1>4, <2>4 DEF Keeps, Lets
<1> QED BY <1>2, <1>3, <1>4

(* The rest of the state, when mailbox and custodians are kept. *)
LEMMA TypedKept ==
  ASSUME Typed, mb' \in MailboxType, CustodyParts', clock' \in Nat,
         session' \in [project : Projects, content : Contents],
         history' \in Seq(Contents), Len(history') <= MaxHistory,
         tracker' \in [initialized : BOOLEAN, target : Projects, epoch : Nat],
         epochs' \in 0..MaxEpochs, closed' \in BOOLEAN, gate' \in BOOLEAN,
         pc' \in Labels, run' \in LocalsType, client' \in CallType,
         pairing' \in Nat, claims' \in Nat, proposals' \in 0..MaxProposals,
         origin' \in [Proposals -> OriginType], replaced' \in [Proposals -> Nat]
  PROVE  Typed'
BY DEF Typed, TypeOK, CustodyParts

(* When nothing but the script thread moves besides. *)
LEMMA StillTyped ==
  ASSUME Typed, mb' \in MailboxType, CustodyParts',
         UNCHANGED <<clock, session, history, tracker, epochs, closed, gate, pairing, proposals,
                     origin, replaced>>,
         claims' \in Nat, client' \in CallType, pc' \in Labels, run' \in LocalsType
  PROVE  Typed'
<1>1. /\ clock' \in Nat /\ session' \in [project : Projects, content : Contents]
      /\ history' \in Seq(Contents) /\ Len(history') <= MaxHistory
      /\ tracker' \in [initialized : BOOLEAN, target : Projects, epoch : Nat]
      /\ epochs' \in 0..MaxEpochs /\ closed' \in BOOLEAN /\ gate' \in BOOLEAN
      /\ pairing' \in Nat /\ proposals' \in 0..MaxProposals
      /\ origin' \in [Proposals -> OriginType] /\ replaced' \in [Proposals -> Nat]
  BY DEF Typed, TypeOK
<1> QED BY <1>1, TypedKept

(* What is kept and what the script thread keeps is the invariant. *)
LEMMA KeptInv ==
  ASSUME Typed', Kept, ServiceOK', ApplyOK', StagedOK'
  PROVE  IInv'
BY DEF IInv, Kept, CustodyParts

(* A panel looks at custody. *)
LEMMA InspectKeeps ==
  ASSUME IInv, NEW k \in Kinds, Inspect(k)
  PROVE  IInv'
<1>1. /\ CustodyOf(k, Expired(k)) /\ mb' = InspectAck(mb, Expired(k), k)
      /\ UNCHANGED <<clock, session, history, tracker, epochs, closed, gate, pc, run, client,
                     pairing, claims, proposals, origin, replaced>>
      /\ pc' = "off"
  BY DEF Inspect, world, pipe, ghosts
<1>2. Withdraws(mb, mb') BY <1>1, Usable, InspectAckLemma
<1>3. Kept BY <1>1, <1>2, LookStep, CalmOne DEF Withdraws
<1>4. Typed' BY <1>1, <1>3, StillTyped DEF Kept, IInv, Typed, TypeOK
<1> QED BY <1>1, <1>3, <1>4, Rests, KeptInv

(* The end of an apply looks at custody, too. *)
LEMMA LookKeeps == ASSUME IInv, LookAfterApply PROVE IInv'
<1>1. /\ CustodyOf("swap", Expired("swap")) /\ mb' = InspectAck(mb, Expired("swap"), "swap")
      /\ UNCHANGED <<clock, session, history, tracker, epochs, closed, gate, client,
                     pairing, claims, proposals, origin, replaced>>
      /\ pc = "look" /\ pc' = "off" /\ run' = NoLocals
  BY DEF LookAfterApply, End, world, pipe, ghosts
<1>2. "swap" \in Kinds BY <1>1 DEF IInv, ApplyOK, Applying
<1>3. Withdraws(mb, mb') BY <1>1, Usable, InspectAckLemma
<1>4. Kept BY <1>1, <1>2, <1>3, LookStep, CalmOne DEF Withdraws
<1>5. Typed' BY <1>1, <1>4, StillTyped, NoLocalsType DEF Kept, IInv, Typed, TypeOK, Labels
<1> QED BY <1>1, <1>4, <1>5, Rests, KeptInv

(* Reject and Dismiss. *)
LEMMA ResolveKeeps ==
  ASSUME IInv, NEW k \in Kinds, NEW p, NEW human \in {"rejected", "dismissed"},
         ResolveProposal(k, p, human)
  PROVE  IInv'
<1> DEFINE e == Expired(k)
           d == Resolve(e, p, human)
<1>1. /\ CustodyOf(k, d) /\ mb' = ResolveAck(mb, d, k, p)
      /\ UNCHANGED <<clock, session, history, tracker, epochs, closed, gate, pc, run, client,
                     pairing, claims, proposals, origin, replaced>>
      /\ pc' = "off"
  BY DEF ResolveProposal, world, pipe, ghosts
<1>2. /\ Keeps(cust[k], e) /\ Timely(k, e) /\ Orderly(e) /\ Orderly(cust[k]) /\ IsMailbox(mb)
  BY LookStep, Usable
<1> HIDE DEF e
<1>3. /\ Keeps(e, d)
      /\ d.record # e.record => e.record.proposal = p /\ ~e.closed /\ d.human = human
  BY <1>2, ResolveLemma
<1>4. /\ Withdraws(mb, mb')
      /\ /\ Unread(mb') /\ mb.review.owner = k /\ ~d.closed
         /\ d.human \in {"rejected", "dismissed", "expired", "stale"}
         => mb.review.proposal # p
  BY <1>1, <1>2, ResolveAckLemma
<1> HIDE DEF d
<1>5. Keeps(cust[k], d) BY <1>2, <1>3, KeepsTrans
<1>6. Timely(k, d)
  <2>1. CASE d.record = e.record BY <1>2, <2>1 DEF Timely
  <2>2. CASE e.record # cust[k].record BY <1>2, <2>2 DEF Timely
  <2>3. CASE d.record # e.record /\ e.record = cust[k].record
    <3>1. ~d.closed BY <1>3, <2>3 DEF Keeps
    <3> QED BY <1>3, <1>4, <2>3, <3>1 DEF Timely
  <2> QED BY <2>1, <2>2, <2>3
<1>7. Kept BY <1>1, <1>4, <1>5, <1>6, CalmOne DEF Withdraws
<1>8. Typed' BY <1>1, <1>7, StillTyped DEF Kept, IInv, Typed, TypeOK
<1> QED BY <1>1, <1>7, <1>8, Rests, KeptInv

(* mark_review_proposal_stale retires the proposal with its                *)
(* acknowledgment.                                                         *)
LEMMA StaleStep ==
  ASSUME IInv, NEW k \in Kinds, NEW p, CustodyOf(k, MarkStale(Expired(k), p)),
         mb' = StaleAck(mb, MarkStale(Expired(k), p), k, p),
         UNCHANGED <<clock, tracker, epochs, closed, proposals, origin, replaced, client>>
  PROVE  Kept
<1> DEFINE e == Expired(k)
           d == MarkStale(e, p)
<1>2. /\ Keeps(cust[k], e) /\ Timely(k, e) /\ Orderly(e) /\ Orderly(cust[k]) /\ IsMailbox(mb)
  BY LookStep, Usable
<1> HIDE DEF e
<1>3. /\ Keeps(e, d)
      /\ d.record # e.record => e.record.proposal = p /\ ~e.closed /\ d.human = "stale"
  BY <1>2, MarkStaleLemma
<1>4. /\ Withdraws(mb, mb')
      /\ /\ Unread(mb') /\ mb.review.owner = k /\ ~d.closed /\ d.human \in {"expired", "stale"}
         => mb.review.proposal # p
  BY <1>2, StaleAckLemma DEF e
<1>0. CustodyOf(k, d) BY DEF e
<1> HIDE DEF d
<1>5. Keeps(cust[k], d) BY <1>2, <1>3, KeepsTrans
<1>6. Timely(k, d)
  <2>1. CASE d.record = e.record BY <1>2, <2>1 DEF Timely
  <2>2. CASE e.record # cust[k].record BY <1>2, <2>2 DEF Timely
  <2>3. CASE d.record # e.record /\ e.record = cust[k].record
    <3>1. ~d.closed BY <1>3, <2>3 DEF Keeps
    <3> QED BY <1>3, <1>4, <2>3, <3>1 DEF Timely
  <2> QED BY <2>1, <2>2, <2>3
<1> QED BY <1>0, <1>4, <1>5, <1>6, CalmOne DEF Withdraws

(* The panel's fresh preview is not the proposal's, ... *)
LEMMA MarkKeeps ==
  ASSUME IInv, NEW k \in Kinds, MarkProposalStale(k)
  PROVE  IInv'
<1>1. /\ CustodyOf(k, MarkStale(Expired(k), cust[k].record.proposal))
      /\ mb' = StaleAck(mb, MarkStale(Expired(k), cust[k].record.proposal), k,
                        cust[k].record.proposal)
      /\ UNCHANGED <<clock, session, history, tracker, epochs, closed, gate, pc, run, client,
                     pairing, claims, proposals, origin, replaced>>
      /\ pc' = "off"
  BY DEF MarkProposalStale, world, pipe, ghosts
<1>2. Kept BY <1>1, StaleStep
<1>3. Typed' BY <1>1, <1>2, StillTyped DEF Kept, IInv, Typed, TypeOK
<1> QED BY <1>1, <1>2, <1>3, Rests, KeptInv

(* ... or the one computed for the apply is not. *)
LEMMA StaleApplyKeeps == ASSUME IInv, StaleForApply PROVE IInv'
<1>1. /\ CustodyOf("swap", MarkStale(Expired("swap"), run.proposal))
      /\ mb' = StaleAck(mb, MarkStale(Expired("swap"), run.proposal), "swap", run.proposal)
      /\ UNCHANGED <<clock, session, history, tracker, epochs, closed, gate, client,
                     pairing, claims, proposals, origin, replaced>>
      /\ pc = "stale" /\ pc' = "off" /\ run' = NoLocals
  BY DEF StaleForApply, End, world, pipe, ghosts
<1>2. "swap" \in Kinds BY <1>1 DEF IInv, ApplyOK, Applying
<1>3. Kept BY <1>1, <1>2, StaleStep
<1>4. Typed' BY <1>1, <1>3, StillTyped, NoLocalsType DEF Kept, IInv, Typed, TypeOK, Labels
<1> QED BY <1>1, <1>3, <1>4, Rests, KeptInv

(* disarm cancels what waits with its acknowledgment. *)
LEMMA DisarmKeeps == ASSUME IInv, Disarm PROVE IInv'
<1> DEFINE c == [k \in Kinds |-> CancelCustody(cust[k])]
<1>1. /\ Custody(c) /\ mb' = IF mb.review.owner \in Kinds THEN CancelAck(mb, mb.review.owner) ELSE mb
      /\ UNCHANGED <<clock, session, history, tracker, epochs, closed, gate, pc, run, client,
                     pairing, claims, proposals, origin, replaced>>
      /\ pc' = "off"
  BY DEF Disarm, world, pipe, ghosts
<1>2. Withdraws(mb, mb') /\ ~Unread(mb')
  <2>1. CASE mb.review.owner \in Kinds BY <1>1, <2>1, Usable, CancelAckLemma
  <2>2. CASE mb.review.owner \notin Kinds
    <3>1. mb.review.owner = "none" BY <2>2 DEF IInv, MailOK
    <3> QED BY <1>1, <2>2, <3>1, Usable, CalmRefl DEF Unread
  <2> QED BY <2>1, <2>2
<1>3. \A k \in Kinds : Keeps(cust[k], c[k]) /\ Timely(k, c[k])
  BY <1>2, Usable, CancelLemma DEF Timely
<1>4. c \in [Kinds -> CustodianType] BY <1>3 DEF Keeps, Lets, Orderly
<1> HIDE DEF c
<1>5. Kept BY <1>1, <1>2, <1>3, <1>4, CalmStep DEF Withdraws
<1>6. Typed' BY <1>1, <1>5, StillTyped DEF Kept, IInv, Typed, TypeOK
<1> QED BY <1>1, <1>5, <1>6, Rests, KeptInv

(* synchronize_target keeps mailbox and custodians on the tracker's        *)
(* target.                                                                 *)
LEMMA SyncStep ==
  ASSUME IInv, ~closed, NEW project \in Projects, SynchronizeTarget(project),
         UNCHANGED <<clock, closed, proposals, origin, replaced, client>>
  PROVE  /\ Kept /\ tracker'.initialized /\ tracker'.target = project
         /\ tracker' \in [initialized : BOOLEAN, target : Projects, epoch : Nat]
         /\ epochs' \in 0..MaxEpochs
<1> DEFINE same == tracker.initialized /\ tracker.target = project
           epoch == IF same THEN tracker.epoch ELSE epochs + 1
           c == [k \in Kinds |-> SynchronizeCustody(cust[k], epoch)]
<1>1. /\ epoch <= MaxEpochs
      /\ tracker' = [initialized |-> TRUE, target |-> project, epoch |-> epoch]
      /\ epochs' = IF same THEN epochs ELSE epoch
      /\ mb' = SynchronizeTargetEpoch(mb, epoch) /\ Custody(c)
  BY DEF SynchronizeTarget
<1>2. epochs \in Nat /\ epochs <= MaxEpochs /\ MaxEpochs \in Nat
      /\ tracker \in [initialized : BOOLEAN, target : Projects, epoch : Nat]
  BY Bounds DEF IInv, Typed, TypeOK
<1>3. same => tracker.epoch \in 1..epochs BY DEF IInv, SameTarget
<1>4. epoch \in Nat \ {0} /\ epochs' \in Nat /\ epoch \in 1..epochs' /\ epochs <= epochs'
  BY <1>1, <1>2, <1>3
<1>5. epoch = tracker.epoch => same /\ epoch \in 1..epochs
  BY <1>2, <1>3 DEF IInv, SameTarget
<1>6. tracker'.initialized /\ tracker'.target = project /\ tracker'.epoch = epoch
      /\ tracker' \in [initialized : BOOLEAN, target : Projects, epoch : Nat]
      /\ epochs' \in 0..MaxEpochs
  BY <1>1, <1>2, <1>4
<1>7. Tracks
  <2>1. same => tracker' = tracker BY <1>1, <1>2
  <2> QED BY <1>1, <1>2, <1>4, <2>1 DEF Tracks
<1>8. mb.target_epoch = tracker.epoch /\ ~mb.closed /\ IsMailbox(mb)
      /\ \A k \in Kinds : cust[k].epoch = tracker.epoch /\ ~cust[k].closed /\ Orderly(cust[k])
  BY Usable DEF IInv, SameTarget
<1> HIDE DEF epoch, same
<1>9. /\ Calm(mb, mb') /\ mb'.target_epoch = epoch
      /\ epoch # tracker.epoch => ~Unread(mb')
  BY <1>1, <1>4, <1>8, SyncMail
<1>10. \A k \in Kinds : /\ Lets(cust[k], c[k]) /\ c[k].closed = cust[k].closed
                        /\ c[k].epoch = epoch
                        /\ cust[k].record.published => c[k].record = cust[k].record
                        /\ epoch = tracker.epoch => c[k] = cust[k]
  BY <1>4, <1>8, SyncCustodian
<1>11. c \in [Kinds -> CustodianType] BY <1>10 DEF Lets, Orderly
<1>12. cust' = c BY <1>1 DEF Custody
<1> HIDE DEF c
<1>13. CustodyParts'
  <2>1. \A k \in Kinds : c[k].record # cust[k].record => c[k].human \notin Applied
    BY <1>10 DEF Lets
  <2>2. proposals \in 0..MaxProposals BY Bounds DEF IInv, Typed, TypeOK
  <2> QED BY <1>1, <1>7, <1>10, <1>11, <2>1, <2>2, Usable, CustodyLets
<1>14. MailOK' /\ mb' \in MailboxType BY <1>9, MailKept DEF IInv
<1>15. ReaderOK' BY <1>9, <1>14, ReaderKept DEF IInv, Calm
<1>16. AckOK'
  <2>1. CASE epoch # tracker.epoch BY <1>9, <2>1 DEF AckOK, UnreadAck, Unread
  <2>2. CASE epoch = tracker.epoch
    <3>1. \A k \in Kinds : cust'[k].record = cust[k].record BY <1>10, <1>12, <2>2
    <3>2. proposals \in Nat /\ proposals' = proposals BY Numbered DEF IInv
    <3> QED BY <1>9, <3>1, <3>2, AckKept DEF IInv
  <2> QED BY <2>1, <2>2
<1>17. SameTarget'
  <2>1. mb'.closed = closed' BY <1>9 DEF Calm, IInv, SameTarget
  <2>2. \A k \in Kinds : cust'[k].closed = closed' /\ cust'[k].epoch = tracker'.epoch
    BY <1>6, <1>10, <1>12 DEF IInv, SameTarget
  <2> QED BY <1>4, <1>6, <1>9, <2>1, <2>2 DEF SameTarget
<1>18. \A k \in Kinds : \/ cust'[k].record = cust[k].record
                        \/ cust'[k].record = NoRecord /\ ~cust[k].record.published
  BY <1>10, <1>12 DEF Lets
<1> QED BY <1>6, <1>13, <1>14, <1>15, <1>16, <1>17, <1>18 DEF Kept

(* The begin of a run, with or without a session. *)
LEMMA SynchronizeStep ==
  ASSUME IInv, Synchronize, UNCHANGED <<clock, closed, session, proposals, origin, replaced, client>>
  PROVE  /\ Kept
         /\ ~closed => tracker'.initialized /\ tracker'.target = session.project
         /\ tracker' \in [initialized : BOOLEAN, target : Projects, epoch : Nat]
         /\ epochs' \in 0..MaxEpochs
<1>1. CASE closed
  <2>1. UNCHANGED <<tracker, epochs, mb, cust, outcome>> BY <1>1 DEF Synchronize
  <2>2. Calm(mb, mb') BY <2>1, Usable, CalmRefl
  <2>3. Kept BY <2>1, <2>2, CalmNone
  <2> QED BY <1>1, <2>1, <2>3 DEF IInv, Typed, TypeOK
<1>2. CASE ~closed
  <2>1. SynchronizeTarget(session.project) BY <1>2 DEF Synchronize
  <2>2. session.project \in Projects BY DEF IInv, Typed, TypeOK
  <2> QED BY <1>2, <2>1, <2>2, SyncStep
<1> QED BY <1>1, <1>2

-----------------------------------------------------------------------------
(* Steps with a synchronization. *)

(* A synchronization leaves the rest of the state of its type. *)
LEMMA SyncTyped ==
  ASSUME Typed, Kept,
         tracker' \in [initialized : BOOLEAN, target : Projects, epoch : Nat],
         epochs' \in 0..MaxEpochs,
         UNCHANGED <<clock, session, history, closed, client, pairing, claims, proposals, origin,
                     replaced>>,
         gate' \in BOOLEAN, pc' \in Labels, run' \in LocalsType
  PROVE  Typed'
<1>1. /\ clock' \in Nat /\ session' \in [project : Projects, content : Contents]
      /\ history' \in Seq(Contents) /\ Len(history') <= MaxHistory
      /\ closed' \in BOOLEAN /\ client' \in CallType
      /\ pairing' \in Nat /\ claims' \in Nat /\ proposals' \in 0..MaxProposals
      /\ origin' \in [Proposals -> OriginType] /\ replaced' \in [Proposals -> Nat]
  BY DEF Typed, TypeOK
<1>2. mb' \in MailboxType /\ CustodyParts' BY DEF Kept
<1> QED BY <1>1, <1>2, TypedKept

(* The begin of a run. *)
LEMMA ObserveKeeps == ASSUME IInv, Observe PROVE IInv'
<1>1. /\ ~closed /\ SynchronizeTarget(session.project)
      /\ UNCHANGED <<clock, session, history, closed, gate, pc, run, client, pairing, claims,
                     proposals, origin, replaced>>
      /\ pc' = "off"
  BY DEF Observe, pipe, ghosts
<1>2. session.project \in Projects BY DEF IInv, Typed, TypeOK
<1>3. /\ Kept /\ tracker' \in [initialized : BOOLEAN, target : Projects, epoch : Nat]
      /\ epochs' \in 0..MaxEpochs
  BY <1>1, <1>2, SyncStep
<1>4. gate' \in BOOLEAN /\ pc' \in Labels /\ run' \in LocalsType
  BY <1>1 DEF IInv, Typed, TypeOK
<1>5. Typed' BY <1>1, <1>3, <1>4, SyncTyped DEF IInv
<1> QED BY <1>1, <1>3, <1>5, Rests, KeptInv

(* The service point. *)
LEMMA ServeKeeps == ASSUME IInv, Serve PROVE IInv'
<1> DEFINE e == IF closed THEN None ELSE tracker'.epoch
<1>1. /\ Synchronize
      /\ UNCHANGED <<clock, session, history, closed, gate, client, pairing, claims,
                     proposals, origin, replaced>>
      /\ pc' = "claim" /\ run' = [NoLocals EXCEPT !.epoch = e]
  BY DEF Serve, Goto, pipe, ghosts
<1>3. /\ Kept /\ tracker' \in [initialized : BOOLEAN, target : Projects, epoch : Nat]
      /\ epochs' \in 0..MaxEpochs
      /\ ~closed => tracker'.initialized /\ tracker'.target = session.project
  BY <1>1, SynchronizeStep
<1>4. e \in Nat BY <1>3
<1>5. run' \in LocalsType /\ run'.epoch = e
  <2> HIDE DEF e
  <2> QED BY <1>1, <1>4, NoLocalsType DEF LocalsType
<1>6. gate' \in BOOLEAN /\ pc' \in Labels BY <1>1 DEF IInv, Typed, TypeOK, Labels
<1>7. Typed' BY <1>1, <1>3, <1>5, <1>6, SyncTyped DEF IInv
<1>8. ServiceOK' BY <1>1, <1>3, <1>5 DEF ServiceOK, Claiming
<1>9. ApplyOK' /\ StagedOK' BY <1>1 DEF ApplyOK, StagedOK, Applying
<1> QED BY <1>3, <1>7, <1>8, <1>9, KeptInv

(* The begin of an apply. *)
LEMMA StartKeeps ==
  ASSUME IInv, "swap" \in Kinds, NEW p \in 1..proposals, StartApply(p)
  PROVE  IInv'
<1> DEFINE e == IF closed THEN None ELSE tracker'.epoch
<1>1. /\ Synchronize
      /\ UNCHANGED <<clock, session, history, closed, gate, client, pairing, claims,
                     proposals, origin, replaced>>
      /\ pc' = "inspect" /\ run' = [NoLocals EXCEPT !.proposal = p, !.epoch = e]
  BY DEF StartApply, Goto, pipe, ghosts
<1>3. /\ Kept /\ tracker' \in [initialized : BOOLEAN, target : Projects, epoch : Nat]
      /\ epochs' \in 0..MaxEpochs
  BY <1>1, SynchronizeStep
<1>4. e \in Nat BY <1>3
<1>5. p \in 0..MaxProposals BY Numbered, Bounds DEF IInv, Typed, TypeOK
<1>6. run' \in LocalsType /\ run'.proposal = p
  <2> HIDE DEF e
  <2> QED BY <1>1, <1>4, <1>5, NoLocalsType DEF LocalsType
<1>7. gate' \in BOOLEAN /\ pc' \in Labels BY <1>1 DEF IInv, Typed, TypeOK, Labels
<1>8. Typed' BY <1>1, <1>3, <1>6, <1>7, SyncTyped DEF IInv
<1>9. ServiceOK' /\ StagedOK' BY <1>1 DEF ServiceOK, StagedOK, Claiming
<1>10. ApplyOK' BY <1>1, <1>6 DEF ApplyOK, Applying
<1> QED BY <1>3, <1>8, <1>9, <1>10, KeptInv

(* The new target is observed before the gate is left. *)
LEMMA ObserveReplacementKeeps == ASSUME IInv, ObserveReplacement PROVE IInv'
<1>1. /\ SynchronizeTarget(session.project) /\ gate' = FALSE
      /\ UNCHANGED <<clock, session, history, closed, run, client, pairing, claims,
                     proposals, origin, replaced>>
      /\ pc = "observe" /\ pc' = "save"
  BY DEF ObserveReplacement, Goto, pipe, ghosts
<1>2. session.project \in Projects /\ ~closed
  BY <1>1 DEF IInv, Typed, TypeOK, ApplyOK
<1>3. /\ Kept /\ tracker' \in [initialized : BOOLEAN, target : Projects, epoch : Nat]
      /\ epochs' \in 0..MaxEpochs
  BY <1>1, <1>2, SyncStep
<1>4. gate' \in BOOLEAN /\ pc' \in Labels /\ run' \in LocalsType
  BY <1>1 DEF IInv, Typed, TypeOK, Labels
<1>5. Typed' BY <1>1, <1>3, <1>4, SyncTyped DEF IInv
<1>6. ServiceOK' /\ StagedOK' BY <1>1 DEF ServiceOK, StagedOK, Claiming
<1>7. ApplyOK' BY <1>1 DEF IInv, ApplyOK, Applying
<1> QED BY <1>3, <1>5, <1>6, <1>7, KeptInv

(* The session is released: every proposal leaves, and no acknowledgment   *)
(* stays; an apply that goes on finds no claim.                            *)
LEMMA CloseKeeps == ASSUME IInv, CloseSession PROVE IInv'
<1> DEFINE c == [k \in Kinds |-> CloseCustody(cust[k])]
<1>1. /\ ~closed /\ ~gate /\ closed' = TRUE /\ mb' = Close(mb) /\ Custody(c)
      /\ tracker' = [initialized |-> FALSE, target |-> None, epoch |-> None]
      /\ UNCHANGED <<clock, session, history, epochs, gate, pc, run, client, pairing, claims,
                     proposals, origin, replaced>>
  BY DEF CloseSession, CloseEnabled, pipe, ghosts
<1>2. /\ IsMailbox(mb') /\ mb'.closed = TRUE /\ mb'.target_epoch = None
      /\ mb'.state = "closed" /\ mb'.review = NoReview /\ Reads(mb, mb')
  BY <1>1, Usable, CloseMail
<1>3. \A k \in Kinds : /\ Lets(cust[k], c[k]) /\ c[k].closed = TRUE /\ c[k].record = NoRecord
                       /\ c[k].human = "session_unavailable"
  BY Usable, CloseCustodian
<1>4. c \in [Kinds -> CustodianType] BY <1>3 DEF Lets, Orderly
<1> HIDE DEF c
<1>5. cust' = c BY <1>1 DEF Custody
<1>6. CustodyParts'
  <2>1. Tracks BY <1>1 DEF Tracks, IInv, Typed, TypeOK
  <2>2. proposals \in 0..MaxProposals BY DEF IInv, Typed, TypeOK
  <2>3. "session_unavailable" \notin Applied BY DEF Applied
  <2> QED BY <1>1, <1>3, <1>4, <2>1, <2>2, <2>3, Usable, CustodyLets
<1>7. MailOK' /\ mb' \in MailboxType
  BY <1>2 DEF MailOK, IsMailbox, NoReview, Unclaimed
<1>8. ReaderOK' BY <1>1, <1>2, <1>7, ReaderKept DEF IInv
<1>9. AckOK' BY <1>2 DEF AckOK, UnreadAck
<1>10. SameTarget' BY <1>1, <1>2, <1>3, <1>5 DEF SameTarget
<1>11. Typed'
  <2>1. tracker' \in [initialized : BOOLEAN, target : Projects, epoch : Nat]
    BY <1>1, Bounds
  <2>2. /\ clock' \in Nat /\ session' \in [project : Projects, content : Contents]
        /\ history' \in Seq(Contents) /\ Len(history') <= MaxHistory
        /\ closed' \in BOOLEAN /\ client' \in CallType
        /\ pairing' \in Nat /\ claims' \in Nat /\ proposals' \in 0..MaxProposals
        /\ origin' \in [Proposals -> OriginType] /\ replaced' \in [Proposals -> Nat]
        /\ epochs' \in 0..MaxEpochs /\ gate' \in BOOLEAN /\ pc' \in Labels
        /\ run' \in LocalsType
    BY <1>1 DEF IInv, Typed, TypeOK
  <2> QED BY <1>6, <1>7, <2>1, <2>2, TypedKept DEF IInv
<1>12. ServiceOK'
  <2>1. pc \in {"prepare", "publish"} => Kind \in Kinds
    BY Bounds DEF Kind, IInv, ServiceOK, Claiming
  <2>2. pc = "publish" /\ run.carrier = "prepared" =>
          run.proposal \in 1..proposals /\ run.proposal # 0
    BY DEF IInv, ServiceOK
  <2>3. Kind' = Kind BY <1>1 DEF Kind
  <2>4. pc = "publish" => cust'[Kind].record.proposal = 0
    BY <1>3, <1>5, <2>1, NoRecordType
  <2>5. pc = "prepare" => ~HasRecord(cust'[Kind])
    BY <1>3, <1>5, <2>1, NoRecordType DEF HasRecord
  <2> QED BY <1>1, <2>2, <2>3, <2>4, <2>5 DEF IInv, ServiceOK, Claiming
<1>13. ApplyOK'
  <2>1. pc \in {"core", "apply_publish"} =>
          Swap'.record.proposal = 0 /\ run.proposal # 0
    BY <1>3, <1>5, NoRecordType DEF Swap, IInv, ApplyOK, Applying
  <2> QED BY <1>1, <2>1 DEF IInv, ApplyOK
<1>14. StagedOK' BY <1>1 DEF IInv, StagedOK, Staged
<1> QED BY <1>6, <1>7, <1>8, <1>9, <1>10, <1>11, <1>12, <1>13, <1>14 DEF IInv, CustodyParts

-----------------------------------------------------------------------------
(* The service. *)

(* The request is claimed or refused. *)
LEMMA ClaimKeeps == ASSUME IInv, Claim PROVE IInv'
<1>1. /\ mb' = ClaimTake(mb, run.epoch, claims + 1, clock) /\ pc = "claim"
      /\ UNCHANGED <<clock, session, history, tracker, epochs, closed, gate, cust, client, pairing,
                     proposals, origin, replaced, outcome>>
  BY DEF Claim, world, pipe, ghosts
<1>2. run \in LocalsType /\ run.epoch \in Nat /\ claims \in Nat /\ clock \in Nat
  BY DEF IInv, Typed, TypeOK, LocalsType
<1>3. /\ Calm(mb, mb') /\ mb'.target_epoch = mb.target_epoch
      /\ Claimable(mb, run.epoch, clock) =>
           mb'.state = "executing" /\ mb.state \in Unclaimed /\ ~mb.closed
  BY <1>1, <1>2, Usable, ClaimMail
<1>4. Kept BY <1>1, <1>3, CalmNone
<1>5. CASE Claimable(mb, run.epoch, clock)
  <2>1. /\ claims' = claims + 1 /\ pc' = "confirm"
        /\ run' = [run EXCEPT !.claim = claims + 1, !.payload = mb.request,
                              !.pairing = mb.pairing]
    BY <1>5 DEF Claim, Goto
  <2>2. mb.request \in Payloads /\ mb.pairing \in Nat
    BY <1>3, <1>5 DEF IInv, MailOK, Typed, TypeOK, MailboxType
  <2>3. run' \in LocalsType /\ run'.epoch = run.epoch /\ run'.payload = mb.request
    <3> DEFINE q == mb.request
               a == mb.pairing
               n == claims + 1
    <3>1. q \in Payloads /\ a \in Nat /\ n \in Nat BY <1>2, <2>2
    <3>2. run' = [run EXCEPT !.claim = n, !.payload = q, !.pairing = a] BY <2>1
    <3>3. run' \in LocalsType /\ run'.epoch = run.epoch /\ run'.payload = q
      <4> HIDE DEF q, a, n
      <4> QED BY <1>2, <3>1, <3>2 DEF LocalsType
    <3> QED BY <3>3
  <2>4. Typed' BY <1>1, <1>2, <1>4, <2>1, <2>3, StillTyped DEF Kept, IInv, Typed, TypeOK, Labels
  <2>5. ServiceOK' BY <1>1, <1>3, <1>5, <2>1, <2>2, <2>3 DEF IInv, ServiceOK, Claiming
  <2>6. ApplyOK' /\ StagedOK' BY <2>1 DEF ApplyOK, StagedOK, Applying
  <2> QED BY <1>4, <2>4, <2>5, <2>6, KeptInv
<1>6. CASE ~Claimable(mb, run.epoch, clock)
  <2>1. claims' = claims /\ pc' = "off" /\ run' = NoLocals BY <1>6 DEF Claim, End
  <2>2. Typed'
    BY <1>1, <1>2, <1>4, <2>1, NoLocalsType, StillTyped DEF Kept, IInv, Typed, TypeOK, Labels
  <2> QED BY <1>4, <2>1, <2>2, Rests, KeptInv
<1> QED BY <1>5, <1>6

(* The claim is confirmed or refused. *)
LEMMA ConfirmKeeps == ASSUME IInv, Confirm PROVE IInv'
<1>1. /\ mb' = ClaimCheck(mb, run.epoch, run.claim, clock) /\ pc = "confirm"
      /\ UNCHANGED <<clock, session, history, tracker, epochs, closed, gate, cust, client, pairing,
                     claims, proposals, origin, replaced, outcome>>
  BY DEF Confirm, world, pipe, ghosts
<1>2. run \in LocalsType /\ run.epoch \in Nat /\ run.claim \in Nat /\ claims \in Nat /\ clock \in Nat
  BY DEF IInv, Typed, TypeOK, LocalsType
<1>3. /\ Calm(mb, mb') /\ mb'.target_epoch = mb.target_epoch
      /\ ClaimConfirmed(mb, run.epoch, run.claim, clock) => mb' = mb /\ mb.state = "executing"
  BY <1>1, <1>2, Usable, ConfirmMail
<1>4. Kept BY <1>1, <1>3, CalmNone
<1>5. CASE ClaimConfirmed(mb, run.epoch, run.claim, clock)
  <2>1. pc' = "check" /\ run' = run BY <1>5 DEF Confirm, Goto
  <2>2. Typed' BY <1>1, <1>2, <1>4, <2>1, StillTyped DEF Kept, IInv, Typed, TypeOK, Labels
  <2>3. ServiceOK' BY <1>1, <1>3, <1>5, <2>1 DEF IInv, ServiceOK, Claiming
  <2>4. ApplyOK' /\ StagedOK' BY <2>1 DEF ApplyOK, StagedOK, Applying
  <2> QED BY <1>4, <2>2, <2>3, <2>4, KeptInv
<1>6. CASE ~ClaimConfirmed(mb, run.epoch, run.claim, clock)
  <2>1. pc' = "off" /\ run' = NoLocals BY <1>6 DEF Confirm, End
  <2>2. Typed'
    BY <1>1, <1>2, <1>4, <2>1, NoLocalsType, StillTyped DEF Kept, IInv, Typed, TypeOK, Labels
  <2> QED BY <1>4, <2>1, <2>2, Rests, KeptInv
<1> QED BY <1>5, <1>6

(* What the thread serving a request can rely on. *)
LEMMA Serving ==
  ASSUME IInv, pc \in Claiming
  PROVE  /\ Kind \in Kinds /\ run.payload \in Payloads /\ ~Unread(mb)
         /\ run \in LocalsType /\ run.epoch \in Nat /\ run.claim \in Nat /\ run.pairing \in Nat
         /\ run.revision \in Nat /\ run.proposal \in 0..MaxProposals
         /\ IdOf[run.payload] \in Nat \ {0} /\ IntentOf[run.payload] \in Contents
         /\ IntentOf[run.payload] \in Nat
         /\ PlainReply \in ReplyType /\ AckReply \in ReplyType
<1>1. run.payload \in Payloads BY DEF IInv, ServiceOK
<1>2. mb.state # "reply_ready"
  BY Usable DEF IInv, ServiceOK, SameTarget, IsMailbox, WellFormed
<1>3. /\ run \in LocalsType /\ run.epoch \in Nat /\ run.claim \in Nat /\ run.pairing \in Nat
      /\ run.revision \in Nat /\ run.proposal \in 0..MaxProposals
  BY DEF IInv, Typed, TypeOK, LocalsType
<1>4. /\ Kind \in Kinds /\ IdOf[run.payload] \in Nat \ {0} /\ IntentOf[run.payload] \in Contents
      /\ IntentOf[run.payload] \in Nat
  BY <1>1, Bounds DEF Kind
<1>5. PlainReply \in ReplyType /\ AckReply \in ReplyType
  BY <1>3, <1>4, Bounds DEF PlainReply, AckReply, ReplyType
<1> QED BY <1>1, <1>2, <1>3, <1>4, <1>5 DEF Unread

(* While a request is executing, no acknowledgment waits: its custodian    *)
(* may let go what it does not publish.                                    *)
LEMMA ServeOne ==
  ASSUME IInv, pc \in Claiming, NEW d, CustodyOf(Kind, d), Keeps(cust[Kind], d),
         UNCHANGED <<mb, clock, tracker, epochs, closed, proposals, origin, replaced, client>>
  PROVE  Kept /\ cust'[Kind] = d
<1>1. Calm(mb, mb') /\ ~Unread(mb') /\ Kind \in Kinds
  BY Serving, Usable, CalmRefl
<1>2. Timely(Kind, d) BY <1>1 DEF Timely
<1> DEFINE k == Kind
<1>3. k \in Kinds /\ CustodyOf(k, d) /\ Keeps(cust[k], d) /\ Timely(k, d) BY <1>1, <1>2
<1> HIDE DEF k
<1>4. Kept /\ cust'[k] = d BY <1>1, <1>3, CalmOne
<1> QED BY <1>4 DEF k

(* The service goes on with the same request. *)
LEMMA ServiceGoesOn ==
  ASSUME IInv, pc \in Claiming, pc' \in Claiming,
         run'.payload = run.payload, run'.epoch = run.epoch,
         UNCHANGED <<session, tracker, closed>>, mb' = mb,
         pc' = "publish" => run'.carrier # "prepared",
         pc' = "prepare" /\ run'.proposal = None => ~HasRecord(cust'[Kind])
  PROVE  ServiceOK' /\ ApplyOK' /\ StagedOK'
<1>1. Kind' = Kind BY DEF Kind
<1>2. ServiceOK' BY <1>1 DEF IInv, ServiceOK
<1>3. ApplyOK' /\ StagedOK' BY DEF ApplyOK, StagedOK, Applying, Claiming
<1> QED BY <1>2, <1>3

(* The proposal a record is of. *)
LEMMA RecordNumber ==
  ASSUME IInv, NEW k \in Kinds
  PROVE  cust[k].record.proposal \in 0..proposals /\ cust[k].record.proposal \in 0..MaxProposals
BY Numbered, Bounds, NoRecordType DEF IInv, RecordsOK, Typed, TypeOK

(* From r to l only what is published, and of which proposal, was set.     *)
CarriesOn(r, l, carrier, p) ==
  /\ l \in LocalsType /\ l.payload = r.payload /\ l.epoch = r.epoch
  /\ l.carrier = carrier /\ l.proposal = p

(* What is published, and of which proposal, is set. *)
LEMMA Carries ==
  ASSUME NEW r \in LocalsType, NEW carrier \in {"none", "plain", "prepared", "duplicate"},
         NEW p \in 0..MaxProposals
  PROVE  CarriesOn(r, [r EXCEPT !.carrier = carrier, !.proposal = p], carrier, p)
BY DEF LocalsType, CarriesOn

(* check_request. *)
LEMMA CheckKeeps == ASSUME IInv, CheckRequest PROVE IInv'
<1> DEFINE c == Looked(Kind)
           d == RequestDecision(c)
           p == IF d = "retry_pending" THEN c.record.proposal ELSE None
           locals == [run EXCEPT !.revision = c.revision, !.proposal = p]
<1>1. /\ CustodyOf(Kind, c) /\ pc = "check"
      /\ \/ (d = "new" \/ (d = "retry_pending" /\ Kind = "generation"))
            /\ run' = locals /\ pc' = "prepare"
         \/ run' = [locals EXCEPT !.carrier = IF d = "retry_pending" THEN "duplicate" ELSE "plain"]
            /\ pc' = "publish"
      /\ UNCHANGED <<clock, session, history, tracker, epochs, closed, gate, mb, client, pairing,
                     claims, proposals, origin, replaced>>
  BY DEF CheckRequest, Goto, world, pipe, ghosts
<1>2. pc \in Claiming BY <1>1 DEF Claiming
<1>3. /\ Kind \in Kinds /\ run \in LocalsType BY <1>2, Serving
<1>4. /\ Keeps(cust[Kind], c) /\ Orderly(c)
      /\ c.record = cust[Kind].record \/ c.record = NoRecord
  BY <1>3, LookedStep
<1>5. Kept /\ cust'[Kind] = c BY <1>1, <1>2, <1>4, ServeOne
<1>6. c.revision \in Nat /\ c.record.proposal \in 0..MaxProposals
  BY <1>3, <1>4, RecordNumber, NoRecordType, Bounds DEF Orderly, CustodianType
<1>7. p \in 0..MaxProposals /\ (d = "new" => ~HasRecord(c))
  <2>1. d = "new" => ~HasRecord(c) BY <1>4, DecisionLemma DEF RequestDecision
  <2> HIDE DEF d
  <2> QED BY <1>6, <2>1, Bounds
<1>8. d = "retry_pending" => p # None
  <2>1. d = "retry_pending" => c.record.state = "pending"
    BY <1>4, DecisionLemma DEF RequestDecision
  <2>2. d = "retry_pending" => c.record = cust[Kind].record /\ HasRecord(cust[Kind])
    BY <1>4, <2>1, NoRecordType DEF HasRecord
  <2>3. d = "retry_pending" => cust[Kind].record.proposal \in 1..proposals
    BY <1>3, <2>2 DEF IInv, RecordsOK
  <2> HIDE DEF c, d
  <2> QED BY <2>2, <2>3
<1>9. /\ run' \in LocalsType /\ run'.payload = run.payload /\ run'.epoch = run.epoch
      /\ run'.proposal = p /\ pc' \in {"prepare", "publish"}
      /\ pc' = "publish" => run'.carrier # "prepared"
      /\ pc' = "prepare" => d \in {"new", "retry_pending"}
  <2> DEFINE r == c.revision
  <2>1. locals = [run EXCEPT !.revision = r, !.proposal = p] OBVIOUS
  <2>2. r \in Nat BY <1>6
  <2> HIDE DEF c, p, d, r, locals
  <2>3. locals \in LocalsType /\ locals.payload = run.payload /\ locals.epoch = run.epoch
        /\ locals.proposal = p
    BY <1>3, <1>7, <2>1, <2>2 DEF LocalsType
  <2> QED BY <1>1, <2>3 DEF LocalsType
<1>10. pc' = "prepare" /\ run'.proposal = None => ~HasRecord(cust'[Kind])
  <2> HIDE DEF c, d
  <2> QED BY <1>5, <1>7, <1>8, <1>9
<1> HIDE DEF c, d, p, locals
<1>11. pc' \in Claiming BY <1>9 DEF Claiming
<1>12. ServiceOK' /\ ApplyOK' /\ StagedOK'
  BY <1>1, <1>2, <1>9, <1>10, <1>11, ServiceGoesOn
<1>13. Typed' BY <1>1, <1>5, <1>9, StillTyped DEF Kept, IInv, Typed, TypeOK, Labels
<1> QED BY <1>5, <1>12, <1>13, KeptInv

(* The failure of a request is remembered. *)
LEMMA FailRequestKeeps == ASSUME IInv, FailRequest PROVE IInv'
<1> DEFINE e == Expired(Kind)
           fails(c) == RememberFailure(c, IdOf[run.payload], run.pairing, run.epoch,
                                       IntentOf[run.payload], run.revision, "invalid_preview")
<1>1. /\ \E c \in {e, MarkStale(e, run.proposal)} : CustodyOf(Kind, fails(c))
      /\ pc = "prepare" /\ pc' = "publish"
      /\ run' = [run EXCEPT !.carrier = "plain", !.proposal = None]
      /\ UNCHANGED <<clock, session, history, tracker, epochs, closed, gate, mb, client, pairing,
                     claims, proposals, origin, replaced>>
  BY DEF FailRequest, Goto, world, pipe, ghosts
<1>2. pc \in Claiming /\ pc' \in Claiming BY <1>1 DEF Claiming
<1>3. /\ Kind \in Kinds /\ run \in LocalsType
      /\ IdOf[run.payload] \in Nat /\ IntentOf[run.payload] \in Nat /\ run.pairing \in Nat
  BY <1>2, Serving
<1>4. Keeps(cust[Kind], e) /\ Orderly(e) /\ Orderly(cust[Kind]) BY <1>3, LookStep, Usable
<1> HIDE DEF e
<1>5. PICK c \in {e, MarkStale(e, run.proposal)} : CustodyOf(Kind, fails(c)) BY <1>1
<1>6. Keeps(e, c) BY <1>4, KeepsRefl, MarkStaleLemma
<1>7. Keeps(cust[Kind], c) /\ Orderly(c) BY <1>4, <1>6, KeepsTrans DEF Keeps, Lets
<1>8. Keeps(c, fails(c)) BY <1>3, <1>7, FailureLemma
<1>9. Keeps(cust[Kind], fails(c)) BY <1>4, <1>7, <1>8, KeepsTrans
<1>10. Kept BY <1>1, <1>2, <1>5, <1>9, ServeOne
<1>11. /\ run' \in LocalsType /\ run'.payload = run.payload /\ run'.epoch = run.epoch
       /\ run'.carrier = "plain"
  <2>1. None \in 0..MaxProposals BY Bounds
  <2>2. CarriesOn(run, run', "plain", None) BY <1>1, <1>3, <2>1, Carries
  <2> QED BY <2>2 DEF CarriesOn
<1>12. ServiceOK' /\ ApplyOK' /\ StagedOK'
  BY <1>1, <1>2, <1>11, ServiceGoesOn
<1>13. Typed' BY <1>1, <1>10, <1>11, StillTyped DEF Kept, IInv, Typed, TypeOK, Labels
<1> QED BY <1>10, <1>12, <1>13, KeptInv

(* The proposal of a second, different preview is retired. *)
LEMMA FailPublicationKeeps == ASSUME IInv, FailPublication PROVE IInv'
<1> DEFINE e == Expired(Kind)
<1>1. /\ \/ UNCHANGED <<cust, outcome>>
         \/ CustodyOf(Kind, e)
         \/ CustodyOf(Kind, Retire(e, "stale_preview", "stale"))
            /\ e.record.state \in {"prepared", "pending"}
      /\ pc = "publish" /\ pc' = "publish"
      /\ run' = [run EXCEPT !.carrier = "plain", !.proposal = None]
      /\ UNCHANGED <<clock, session, history, tracker, epochs, closed, gate, mb, client, pairing,
                     claims, proposals, origin, replaced>>
  BY DEF FailPublication, world, pipe, ghosts
<1>2. pc \in Claiming /\ pc' \in Claiming BY <1>1 DEF Claiming
<1>3. /\ Kind \in Kinds /\ run \in LocalsType BY <1>2, Serving
<1>4. Keeps(cust[Kind], e) /\ Orderly(e) /\ Orderly(cust[Kind]) BY <1>3, LookStep, Usable
<1> HIDE DEF e
<1>5. Kept
  <2>1. CASE UNCHANGED <<cust, outcome>>
    <3>1. Calm(mb, mb') BY <1>1, Usable, CalmRefl
    <3> QED BY <1>1, <2>1, <3>1, CalmNone
  <2>2. CASE CustodyOf(Kind, e) BY <1>1, <1>2, <1>4, <2>2, ServeOne
  <2>3. CASE CustodyOf(Kind, Retire(e, "stale_preview", "stale"))
             /\ e.record.state \in {"prepared", "pending"}
    <3>1. ~e.record.published BY <1>4, <2>3 DEF Orderly
    <3>2. "stale" \in HumanStates \ Applied /\ "stale_preview" \in Reasons
      BY DEF HumanStates, Applied, Reasons
    <3>3. Keeps(e, Retire(e, "stale_preview", "stale")) BY <1>4, <3>1, <3>2, RetireKeeps
    <3>4. Keeps(cust[Kind], Retire(e, "stale_preview", "stale")) BY <1>4, <3>3, KeepsTrans
    <3> QED BY <1>1, <1>2, <2>3, <3>4, ServeOne
  <2> QED BY <1>1, <2>1, <2>2, <2>3
<1>6. /\ run' \in LocalsType /\ run'.payload = run.payload /\ run'.epoch = run.epoch
      /\ run'.carrier = "plain"
  <2>1. None \in 0..MaxProposals BY Bounds
  <2>2. CarriesOn(run, run', "plain", None) BY <1>1, <1>3, <2>1, Carries
  <2> QED BY <2>2 DEF CarriesOn
<1>7. ServiceOK' /\ ApplyOK' /\ StagedOK'
  BY <1>1, <1>2, <1>6, ServiceGoesOn
<1>8. Typed' BY <1>1, <1>5, <1>6, StillTyped DEF Kept, IInv, Typed, TypeOK, Labels
<1> QED BY <1>5, <1>7, <1>8, KeptInv

(* complete. *)
LEMMA PlainKeeps == ASSUME IInv, PublishPlain PROVE IInv'
<1>1. /\ mb' = Complete(mb, run.claim, run.epoch, PlainReply, run.epoch, clock)
      /\ pc = "publish" /\ pc' = "off" /\ run' = NoLocals
      /\ UNCHANGED <<clock, session, history, tracker, epochs, closed, gate, cust, outcome, client,
                     pairing, claims, proposals, origin, replaced>>
  BY DEF PublishPlain, End, world, pipe, ghosts
<1>2. pc \in Claiming BY <1>1 DEF Claiming
<1>3. Calm(mb, mb') /\ mb'.target_epoch = mb.target_epoch
  <2> DEFINE reply == PlainReply
  <2>1. reply \in ReplyType /\ run.claim \in Nat /\ run.epoch \in Nat
    BY <1>2, Serving
  <2> HIDE DEF reply
  <2>2. LET n == Complete(mb, run.claim, run.epoch, reply, run.epoch, clock)
        IN  Calm(mb, n) /\ n.target_epoch = mb.target_epoch
    BY <2>1, Usable, CompleteMail
  <2> QED BY <1>1, <2>2 DEF reply
<1>4. Kept BY <1>1, <1>3, CalmNone
<1>5. Typed' BY <1>1, <1>4, NoLocalsType, StillTyped DEF Kept, IInv, Typed, TypeOK, Labels
<1> QED BY <1>1, <1>4, <1>5, Rests, KeptInv

(* prepare. *)
LEMMA PrepareKeeps == ASSUME IInv, PrepareProposal PROVE IInv'
<1> DEFINE c == Expired(Kind)
           request == IdOf[run.payload]
           intent == IntentOf[run.payload]
           d == PrepareDecision(c, request, run.pairing, run.epoch, intent, run.revision)
           b == Prepare(c, request, run.pairing, run.epoch, intent, run.revision,
                        session.content, proposals + 1, clock)
<1>1. /\ CustodyOf(Kind, b) /\ pc = "prepare" /\ pc' = "publish"
      /\ run.proposal = None /\ proposals < MaxProposals
      /\ proposals' = (IF d = "new" THEN proposals + 1 ELSE proposals)
      /\ UNCHANGED <<clock, session, history, tracker, epochs, closed, gate, mb, client, pairing,
                     claims, origin, replaced>>
  BY DEF PrepareProposal, Goto, world, pipe, ghosts
<1>2. \E carrier \in {"plain", "prepared", "duplicate"}, p \in {proposals + 1, c.record.proposal, 0} :
        /\ run' = [run EXCEPT !.carrier = carrier, !.proposal = p]
        /\ d = "new" => carrier = "prepared" /\ p = proposals + 1
        /\ d # "new" => carrier # "prepared" /\ p # proposals + 1
  <2>0. c.record.proposal # proposals + 1 /\ 0 # proposals + 1
    <3>1. pc \in Claiming BY <1>1 DEF Claiming
    <3>2. Kind \in Kinds BY <3>1, Serving
    <3>3. c.record.proposal \in 0..proposals
      BY <3>2, LookStep, RecordNumber, NoRecordType, Numbered DEF IInv
    <3> QED BY <3>3, Numbered DEF IInv
  <2>1. run' = [run EXCEPT
                  !.carrier = CASE d = "new" -> "prepared"
                                [] d = "retry_pending" -> "duplicate"
                                [] OTHER -> "plain",
                  !.proposal = CASE d = "new" -> proposals + 1
                                 [] d = "retry_pending" -> c.record.proposal
                                 [] OTHER -> None]
    BY DEF PrepareProposal
  <2> HIDE DEF d, c
  <2>2. CASE d = "new" BY <2>0, <2>1, <2>2
  <2>3. CASE d = "retry_pending" BY <2>0, <2>1, <2>3
  <2>4. CASE d \notin {"new", "retry_pending"} BY <2>0, <2>1, <2>4
  <2> QED BY <2>2, <2>3, <2>4
<1>3. pc \in Claiming BY <1>1 DEF Claiming
<1>4. /\ Kind \in Kinds /\ run \in LocalsType /\ ~Unread(mb)
      /\ request \in Nat /\ intent \in Nat /\ run.pairing \in Nat /\ run.epoch \in Nat
  BY <1>3, Serving
<1>5. ~HasRecord(cust[Kind]) BY <1>1 DEF IInv, ServiceOK
<1>6. c = cust[Kind] BY <1>5 DEF Expired, Expire, HasRecord
<1>7. Orderly(c) /\ session.content \in Nat /\ proposals \in Nat /\ proposals + 1 \in Nat
      /\ clock \in Nat /\ proposals + 1 \in 0..MaxProposals
  <2>1. Orderly(c) /\ clock \in Nat BY <1>4, <1>6, Usable
  <2>2. session.content \in Nat BY Bounds DEF IInv, Typed, TypeOK
  <2>3. proposals \in Nat BY Numbered DEF IInv
  <2>4. proposals < MaxProposals BY <1>1
  <2>5. proposals + 1 \in Nat /\ proposals + 1 \in 0..MaxProposals BY <2>3, <2>4, Bounds
  <2> QED BY <2>1, <2>2, <2>3, <2>5
<1>8. IF d = "new" THEN Prepared(c, b, request, run.epoch, session.content, proposals + 1)
      ELSE Keeps(c, b) /\ b.record = c.record
  <2> DEFINE content == session.content
             number == proposals + 1
  <2>1. content \in Nat /\ number \in Nat /\ clock \in Nat /\ Orderly(c) BY <1>7
  <2> HIDE DEF c, request, intent, content, number
  <2>2. PrepareStep(c, Prepare(c, request, run.pairing, run.epoch, intent, run.revision, content,
                               number, clock),
                    PrepareDecision(c, request, run.pairing, run.epoch, intent, run.revision),
                    request, run.epoch, content, number)
    BY <1>4, <2>1, PrepareLemma
  <2> QED BY <2>2 DEF content, number, PrepareStep
<1> HIDE DEF c, d, b, request, intent
<1>9. PICK carrier \in {"plain", "prepared", "duplicate"}, p \in {proposals + 1, c.record.proposal, 0} :
        /\ run' = [run EXCEPT !.carrier = carrier, !.proposal = p]
        /\ d = "new" => carrier = "prepared" /\ p = proposals + 1
        /\ d # "new" => carrier # "prepared" /\ p # proposals + 1
  BY <1>2
<1>10. p \in 0..MaxProposals
  BY <1>4, <1>6, <1>7, RecordNumber, Bounds
<1>11. CarriesOn(run, run', carrier, p) BY <1>4, <1>9, <1>10, Carries
<1>12. proposals' \in 0..MaxProposals BY <1>1, <1>7, Bounds
<1>13. CASE d # "new"
  <2>1. Keeps(cust[Kind], b) BY <1>6, <1>8, <1>13
  <2>2. Kept /\ cust'[Kind] = b BY <1>1, <1>3, <1>13, <2>1, ServeOne
  <2>3. ServiceOK' /\ ApplyOK' /\ StagedOK'
    <3>1. pc' \in Claiming /\ run'.carrier # "prepared" BY <1>1, <1>9, <1>11, <1>13 DEF CarriesOn, Claiming
    <3> QED BY <1>1, <1>3, <1>11, <3>1, ServiceGoesOn DEF CarriesOn
  <2>4. Typed'
    BY <1>1, <1>11, <1>13, <2>2, StillTyped DEF Kept, CarriesOn, IInv, Typed, TypeOK, Labels
  <2> QED BY <2>2, <2>3, <2>4, KeptInv
<1>14. CASE d = "new"
  <2>1. Prepared(c, b, request, run.epoch, session.content, proposals + 1) BY <1>8, <1>14
  <2>2. ~closed /\ tracker.initialized /\ tracker.epoch = run.epoch /\ run.epoch \in 1..epochs
    BY <1>3, <1>4, <1>6, <2>1 DEF Prepared, IInv, SameTarget, ServiceOK
  <2> DEFINE k == Kind
  <2>3. k \in Kinds /\ Prepared(cust[k], b, request, run.epoch, session.content, proposals + 1)
        /\ CustodyOf(k, b) /\ ~HasRecord(cust[k])
    BY <1>1, <1>4, <1>5, <1>6, <2>1
  <2> HIDE DEF k
  <2>4. CustodyParts' /\ cust'[k] = b /\ \A j \in Kinds \ {k} : cust'[j] = cust[j]
    BY <1>1, <1>7, <1>14, <2>2, <2>3, Usable, Bounds, CustodyPrepare
  <2>5. SameTarget'
    <3>1. b.closed = cust[k].closed /\ b.epoch = cust[k].epoch BY <2>3 DEF Prepared, Same
    <3>2. \A j \in Kinds : cust'[j].closed = cust[j].closed /\ cust'[j].epoch = cust[j].epoch
      BY <2>4, <3>1
    <3> QED BY <1>1, <3>2 DEF IInv, SameTarget
  <2>6. MailOK' /\ Calm(mb, mb') /\ mb' \in MailboxType
    BY <1>1, Usable, CalmRefl DEF IInv, MailOK, Typed, TypeOK
  <2>7. AckOK' BY <1>1, <1>4 DEF AckOK, UnreadAck, Unread
  <2>8. ReaderOK' BY <1>1 DEF IInv, ReaderOK
  <2>9. Typed'
    <3>1. /\ clock' \in Nat /\ session' \in [project : Projects, content : Contents]
          /\ history' \in Seq(Contents) /\ Len(history') <= MaxHistory
          /\ tracker' \in [initialized : BOOLEAN, target : Projects, epoch : Nat]
          /\ closed' \in BOOLEAN /\ client' \in CallType
          /\ pairing' \in Nat /\ claims' \in Nat
          /\ origin' \in [Proposals -> OriginType] /\ replaced' \in [Proposals -> Nat]
          /\ epochs' \in 0..MaxEpochs /\ gate' \in BOOLEAN /\ pc' \in Labels
      BY <1>1 DEF IInv, Typed, TypeOK, Labels
    <3>2. run' \in LocalsType BY <1>11 DEF CarriesOn
    <3> QED BY <1>12, <2>4, <2>6, <3>1, <3>2, TypedKept DEF IInv
  <2>10. ServiceOK'
    <3>1. Kind' = k BY <1>11 DEF k, Kind, CarriesOn
    <3>2. /\ run'.carrier = "prepared" /\ run'.proposal = proposals + 1
          /\ run'.payload = run.payload /\ run'.epoch = run.epoch
      BY <1>9, <1>11, <1>14 DEF CarriesOn
    <3>3. run'.proposal \in 1..proposals' BY <1>1, <1>7, <1>14, <3>2
    <3>4. cust'[k].record.preview = session'.content BY <1>1, <2>3, <2>4 DEF Prepared
    <3> QED BY <1>1, <1>3, <3>1, <3>2, <3>3, <3>4 DEF IInv, ServiceOK
  <2>11. ApplyOK' /\ StagedOK' BY <1>1 DEF ApplyOK, StagedOK, Applying
  <2> QED BY <2>4, <2>5, <2>6, <2>7, <2>8, <2>9, <2>10, <2>11 DEF IInv, CustodyParts
<1> QED BY <1>13, <1>14

(* complete_with_review refuses, or commits the proposal and queues its    *)
(* acknowledgment.                                                         *)
LEMMA ReviewCases ==
  ASSUME IInv, NEW k \in Kinds
  PROVE  LET n == CompleteWithReview(k)[1]
             d == CompleteWithReview(k)[2]
             e == Expired(k)
         IN  \/ /\ Keeps(cust[k], d) /\ (n # mb => mb.state = "executing")
                /\ n = mb \/ \E status \in TerminalStatuses : n = SetTerminal(mb, status)
             \/ /\ Holds(mb, run.claim) /\ ~mb.invalidated /\ mb.target_epoch = run.epoch
                /\ ~IsExpired(mb, clock)
                /\ Commits(e, run.proposal, run.revision, IdOf[run.payload], run.pairing, run.epoch)
                /\ n = SetCompleted(mb, AckReply, Ack(k, IdOf[run.payload], e.record))
                /\ d = Commit(e, clock)
<1> DEFINE c == cust[k]
           e == Expired(k)
           n == CompleteWithReview(k)[1]
           d == CompleteWithReview(k)[2]
           a(reason) == AbortPrepared(c, run.proposal, reason)
           b(x, request, asker, epoch) == AbortPreparedForClaim(x, request, asker, epoch)
           f == AbortPrepared(e, run.proposal, "review_unavailable")
<1>1. Orderly(c) /\ Keeps(c, e) /\ Orderly(e) BY LookStep, Usable
<1>2. /\ \A reason \in Reasons : Keeps(c, a(reason)) /\ Orderly(a(reason))
      /\ \A request, asker, epoch :
           Keeps(c, b(a("review_unavailable"), request, asker, epoch))
  <2>1. ASSUME NEW reason \in Reasons PROVE Keeps(c, a(reason)) /\ Orderly(a(reason))
    <3>1. Keeps(c, a(reason)) BY <1>1, AbortLemma
    <3> QED BY <3>1 DEF Keeps, Lets
  <2>2. ASSUME NEW request, NEW asker, NEW epoch
        PROVE  Keeps(c, b(a("review_unavailable"), request, asker, epoch))
    <3>1. "review_unavailable" \in Reasons BY DEF Reasons
    <3>2. Keeps(c, a("review_unavailable")) /\ Orderly(a("review_unavailable")) BY <2>1, <3>1
    <3>3. Keeps(a("review_unavailable"), b(a("review_unavailable"), request, asker, epoch))
      BY <3>2, AbortForClaimLemma
    <3> QED BY <1>1, <3>2, <3>3, KeepsTrans
  <2> QED BY <2>1, <2>2
<1>3. \A request, asker, epoch : Keeps(c, b(f, request, asker, epoch))
  <2> TAKE request, asker, epoch
  <2>1. "review_unavailable" \in Reasons BY DEF Reasons
  <2>2. Keeps(e, f) BY <1>1, <2>1, AbortLemma
  <2>3. Keeps(c, f) /\ Orderly(f) BY <1>1, <2>2, KeepsTrans DEF Keeps, Lets
  <2>4. Keeps(f, b(f, request, asker, epoch)) BY <2>3, AbortForClaimLemma
  <2> QED BY <1>1, <2>3, <2>4, KeepsTrans
<1>4. {"session_closed", "review_unavailable", "stale_target", "proposal_expired"} \subseteq Reasons
           \cup {"session_closed", "proposal_expired"}
      /\ {"internal_error", "stale_target", "expired"} \subseteq TerminalStatuses
      /\ {"session_closed", "review_unavailable", "stale_target", "proposal_expired"} \subseteq Reasons
  BY DEF Reasons, TerminalStatuses
<1>5. CASE mb.closed
  <2>1. n = mb /\ d = a("session_closed") BY <1>5 DEF CompleteWithReview
  <2> QED BY <1>2, <1>4, <2>1
<1>6. CASE ~mb.closed /\ ~Holds(mb, run.claim)
  <2>1. CASE mb.state = "executing"
    <3>1. n = SetTerminal(mb, "internal_error")
          /\ d = b(a("review_unavailable"), IdOf[mb.request], mb.pairing, mb.request_epoch)
      BY <1>6, <2>1 DEF CompleteWithReview
    <3> QED BY <1>2, <1>4, <2>1, <3>1
  <2>2. CASE mb.state # "executing"
    <3>1. n = mb /\ d = a("review_unavailable") BY <1>6, <2>2 DEF CompleteWithReview
    <3> QED BY <1>2, <1>4, <3>1
  <2> QED BY <2>1, <2>2
<1>7. CASE Holds(mb, run.claim) /\ (mb.invalidated \/ mb.target_epoch # run.epoch)
  <2>1. n = SetTerminal(mb, "stale_target") /\ d = a("stale_target") /\ mb.state = "executing"
    BY <1>7 DEF CompleteWithReview, Holds
  <2> QED BY <1>2, <1>4, <2>1
<1>8. CASE Holds(mb, run.claim) /\ ~(mb.invalidated \/ mb.target_epoch # run.epoch)
           /\ IsExpired(mb, clock)
  <2>1. n = SetTerminal(mb, "expired") /\ d = a("proposal_expired") /\ mb.state = "executing"
    BY <1>8 DEF CompleteWithReview, Holds
  <2> QED BY <1>2, <1>4, <2>1
<1> DEFINE commits == Commits(e, run.proposal, run.revision, IdOf[run.payload], run.pairing,
                              run.epoch)
<1>9. CASE Holds(mb, run.claim) /\ ~(mb.invalidated \/ mb.target_epoch # run.epoch)
           /\ ~IsExpired(mb, clock) /\ ~commits
  <2>1. n = SetTerminal(mb, "internal_error") /\ mb.state = "executing"
        /\ d = b(f, IdOf[run.payload], run.pairing, run.epoch)
    BY <1>9 DEF CompleteWithReview, Holds
  <2> QED BY <1>3, <1>4, <2>1
<1>10. CASE Holds(mb, run.claim) /\ ~(mb.invalidated \/ mb.target_epoch # run.epoch)
            /\ ~IsExpired(mb, clock) /\ commits
  <2>1. n = SetCompleted(mb, AckReply, Ack(k, IdOf[run.payload], e.record))
        /\ d = Commit(e, clock)
    BY <1>10 DEF CompleteWithReview, Holds
  <2> QED BY <1>10, <2>1
<1> QED BY <1>5, <1>6, <1>7, <1>8, <1>9, <1>10 DEF Holds

(* An acknowledgment is queued for the proposal that is pending in this    *)
(* step.                                                                   *)
LEMMA AckStep ==
  ASSUME IInv, pc \in Claiming, CustodyParts', NEW r, r = cust'[Kind].record,
         r.state = "pending", mb.state = "executing", ~mb.invalidated,
         mb' = SetCompleted(mb, AckReply, Ack(Kind, IdOf[run.payload], r)),
         \A k \in Kinds : cust'[k].closed = cust[k].closed /\ cust'[k].epoch = cust[k].epoch,
         UNCHANGED <<clock, tracker, epochs, closed, proposals, client>>
  PROVE  SameTarget' /\ MailOK' /\ AckOK' /\ ReaderOK' /\ mb' \in MailboxType
<1> DEFINE k == Kind
           ack == Ack(Kind, IdOf[run.payload], r)
           reply == AckReply
<1>1. k \in Kinds /\ IdOf[run.payload] \in Nat /\ reply \in ReplyType BY Serving
<1>2. HasRecord(cust'[k]) /\ r \in RecordType /\ cust'[k].record = r
  BY <1>1 DEF CustodyParts, CustodianType, HasRecord
<1>3. r.proposal \in 1..proposals
  BY <1>1, <1>2 DEF CustodyParts, RecordsOK
<1>4. ack \in ReviewType /\ ack.owner = k /\ ack.proposal = r.proposal
  <2>1. k \in {"swap", "generation"} BY <1>1, Bounds
  <2>2. r.pairing \in Nat /\ r.epoch \in Nat /\ r.proposal \in Nat BY <1>2 DEF RecordType
  <2> QED BY <1>1, <2>1, <2>2 DEF Ack, ReviewType
<1>5. mb' = SetCompleted(mb, reply, ack) /\ IsMailbox(mb) BY Usable
<1> HIDE DEF ack, reply, k
<1>6. /\ IsMailbox(mb') /\ mb'.closed = mb.closed /\ mb'.target_epoch = mb.target_epoch
      /\ mb'.state = "reply_ready" /\ mb'.reply_status = "completed" /\ mb'.review = ack
      /\ Reads(mb, mb')
  BY <1>1, <1>4, <1>5, CompletedMail
<1>7. MailOK' /\ mb' \in MailboxType
  BY <1>1, <1>4, <1>6 DEF MailOK, IsMailbox, Unclaimed
<1>8. AckOK'
  BY <1>2, <1>3, <1>4, <1>6 DEF AckOK, Committed
<1>9. ReaderOK' BY <1>6, <1>7, ReaderKept DEF IInv
<1>10. SameTarget' BY <1>6 DEF IInv, SameTarget
<1> QED BY <1>7, <1>8, <1>9, <1>10

(* A refused publication keeps what is committed.                          *)
LEMMA RefusedStep ==
  ASSUME IInv, pc \in Claiming, NEW d, CustodyOf(Kind, d), Keeps(cust[Kind], d),
         mb' = mb \/ (mb.state = "executing"
                      /\ \E status \in TerminalStatuses : mb' = SetTerminal(mb, status)),
         UNCHANGED <<clock, tracker, epochs, closed, proposals, origin, replaced, client>>
  PROVE  Kept /\ cust'[Kind] = d
<1> DEFINE k == Kind
<1>1. k \in Kinds /\ ~Unread(mb) /\ IsMailbox(mb) BY Serving, Usable
<1>2. Calm(mb, mb') /\ mb'.target_epoch = mb.target_epoch
  <2>1. CASE mb' = mb BY <1>1, <2>1, CalmRefl
  <2>2. CASE mb' # mb
    <3>1. PICK status \in TerminalStatuses : mb' = SetTerminal(mb, status) BY <2>2
    <3>2. mb.state = "executing" BY <2>2
    <3> QED BY <1>1, <3>1, <3>2, CalmRefusal
  <2> QED BY <2>1, <2>2
<1>3. ~Unread(mb') BY <1>1, <1>2 DEF Calm
<1>4. Timely(k, d) BY <1>3 DEF Timely
<1>5. CustodyOf(k, d) /\ Keeps(cust[k], d) OBVIOUS
<1> HIDE DEF k
<1>6. Kept /\ cust'[k] = d BY <1>1, <1>2, <1>4, <1>5, CalmOne
<1> QED BY <1>6 DEF k

(* complete_with_review. *)
LEMMA ReviewKeeps == ASSUME IInv, PublishReview PROVE IInv'
<1> DEFINE k == Kind
           n == CompleteWithReview(k)[1]
           d == CompleteWithReview(k)[2]
           e == Expired(k)
           o == [kind |-> k, request |-> IdOf[run.payload], project |-> session.project,
                 content |-> session.content, expires |-> clock + ProposalTTL]
<1>1. /\ pc = "publish" /\ run.carrier = "prepared" /\ pc' = "off" /\ run' = NoLocals
      /\ mb' = n /\ CustodyOf(k, d)
      /\ origin' = (IF cust'[k].record.state = "pending" /\ cust[k].record.state = "prepared"
                    THEN [origin EXCEPT ![run.proposal] = o] ELSE origin)
      /\ UNCHANGED <<clock, session, history, tracker, epochs, closed, gate, client, pairing,
                     claims, proposals, replaced>>
  BY DEF PublishReview, End, world, pipe
<1>2. pc \in Claiming BY <1>1 DEF Claiming
<1>3. k \in Kinds /\ IdOf[run.payload] \in Nat BY <1>2, Serving
<1>4. \/ /\ Keeps(cust[k], d) /\ (n # mb => mb.state = "executing")
         /\ n = mb \/ \E status \in TerminalStatuses : n = SetTerminal(mb, status)
      \/ /\ Holds(mb, run.claim) /\ ~mb.invalidated /\ mb.target_epoch = run.epoch
         /\ ~IsExpired(mb, clock)
         /\ Commits(e, run.proposal, run.revision, IdOf[run.payload], run.pairing, run.epoch)
         /\ n = SetCompleted(mb, AckReply, Ack(k, IdOf[run.payload], e.record))
         /\ d = Commit(e, clock)
  BY <1>3, ReviewCases
<1>5. /\ Keeps(cust[k], e) /\ Orderly(e) /\ clock \in Nat
      /\ e.record = cust[k].record \/ e.record = NoRecord
  BY <1>3, LookStep, Usable
<1> HIDE DEF n, d, e, k, o
<1>6. cust' = [cust EXCEPT ![k] = d] /\ cust \in [Kinds -> CustodianType]
  BY <1>1, Usable DEF CustodyOf, Custody, CustodyParts
<1>7. cust'[k] = d /\ \A j \in Kinds \ {k} : cust'[j] = cust[j] BY <1>3, <1>6
<1>8. CASE /\ Keeps(cust[k], d) /\ (n # mb => mb.state = "executing")
           /\ n = mb \/ \E status \in TerminalStatuses : n = SetTerminal(mb, status)
  <2>1. d.record = cust[k].record \/ d.record = NoRecord BY <1>8 DEF Keeps, Lets
  <2>2. origin' = origin BY <1>1, <1>7, <2>1, NoRecordType
  <2>3. Kept BY <1>1, <1>2, <1>8, <2>2, RefusedStep DEF k
  <2>4. Typed' BY <1>1, <2>2, <2>3, NoLocalsType, StillTyped DEF Kept, IInv, Typed, TypeOK, Labels
  <2> QED BY <1>1, <2>3, <2>4, Rests, KeptInv
<1>9. CASE /\ Holds(mb, run.claim) /\ ~mb.invalidated /\ mb.target_epoch = run.epoch
           /\ ~IsExpired(mb, clock)
           /\ Commits(e, run.proposal, run.revision, IdOf[run.payload], run.pairing, run.epoch)
           /\ n = SetCompleted(mb, AckReply, Ack(k, IdOf[run.payload], e.record))
           /\ d = Commit(e, clock)
  <2>1. /\ e.record.state = "prepared" /\ e.record.proposal = run.proposal
        /\ e.record.epoch = run.epoch /\ mb.state = "executing" /\ ~mb.closed
    BY <1>9 DEF Commits, Holds
  <2>2. e.record = cust[k].record BY <1>5, <2>1, NoRecordType
  <2>3. /\ Same(e, d) /\ SameProposal(e.record, d.record)
        /\ d.record.state = "pending" /\ d.record.expires = clock + ProposalTTL
        /\ d.record.published = FALSE
    BY <1>5, <1>9, <2>1, CommitLemma
  <2>4. Same(cust[k], d) /\ SameProposal(cust[k].record, d.record)
    BY <1>5, <2>2, <2>3 DEF Same, Keeps, Lets
  <2>5. d.record.proposal = run.proposal /\ run.proposal \in 1..proposals
        /\ d.record.preview = session.content
    BY <1>1, <2>1, <2>2, <2>4 DEF IInv, ServiceOK, SameProposal, k
  <2>6. run.proposal \in Proposals BY <2>5, Numbered DEF IInv
  <2>7. origin' = [origin EXCEPT ![run.proposal] = o]
    BY <1>1, <1>7, <2>1, <2>2, <2>3
  <2>8. /\ o.kind = k /\ o.content = session.content /\ o.expires = clock + ProposalTTL
        /\ o.project = session.project
    BY DEF o
  <2>9. origin'[run.proposal] = o BY <2>6, <2>7 DEF IInv, Typed
  <2>10. tracker.initialized /\ tracker.target = session.project
    BY <1>2, <2>1 DEF IInv, SameTarget, ServiceOK
  <2>11. proposals \in 0..MaxProposals BY DEF IInv, Typed, TypeOK
  <2>12. /\ origin' = [origin EXCEPT ![d.record.proposal] = origin'[d.record.proposal]]
         /\ LET x == origin'[d.record.proposal]
            IN  /\ x.kind = k /\ x.content = d.record.preview /\ x.expires = d.record.expires
                /\ tracker.initialized /\ d.record.epoch = tracker.epoch =>
                     x.project = tracker.target
    BY <2>3, <2>5, <2>7, <2>8, <2>9, <2>10
  <2>13. CustodyParts'
    BY <1>1, <1>3, <2>1, <2>2, <2>3, <2>4, <2>11, <2>12, Usable, Bounds, CustodyCommit
  <2>14. \A j \in Kinds : cust'[j].closed = cust[j].closed /\ cust'[j].epoch = cust[j].epoch
    BY <1>7, <2>4 DEF Same
  <2>15. mb' = SetCompleted(mb, AckReply, Ack(k, IdOf[run.payload], d.record))
    <3>1. Ack(k, IdOf[run.payload], d.record) = Ack(k, IdOf[run.payload], e.record)
      BY <2>3 DEF Ack, SameProposal
    <3> QED BY <1>1, <1>9, <3>1
  <2>16. SameTarget' /\ MailOK' /\ AckOK' /\ ReaderOK' /\ mb' \in MailboxType
    <3> DEFINE r == d.record
    <3>1. r = cust'[k].record /\ r.state = "pending" BY <1>7, <2>3
    <3>2. mb' = SetCompleted(mb, AckReply, Ack(Kind, IdOf[run.payload], r))
          /\ r = cust'[Kind].record
      BY <2>15, <3>1 DEF k
    <3> HIDE DEF r
    <3> QED BY <1>1, <1>2, <1>9, <2>1, <2>13, <2>14, <3>1, <3>2, AckStep
  <2>17. Typed'
    <3>1. o \in OriginType
      <4>1. k \in {"swap", "generation"} /\ clock + ProposalTTL \in Nat
        BY <1>3, <1>5, Bounds
      <4>2. session.project \in Projects /\ session.content \in Nat
        BY Bounds DEF IInv, Typed, TypeOK
      <4> QED BY <1>3, <4>1, <4>2 DEF o, OriginType
    <3>2. origin' \in [Proposals -> OriginType] BY <2>7, <3>1 DEF IInv, Typed
    <3>3. /\ clock' \in Nat /\ session' \in [project : Projects, content : Contents]
          /\ history' \in Seq(Contents) /\ Len(history') <= MaxHistory
          /\ tracker' \in [initialized : BOOLEAN, target : Projects, epoch : Nat]
          /\ closed' \in BOOLEAN /\ client' \in CallType
          /\ pairing' \in Nat /\ claims' \in Nat /\ proposals' \in 0..MaxProposals
          /\ replaced' \in [Proposals -> Nat]
          /\ epochs' \in 0..MaxEpochs /\ gate' \in BOOLEAN /\ pc' \in Labels
          /\ run' \in LocalsType
      BY <1>1, NoLocalsType DEF IInv, Typed, TypeOK, Labels
    <3> QED BY <2>13, <2>16, <3>2, <3>3, TypedKept DEF IInv
  <2> QED BY <1>1, <2>13, <2>16, <2>17, Rests DEF IInv, CustodyParts
<1> QED BY <1>4, <1>8, <1>9

(* Why a retry's proposal is no longer there is an outcome. *)
LEMMA RetryOutcomes == ASSUME NEW c PROVE RetryOutcome(c) \in TerminalStatuses
<1> DEFINE t == {i \in Tombs(c, IdOf[run.payload]) :
                   c.tombstones[i].pairing = run.pairing
                   /\ c.tombstones[i].intent = IntentOf[run.payload]}
           x == c.tombstones[CHOOSE i \in t : TRUE].reason
<1>1. RetryOutcome(c) = IF t = {} THEN "review_cancelled"
        ELSE CASE x = "proposal_expired" -> "expired"
               [] x = "stale_target" -> "stale_target"
               [] x = "session_closed" -> "session_closed"
               [] OTHER -> "review_cancelled"
  BY DEF RetryOutcome
<1> HIDE DEF x, t
<1>2. RetryOutcome(c) \in {"review_cancelled", "expired", "stale_target", "session_closed"}
  <2>1. CASE t = {} BY <1>1, <2>1
  <2>2. CASE t # {} /\ x = "proposal_expired" BY <1>1, <2>2
  <2>3. CASE t # {} /\ x = "stale_target" BY <1>1, <2>3
  <2>4. CASE t # {} /\ x = "session_closed" BY <1>1, <2>4
  <2>5. CASE t # {} /\ x \notin {"proposal_expired", "stale_target", "session_closed"}
    BY <1>1, <2>5
  <2> QED BY <2>1, <2>2, <2>3, <2>4, <2>5
<1> QED BY <1>2 DEF TerminalStatuses

(* complete_with_duplicate_review refuses, or acknowledges the pending     *)
(* proposal again.                                                         *)
LEMMA DuplicateCases ==
  ASSUME IInv, NEW k \in Kinds
  PROVE  LET n == CompleteWithDuplicate(k)[1]
             d == CompleteWithDuplicate(k)[2]
             e == Expired(k)
         IN  \/ /\ Keeps(cust[k], d) /\ (n # mb => mb.state = "executing")
                /\ n = mb \/ \E status \in TerminalStatuses : n = SetTerminal(mb, status)
             \/ /\ Holds(mb, run.claim) /\ ~mb.invalidated
                /\ IsPending(e, run.proposal)
                /\ n = SetCompleted(mb, AckReply, Ack(k, IdOf[run.payload], e.record))
                /\ d = e
<1> DEFINE c == cust[k]
           e == Expired(k)
           n == CompleteWithDuplicate(k)[1]
           d == CompleteWithDuplicate(k)[2]
           late == mb.invalidated \/ mb.target_epoch # run.epoch \/ c.epoch # run.epoch
<1>1. Keeps(c, e) /\ Keeps(c, c) BY LookStep, Usable, KeepsRefl
<1>2. {"internal_error", "stale_target", "expired", "review_cancelled"} \subseteq TerminalStatuses
  BY DEF TerminalStatuses
<1>3. CASE mb.closed
  <2>1. n = mb /\ d = c BY <1>3 DEF CompleteWithDuplicate
  <2> QED BY <1>1, <2>1
<1>4. CASE ~mb.closed /\ ~Holds(mb, run.claim)
  <2>1. d = c /\ n = IF mb.state = "executing" THEN SetTerminal(mb, "internal_error") ELSE mb
    BY <1>4 DEF CompleteWithDuplicate
  <2> QED BY <1>1, <1>2, <2>1
<1>5. CASE Holds(mb, run.claim) /\ late
  <2>1. n = SetTerminal(mb, "stale_target") /\ d = c /\ mb.state = "executing"
    BY <1>5 DEF CompleteWithDuplicate, Holds
  <2> QED BY <1>1, <1>2, <2>1
<1>6. CASE Holds(mb, run.claim) /\ ~late /\ IsExpired(mb, clock)
  <2>1. n = SetTerminal(mb, "expired") /\ d = c /\ mb.state = "executing"
    BY <1>6 DEF CompleteWithDuplicate, Holds
  <2> QED BY <1>1, <1>2, <2>1
<1>7. CASE Holds(mb, run.claim) /\ ~late /\ ~IsExpired(mb, clock) /\ ~HasRecord(e)
  <2>1. n = SetTerminal(mb, RetryOutcome(e)) /\ d = e /\ mb.state = "executing"
    BY <1>7 DEF CompleteWithDuplicate, Holds
  <2> QED BY <1>1, <2>1, RetryOutcomes
<1>8. CASE Holds(mb, run.claim) /\ ~late /\ ~IsExpired(mb, clock) /\ HasRecord(e)
           /\ ~IsPending(e, run.proposal)
  <2>1. n = SetTerminal(mb, "review_cancelled") /\ d = e /\ mb.state = "executing"
    BY <1>8 DEF CompleteWithDuplicate, Holds
  <2> QED BY <1>1, <1>2, <2>1
<1>9. CASE Holds(mb, run.claim) /\ ~late /\ ~IsExpired(mb, clock) /\ HasRecord(e)
           /\ IsPending(e, run.proposal)
  <2>1. n = SetCompleted(mb, AckReply, Ack(k, IdOf[run.payload], e.record)) /\ d = e
    BY <1>9 DEF CompleteWithDuplicate, Holds
  <2> QED BY <1>9, <2>1
<1> QED BY <1>3, <1>4, <1>5, <1>6, <1>7, <1>8, <1>9 DEF Holds

(* complete_with_duplicate_review. *)
LEMMA DuplicateKeeps == ASSUME IInv, PublishDuplicate PROVE IInv'
<1> DEFINE k == Kind
           n == CompleteWithDuplicate(k)[1]
           d == CompleteWithDuplicate(k)[2]
           e == Expired(k)
<1>1. /\ pc = "publish" /\ pc' = "off" /\ run' = NoLocals
      /\ mb' = n /\ CustodyOf(k, d)
      /\ UNCHANGED <<clock, session, history, tracker, epochs, closed, gate, client, pairing,
                     claims, proposals, origin, replaced>>
  BY DEF PublishDuplicate, End, world, pipe, ghosts
<1>2. pc \in Claiming BY <1>1 DEF Claiming
<1>3. k \in Kinds BY <1>2, Serving
<1>4. \/ /\ Keeps(cust[k], d) /\ (n # mb => mb.state = "executing")
         /\ n = mb \/ \E status \in TerminalStatuses : n = SetTerminal(mb, status)
      \/ /\ Holds(mb, run.claim) /\ ~mb.invalidated
         /\ IsPending(e, run.proposal)
         /\ n = SetCompleted(mb, AckReply, Ack(k, IdOf[run.payload], e.record))
         /\ d = e
  BY <1>3, DuplicateCases
<1>5. Keeps(cust[k], e) BY <1>3, LookStep
<1> HIDE DEF n, d, e, k
<1>6. CASE /\ Keeps(cust[k], d) /\ (n # mb => mb.state = "executing")
           /\ n = mb \/ \E status \in TerminalStatuses : n = SetTerminal(mb, status)
  <2>1. Kept BY <1>1, <1>2, <1>6, RefusedStep DEF k
  <2>2. Typed' BY <1>1, <2>1, NoLocalsType, StillTyped DEF Kept, IInv, Typed, TypeOK, Labels
  <2> QED BY <1>1, <2>1, <2>2, Rests, KeptInv
<1>7. CASE /\ Holds(mb, run.claim) /\ ~mb.invalidated
           /\ IsPending(e, run.proposal)
           /\ n = SetCompleted(mb, AckReply, Ack(k, IdOf[run.payload], e.record))
           /\ d = e
  <2>1. Lets(cust[k], d) /\ ~(d.record # cust[k].record /\ d.human \in Applied)
    BY <1>5, <1>7 DEF Keeps, Lets
  <2>2. epochs \in Nat /\ proposals \in 0..MaxProposals BY DEF IInv, Typed, TypeOK
  <2>3. CustodyParts' /\ cust'[k] = d /\ \A j \in Kinds \ {k} : cust'[j] = cust[j]
    BY <1>1, <1>3, <2>1, <2>2, Usable, CustodyOne
  <2>4. \A j \in Kinds : cust'[j].closed = cust[j].closed /\ cust'[j].epoch = cust[j].epoch
    BY <1>5, <1>7, <2>3 DEF Keeps
  <2>5. SameTarget' /\ MailOK' /\ AckOK' /\ ReaderOK' /\ mb' \in MailboxType
    <3> DEFINE r == d.record
    <3>1. r = cust'[Kind].record /\ r.state = "pending" /\ mb.state = "executing"
          /\ mb' = SetCompleted(mb, AckReply, Ack(Kind, IdOf[run.payload], r))
      BY <1>1, <1>7, <2>3 DEF IsPending, Holds, k
    <3> HIDE DEF r
    <3> QED BY <1>1, <1>2, <1>7, <2>3, <2>4, <3>1, AckStep
  <2>6. Typed' BY <1>1, <2>3, <2>5, NoLocalsType, StillTyped DEF IInv, Typed, TypeOK, Labels
  <2> QED BY <1>1, <2>3, <2>5, <2>6, Rests DEF IInv, CustodyParts
<1> QED BY <1>4, <1>6, <1>7

-----------------------------------------------------------------------------
(* The undo history. *)

(* What was appended is taken off. *)
LEMMA Popped ==
  ASSUME NEW S, NEW s \in Seq(S), NEW e \in S
  PROVE  SubSeq(Append(s, e), 1, Len(Append(s, e)) - 1) = s
<1> DEFINE a == Append(s, e)
           t == SubSeq(a, 1, Len(s))
<1>1. Len(s) \in Nat /\ a \in Seq(S) /\ Len(a) = Len(s) + 1
      /\ \A i \in 1..Len(s) : a[i] = s[i] /\ s[i] \in S
  BY AppendProperties, LenProperties, ElementOfSeq
<1> HIDE DEF a
<1>2. \A i \in 1..Len(s) : a[i] \in S BY <1>1
<1>3. t \in Seq(S) /\ Len(t) = Len(s) /\ \A i \in 1..Len(s) : t[i] = a[i]
  <2>1. /\ t \in Seq(S) /\ Len(t) = IF 1 <= Len(s) THEN Len(s) - 1 + 1 ELSE 0
        /\ \A i \in 1..Len(s) - 1 + 1 : t[i] = a[1 + i - 1]
    BY <1>1, <1>2, SubSeqProperties
  <2> HIDE DEF t
  <2>2. Len(t) = Len(s) BY <1>1, <2>1
  <2>3. ASSUME NEW i \in 1..Len(s) PROVE t[i] = a[i]
    <3>1. i \in 1..Len(s) - 1 + 1 /\ 1 + i - 1 = i BY <1>1
    <3> QED BY <2>1, <3>1
  <2> QED BY <2>1, <2>2, <2>3
<1>4. t = s
  <2> HIDE DEF t
  <2>1. \A i \in 1..Len(t) : t[i] = s[i] BY <1>1, <1>3
  <2> QED BY <1>3, <2>1, SeqEqual
<1>5. Len(a) - 1 = Len(s) BY <1>1
<1> QED BY <1>4, <1>5 DEF a

(* A sequence is its first element and the rest. *)
LEMMA HeadFirst ==
  ASSUME NEW S, NEW s \in Seq(S), Len(s) >= 1
  PROVE  <<s[1]>> \o Tail(s) = s /\ s[1] \in S
<1>1. Len(s) \in Nat /\ 1 \in 1..Len(s) /\ s # <<>> BY LenProperties, EmptySeq
<1>2. s[1] \in S BY <1>1, ElementOfSeq
<1> DEFINE h == <<s[1]>>
           t == Tail(s)
           c == h \o t
<1>3. h \in Seq(S) /\ Len(h) = 1 /\ h[1] = s[1] BY <1>2
<1>4. t \in Seq(S) /\ Len(t) = Len(s) - 1 /\ \A i \in 1..Len(t) : t[i] = s[i + 1]
  BY <1>1, HeadTailProperties
<1> HIDE DEF h, t
<1>5. /\ c \in Seq(S) /\ Len(c) = Len(h) + Len(t)
      /\ \A i \in 1..Len(h) + Len(t) : c[i] = IF i <= Len(h) THEN h[i] ELSE t[i - Len(h)]
  <2>0. h \in Seq(S) /\ t \in Seq(S) BY <1>3, <1>4
  <2>1. h \o t \in Seq(S) BY <2>0, ConcatProperties
  <2>2. Len(h \o t) = Len(h) + Len(t) BY <2>0, ConcatProperties
  <2>3. \A i \in 1..Len(h) + Len(t) :
          (h \o t)[i] = IF i <= Len(h) THEN h[i] ELSE t[i - Len(h)]
    BY <2>0, ConcatProperties, Zenon
  <2> QED BY <2>1, <2>2, <2>3
<1> HIDE DEF c
<1>6. Len(c) = Len(s) BY <1>1, <1>3, <1>4, <1>5
<1>7. ASSUME NEW i \in 1..Len(c) PROVE c[i] = s[i]
  <2>1. CASE i = 1 BY <1>1, <1>3, <1>4, <1>5, <1>6, <2>1
  <2>2. CASE i # 1
    <3>1. i - 1 \in 1..Len(t) /\ ~(i <= Len(h)) /\ i \in 1..Len(h) + Len(t) /\ i - 1 + 1 = i
      BY <1>1, <1>3, <1>4, <1>6, <2>2
    <3>2. c[i] = t[i - 1] BY <1>3, <1>5, <3>1
    <3> QED BY <1>4, <3>1, <3>2
  <2> QED BY <2>1, <2>2
<1>8. c = s BY <1>5, <1>6, <1>7, SeqEqual
<1> QED BY <1>2, <1>8 DEF c, h, t

(* A snapshot is added within the bound. *)
LEMMA Append20Type ==
  ASSUME NEW h \in Seq(Contents), Len(h) <= MaxHistory, NEW x \in Contents
  PROVE  Append20(h, x) \in Seq(Contents) /\ Len(Append20(h, x)) <= MaxHistory
<1>0. Len(h) \in Nat /\ MaxHistory \in Nat \ {0} BY LenProperties, Bounds
<1>1. CASE Len(h) >= MaxHistory
  <2>1. h # <<>> BY <1>0, <1>1, EmptySeq
  <2> DEFINE t == Tail(h)
  <2>2. t \in Seq(Contents) /\ Len(t) = Len(h) - 1 BY <2>1, HeadTailProperties
  <2>3. Append20(h, x) = Append(t, x) BY <1>1 DEF Append20
  <2> HIDE DEF t
  <2>4. Append(t, x) \in Seq(Contents) /\ Len(Append(t, x)) = Len(t) + 1
    BY <2>2, AppendProperties
  <2> QED BY <1>0, <2>2, <2>3, <2>4
<1>2. CASE ~(Len(h) >= MaxHistory)
  <2>1. Append20(h, x) = Append(h, x) BY <1>2 DEF Append20
  <2>2. Append(h, x) \in Seq(Contents) /\ Len(Append(h, x)) = Len(h) + 1
    BY AppendProperties
  <2> QED BY <1>0, <1>2, <2>1, <2>2
<1> QED BY <1>1, <1>2

(* The rollback finds the history of before, the evicted snapshot          *)
(* included.                                                               *)
LEMMA UndoBack ==
  ASSUME Typed, Staged
  PROVE  Unstaged = run.undo
<1> DEFINE u == run.undo
           x == session.content
           popped == SubSeq(history, 1, Len(history) - 1)
<1>1. u \in Seq(Contents) /\ x \in Contents /\ Len(u) \in Nat /\ Len(u) <= MaxHistory
      /\ MaxHistory \in Nat \ {0}
  <2>1. u \in Seq(Contents) /\ x \in Contents BY DEF Typed, TypeOK, LocalsType
  <2> QED BY <2>1, LenProperties, Bounds DEF Staged
<1>2. /\ history = Append20(u, x)
      /\ run.evicted = IF Len(u) >= MaxHistory THEN u[1] ELSE None
  BY DEF Staged
<1>3. Unstaged = IF run.evicted = None THEN popped ELSE <<run.evicted>> \o popped
  BY DEF Unstaged
<1> HIDE DEF u, x, popped
<1>4. CASE Len(u) >= MaxHistory
  <2>1. Len(u) >= 1 /\ u # <<>> BY <1>1, <1>4, EmptySeq
  <2> DEFINE t == Tail(u)
  <2>2. <<u[1]>> \o t = u /\ u[1] \in Contents BY <1>1, <2>1, HeadFirst
  <2>3. t \in Seq(Contents) BY <1>1, <2>1, HeadTailProperties
  <2>4. history = Append(t, x) BY <1>2, <1>4 DEF Append20
  <2> HIDE DEF t
  <2>5. popped = t BY <1>1, <2>3, <2>4, Popped DEF popped
  <2>6. run.evicted = u[1] /\ run.evicted # None BY <1>2, <1>4, <2>2, Bounds
  <2> QED BY <1>3, <2>2, <2>5, <2>6 DEF u
<1>5. CASE ~(Len(u) >= MaxHistory)
  <2>1. history = Append(u, x) /\ run.evicted = None BY <1>2, <1>5 DEF Append20
  <2>2. popped = u BY <1>1, <2>1, Popped DEF popped
  <2> QED BY <1>3, <2>1, <2>2 DEF u
<1> QED BY <1>4, <1>5

-----------------------------------------------------------------------------
(* The apply. *)

(* The record is looked at. *)
LEMMA InspectApplyKeeps == ASSUME IInv, InspectForApply PROVE IInv'
<1> DEFINE e == Expired("swap")
<1>1. /\ CustodyOf("swap", e) /\ mb' = InspectAck(mb, e, "swap")
      /\ UNCHANGED <<clock, session, history, tracker, epochs, closed, gate, client,
                     pairing, claims, proposals, origin, replaced>>
      /\ pc = "inspect"
  BY DEF InspectForApply, world, pipe, ghosts
<1>2. "swap" \in Kinds /\ run.proposal \in 1..proposals BY <1>1 DEF IInv, ApplyOK, Applying
<1>3. Withdraws(mb, mb') BY <1>1, Usable, InspectAckLemma
<1>4. Kept /\ cust'["swap"] = e BY <1>1, <1>2, <1>3, LookStep, CalmOne DEF Withdraws
<1>5. e.record.intent \in Nat /\ e.record.preview \in Nat /\ run \in LocalsType
  BY <1>2, LookStep DEF Orderly, CustodianType, RecordType, IInv, Typed, TypeOK
<1> HIDE DEF e
<1>6. \/ /\ run' = [run EXCEPT !.intent = e.record.intent, !.preview = e.record.preview]
         /\ pc' = IF session.content = e.record.preview THEN "recheck" ELSE "stale"
      \/ run' = run /\ pc' = "stale"
      \/ run' = NoLocals /\ pc' = "off"
  BY <1>4 DEF InspectForApply, End, Goto
<1>7. CASE \/ /\ run' = [run EXCEPT !.intent = e.record.intent, !.preview = e.record.preview]
              /\ pc' = IF session.content = e.record.preview THEN "recheck" ELSE "stale"
           \/ run' = run /\ pc' = "stale"
  <2>1. /\ run' \in LocalsType /\ run'.proposal = run.proposal
        /\ pc' = "recheck" => session.content = run'.preview
    BY <1>5, <1>7 DEF LocalsType
  <2>2. pc' \in {"recheck", "stale"} BY <1>7
  <2>3. Typed' BY <1>1, <1>4, <2>1, <2>2, StillTyped DEF Kept, IInv, Typed, TypeOK, Labels
  <2>4. ServiceOK' /\ StagedOK' BY <2>2 DEF ServiceOK, StagedOK, Claiming
  <2>5. ApplyOK' BY <1>1, <1>2, <2>1, <2>2 DEF ApplyOK, Applying
  <2> QED BY <1>4, <2>3, <2>4, <2>5, KeptInv
<1>8. CASE run' = NoLocals /\ pc' = "off"
  <2>1. Typed' BY <1>1, <1>4, <1>8, StillTyped, NoLocalsType DEF Kept, IInv, Typed, TypeOK, Labels
  <2> QED BY <1>4, <1>8, <2>1, Rests, KeptInv
<1> QED BY <1>6, <1>7, <1>8

(* ... and looked at again. *)
LEMMA RecheckKeeps == ASSUME IInv, Recheck PROVE IInv'
<1>1. /\ CustodyOf("swap", Expired("swap")) /\ mb' = InspectAck(mb, Expired("swap"), "swap")
      /\ UNCHANGED <<clock, session, history, tracker, epochs, closed, gate, client,
                     pairing, claims, proposals, origin, replaced>>
      /\ pc = "recheck"
      /\ \/ run' = run /\ pc' = "apply_claim"
         \/ run' = NoLocals /\ pc' = "off"
  BY DEF Recheck, End, Goto, world, pipe, ghosts
<1>2. "swap" \in Kinds /\ run.proposal \in 1..proposals /\ session.content = run.preview
  BY <1>1 DEF IInv, ApplyOK, Applying
<1>3. Withdraws(mb, mb') BY <1>1, Usable, InspectAckLemma
<1>4. Kept BY <1>1, <1>2, <1>3, LookStep, CalmOne DEF Withdraws
<1>5. run' \in LocalsType /\ pc' \in Labels
  BY <1>1, NoLocalsType DEF IInv, Typed, TypeOK, Labels
<1>6. Typed' BY <1>1, <1>4, <1>5, StillTyped DEF Kept, IInv, Typed, TypeOK
<1>7. CASE run' = run /\ pc' = "apply_claim"
  <2>1. ServiceOK' /\ StagedOK' BY <1>7 DEF ServiceOK, StagedOK, Claiming
  <2>2. ApplyOK' BY <1>1, <1>2, <1>7 DEF ApplyOK, Applying
  <2> QED BY <1>4, <1>6, <2>1, <2>2, KeptInv
<1>8. CASE pc' = "off" BY <1>4, <1>6, <1>8, Rests, KeptInv
<1> QED BY <1>1, <1>7, <1>8

(* An apply changes its record. *)
LEMMA ApplyMoves ==
  ASSUME IInv, "swap" \in Kinds, NEW d, Same(Swap, d),
         SameProposal(Swap.record, d.record), Swap.record.state \in Committed,
         d.record.state = "applying",
         (d.record.published <=> Swap.record.published) \/ replaced[Swap.record.proposal] = 0,
         CustodyOf("swap", d),
         UNCHANGED <<mb, clock, tracker, epochs, closed, proposals, origin, replaced, client>>
  PROVE  /\ CustodyParts' /\ cust'["swap"] = d /\ mb' \in MailboxType
         /\ SameTarget' /\ MailOK' /\ AckOK' /\ ReaderOK'
<1>1. CustodyParts' /\ cust'["swap"] = d /\ \A j \in Kinds \ {"swap"} : cust'[j] = cust[j]
  BY Usable, CustodyApply
<1>2. \A j \in Kinds : cust'[j].closed = cust[j].closed /\ cust'[j].epoch = cust[j].epoch
  BY <1>1 DEF Same, Swap
<1>3. SameTarget' BY <1>2 DEF IInv, SameTarget
<1>4. MailOK' /\ mb' \in MailboxType /\ Calm(mb, mb')
  BY Usable, CalmRefl DEF IInv, MailOK, Typed, TypeOK
<1>5. AckOK'
  <2>1. \A k \in Kinds : \/ cust'[k].record = cust[k].record
                         \/ /\ cust'[k].record.proposal = cust[k].record.proposal
                            /\ cust'[k].record.state \in Committed
    BY <1>1 DEF SameProposal, Swap, Committed
  <2>2. proposals \in Nat /\ proposals' = proposals BY Numbered DEF IInv
  <2> QED BY <1>4, <2>1, <2>2, AckKept DEF IInv
<1>6. ReaderOK' BY DEF IInv, ReaderOK
<1> QED BY <1>1, <1>3, <1>4, <1>5, <1>6

(* claim_for_apply. *)
LEMMA ClaimProposalKeeps == ASSUME IInv, ClaimProposal PROVE IInv'
<1> DEFINE e == Expired("swap")
           d == ClaimForApply(e)
<1>1. /\ UNCHANGED <<clock, session, history, tracker, epochs, closed, gate, mb, client,
                     pairing, claims, proposals, origin, replaced>>
      /\ pc = "apply_claim"
      /\ \/ pc' = "off" /\ run' = NoLocals /\ UNCHANGED <<cust, outcome>>
         \/ pc' = "off" /\ run' = NoLocals /\ CustodyOf("swap", e)
         \/ /\ pc' = "core" /\ run' = run /\ CustodyOf("swap", d)
            /\ ClaimsForApply(e, run.proposal, run.epoch, run.intent, run.preview)
  BY DEF ClaimProposal, End, Goto, world, pipe, ghosts
<1>2. "swap" \in Kinds /\ run.proposal \in 1..proposals /\ session.content = run.preview
  BY <1>1 DEF IInv, ApplyOK, Applying
<1>3. /\ Keeps(cust["swap"], e) /\ Timely("swap", e) /\ Orderly(e)
      /\ e.record = Swap.record \/ e.record = NoRecord
  BY <1>2, LookStep DEF Swap
<1>4. Calm(mb, mb') BY <1>1, Usable, CalmRefl
<1> HIDE DEF e, d
<1>5. CASE pc' = "off" /\ run' = NoLocals
           /\ (UNCHANGED <<cust, outcome>> \/ CustodyOf("swap", e))
  <2>1. Kept
    <3>1. CASE UNCHANGED <<cust, outcome>> BY <1>1, <1>4, <3>1, CalmNone
    <3>2. CASE CustodyOf("swap", e) BY <1>1, <1>2, <1>3, <1>4, <3>2, CalmOne
    <3> QED BY <1>5, <3>1, <3>2
  <2>2. Typed' BY <1>1, <1>5, <2>1, StillTyped, NoLocalsType DEF Kept, IInv, Typed, TypeOK, Labels
  <2> QED BY <1>5, <2>1, <2>2, Rests, KeptInv
<1>6. CASE /\ pc' = "core" /\ run' = run /\ CustodyOf("swap", d)
           /\ ClaimsForApply(e, run.proposal, run.epoch, run.intent, run.preview)
  <2>1. /\ e.record.state = "pending" /\ e.record.proposal = run.proposal
        /\ e.record.preview = run.preview
    BY <1>6 DEF ClaimsForApply, IsPending
  <2>2. /\ Same(e, d) /\ SameProposal(e.record, d.record) /\ d.record.state = "applying"
        /\ d.record.published = FALSE
    BY <1>3, <2>1, ClaimApplyLemma DEF d
  <2>3. e.record = Swap.record BY <1>3, <2>1, NoRecordType
  <2>4. Same(Swap, d) /\ SameProposal(Swap.record, d.record)
    BY <1>3, <2>2, <2>3 DEF Same, Keeps, Lets, Swap
  <2>5. ~Swap.record.published /\ Swap.record.state \in Committed
    BY <1>3, <2>1, <2>3 DEF Orderly, Committed
  <2>6. /\ CustodyParts' /\ cust'["swap"] = d /\ mb' \in MailboxType
        /\ SameTarget' /\ MailOK' /\ AckOK' /\ ReaderOK'
    BY <1>1, <1>2, <1>6, <2>2, <2>4, <2>5, ApplyMoves
  <2>7. Typed' BY <1>1, <1>6, <2>6, StillTyped DEF IInv, Typed, TypeOK, Labels
  <2>8. ServiceOK' /\ StagedOK' BY <1>6 DEF ServiceOK, StagedOK, Claiming
  <2>9. ApplyOK'
    <3>1. Swap'.record.preview = run.preview /\ ~Swap'.record.published
      BY <2>1, <2>2, <2>6 DEF SameProposal, Swap
    <3> QED BY <1>1, <1>2, <1>6, <3>1 DEF ApplyOK, Applying
  <2> QED BY <2>6, <2>7, <2>8, <2>9 DEF IInv, CustodyParts
<1> QED BY <1>1, <1>5, <1>6

(* The undo snapshot and the publication marker are staged. *)
LEMMA StageKeeps == ASSUME IInv, StagePublication PROVE IInv'
<1> DEFINE d == [Swap EXCEPT !.record.published = TRUE, !.revision = @ + 1]
           first == IF Len(history) >= MaxHistory THEN history[1] ELSE None
<1>1. /\ UNCHANGED <<clock, session, mb, tracker, epochs, closed, client, pairing, claims,
                     proposals, origin, replaced>>
      /\ pc = "apply_publish"
  BY DEF StagePublication, pipe, ghosts
<1>2. /\ "swap" \in Kinds /\ run.proposal \in 1..proposals /\ session.content = run.preview
      /\ Swap.record.proposal = run.proposal =>
           Swap.record.preview = run.preview /\ ~Swap.record.published
  BY <1>1 DEF IInv, ApplyOK, Applying
<1>3. history \in Seq(Contents) /\ Len(history) <= MaxHistory /\ run \in LocalsType
      /\ session.content \in Contents
  BY DEF IInv, Typed, TypeOK
<1>4. CASE Publishable
  <2>1. /\ history' = Append20(history, session.content)
        /\ CustodyOf("swap", MarkApplyPublished(Swap, run.proposal, run.epoch))
        /\ gate' = TRUE /\ pc' = "assign"
        /\ run' = [run EXCEPT !.undo = history, !.evicted = first]
    BY <1>4 DEF StagePublication, Goto
  <2>2. /\ ~closed /\ tracker.target = session.project /\ tracker.epoch = run.epoch
        /\ Swap.record.state = "applying" /\ Swap.record.proposal = run.proposal
        /\ Swap.record.epoch = run.epoch
        /\ ApplyClaimIsCurrent(Swap, run.proposal, run.epoch)
    BY <1>4 DEF Publishable, ApplyClaimIsCurrent
  <2>3. MarkApplyPublished(Swap, run.proposal, run.epoch) = d
    BY <1>2, <2>2 DEF MarkApplyPublished
  <2>4. Orderly(Swap) /\ HasRecord(Swap) BY <1>2, <2>2, Usable DEF Swap, HasRecord
  <2>5. /\ Same(Swap, d) /\ SameProposal(Swap.record, d.record)
        /\ d.record.state = "applying" /\ d.record.published = TRUE
    BY <2>2, <2>4, MarkLemma
  <2>6. replaced[Swap.record.proposal] = 0
    BY <1>2, <2>2, <2>4 DEF IInv, ReplacedOK, Swap
  <2>7. CustodyOf("swap", d) BY <2>1, <2>3
  <2> HIDE DEF d
  <2>8. /\ CustodyParts' /\ cust'["swap"] = d /\ mb' \in MailboxType
        /\ SameTarget' /\ MailOK' /\ AckOK' /\ ReaderOK'
    BY <1>1, <1>2, <2>2, <2>5, <2>6, <2>7, ApplyMoves DEF Committed
  <2>9. first \in Nat
    <3>1. Len(history) \in Nat BY <1>3, LenProperties
    <3>2. Len(history) >= MaxHistory => history[1] \in Contents
      BY <1>3, <3>1, Bounds, ElementOfSeq
    <3> QED BY <3>2, Bounds
  <2>10. /\ run' \in LocalsType /\ run'.proposal = run.proposal /\ run'.preview = run.preview
         /\ run'.undo = history /\ run'.evicted = first
    <3> HIDE DEF first
    <3> QED BY <1>3, <2>1, <2>9 DEF LocalsType
  <2>11. Typed'
    <3>1. history' \in Seq(Contents) /\ Len(history') <= MaxHistory
      BY <1>3, <2>1, Append20Type
    <3>2. /\ clock' \in Nat /\ session' \in [project : Projects, content : Contents]
          /\ tracker' \in [initialized : BOOLEAN, target : Projects, epoch : Nat]
          /\ closed' \in BOOLEAN /\ client' \in CallType
          /\ pairing' \in Nat /\ claims' \in Nat /\ proposals' \in 0..MaxProposals
          /\ origin' \in [Proposals -> OriginType] /\ replaced' \in [Proposals -> Nat]
          /\ epochs' \in 0..MaxEpochs /\ gate' \in BOOLEAN /\ pc' \in Labels
      BY <1>1, <2>1 DEF IInv, Typed, TypeOK, Labels
    <3> QED BY <2>8, <2>10, <3>1, <3>2, TypedKept DEF IInv
  <2>12. ServiceOK' BY <2>1 DEF ServiceOK, Claiming
  <2>13. ApplyOK' BY <1>1, <1>2, <2>1, <2>10 DEF ApplyOK, Applying
  <2>14. tracker.initialized
    <3>1. Swap.record.epoch \in 1..epochs BY <1>2, <2>4 DEF IInv, RecordsOK, Swap
    <3> QED BY <2>2, <3>1 DEF IInv, SameTarget
  <2>15. StagedOK'
    <3>1. /\ Swap'.record.state = "applying" /\ Swap'.record.published
          /\ Swap'.record.proposal = run.proposal /\ Swap'.record.preview = run.preview
          /\ Swap'.record.epoch = tracker.epoch
      BY <1>2, <2>2, <2>5, <2>8 DEF SameProposal, Swap
    <3>2. Len(run'.undo) <= MaxHistory /\ history' = Append20(run'.undo, session'.content)
      BY <1>1, <1>3, <2>1, <2>10
    <3>3. run'.evicted = IF Len(run'.undo) >= MaxHistory THEN run'.undo[1] ELSE None
      BY <2>10
    <3>4. gate' /\ ~closed' /\ tracker'.initialized /\ tracker'.target = session'.project
          /\ replaced'[run'.proposal] = 0
      BY <1>1, <2>1, <2>2, <2>6, <2>10, <2>14
    <3> QED BY <1>1, <2>10, <3>1, <3>2, <3>3, <3>4 DEF StagedOK, Staged
  <2> QED BY <2>8, <2>11, <2>12, <2>13, <2>15 DEF IInv, CustodyParts
<1>5. CASE ~Publishable
  <2>1. run' = [run EXCEPT !.status = "stale"] /\ pc' \in {"look", "finish"}
        /\ UNCHANGED <<history, cust, outcome, gate>>
    BY <1>5 DEF StagePublication, Goto
  <2>2. clock' \in Nat /\ clock <= clock' BY <1>1 DEF IInv, Typed, TypeOK
  <2>3. /\ SameTarget' /\ MailOK' /\ RecordsOK' /\ OriginOK' /\ AckOK' /\ ReaderOK' /\ ReplacedOK'
    BY <1>1, <2>1, <2>2, Untouched
  <2>4. run' \in LocalsType /\ run'.proposal = run.proposal /\ run'.status = "stale"
    BY <1>3, <2>1 DEF LocalsType
  <2>5. Typed' BY <1>1, <2>1, <2>4 DEF IInv, Typed, TypeOK, Labels
  <2>6. ServiceOK' /\ StagedOK' BY <2>1 DEF ServiceOK, StagedOK, Claiming
  <2>7. ApplyOK' BY <1>1, <1>2, <2>1, <2>4 DEF ApplyOK, Applying, Applied
  <2> QED BY <2>3, <2>5, <2>6, <2>7 DEF IInv
<1> QED BY <1>4, <1>5

(* Marker and snapshot are taken back. *)
LEMMA RollbackKeeps == ASSUME IInv, RollbackPublication PROVE IInv'
<1> DEFINE d == RollbackApplyPublication(Swap, run.proposal, run.epoch)
           k == [Swap EXCEPT !.record.published = FALSE, !.revision = @ + 1]
<1>1. /\ UNCHANGED <<clock, session, mb, tracker, epochs, closed, client, pairing, claims,
                     proposals, origin, replaced>>
      /\ pc = "assign" /\ pc' = "finish" /\ CustodyOf("swap", d) /\ history' = Unstaged
      /\ gate' = FALSE /\ run' = [run EXCEPT !.status = "apply_failed"]
  BY DEF RollbackPublication, Goto, pipe, ghosts
<1>2. "swap" \in Kinds /\ run.proposal \in 1..proposals /\ Staged
  BY <1>1 DEF IInv, ApplyOK, Applying, StagedOK
<1>3. /\ Swap.record.state = "applying" /\ Swap.record.proposal = run.proposal
      /\ replaced[run.proposal] = 0 /\ Len(run.undo) <= MaxHistory
  BY <1>2 DEF Staged
<1>4. Orderly(Swap) BY <1>2, Usable DEF Swap
<1>5. Same(Swap, d) /\ SameProposal(Swap.record, d.record) /\ d.record.state = "applying"
  <2>1. CASE d = Swap BY <1>3, <1>4, <2>1 DEF Same, SameProposal
  <2>2. CASE d # Swap
    <3>1. d = k BY <2>2 DEF RollbackApplyPublication
    <3>2. /\ Same(Swap, k) /\ SameProposal(Swap.record, k.record) /\ k.record.state = "applying"
      BY <1>3, <1>4, MarkLemma
    <3> HIDE DEF k, d
    <3> QED BY <3>1, <3>2
  <2> QED BY <2>1, <2>2
<1> HIDE DEF d
<1>6. /\ CustodyParts' /\ cust'["swap"] = d /\ mb' \in MailboxType
      /\ SameTarget' /\ MailOK' /\ AckOK' /\ ReaderOK'
  BY <1>1, <1>2, <1>3, <1>5, ApplyMoves DEF Committed
<1>7. history' = run.undo BY <1>1, <1>2, UndoBack DEF IInv
<1>8. history' \in Seq(Contents) /\ Len(history') <= MaxHistory /\ run \in LocalsType
  BY <1>3, <1>7 DEF IInv, Typed, TypeOK, LocalsType
<1>9. run' \in LocalsType /\ run'.proposal = run.proposal /\ run'.status = "apply_failed"
  BY <1>1, <1>8 DEF LocalsType
<1>10. Typed'
  <2>1. /\ clock' \in Nat /\ session' \in [project : Projects, content : Contents]
        /\ tracker' \in [initialized : BOOLEAN, target : Projects, epoch : Nat]
        /\ closed' \in BOOLEAN /\ client' \in CallType
        /\ pairing' \in Nat /\ claims' \in Nat /\ proposals' \in 0..MaxProposals
        /\ origin' \in [Proposals -> OriginType] /\ replaced' \in [Proposals -> Nat]
        /\ epochs' \in 0..MaxEpochs /\ gate' \in BOOLEAN /\ pc' \in Labels
    BY <1>1 DEF IInv, Typed, TypeOK, Labels
  <2> QED BY <1>6, <1>8, <1>9, <2>1, TypedKept DEF IInv
<1>11. ServiceOK' /\ StagedOK' BY <1>1 DEF ServiceOK, StagedOK, Claiming
<1>12. ApplyOK' BY <1>1, <1>2, <1>9 DEF ApplyOK, Applying, Applied
<1> QED BY <1>6, <1>10, <1>11, <1>12 DEF IInv, CustodyParts

(* The queued acknowledgment is retired. *)
LEMMA RetireAckKeeps == ASSUME IInv, RetireAck PROVE IInv'
<1>1. /\ UNCHANGED <<clock, session, history, tracker, epochs, closed, gate, cust, outcome, run,
                     client, pairing, claims, proposals, origin, replaced>>
      /\ pc = "retire" /\ pc' = "observe"
      /\ mb' = mb \/ mb' = DiscardAck(mb, run.proposal, "review_cancelled")
  BY DEF RetireAck, Goto, world, pipe, ghosts
<1>2. Withdraws(mb, mb')
  BY <1>1, Usable, CalmRefl, DiscardLemma DEF TerminalStatuses
<1>3. Kept BY <1>1, <1>2, CalmNone DEF Withdraws
<1>4. Typed' BY <1>1, <1>3, StillTyped DEF Kept, IInv, Typed, TypeOK, Labels
<1>5. ServiceOK' /\ StagedOK' BY <1>1 DEF ServiceOK, StagedOK, Claiming
<1>6. ApplyOK' BY <1>1 DEF IInv, ApplyOK, Applying
<1> QED BY <1>3, <1>4, <1>5, <1>6, KeptInv

(* finish_apply: the proposal leaves custody as it ended, and no           *)
(* acknowledgment of it stays.                                             *)
LEMMA FinishKeeps == ASSUME IInv, FinishProposal PROVE IInv'
<1> DEFINE d == FinishApply(Swap, run.proposal, run.epoch, run.status)
<1>1. /\ UNCHANGED <<clock, session, history, tracker, epochs, closed, gate,
                     client, pairing, claims, proposals, origin, replaced>>
      /\ pc = "finish"
      /\ \/ /\ CustodyOf("swap", d) /\ Finishes(Swap, run.proposal, run.epoch, run.status)
            /\ mb' = DiscardAck(mb, run.proposal, "review_cancelled")
            /\ pc' = "off" /\ run' = NoLocals
         \/ pc' = "look" /\ UNCHANGED <<mb, cust, outcome, run>>
  BY DEF FinishProposal, End, Goto, world, pipe, ghosts
<1>2. /\ "swap" \in Kinds /\ run.proposal \in 1..proposals
      /\ run.status # "none" /\ (run.status \in Applied => replaced[run.proposal] = 1)
  BY <1>1 DEF IInv, ApplyOK, Applying
<1>3. CASE pc' = "look" /\ UNCHANGED <<mb, cust, outcome, run>>
  <2>1. clock' \in Nat /\ clock <= clock' BY <1>1 DEF IInv, Typed, TypeOK
  <2>2. /\ SameTarget' /\ MailOK' /\ RecordsOK' /\ OriginOK' /\ AckOK' /\ ReaderOK' /\ ReplacedOK'
    BY <1>1, <1>3, <2>1, Untouched
  <2>3. Typed' BY <1>1, <1>3 DEF IInv, Typed, TypeOK, Labels
  <2>4. ServiceOK' /\ StagedOK' BY <1>3 DEF ServiceOK, StagedOK, Claiming
  <2>5. ApplyOK' BY <1>1, <1>2, <1>3 DEF ApplyOK, Applying
  <2> QED BY <2>2, <2>3, <2>4, <2>5 DEF IInv
<1>4. CASE /\ CustodyOf("swap", d) /\ Finishes(Swap, run.proposal, run.epoch, run.status)
           /\ mb' = DiscardAck(mb, run.proposal, "review_cancelled")
           /\ pc' = "off" /\ run' = NoLocals
  <2>1. /\ Swap.record.state = "applying" /\ Swap.record.proposal = run.proposal
        /\ Swap.record.published <=> run.status \in Applied
    BY <1>4 DEF Finishes, ApplyClaimIsCurrent
  <2>2. run.status \in HumanStates
    BY <1>2 DEF HumanStates, Applied, IInv, Typed, TypeOK, LocalsType
  <2>3. Orderly(Swap) /\ IsMailbox(mb) BY <1>2, Usable DEF Swap
  <2>4. d = Retire(Swap, "proposal_cancelled", run.status) BY <1>4 DEF FinishApply
  <2> HIDE DEF d
  <2>5. Left(Swap, d, run.status) BY <2>2, <2>3, <2>4, RetireLemma DEF Reasons
  <2>6. Lets(Swap, d) BY <2>1, <2>5 DEF Left, Lets
  <2>7. d.record # Swap.record /\ d.human \in Applied => replaced[Swap.record.proposal] = 1
    BY <1>2, <2>1, <2>5 DEF Left
  <2>8. epochs \in Nat /\ proposals \in 0..MaxProposals BY DEF IInv, Typed, TypeOK
  <2>9. CustodyParts' /\ cust'["swap"] = d /\ \A j \in Kinds \ {"swap"} : cust'[j] = cust[j]
    BY <1>1, <1>2, <1>4, <2>6, <2>7, <2>8, Usable, CustodyOne DEF Swap
  <2>10. Withdraws(mb, mb') /\ (Unread(mb') => mb.review.proposal # run.proposal)
    BY <1>4, <2>3, DiscardLemma DEF TerminalStatuses
  <2>11. MailOK' /\ mb' \in MailboxType BY <2>10, MailKept DEF IInv, Withdraws
  <2>12. AckOK'
    <3>1. \A k \in Kinds : \/ cust'[k].record = cust[k].record
                           \/ ~(/\ Unread(mb') /\ mb.review.owner = k
                                /\ mb.review.proposal = cust[k].record.proposal)
      BY <2>1, <2>9, <2>10 DEF Swap
    <3>2. proposals \in Nat /\ proposals' = proposals BY <1>1, Numbered DEF IInv
    <3> QED BY <1>1, <2>10, <3>1, <3>2, AckKept DEF IInv, Withdraws
  <2>13. ReaderOK' BY <1>1, <2>10, <2>11, ReaderKept DEF IInv, Withdraws, Calm
  <2>14. SameTarget'
    <3>1. \A j \in Kinds : cust'[j].closed = cust[j].closed /\ cust'[j].epoch = cust[j].epoch
      BY <2>5, <2>9 DEF Left, Swap
    <3> QED BY <1>1, <2>10, <3>1 DEF IInv, SameTarget, Withdraws, Calm
  <2>15. Typed' BY <1>1, <1>4, <2>9, <2>11, StillTyped, NoLocalsType DEF IInv, Typed, TypeOK, Labels
  <2> QED BY <1>4, <2>9, <2>11, <2>12, <2>13, <2>14, <2>15, Rests DEF IInv, CustodyParts
<1> QED BY <1>1, <1>3, <1>4

-----------------------------------------------------------------------------
(* The pipe's threads. *)

(* Withdrawing twice is withdrawing. *)
LEMMA WithdrawsTrans ==
  ASSUME NEW m, IsMailbox(m), NEW n, NEW o, Withdraws(m, n), Withdraws(n, o)
  PROVE  Withdraws(m, o)
<1>1. IsMailbox(n) /\ IsMailbox(o) BY DEF Withdraws, Calm
<1>2. m.reply_generation \in Nat /\ n.reply_generation \in Nat /\ o.reply_generation \in Nat
  BY <1>1 DEF IsMailbox, MailboxType
<1>3. Reads(m, o) BY <1>2 DEF Withdraws, Calm, Reads
<1>4. o.review \in {m.review, NoReview} BY DEF Withdraws, Calm
<1>5. Unread(o) => Unread(m) /\ o.review = m.review BY DEF Withdraws, Calm
<1>6. o.state \in Unclaimed \cup {"executing"} =>
        m.state \in Unclaimed \cup {"executing"} /\ o.request = m.request
  BY DEF Withdraws, Calm
<1>7. o.closed = m.closed /\ o.target_epoch = m.target_epoch BY DEF Withdraws, Calm
<1>8. m.state # "reply_ready" => o = m BY DEF Withdraws
<1> QED BY <1>1, <1>3, <1>4, <1>5, <1>6, <1>7, <1>8 DEF Withdraws, Calm

(* _expire_generation_ack_locked. *)
LEMMA ExpiredAckStep ==
  ASSUME IInv
  PROVE  /\ Withdraws(mb, ExpiredAck[1]) /\ ExpiredAck[2] \in [Kinds -> CustodianType]
         /\ \A k \in Kinds : Keeps(cust[k], ExpiredAck[2][k]) /\ Timely(k, ExpiredAck[2][k])
<1>1. /\ IsMailbox(mb) /\ cust \in [Kinds -> CustodianType]
      /\ \A k \in Kinds : Keeps(cust[k], cust[k]) /\ Timely(k, cust[k])
  BY Usable, KeepsRefl DEF Timely, CustodyParts
<1>2. CASE mb.review.owner = "generation"
  <2> DEFINE e == Expired("generation")
             c == [cust EXCEPT !["generation"] = e]
  <2>1. ExpiredAck[1] = InspectAck(mb, e, "generation") /\ ExpiredAck[2] = c
    BY <1>2 DEF ExpiredAck, Expired
  <2>2. "generation" \in Kinds BY <1>2 DEF IInv, MailOK
  <2>3. Keeps(cust["generation"], e) /\ Timely("generation", e) /\ e \in CustodianType
    BY <2>2, LookStep DEF Orderly
  <2>4. Withdraws(mb, ExpiredAck[1]) BY <1>1, <2>1, InspectAckLemma
  <2> HIDE DEF e
  <2>5. c \in [Kinds -> CustodianType] BY <1>1, <2>3
  <2>6. \A k \in Kinds : Keeps(cust[k], c[k]) /\ Timely(k, c[k])
    <3>1. c["generation"] = e /\ \A k \in Kinds \ {"generation"} : c[k] = cust[k]
      BY <1>1, <2>2
    <3> HIDE DEF c
    <3> QED BY <1>1, <2>3, <3>1
  <2> QED BY <2>1, <2>4, <2>5, <2>6
<1>3. CASE mb.review.owner # "generation"
  <2>1. ExpiredAck[1] = mb /\ ExpiredAck[2] = cust BY <1>3 DEF ExpiredAck
  <2> QED BY <1>1, <2>1, CalmRefl
<1> QED BY <1>2, <1>3

(* A critical section of consume_reply keeps the invariant. *)
LEMMA ConsumeStep ==
  ASSUME IInv, Withdraws(ExpiredAck[1], mb'), Custody(ExpiredAck[2]), client' \in CallType,
         UNCHANGED <<clock, session, history, tracker, epochs, closed, gate, pc, run, pairing,
                     claims, proposals, origin, replaced>>,
         ReaderOK'
  PROVE  IInv'
<1> DEFINE m == ExpiredAck[1]
           c == ExpiredAck[2]
<1>1. /\ Withdraws(mb, m) /\ c \in [Kinds -> CustodianType]
      /\ \A k \in Kinds : Keeps(cust[k], c[k]) /\ Timely(k, c[k])
  BY ExpiredAckStep
<1>2. Withdraws(m, mb') /\ Custody(c) OBVIOUS
<1> HIDE DEF m, c
<1>3. Withdraws(mb, mb') BY <1>1, <1>2, Usable, WithdrawsTrans
<1>4. Kept BY <1>1, <1>2, <1>3, CalmStep DEF Withdraws
<1>5. Typed' BY <1>4, StillTyped DEF Kept, IInv, Typed, TypeOK
<1>6. mb.state = "executing" => mb'.state = "executing" BY <1>3 DEF Withdraws
<1>7. ServiceOK' /\ ApplyOK' /\ StagedOK'
  <2>1. proposals \in Nat /\ RecordsOK BY Numbered DEF IInv
  <2> QED BY <1>4, <1>6, <2>1, ThreadKept, ReviewAssumption DEF IInv, Kept
<1> QED BY <1>4, <1>5, <1>7, KeptInv

(* The first critical section. *)
LEMMA PeekKeeps == ASSUME IInv, PeekReply PROVE IInv'
<1> DEFINE m == ExpiredAck[1]
<1>1. /\ mb' = Peek(m, client.epoch, clock) /\ Custody(ExpiredAck[2])
      /\ client' = CASE PeekStatus(m, client.epoch) = "read" ->
                          [client EXCEPT !.state = "copying",
                                         !.generation = mb'.reply_generation,
                                         !.status = mb'.reply_status,
                                         !.review = mb'.review]
                     [] PeekStatus(m, client.epoch) = "busy" -> client
                     [] OTHER -> NoCall
      /\ client.state = "waiting"
      /\ UNCHANGED <<clock, session, history, tracker, epochs, closed, gate, pc, run, pairing,
                     claims, proposals, origin, replaced>>
  BY DEF PeekReply, world, ghosts
<1>2. IsMailbox(m) BY ExpiredAckStep DEF Withdraws, Calm
<1>3. Withdraws(m, mb') /\ (PeekStatus(m, client.epoch) = "read" => mb'.state = "reply_ready")
  <2> HIDE DEF m
  <2> QED BY <1>1, <1>2, PeekMail
<1>4. mb' \in MailboxType BY <1>3 DEF Withdraws, Calm, IsMailbox
<1>5. client \in CallType BY DEF IInv, Typed, TypeOK
<1> DEFINE d == [client EXCEPT !.state = "copying", !.generation = mb'.reply_generation,
                               !.status = mb'.reply_status, !.review = mb'.review]
<1>6. /\ d \in CallType /\ d.generation = mb'.reply_generation /\ d.status = mb'.reply_status
      /\ d.review = mb'.review
  BY <1>4, <1>5 DEF CallType, MailboxType
<1>7. \/ client' = d /\ mb'.state = "reply_ready"
      \/ client' = client
      \/ client' = NoCall
  <2> HIDE DEF d, m
  <2>1. CASE PeekStatus(m, client.epoch) = "read" BY <1>1, <1>3, <2>1 DEF d
  <2>2. CASE PeekStatus(m, client.epoch) = "busy" BY <1>1, <2>2
  <2>3. CASE PeekStatus(m, client.epoch) \notin {"read", "busy"} BY <1>1, <2>3
  <2> QED BY <2>1, <2>2, <2>3
<1> HIDE DEF d
<1>8. client' \in CallType BY <1>5, <1>6, <1>7, NoLocalsType
<1>9. ReaderOK'
  <2>1. mb'.reply_generation \in Nat BY <1>4 DEF MailboxType
  <2>2. CASE client' = d /\ mb'.state = "reply_ready" BY <1>6, <2>1, <2>2 DEF ReaderOK
  <2>3. CASE client' = client BY <1>1, <2>3 DEF ReaderOK
  <2>4. CASE client' = NoCall BY <2>4 DEF ReaderOK, NoCall
  <2> QED BY <1>7, <2>2, <2>3, <2>4
<1> QED BY <1>1, <1>3, <1>8, <1>9, ConsumeStep

(* The second one. *)
LEMMA TakeKeeps == ASSUME IInv, TakeReply PROVE IInv'
<1> DEFINE m == ExpiredAck[1]
           w == [NoCall EXCEPT !.state = "waiting", !.epoch = client.epoch]
<1>1. /\ mb' = Take(m, client.epoch, client.generation) /\ Custody(ExpiredAck[2])
      /\ client' = w \/ client' = NoCall
      /\ UNCHANGED <<clock, session, history, tracker, epochs, closed, gate, pc, run, pairing,
                     claims, proposals, origin, replaced>>
  BY DEF TakeReply, world, ghosts
<1>2. IsMailbox(m) BY ExpiredAckStep DEF Withdraws, Calm
<1>3. Withdraws(m, mb')
  <2> HIDE DEF m
  <2> QED BY <1>1, <1>2, TakeMail
<1>4. client.epoch \in Nat BY DEF IInv, Typed, TypeOK, CallType
<1>5. w \in CallType /\ w.state # "copying" /\ NoCall.state # "copying"
  BY <1>4, NoLocalsType DEF CallType, NoCall
<1> HIDE DEF w
<1>6. client' \in CallType /\ ReaderOK' BY <1>1, <1>5, NoLocalsType DEF ReaderOK
<1> QED BY <1>1, <1>3, <1>6, ConsumeStep

(* submit. *)
LEMMA SubmitKeeps == ASSUME IInv, NEW q \in Payloads, SubmitRequest(q) PROVE IInv'
<1> DEFINE w == [NoCall EXCEPT !.state = "waiting", !.epoch = mb.target_epoch]
<1>1. /\ mb.target_epoch # 0 /\ SubmitStatus(mb, mb.target_epoch) = "accepted"
      /\ mb' = Submit(mb, mb.target_epoch, q, pairing, clock + Timeout) /\ client' = w
      /\ UNCHANGED <<clock, session, history, tracker, epochs, closed, gate, cust, outcome, pc,
                     run, pairing, claims, proposals, origin, replaced>>
  BY DEF SubmitRequest, world, ghosts
<1>2. IsMailbox(mb) /\ clock \in Nat BY Usable
<1>3. /\ mb.target_epoch \in Nat \ {0} /\ q \in Nat \ {0} /\ pairing \in Nat
      /\ clock + Timeout \in Nat \ {0}
  <2>1. mb.target_epoch \in Nat \ {0} BY <1>1, <1>2 DEF IsMailbox, MailboxType
  <2>2. q \in Nat \ {0} BY Bounds
  <2>3. pairing \in Nat BY DEF IInv, Typed, TypeOK
  <2>4. clock + Timeout \in Nat \ {0} BY <1>2, Bounds
  <2> QED BY <2>1, <2>2, <2>3, <2>4
<1>4. /\ IsMailbox(mb') /\ mb'.closed = mb.closed /\ mb'.target_epoch = mb.target_epoch
      /\ mb'.state = "pending" /\ mb'.request = q /\ mb'.review = NoReview
      /\ mb.state = "idle" /\ Reads(mb, mb')
  BY <1>1, <1>2, <1>3, SubmitMail
<1>5. w \in CallType /\ w.state # "copying"
  BY <1>3, NoLocalsType DEF CallType, NoCall
<1> HIDE DEF w
<1>6. SameTarget' BY <1>1, <1>4 DEF IInv, SameTarget
<1>7. MailOK' BY <1>4 DEF MailOK, IsMailbox, NoReview
<1>8. ReaderOK' /\ AckOK' BY <1>1, <1>4, <1>5 DEF ReaderOK, AckOK, UnreadAck
<1>9. CustodyParts'
  BY <1>1, Usable DEF CustodyParts, RecordsOK, OriginOK, ReplacedOK, HasRecord, Swap
<1>10. Typed' BY <1>1, <1>4, <1>5, <1>9, StillTyped DEF IsMailbox, IInv, Typed, TypeOK
<1>11. ServiceOK' /\ ApplyOK' /\ StagedOK'
  <2>1. proposals \in Nat /\ RecordsOK BY Numbered DEF IInv
  <2>2. ServiceOK /\ ApplyOK /\ StagedOK BY DEF IInv
  <2>3. \A k \in Kinds : cust'[k].record = cust[k].record BY <1>1
  <2> QED BY <1>1, <1>4, <2>1, <2>2, <2>3, ThreadKept, ReviewAssumption
<1> QED BY <1>6, <1>7, <1>8, <1>9, <1>10, <1>11 DEF IInv, CustodyParts

-----------------------------------------------------------------------------
(* The invariant holds initially, ... *)
LEMMA InitKeeps == ASSUME Init PROVE IInv
<1>1. /\ clock = 0 /\ mb = InitMailbox /\ cust = [k \in Kinds |-> InitCustodian]
      /\ session \in [project : Projects, content : Contents]
      /\ tracker = [initialized |-> FALSE, target |-> 0, epoch |-> 0]
      /\ epochs = 0 /\ closed = FALSE /\ gate = FALSE /\ pc = "off" /\ run = NoLocals
      /\ client = NoCall /\ pairing = 1 /\ claims = 0 /\ proposals = 0
      /\ origin = [p \in Proposals |-> NoOrigin] /\ replaced = [p \in Proposals |-> 0]
      /\ outcome = [p \in Proposals |-> "absent"]
  BY DEF Init
<1>2. IsMailbox(mb)
  <2>1. InitMailbox \in MailboxType BY Members DEF InitMailbox, MailboxType
  <2>2. WellFormed(InitMailbox) BY DEF InitMailbox, WellFormed, Unclaimed
  <2> QED BY <1>1, <2>1, <2>2 DEF IsMailbox
<1>3. InitCustodian \in CustodianType /\ InitCustodian.record = NoRecord
      /\ InitCustodian.closed = FALSE /\ InitCustodian.epoch = 0
  <2>1. <<>> \in Seq(TombstoneType) OBVIOUS
  <2> QED BY <2>1, NoRecordType DEF InitCustodian, CustodianType, HumanStates
<1>4. cust \in [Kinds -> CustodianType]
      /\ \A k \in Kinds : cust[k].record = NoRecord /\ cust[k].closed = FALSE /\ cust[k].epoch = 0
  BY <1>1, <1>3
<1>5. history \in Seq(Contents) /\ Len(history) <= MaxHistory
  <2>1. session.content \in Contents BY <1>1
  <2>2. CASE history = <<>> BY <2>2, Bounds
  <2>3. CASE history = [i \in 1..MaxHistory |-> session.content]
    <3>1. MaxHistory \in Nat BY Bounds
    <3> DEFINE h == [i \in 1..MaxHistory |-> session.content]
    <3>2. h \in [1..MaxHistory -> Contents] BY <2>1
    <3>3. DOMAIN h = 1..MaxHistory OBVIOUS
    <3> HIDE DEF h
    <3>4. h \in Seq(Contents) BY <3>1, <3>2, SeqDef
    <3>5. Len(h) = MaxHistory BY <3>1, <3>3, <3>4, LenProperties
    <3> QED BY <2>3, <3>1, <3>4, <3>5 DEF h
  <2> QED BY <2>2, <2>3 DEF Init
<1>6. Typed
  <2>1. NoOrigin \in OriginType BY Bounds DEF NoOrigin, OriginType
  <2>2. tracker \in [initialized : BOOLEAN, target : Projects, epoch : Nat]
    BY <1>1, Bounds
  <2>3. epochs \in 0..MaxEpochs /\ proposals \in 0..MaxProposals BY <1>1, Bounds
  <2>4. "absent" \in HumanStates BY DEF HumanStates
  <2> QED
    BY <1>1, <1>2, <1>4, <1>5, <2>1, <2>2, <2>3, <2>4, NoLocalsType
    DEF Typed, TypeOK, IsMailbox, Labels
<1>7. SameTarget BY <1>1, <1>4 DEF SameTarget, InitMailbox
<1>8. MailOK
  <2>1. mb.state = "idle" /\ mb.review.owner = "none" BY <1>1 DEF InitMailbox, NoReview
  <2> QED BY <1>2, <2>1 DEF MailOK, IsMailbox, Unclaimed
<1>9. RecordsOK /\ OriginOK
  BY <1>4, NoRecordType DEF RecordsOK, OriginOK, HasRecord, Committed
<1>10. ServiceOK /\ ApplyOK /\ StagedOK
  BY <1>1 DEF ServiceOK, ApplyOK, StagedOK, Claiming, Applying
<1>11. AckOK /\ ReaderOK
  BY <1>1 DEF AckOK, UnreadAck, ReaderOK, InitMailbox, NoCall
<1>12. ReplacedOK
  BY <1>1, <1>4, NoRecordType DEF ReplacedOK, HasRecord, Applied
<1> QED BY <1>6, <1>7, <1>8, <1>9, <1>10, <1>11, <1>12 DEF IInv

(* ... is kept by a step that changes nothing ... *)
LEMMA StutterKeeps == ASSUME IInv, UNCHANGED vars PROVE IInv'
<1>1. UNCHANGED <<clock, mb, cust, session, history, tracker, epochs, closed, gate, pc, run,
                  client, pairing, claims, proposals, origin, replaced, outcome>>
  BY DEF vars
<1>2. clock \in Nat /\ clock' \in Nat /\ clock <= clock' BY <1>1 DEF IInv, Typed, TypeOK
<1>3. /\ SameTarget' /\ MailOK' /\ RecordsOK' /\ OriginOK' /\ AckOK' /\ ReaderOK' /\ ReplacedOK'
  BY <1>1, <1>2, Untouched
<1>4. Typed' BY <1>1 DEF IInv, Typed, TypeOK
<1>5. ServiceOK' /\ ApplyOK' /\ StagedOK'
  BY <1>1 DEF IInv, ServiceOK, ApplyOK, StagedOK, Staged, Kind, Swap
<1> QED BY <1>3, <1>4, <1>5 DEF IInv

(* ... and by every step of the program. *)
LEMMA NextKeeps == ASSUME IInv, [Next]_vars PROVE IInv'
<1>1. CASE Service
  <2>1. CASE Serve BY <2>1, ServeKeeps
  <2>2. CASE Claim BY <2>2, ClaimKeeps
  <2>3. CASE Confirm BY <2>3, ConfirmKeeps
  <2>4. CASE CheckRequest BY <2>4, CheckKeeps
  <2>5. CASE FailRequest BY <2>5, FailRequestKeeps
  <2>6. CASE RetryRequest BY <2>6, RetryKeeps
  <2>7. CASE PrepareProposal BY <2>7, PrepareKeeps
  <2>8. CASE FailPublication BY <2>8, FailPublicationKeeps
  <2>9. CASE PublishPlain BY <2>9, PlainKeeps
  <2>10. CASE PublishReview BY <2>10, ReviewKeeps
  <2>11. CASE PublishDuplicate BY <2>11, DuplicateKeeps
  <2> QED BY <1>1, <2>1, <2>2, <2>3, <2>4, <2>5, <2>6, <2>7, <2>8, <2>9, <2>10, <2>11 DEF Service
<1>2. CASE Human
  <2>1. CASE Observe BY <2>1, ObserveKeeps
  <2>2. CASE Disarm BY <2>2, DisarmKeeps
  <2>3. CASE SwitchTarget \/ Edit BY <2>3, PageKeeps
  <2>4. ASSUME NEW k \in Kinds, Inspect(k) \/ MarkProposalStale(k) PROVE IInv'
    BY <2>4, InspectKeeps, MarkKeeps
  <2>5. ASSUME NEW k \in Kinds, NEW p \in 1..proposals, NEW human \in {"rejected", "dismissed"},
               ResolveProposal(k, p, human)
        PROVE  IInv'
    BY <2>5, ResolveKeeps
  <2> QED BY <1>2, <2>1, <2>2, <2>3, <2>4, <2>5 DEF Human
<1>3. CASE Apply
  <2>1. CASE InspectForApply BY <2>1, InspectApplyKeeps
  <2>2. CASE StaleForApply BY <2>2, StaleApplyKeeps
  <2>3. CASE Recheck BY <2>3, RecheckKeeps
  <2>4. CASE ClaimProposal BY <2>4, ClaimProposalKeeps
  <2>5. CASE CoreApply BY <2>5, CoreKeeps
  <2>6. CASE StagePublication BY <2>6, StageKeeps
  <2>7. CASE ReplaceProject BY <2>7, ReplaceKeeps
  <2>8. CASE RollbackPublication BY <2>8, RollbackKeeps
  <2>9. CASE RetireAck BY <2>9, RetireAckKeeps
  <2>10. CASE ObserveReplacement BY <2>10, ObserveReplacementKeeps
  <2>11. CASE SaveApplied BY <2>11, SaveKeeps
  <2>12. CASE FinishProposal BY <2>12, FinishKeeps
  <2>13. CASE LookAfterApply BY <2>13, LookKeeps
  <2>14. ASSUME NEW p \in 1..proposals, "swap" \in Kinds, StartApply(p) PROVE IInv'
    BY <2>14, StartKeeps
  <2> QED
    BY <1>3, <2>1, <2>2, <2>3, <2>4, <2>5, <2>6, <2>7, <2>8, <2>9, <2>10, <2>11, <2>12, <2>13,
       <2>14
    DEF Apply, ApplyStep
<1>4. CASE Interrupt BY <1>4, InterruptKeeps
<1>5. CASE Pipe
  <2>1. ASSUME NEW q \in Payloads, SubmitRequest(q) PROVE IInv' BY <2>1, SubmitKeeps
  <2>2. CASE PeekReply BY <2>2, PeekKeeps
  <2>3. CASE TakeReply BY <2>3, TakeKeeps
  <2>4. CASE PairAgain BY <2>4, PairKeeps
  <2> QED BY <1>5, <2>1, <2>2, <2>3, <2>4 DEF Pipe
<1>6. CASE CloseSession BY <1>6, CloseKeeps
<1>7. CASE Tick BY <1>7, TickKeeps
<1>8. CASE UNCHANGED vars BY <1>8, StutterKeeps
<1> QED BY <1>1, <1>2, <1>3, <1>4, <1>5, <1>6, <1>7, <1>8 DEF Next

(* The inductive invariant. *)
THEOREM Invariance == Spec => []IInv
<1>1. Init => IInv BY InitKeeps
<1>2. IInv /\ [Next]_vars => IInv' BY NextKeeps
<1> QED BY <1>1, <1>2, PTL DEF Spec

(* Every variable has its type, and the undo history its bound, whatever   *)
(* the thread, the pipe and the release of the session do in between.      *)
THEOREM TypesAndBounds == Spec => []TypeOK
<1>1. IInv => TypeOK BY DEF IInv, Typed
<1> QED BY <1>1, Invariance, PTL

(* What the human is told is what happened: a proposal reported as applied *)
(* replaced the Project, one that replaced it is never reported as         *)
(* anything else.                                                          *)
THEOREM OutcomesAreTrue == Spec => []OutcomeIsTrue
<1>1. IInv => OutcomeIsTrue
  BY DEF IInv, ReplacedOK, OutcomeIsTrue, InCustody, Swap
<1> QED BY <1>1, Invariance, PTL

-----------------------------------------------------------------------------
(* What a custodian remembers. *)

(* From c to d the proposal stays or leaves, and what was known stays      *)
(* known; a proposal that leaves is known afterwards.                      *)
Steady(c, d) ==
  /\ d.record = c.record \/ d.record = NoRecord
  /\ FewIds /\ Knows(c) =>
       /\ Knows(d) /\ Known(c) \subseteq Known(d)
       /\ d.record # c.record => c.record.request \in Known(d)

(* Record and tombstones are what they were. *)
LEMMA SteadySame ==
  ASSUME NEW c, NEW d, d.record = c.record, d.tombstones = c.tombstones
  PROVE  Steady(c, d)
BY DEF Steady, Knows, Known, HasRecord

(* Twice steady is steady. *)
LEMMA SteadyTrans ==
  ASSUME NEW c, NEW d, NEW e, Steady(c, d), Steady(d, e)
  PROVE  Steady(c, e)
BY DEF Steady

(* Without the request's own tombstone the others are known as before.     *)
LEMMA OthersKnown ==
  ASSUME NEW c \in CustodianType, Distinct(c.tombstones), NEW request
  PROVE  /\ Others(c, request) \in Seq(TombstoneType) /\ Distinct(Others(c, request))
         /\ Asked(Others(c, request)) = Known(c) \ {request}
<1> DEFINE T == c.tombstones
           r == Others(c, request)
<1>1. T \in Seq(TombstoneType) /\ Len(T) \in Nat /\ Distinct(T)
  BY LenProperties DEF CustodianType
<1>2. r \in Seq(TombstoneType) BY OthersType
<1>3. CASE Tombs(c, request) = {}
  <2>1. r = T BY <1>3 DEF Others
  <2>2. request \notin Asked(T) BY <1>3 DEF Tombs, Asked
  <2> QED BY <1>1, <1>2, <2>1, <2>2 DEF Known
<1>4. CASE Tombs(c, request) # {}
  <2> DEFINE i == CHOOSE i \in Tombs(c, request) : TRUE
             n == Len(T) - 1
             s(j) == IF j < i THEN j ELSE j + 1
  <2>1. i \in 1..Len(T) /\ T[i].request = request BY <1>4 DEF Tombs
  <2>2. r = [j \in 1..n |-> T[s(j)]] BY <1>4 DEF Others
  <2> HIDE DEF i, T, r
  <2>3. n \in Nat BY <1>1, <2>1
  <2>4. Len(r) = n
    <3>1. DOMAIN r = 1..n BY <2>2
    <3> HIDE DEF n
    <3> QED BY <1>2, <2>3, <3>1, LenProperties
  <2>5. \A j \in 1..n : s(j) \in 1..Len(T) /\ s(j) # i /\ r[j] = T[s(j)]
    BY <1>1, <2>1, <2>2
  <2>6. \A j, k \in 1..n : j # k => s(j) # s(k) BY <1>1, <2>1
  <2>7. \A l \in 1..Len(T) : l # i => \E j \in 1..n : s(j) = l
    <3> SUFFICES ASSUME NEW l \in 1..Len(T), l # i PROVE \E j \in 1..n : s(j) = l OBVIOUS
    <3>1. CASE l < i
      <4>1. l \in 1..n /\ s(l) = l BY <1>1, <2>1, <3>1
      <4> QED BY <4>1
    <3>2. CASE ~(l < i)
      <4>1. l - 1 \in 1..n /\ s(l - 1) = l BY <1>1, <2>1, <3>2
      <4> QED BY <4>1
    <3> QED BY <3>1, <3>2
  <2> HIDE DEF n, s
  <2>8. Distinct(r) BY <1>1, <2>4, <2>5, <2>6 DEF Distinct
  <2>9. Asked(r) = Asked(T) \ {request}
    <3>1. ASSUME NEW x \in Asked(r) PROVE x \in Asked(T) /\ x # request
      <4>1. PICK j \in 1..n : x = r[j].request BY <2>4 DEF Asked
      <4>2. x = T[s(j)].request /\ s(j) \in 1..Len(T) /\ s(j) # i BY <2>5, <4>1
      <4> QED BY <1>1, <2>1, <4>2 DEF Asked, Distinct
    <3>2. ASSUME NEW x \in Asked(T), x # request PROVE x \in Asked(r)
      <4>1. PICK l \in 1..Len(T) : x = T[l].request BY DEF Asked
      <4>2. l # i BY <2>1, <3>2, <4>1
      <4>3. PICK j \in 1..n : s(j) = l BY <2>7, <4>2
      <4> QED BY <2>4, <2>5, <4>1, <4>3 DEF Asked
    <3> QED BY <3>1, <3>2
  <2> QED BY <1>2, <2>8, <2>9 DEF Known, T, r
<1> QED BY <1>3, <1>4

(* Distinct tombstones of the requests in use never exceed the bound. *)
LEMMA NeverFull ==
  ASSUME FewIds, NEW s \in Seq(TombstoneType), Distinct(s), Asked(s) \subseteq Ids
  PROVE  Len(s) <= MaxTombstones
<1> DEFINE f == [i \in 1..Len(s) |-> s[i].request]
<1>1. Len(s) \in Nat BY LenProperties
<1>2. f \in [1..Len(s) -> Ids] BY DEF Asked
<1>3. \A i, j \in 1..Len(s) : f[i] = f[j] => i = j BY DEF Distinct
<1>4. f \in Injection(1..Len(s), Ids)
  <2> HIDE DEF f
  <2> QED BY <1>2, <1>3 DEF Injection, IsInjective
<1> HIDE DEF f
<1>5. Cardinality(1..Len(s)) <= Cardinality(Ids) BY <1>4, FS_Injection DEF FewIds
<1>6. Cardinality(1..Len(s)) = Len(s) BY <1>1, FS_Interval
<1>7. Cardinality(Ids) \in Nat BY FS_CardinalityType DEF FewIds
<1> QED BY <1>1, <1>5, <1>6, <1>7, CustodyAssumption DEF CustodyAssumption, FewIds

(* _remember_locked forgets nothing. *)
LEMMA RememberKnows ==
  ASSUME NEW c \in CustodianType, NEW request \in Nat, NEW asker \in Nat, NEW intent \in Nat,
         NEW reason \in Reasons, FewIds, Knows(c), request \in Ids
  PROVE  LET d == Remember(c, request, asker, intent, reason)
         IN  Distinct(d.tombstones) /\ Known(d) = Known(c) \cup {request}
<1> DEFINE t == [request |-> request, pairing |-> asker, intent |-> intent, reason |-> reason]
           o == Others(c, request)
           all == Append(o, t)
           d == Remember(c, request, asker, intent, reason)
<1>1. t \in TombstoneType /\ t.request = request BY DEF TombstoneType
<1>2. /\ o \in Seq(TombstoneType) /\ Distinct(o) /\ Asked(o) = Known(c) \ {request}
      /\ Len(o) \in Nat
  BY OthersKnown, LenProperties DEF Knows
<1>3. d = [c EXCEPT !.tombstones = IF Len(all) > MaxTombstones THEN Tail(all) ELSE all]
  BY DEF Remember
<1> HIDE DEF t, o, d
<1>4. /\ all \in Seq(TombstoneType) /\ Len(all) = Len(o) + 1 /\ all[Len(o) + 1] = t
      /\ \A i \in 1..Len(o) : all[i] = o[i]
  BY <1>1, <1>2, AppendProperties
<1> HIDE DEF all
<1>5. \A i \in 1..Len(all) : i \in 1..Len(o) \/ i = Len(o) + 1 BY <1>2, <1>4
<1>6. \A i \in 1..Len(o) : i \in 1..Len(all) /\ o[i].request # request
  <2>1. \A i \in 1..Len(o) : i \in 1..Len(all) BY <1>2, <1>4
  <2>2. \A i \in 1..Len(o) : o[i].request \in Asked(o) BY DEF Asked
  <2> QED BY <1>2, <2>1, <2>2
<1>7. Distinct(all) BY <1>1, <1>2, <1>4, <1>5, <1>6 DEF Distinct
<1>8. Asked(all) = Asked(o) \cup {request}
  <2>1. Asked(all) \subseteq Asked(o) \cup {request} BY <1>1, <1>4, <1>5 DEF Asked
  <2>2. Asked(o) \subseteq Asked(all) BY <1>4, <1>6 DEF Asked
  <2>3. request \in Asked(all)
    <3>1. Len(o) + 1 \in 1..Len(all) BY <1>2, <1>4
    <3> QED BY <1>1, <1>4, <3>1 DEF Asked
  <2> QED BY <2>1, <2>2, <2>3
<1>9. Len(all) <= MaxTombstones
  <2>1. Asked(all) \subseteq Ids BY <1>2, <1>8 DEF Knows
  <2> QED BY <1>4, <1>7, <2>1, NeverFull
<1>10. d.tombstones = all
  <2>1. ~(Len(all) > MaxTombstones)
    BY <1>2, <1>4, <1>9, CustodyAssumption DEF CustodyAssumption
  <2> QED BY <1>3, <2>1 DEF CustodianType
<1>11. Distinct(d.tombstones) /\ Known(d) = Known(c) \cup {request}
  BY <1>2, <1>7, <1>8, <1>10 DEF Known
<1> QED BY <1>11 DEF d

(* A failure or another answer is remembered and the record kept. *)
LEMMA RememberSteady ==
  ASSUME NEW c \in CustodianType, NEW request \in Nat, NEW asker \in Nat, NEW intent \in Nat,
         NEW reason \in Reasons, request \in Ids
  PROVE  Steady(c, Remember(c, request, asker, intent, reason))
<1> DEFINE d == Remember(c, request, asker, intent, reason)
<1>1. SameBut(c, d) BY RememberLemma
<1>2. ASSUME FewIds, Knows(c)
      PROVE  Distinct(d.tombstones) /\ Known(d) = Known(c) \cup {request}
  BY <1>2, RememberKnows
<1> HIDE DEF d
<1>3. Steady(c, d) BY <1>1, <1>2 DEF Steady, SameBut, Knows, HasRecord
<1> QED BY <1>3 DEF d

(* A proposal that is retired is remembered. *)
LEMMA RetireSteady ==
  ASSUME NEW c, Orderly(c), HasRecord(c), NEW reason \in Reasons, NEW human \in HumanStates
  PROVE  Steady(c, Retire(c, reason, human))
<1> DEFINE r == Remember(c, c.record.request, c.record.pairing, c.record.intent, reason)
           d == Retire(c, reason, human)
<1>1. c.record.request \in Nat /\ c.record.pairing \in Nat /\ c.record.intent \in Nat
      /\ c \in CustodianType
  BY DEF Orderly, CustodianType, RecordType
<1>2. ASSUME FewIds, Knows(c)
      PROVE  Distinct(r.tombstones) /\ Known(r) = Known(c) \cup {c.record.request}
  BY <1>1, <1>2, RememberKnows DEF Knows
<1>3. r \in CustodianType
  <2>1. SameBut(c, r) BY <1>1, RememberLemma
  <2> HIDE DEF r
  <2> QED BY <2>1 DEF SameBut
<1>4. d = [r EXCEPT !.record = NoRecord, !.revision = c.revision + 1, !.human = human]
  BY DEF Retire
<1> HIDE DEF r, d
<1>5. d.record = NoRecord /\ d.tombstones = r.tombstones BY <1>3, <1>4 DEF CustodianType
<1>6. Steady(c, d)
  BY <1>2, <1>5, NoRecordType DEF Steady, Knows, Known, HasRecord
<1> QED BY <1>6 DEF d

(* Looking at the expiry. *)
LEMMA ExpireSteady ==
  ASSUME NEW c, Orderly(c), NEW now
  PROVE  Steady(c, Expire(c, now)) /\ (HasRecord(Expire(c, now)) => Expire(c, now) = c)
<1>1. CASE c.record.state \notin {"prepared", "pending"} \/ now < c.record.expires
  BY <1>1, SteadySame DEF Expire
<1>2. CASE c.record.state = "prepared" /\ ~(now < c.record.expires)
  <2>1. Expire(c, now) = Retire(c, "review_unavailable", "computation_failure")
    BY <1>2 DEF Expire
  <2>2. "review_unavailable" \in Reasons /\ "computation_failure" \in HumanStates
    BY DEF Reasons, HumanStates
  <2>3. Left(c, Expire(c, now), "computation_failure") BY <2>1, <2>2, RetireLemma
  <2>4. Steady(c, Expire(c, now)) BY <1>2, <2>1, <2>2, RetireSteady DEF HasRecord
  <2> QED BY <2>3, <2>4, NoRecordType DEF Left, HasRecord
<1>3. CASE c.record.state = "pending" /\ ~(now < c.record.expires)
  <2>1. Expire(c, now) = Retire(c, "proposal_expired", "expired")
    BY <1>3 DEF Expire
  <2>2. "proposal_expired" \in Reasons /\ "expired" \in HumanStates
    BY DEF Reasons, HumanStates
  <2>3. Left(c, Expire(c, now), "expired") BY <2>1, <2>2, RetireLemma
  <2>4. Steady(c, Expire(c, now)) BY <1>3, <2>1, <2>2, RetireSteady DEF HasRecord
  <2> QED BY <2>3, <2>4, NoRecordType DEF Left, HasRecord
<1> QED BY <1>1, <1>2, <1>3

(* Whatever retires a proposal that is there, or does nothing, is steady.  *)
LEMMA EndsSteady ==
  ASSUME NEW c, Orderly(c), NEW d,
         d = c \/ (HasRecord(c) /\ \E reason \in Reasons, human \in HumanStates :
                                     d = Retire(c, reason, human))
  PROVE  Steady(c, d)
BY SteadySame, RetireSteady

(* mark_stale, reject and dismiss, abort_prepared and                      *)
(* abort_prepared_for_claim.                                               *)
LEMMA EndingsSteady ==
  ASSUME NEW c, Orderly(c), NEW p
  PROVE  /\ Steady(c, MarkStale(c, p))
         /\ \A human \in {"rejected", "dismissed"} : Steady(c, Resolve(c, p, human))
         /\ \A reason \in Reasons : Steady(c, AbortPrepared(c, p, reason))
         /\ \A request, asker, epoch : Steady(c, AbortPreparedForClaim(c, request, asker, epoch))
<1>1. /\ {"stale_target", "proposal_cancelled", "review_unavailable"} \subseteq Reasons
      /\ {"stale", "rejected", "dismissed", "computation_failure"} \subseteq HumanStates
  BY DEF Reasons, HumanStates
<1>2. IsPending(c, p) => HasRecord(c) BY DEF IsPending, HasRecord
<1>3. Steady(c, MarkStale(c, p)) BY <1>1, <1>2, EndsSteady DEF MarkStale
<1>4. \A human \in {"rejected", "dismissed"} : Steady(c, Resolve(c, p, human))
  BY <1>1, <1>2, EndsSteady DEF Resolve
<1>5. \A reason \in Reasons : Steady(c, AbortPrepared(c, p, reason))
  BY <1>1, EndsSteady DEF AbortPrepared, HasRecord
<1>6. \A request, asker, epoch : Steady(c, AbortPreparedForClaim(c, request, asker, epoch))
  BY <1>1, EndsSteady DEF AbortPreparedForClaim, HasRecord
<1> QED BY <1>3, <1>4, <1>5, <1>6

(* A new target. *)
LEMMA SyncSteady ==
  ASSUME NEW c, Orderly(c), NEW epoch \in Nat
  PROVE  Steady(c, SynchronizeCustody(c, epoch))
<1> DEFINE k == [c EXCEPT !.epoch = epoch]
           d == SynchronizeCustody(c, epoch)
<1>1. /\ k \in CustodianType /\ k.record = c.record /\ k.tombstones = c.tombstones
  BY DEF Orderly, CustodianType
<1>2. "stale" \in HumanStates /\ "stale_target" \in Reasons BY DEF HumanStates, Reasons
<1>3. \/ d = c \/ d = [k EXCEPT !.revision = @ + 1]
      \/ d = Retire(k, "stale_target", "stale") /\ HasRecord(c)
  BY DEF SynchronizeCustody
<1> HIDE DEF k, d
<1>4. Steady(c, k) BY <1>1, SteadySame
<1>5. CASE d = Retire(k, "stale_target", "stale") /\ HasRecord(c)
  <2>1. Orderly(k) /\ HasRecord(k) BY <1>1, <1>5 DEF Orderly, HasRecord
  <2>2. Steady(k, d) BY <1>2, <1>5, <2>1, RetireSteady
  <2>3. Steady(c, d) BY <1>4, <2>2, SteadyTrans
  <2> QED BY <2>3 DEF d
<1>6. CASE d = c BY <1>6, SteadySame DEF d
<1>7. CASE d = [k EXCEPT !.revision = @ + 1]
  <2>1. d.record = c.record /\ d.tombstones = c.tombstones BY <1>1, <1>7 DEF CustodianType
  <2>2. Steady(c, d) BY <2>1, SteadySame
  <2> QED BY <2>2 DEF d
<1> QED BY <1>3, <1>5, <1>6, <1>7

(* cancel. *)
LEMMA CancelSteady == ASSUME NEW c, Orderly(c) PROVE Steady(c, CancelCustody(c))
<1> DEFINE k == [c EXCEPT !.revision = @ + 1]
<1>1. k.record = c.record /\ k.tombstones = c.tombstones BY DEF Orderly, CustodianType
<1>2. "dismissed" \in HumanStates /\ "proposal_cancelled" \in Reasons BY DEF HumanStates, Reasons
<1>3. \/ CancelCustody(c) = c \/ CancelCustody(c) = k
      \/ CancelCustody(c) = Retire(c, "proposal_cancelled", "dismissed") /\ HasRecord(c)
  BY DEF CancelCustody
<1> HIDE DEF k
<1> QED BY <1>1, <1>2, <1>3, SteadySame, RetireSteady

-----------------------------------------------------------------------------
(* What a step does to the custodians. *)

(* The apply moves its record on. *)
Applies(c, d) ==
  /\ SameProposal(c.record, d.record) /\ d.tombstones = c.tombstones
  /\ c.record.state \in Committed /\ d.record.state = "applying"

(* No proposal is prepared or committed. *)
SteadyStep ==
  /\ \A k \in Kinds : Steady(cust[k], cust'[k]) \/ Applies(cust[k], cust'[k])
  /\ UNCHANGED <<origin, proposals, closed>>

(* One is prepared, for a request that is not remembered. *)
PreparesStep(k, request) ==
  /\ ~HasRecord(cust[k]) /\ ~cust[k].closed /\ Tombs(cust[k], request) = {} /\ request \in Ids
  /\ cust'[k].record.state = "prepared" /\ cust'[k].record.proposal = proposals + 1
  /\ cust'[k].record.request = request /\ cust'[k].tombstones = cust[k].tombstones
  /\ \A j \in Kinds \ {k} : cust'[j] = cust[j]
  /\ proposals' = proposals + 1 /\ UNCHANGED <<origin, closed>>

(* One is committed, with its acknowledgment. *)
CommitsStep(k) ==
  /\ cust[k].record.state = "prepared" /\ cust[k].record.proposal \in 1..proposals
  /\ SameProposal(cust[k].record, cust'[k].record) /\ cust'[k].tombstones = cust[k].tombstones
  /\ cust'[k].record.state = "pending" /\ clock < cust'[k].record.expires
  /\ \A j \in Kinds \ {k} : cust'[j] = cust[j]
  /\ \E o : /\ o.kind = k /\ o.request = cust[k].record.request
            /\ origin' = [origin EXCEPT ![cust[k].record.proposal] = o]
  /\ UNCHANGED <<proposals, closed>>
  /\ Unread(mb') /\ mb'.review.owner = k /\ mb'.review.proposal = cust'[k].record.proposal
  /\ ~IsExpired(mb, clock) /\ mb.target_epoch = cust'[k].record.epoch

(* All is given up. *)
ClosesStep ==
  /\ closed' = TRUE /\ UNCHANGED <<origin, proposals>>
  /\ \A k \in Kinds : cust'[k].record = NoRecord /\ cust'[k].tombstones = <<>>

(* Nothing happens to the custodians, ... *)
LEMMA RestStep ==
  ASSUME UNCHANGED <<cust, origin, proposals, closed>>
  PROVE  SteadyStep
BY SteadySame DEF SteadyStep

(* ... or something to one of them. *)
LEMMA OneStep ==
  ASSUME IInv, NEW k \in Kinds, NEW d, CustodyOf(k, d),
         Steady(cust[k], d) \/ Applies(cust[k], d),
         UNCHANGED <<origin, proposals, closed>>
  PROVE  SteadyStep
<1>1. cust' = [cust EXCEPT ![k] = d] /\ cust \in [Kinds -> CustodianType]
  BY Usable DEF CustodyOf, Custody, CustodyParts
<1>2. cust'[k] = d /\ \A j \in Kinds \ {k} : cust'[j] = cust[j] BY <1>1
<1> QED BY <1>2, SteadySame DEF SteadyStep

(* The expiry of a custodian that is looked at. *)
LEMMA LookSteady ==
  ASSUME IInv, NEW k \in Kinds
  PROVE  /\ Orderly(Expired(k)) /\ Steady(cust[k], Expired(k))
         /\ HasRecord(Expired(k)) => Expired(k) = cust[k]
BY LookStep, Usable, ExpireSteady DEF Expired

(* What check_request drops is remembered. *)
LEMMA LookedSteady ==
  ASSUME IInv, NEW k \in Kinds
  PROVE  Steady(cust[k], Looked(k))
<1> DEFINE e == Expired(k)
           d == DropOtherPairing(e, run.pairing, run.epoch)
<1>1. Orderly(e) /\ Steady(cust[k], e) BY LookSteady
<1>2. "stale" \in HumanStates /\ "stale_target" \in Reasons BY DEF HumanStates, Reasons
<1>3. Looked(k) = e \/ Looked(k) = d BY DEF Looked
<1> HIDE DEF e
<1>4. Steady(e, d) BY <1>1, <1>2, EndsSteady DEF DropOtherPairing
<1> HIDE DEF d
<1>5. Steady(cust[k], d) BY <1>1, <1>4, SteadyTrans
<1> QED BY <1>1, <1>3, <1>5

(* The script thread synchronizes the session's target. *)
LEMMA SynchronizeSteady ==
  ASSUME IInv, NEW project, SynchronizeTarget(project),
         UNCHANGED <<origin, proposals, closed>>
  PROVE  SteadyStep
<1> DEFINE same == tracker.initialized /\ tracker.target = project
           epoch == IF same THEN tracker.epoch ELSE epochs + 1
<1>1. cust' = [k \in Kinds |-> SynchronizeCustody(cust[k], epoch)]
  BY DEF SynchronizeTarget, Custody
<1>2. epoch \in Nat BY DEF IInv, Typed, TypeOK
<1> HIDE DEF epoch
<1>3. \A k \in Kinds : Steady(cust[k], cust'[k]) BY <1>1, <1>2, Usable, SyncSteady
<1> QED BY <1>3 DEF SteadyStep

(* The human's actions. *)
LEMMA HumanSteady == ASSUME IInv, Human PROVE SteadyStep
<1>1. UNCHANGED <<origin, proposals, closed>>
  BY DEF Human, Observe, Disarm, SwitchTarget, Edit, Inspect, MarkProposalStale,
         ResolveProposal, world, ghosts
<1>2. CASE Observe BY <1>1, <1>2, SynchronizeSteady DEF Observe
<1>3. CASE Disarm
  <2>1. cust' = [k \in Kinds |-> CancelCustody(cust[k])] BY <1>3 DEF Disarm, Custody
  <2> QED BY <1>1, <2>1, Usable, CancelSteady DEF SteadyStep
<1>4. CASE SwitchTarget \/ Edit BY <1>1, <1>4, RestStep DEF SwitchTarget, Edit
<1>5. ASSUME NEW k \in Kinds, Inspect(k) PROVE SteadyStep
  BY <1>1, <1>5, LookSteady, OneStep DEF Inspect
<1>6. ASSUME NEW k \in Kinds, MarkProposalStale(k) PROVE SteadyStep
  <2> DEFINE p == cust[k].record.proposal
             e == Expired(k)
  <2>1. CustodyOf(k, MarkStale(e, p)) BY <1>6 DEF MarkProposalStale
  <2>2. Orderly(e) /\ Steady(cust[k], e) BY LookSteady
  <2> HIDE DEF e, p
  <2>3. Steady(e, MarkStale(e, p)) BY <2>2, EndingsSteady
  <2>4. Steady(cust[k], MarkStale(e, p)) BY <2>2, <2>3, SteadyTrans
  <2> QED BY <1>1, <2>1, <2>4, OneStep
<1>7. ASSUME NEW k \in Kinds, NEW p, NEW human \in {"rejected", "dismissed"},
             ResolveProposal(k, p, human)
      PROVE  SteadyStep
  <2> DEFINE e == Expired(k)
  <2>1. CustodyOf(k, Resolve(e, p, human)) BY <1>7 DEF ResolveProposal
  <2>2. Orderly(e) /\ Steady(cust[k], e) BY LookSteady
  <2> HIDE DEF e
  <2>3. Steady(e, Resolve(e, p, human)) BY <2>2, EndingsSteady
  <2>4. Steady(cust[k], Resolve(e, p, human)) BY <2>2, <2>3, SteadyTrans
  <2> QED BY <1>1, <2>1, <2>4, OneStep
<1> QED BY <1>2, <1>3, <1>4, <1>5, <1>6, <1>7 DEF Human

(* The pipe's threads. *)
LEMMA PipeSteady == ASSUME IInv, Pipe PROVE SteadyStep
<1>1. UNCHANGED <<origin, proposals, closed>>
  BY DEF Pipe, SubmitRequest, PeekReply, TakeReply, PairAgain, world, ghosts
<1>2. CASE Custody(ExpiredAck[2])
  <2>1. CASE mb.review.owner = "generation"
    <3> DEFINE g == "generation"
               e == Expired(g)
    <3>1. g \in Kinds BY <2>1 DEF IInv, MailOK
    <3>2. CustodyOf(g, e) BY <1>2, <2>1 DEF ExpiredAck, CustodyOf, Expired
    <3> HIDE DEF g
    <3> QED BY <1>1, <3>1, <3>2, LookSteady, OneStep
  <2>2. CASE mb.review.owner # "generation"
    <3>1. cust' = cust BY <1>2, <2>2 DEF ExpiredAck, Custody
    <3> QED BY <1>1, <3>1, RestStep
  <2> QED BY <2>1, <2>2
<1>3. CASE cust' = cust BY <1>1, <1>3, RestStep
<1> QED BY <1>2, <1>3 DEF Pipe, SubmitRequest, PeekReply, TakeReply, PairAgain

(* An apply's record is moved on by a mark. *)
LEMMA MarkApplies ==
  ASSUME NEW c, Orderly(c), c.record.state = "applying", NEW b \in BOOLEAN
  PROVE  Applies(c, [c EXCEPT !.record.published = b, !.revision = @ + 1])
<1> DEFINE d == [c EXCEPT !.record.published = b, !.revision = @ + 1]
<1>1. /\ SameProposal(c.record, d.record) /\ d.record.state = "applying"
      /\ d.tombstones = c.tombstones
  BY MarkLemma
<1> HIDE DEF d
<1>2. Applies(c, d) BY <1>1 DEF Applies, Committed
<1> QED BY <1>2 DEF d

(* The apply. *)
LEMMA ApplySteady == ASSUME IInv, Apply PROVE SteadyStep
<1> DEFINE s == "swap"
           e == Expired("swap")
           cur == cust["swap"]
<1>1. UNCHANGED <<origin, proposals, closed>>
  BY DEF Apply, ApplyStep, InspectForApply, StaleForApply, Recheck, ClaimProposal, CoreApply,
         StagePublication, ReplaceProject, RollbackPublication, RetireAck, ObserveReplacement,
         SaveApplied, FinishProposal, LookAfterApply, StartApply, world, ghosts
<1>2. s \in Kinds
  <2>1. CASE ApplyStep
    <3>1. pc \in Applying
      BY <2>1 DEF ApplyStep, InspectForApply, StaleForApply, Recheck, ClaimProposal, CoreApply,
         StagePublication, ReplaceProject, RollbackPublication, RetireAck, ObserveReplacement,
         SaveApplied, FinishProposal, LookAfterApply, Applying
    <3> QED BY <3>1 DEF IInv, ApplyOK
  <2> QED BY <2>1 DEF Apply
<1>3. Orderly(e) /\ Steady(cur, e) /\ Orderly(cur) /\ (HasRecord(e) => e = cur)
  BY <1>2, LookSteady, Usable
<1>4. Swap = cur BY DEF Swap
<1>5. CASE cust' = cust BY <1>1, <1>5, RestStep
<1>6. CASE InspectForApply \/ Recheck \/ LookAfterApply
  <2>1. CustodyOf(s, e) BY <1>6 DEF InspectForApply, Recheck, LookAfterApply
  <2> QED BY <1>1, <1>2, <1>3, <2>1, OneStep
<1>7. CASE StaleForApply
  <2>1. CustodyOf(s, MarkStale(e, run.proposal)) BY <1>7 DEF StaleForApply
  <2> HIDE DEF e, s, cur
  <2>2. Steady(e, MarkStale(e, run.proposal)) BY <1>3, EndingsSteady
  <2>3. Steady(cust[s], MarkStale(e, run.proposal)) BY <1>3, <2>2, SteadyTrans DEF s, cur
  <2> QED BY <1>1, <1>2, <2>1, <2>3, OneStep
<1>8. CASE ClaimProposal
  <2>1. \/ cust' = cust \/ CustodyOf(s, e)
        \/ CustodyOf(s, ClaimForApply(e)) /\ e.record.state = "pending"
    BY <1>8 DEF ClaimProposal, ClaimsForApply, IsPending
  <2> HIDE DEF e, s, cur
  <2>2. CASE CustodyOf(s, ClaimForApply(e)) /\ e.record.state = "pending"
    <3>1. e = cur BY <1>3, <2>2 DEF HasRecord
    <3>2. /\ SameProposal(e.record, ClaimForApply(e).record)
          /\ ClaimForApply(e).record.state = "applying"
          /\ ClaimForApply(e).tombstones = e.tombstones
      BY <1>3, <2>2, ClaimApplyLemma
    <3>3. Applies(e, ClaimForApply(e)) BY <2>2, <3>2 DEF Applies, Committed
    <3>4. Applies(cust[s], ClaimForApply(e)) BY <3>1, <3>3 DEF s, cur
    <3> QED BY <1>1, <1>2, <2>2, <3>4, OneStep
  <2>3. CASE CustodyOf(s, e)
    <3>1. Steady(cust[s], e) BY <1>3 DEF s, cur
    <3> QED BY <1>1, <1>2, <2>3, <3>1, OneStep
  <2> QED BY <1>5, <2>1, <2>2, <2>3
<1>9. CASE StagePublication \/ RollbackPublication
  <2>1. \/ cust' = cust
        \/ CustodyOf(s, cur)
        \/ \E b \in BOOLEAN : /\ CustodyOf(s, [cur EXCEPT !.record.published = b, !.revision = @ + 1])
                              /\ cur.record.state = "applying"
    BY <1>9 DEF StagePublication, RollbackPublication, MarkApplyPublished,
                RollbackApplyPublication, ApplyClaimIsCurrent, Swap
  <2> HIDE DEF e
  <2>2. CASE CustodyOf(s, cur)
    <3>1. Steady(cust[s], cur) BY SteadySame
    <3> HIDE DEF s, cur
    <3> QED BY <1>1, <1>2, <2>2, <3>1, OneStep
  <2>3. CASE \E b \in BOOLEAN : /\ CustodyOf(s, [cur EXCEPT !.record.published = b, !.revision = @ + 1])
                                /\ cur.record.state = "applying"
    <3>1. PICK b \in BOOLEAN : /\ CustodyOf(s, [cur EXCEPT !.record.published = b, !.revision = @ + 1])
                               /\ cur.record.state = "applying"
      BY <2>3
    <3> DEFINE d == [cur EXCEPT !.record.published = b, !.revision = @ + 1]
    <3>2. Applies(cur, d)
      <4> HIDE DEF cur
      <4> QED BY <1>3, <3>1, MarkApplies
    <3>3. CustodyOf(s, d) /\ Applies(cust[s], d) BY <3>1, <3>2
    <3> HIDE DEF s, d, cur
    <3> QED BY <1>1, <1>2, <3>3, OneStep
  <2> QED BY <1>5, <2>1, <2>2, <2>3
<1>10. CASE FinishProposal
  <2> DEFINE d == FinishApply(cur, run.proposal, run.epoch, run.status)
  <2>1. cust' = cust \/ (CustodyOf(s, d) /\ Finishes(cur, run.proposal, run.epoch, run.status))
    BY <1>10 DEF FinishProposal, Swap
  <2>2. CASE CustodyOf(s, d) /\ Finishes(cur, run.proposal, run.epoch, run.status)
    <3>1. d = Retire(cur, "proposal_cancelled", run.status) /\ HasRecord(cur)
      BY <2>2 DEF FinishApply, Finishes, ApplyClaimIsCurrent, HasRecord
    <3>2. run.status \in HumanStates
      <4>1. run.status # "none" BY <1>10 DEF FinishProposal, IInv, ApplyOK
      <4> QED BY <4>1 DEF HumanStates, Applied, IInv, Typed, TypeOK, LocalsType
    <3>3. "proposal_cancelled" \in Reasons BY DEF Reasons
    <3> HIDE DEF d, e
    <3>4. Steady(cur, d) BY <1>3, <3>1, <3>2, <3>3, RetireSteady
    <3>5. Steady(cust[s], d) BY <3>4
    <3> HIDE DEF s, cur
    <3> QED BY <1>1, <1>2, <2>2, <3>5, OneStep
  <2> QED BY <1>5, <2>1, <2>2
<1>11. CASE ObserveReplacement BY <1>1, <1>11, SynchronizeSteady DEF ObserveReplacement
<1>12. ASSUME NEW p \in 1..proposals, StartApply(p) PROVE SteadyStep
  BY <1>1, <1>12, RestStep, SynchronizeSteady DEF StartApply, Synchronize
<1>13. CoreApply \/ ReplaceProject \/ RetireAck \/ SaveApplied => cust' = cust
  BY DEF CoreApply, ReplaceProject, RetireAck, SaveApplied
<1> QED
  BY <1>5, <1>6, <1>7, <1>8, <1>9, <1>10, <1>11, <1>12, <1>13 DEF Apply, ApplyStep
-----------------------------------------------------------------------------
(* What the service does to the custodians. *)

(* complete_with_review commits. *)
CommitsReview(k) ==
  /\ Holds(mb, run.claim) /\ ~mb.invalidated /\ mb.target_epoch = run.epoch
  /\ ~IsExpired(mb, clock)
  /\ Commits(Expired(k), run.proposal, run.revision, IdOf[run.payload], run.pairing, run.epoch)

(* What is aborted, for its token and then for its claim, is remembered.   *)
LEMMA AbortsSteady ==
  ASSUME NEW c, Orderly(c), NEW p, NEW reason \in Reasons
  PROVE  /\ Steady(c, AbortPrepared(c, p, reason))
         /\ \A request, asker, epoch :
              Steady(c, AbortPreparedForClaim(AbortPrepared(c, p, reason), request, asker, epoch))
<1> DEFINE a == AbortPrepared(c, p, reason)
<1>1. Orderly(a) /\ Steady(c, a) BY AbortLemma, EndingsSteady DEF Keeps, Lets
<1> HIDE DEF a
<1>2. \A request, asker, epoch : Steady(a, AbortPreparedForClaim(a, request, asker, epoch))
  BY <1>1, EndingsSteady
<1>3. \A request, asker, epoch : Steady(c, AbortPreparedForClaim(a, request, asker, epoch))
  BY <1>1, <1>2, SteadyTrans
<1> QED BY <1>1, <1>3 DEF a

(* A review that is not published is remembered, or stays. *)
LEMMA ReviewSteady ==
  ASSUME IInv, NEW k \in Kinds, ~CommitsReview(k)
  PROVE  Steady(cust[k], CompleteWithReview(k)[2])
<1> DEFINE c == cust[k]
           e == Expired(k)
           d == CompleteWithReview(k)[2]
           p == run.proposal
           aborted(x, reason) == AbortPrepared(x, p, reason)
           cleared(x, request, asker, epoch) ==
             AbortPreparedForClaim(AbortPrepared(x, p, "review_unavailable"), request, asker, epoch)
<1>1. Orderly(c) /\ Orderly(e) /\ Steady(c, e) BY LookSteady, Usable
<1>2. {"session_closed", "review_unavailable", "stale_target", "proposal_expired"} \subseteq Reasons
  BY DEF Reasons
<1>3. \/ \E reason \in {"session_closed", "review_unavailable", "stale_target",
                        "proposal_expired"} : d = aborted(c, reason)
      \/ \E x \in {c, e} : \E request, asker, epoch : d = cleared(x, request, asker, epoch)
  <2>1. CASE mb.closed
    <3>1. d = aborted(c, "session_closed") BY <2>1 DEF CompleteWithReview
    <3> QED BY <3>1
  <2>2. CASE ~mb.closed /\ ~Holds(mb, run.claim)
    <3>1. d = IF mb.state = "executing"
              THEN cleared(c, IdOf[mb.request], mb.pairing, mb.request_epoch)
              ELSE aborted(c, "review_unavailable")
      BY <2>2 DEF CompleteWithReview
    <3> QED BY <3>1
  <2>3. CASE Holds(mb, run.claim) /\ (mb.invalidated \/ mb.target_epoch # run.epoch)
    <3>1. d = aborted(c, "stale_target") BY <2>3 DEF CompleteWithReview, Holds
    <3> QED BY <3>1
  <2>4. CASE Holds(mb, run.claim) /\ ~(mb.invalidated \/ mb.target_epoch # run.epoch)
             /\ IsExpired(mb, clock)
    <3>1. d = aborted(c, "proposal_expired") BY <2>4 DEF CompleteWithReview, Holds
    <3> QED BY <3>1
  <2>5. CASE Holds(mb, run.claim) /\ ~(mb.invalidated \/ mb.target_epoch # run.epoch)
             /\ ~IsExpired(mb, clock)
    <3>1. d = cleared(e, IdOf[run.payload], run.pairing, run.epoch)
      BY <2>5 DEF CompleteWithReview, Holds, CommitsReview
    <3> QED BY <3>1
  <2> QED BY <2>1, <2>2, <2>3, <2>4, <2>5 DEF Holds
<1> HIDE DEF c, e, d, p
<1>4. CASE \E reason \in {"session_closed", "review_unavailable", "stale_target",
                          "proposal_expired"} : d = aborted(c, reason)
  <2>1. Steady(c, d) BY <1>1, <1>2, <1>4, AbortsSteady
  <2> QED BY <2>1 DEF c, d
<1>5. CASE \E x \in {c, e} : \E request, asker, epoch : d = cleared(x, request, asker, epoch)
  <2>1. PICK x \in {c, e} : \E request, asker, epoch : d = cleared(x, request, asker, epoch)
    BY <1>5
  <2>2. Orderly(x) /\ Steady(c, x) BY <1>1, SteadySame
  <2>3. Steady(x, d) BY <1>2, <2>1, <2>2, AbortsSteady
  <2>4. Steady(c, d) BY <2>2, <2>3, SteadyTrans
  <2> QED BY <2>4 DEF c, d
<1> QED BY <1>3, <1>4, <1>5

(* A published review is committed, with its acknowledgment. *)
LEMMA ReviewCommits ==
  ASSUME IInv, PublishReview, CommitsReview(Kind)
  PROVE  CommitsStep(Kind)
<1> DEFINE k == Kind
           e == Expired(k)
           d == Commit(e, clock)
           ack == Ack(k, IdOf[run.payload], e.record)
           o == [kind |-> k, request |-> IdOf[run.payload], project |-> session.project,
                 content |-> session.content, expires |-> clock + ProposalTTL]
<1>1. /\ pc = "publish" /\ run.carrier = "prepared"
      /\ mb' = CompleteWithReview(k)[1] /\ CustodyOf(k, CompleteWithReview(k)[2])
      /\ origin' = (IF cust'[k].record.state = "pending" /\ cust[k].record.state = "prepared"
                    THEN [origin EXCEPT ![run.proposal] = o] ELSE origin)
      /\ UNCHANGED <<proposals, closed>>
  BY DEF PublishReview, world
<1>2. pc \in Claiming BY <1>1 DEF Claiming
<1>3. k \in Kinds /\ AckReply \in ReplyType BY <1>2, Serving
<1>4. /\ Holds(mb, run.claim) /\ ~mb.invalidated /\ mb.target_epoch = run.epoch
      /\ ~IsExpired(mb, clock)
      /\ e.record.state = "prepared" /\ e.record.proposal = run.proposal
      /\ e.record.request = IdOf[run.payload] /\ e.record.epoch = run.epoch
  BY DEF CommitsReview, Commits
<1>5. mb' = SetCompleted(mb, AckReply, ack) /\ CustodyOf(k, d)
  BY <1>1 DEF CompleteWithReview, CommitsReview, Holds
<1>6. Orderly(e) /\ e = cust[k] /\ clock \in Nat
  BY <1>3, <1>4, LookSteady, Usable DEF HasRecord
<1>7. o.kind = k /\ o.request = e.record.request BY <1>4
<1>8. ack.owner = k /\ ack.proposal = e.record.proposal BY DEF Ack
<1> HIDE DEF k, e, o, ack
<1>9. /\ SameProposal(e.record, d.record)
      /\ d.record.state = "pending" /\ d.record.expires = clock + ProposalTTL
      /\ d.tombstones = e.tombstones
  BY <1>4, <1>6, CommitLemma
<1> HIDE DEF d
<1>10. cust' = [cust EXCEPT ![k] = d] /\ cust \in [Kinds -> CustodianType]
  BY <1>5, Usable DEF CustodyOf, Custody, CustodyParts
<1>11. cust'[k] = d /\ \A j \in Kinds \ {k} : cust'[j] = cust[j] BY <1>3, <1>10
<1>12. origin' = [origin EXCEPT ![e.record.proposal] = o]
  BY <1>1, <1>4, <1>6, <1>9, <1>11
<1>13. clock < d.record.expires BY <1>6, <1>9, CustodyAssumption DEF CustodyAssumption
<1>14. e.record.proposal \in 1..proposals BY <1>3, <1>4, <1>6 DEF IInv, RecordsOK, HasRecord
<1>15. Unread(mb') /\ mb'.review = ack
  <2>1. mb'.state = "reply_ready" /\ mb'.reply_status = "completed" /\ mb'.review = ack
    BY <1>5, Usable DEF SetCompleted, ClearRequestPayload, IsMailbox, MailboxType
  <2>2. k # "none" BY <1>3, Bounds
  <2> QED BY <1>8, <2>1, <2>2 DEF Unread
<1>16. d.record.proposal = e.record.proposal /\ d.record.epoch = run.epoch
  BY <1>4, <1>9 DEF SameProposal
<1>17. CommitsStep(k)
  BY <1>1, <1>4, <1>6, <1>7, <1>8, <1>9, <1>11, <1>12, <1>13, <1>14, <1>15, <1>16
     DEF CommitsStep
<1> QED BY <1>17 DEF k

(* prepare records a request that is not remembered, or records nothing.   *)
LEMMA PrepareSteady ==
  ASSUME IInv, PrepareProposal
  PROVE  SteadyStep \/ PreparesStep(Kind, IdOf[run.payload])
<1> DEFINE k == Kind
           c == cust[k]
           request == IdOf[run.payload]
           intent == IntentOf[run.payload]
           d == PrepareDecision(c, request, run.pairing, run.epoch, intent, run.revision)
           b == Prepare(c, request, run.pairing, run.epoch, intent, run.revision,
                        session.content, proposals + 1, clock)
<1>1. /\ pc = "prepare" /\ run.proposal = None /\ UNCHANGED <<origin, closed>>
  BY DEF PrepareProposal, world, ghosts
<1>2. pc \in Claiming BY <1>1 DEF Claiming
<1>3. /\ k \in Kinds /\ run.payload \in Payloads
      /\ request \in Nat /\ intent \in Nat /\ run.pairing \in Nat /\ run.epoch \in Nat
  BY <1>2, Serving
<1>4. ~HasRecord(c) BY <1>1 DEF IInv, ServiceOK
<1>5. Expired(Kind) = c BY <1>4 DEF Expired, Expire, HasRecord
<1>6. CustodyOf(k, b) /\ proposals' = (IF d = "new" THEN proposals + 1 ELSE proposals)
  BY <1>5 DEF PrepareProposal
<1>7. Orderly(c) /\ clock \in Nat /\ session.content \in Nat /\ proposals + 1 \in Nat
  <2>1. proposals \in Nat BY Numbered DEF IInv
  <2>2. session.content \in Nat BY Bounds DEF IInv, Typed, TypeOK
  <2>3. Orderly(c) /\ clock \in Nat BY <1>3, Usable
  <2> QED BY <2>1, <2>2, <2>3
<1>8. request \in Ids BY <1>3 DEF Ids
<1>9. CASE d = "new"
  <2> DEFINE content == session.content
             number == proposals + 1
  <2>1. content \in Nat /\ number \in Nat BY <1>7
  <2> HIDE DEF c, k, request, intent, content, number
  <2>2. PrepareStep(c, Prepare(c, request, run.pairing, run.epoch, intent, run.revision, content,
                               number, clock), d, request, run.epoch, content, number)
    BY <1>3, <1>7, <2>1, PrepareLemma
  <2>3. Prepared(c, b, request, run.epoch, content, number)
    BY <1>9, <2>2 DEF PrepareStep, content, number
  <2> HIDE DEF d, b
  <2>4. cust' = [cust EXCEPT ![k] = b] /\ cust \in [Kinds -> CustodianType]
    BY <1>6, Usable DEF CustodyOf, Custody, CustodyParts
  <2>5. cust'[k] = b /\ \A j \in Kinds \ {k} : cust'[j] = cust[j] BY <1>3, <2>4
  <2>6. PreparesStep(k, request)
    BY <1>1, <1>6, <1>8, <1>9, <2>3, <2>5 DEF PreparesStep, Prepared, number, c
  <2> QED BY <2>6 DEF k, request
<1>10. CASE d # "new"
  <2>1. Steady(c, b)
    <3>1. CASE ~c.closed /\ (run.epoch # c.epoch \/ run.revision # c.revision)
      <4>1. d \in Reasons BY <3>1 DEF PrepareDecision, Decision, Reasons
      <4>2. b = Remember(c, request, run.pairing, intent, d) BY <1>10, <3>1 DEF Prepare
      <4>3. c \in CustodianType BY <1>7 DEF Orderly
      <4> HIDE DEF c, k, d, b, request, intent
      <4> QED BY <1>3, <1>8, <4>1, <4>2, <4>3, RememberSteady
    <3>2. CASE ~(~c.closed /\ (run.epoch # c.epoch \/ run.revision # c.revision))
      <4>1. b = c BY <1>10, <3>2 DEF Prepare
      <4> HIDE DEF b, c
      <4> QED BY <4>1, SteadySame
    <3> QED BY <3>1, <3>2
  <2>2. Steady(cust[k], b) BY <2>1
  <2>3. UNCHANGED <<origin, proposals, closed>> BY <1>1, <1>6, <1>10
  <2> HIDE DEF b, c, k
  <2>4. CustodyOf(k, b) BY <1>6
  <2> QED BY <1>3, <2>2, <2>3, <2>4, OneStep
<1> QED BY <1>9, <1>10

(* The failure of a request is remembered. *)
LEMMA FailSteady == ASSUME IInv, FailRequest PROVE SteadyStep
<1> DEFINE k == Kind
           e == Expired(k)
           request == IdOf[run.payload]
           intent == IntentOf[run.payload]
           fails(c) == RememberFailure(c, request, run.pairing, run.epoch, intent, run.revision,
                                       "invalid_preview")
<1>1. /\ \E c \in {e, MarkStale(e, run.proposal)} : CustodyOf(k, fails(c))
      /\ pc = "prepare" /\ UNCHANGED <<origin, proposals, closed>>
  BY DEF FailRequest, world, ghosts
<1>2. pc \in Claiming BY <1>1 DEF Claiming
<1>3. /\ k \in Kinds /\ run.payload \in Payloads
      /\ request \in Nat /\ intent \in Nat /\ run.pairing \in Nat
  BY <1>2, Serving
<1>4. Orderly(e) /\ Steady(cust[k], e) BY <1>3, LookSteady
<1>5. request \in Ids /\ "invalid_preview" \in Reasons BY <1>3 DEF Ids, Reasons
<1> HIDE DEF e, request, intent, k
<1>6. PICK c \in {e, MarkStale(e, run.proposal)} : CustodyOf(k, fails(c)) BY <1>1
<1>7. Orderly(c) /\ Steady(e, c)
  BY <1>4, SteadySame, MarkStaleLemma, EndingsSteady DEF Keeps, Lets
<1>8. Steady(cust[k], c) BY <1>4, <1>7, SteadyTrans
<1> DEFINE d == fails(c)
<1>9. d = c \/ d = Remember(c, request, run.pairing, intent, "invalid_preview")
  BY DEF RememberFailure
<1>10. c \in CustodianType BY <1>7 DEF Orderly
<1>11. CustodyOf(k, d) BY <1>6
<1> HIDE DEF d
<1>12. Steady(c, d) BY <1>3, <1>5, <1>9, <1>10, RememberSteady, SteadySame
<1>13. Steady(cust[k], d) BY <1>8, <1>12, SteadyTrans
<1> QED BY <1>1, <1>3, <1>11, <1>13, OneStep

(* The proposal of a different second preview is remembered. *)
LEMMA StalePreviewSteady == ASSUME IInv, FailPublication PROVE SteadyStep
<1> DEFINE k == Kind
           e == Expired(k)
           d == Retire(e, "stale_preview", "stale")
<1>1. /\ \/ UNCHANGED cust
         \/ CustodyOf(k, e)
         \/ CustodyOf(k, d) /\ HasRecord(e)
      /\ pc = "publish" /\ UNCHANGED <<origin, proposals, closed>>
  BY DEF FailPublication, world, ghosts, HasRecord
<1>2. pc \in Claiming BY <1>1 DEF Claiming
<1>3. k \in Kinds BY <1>2, Serving
<1>4. Orderly(e) /\ Steady(cust[k], e) BY <1>3, LookSteady
<1>5. "stale" \in HumanStates /\ "stale_preview" \in Reasons BY DEF HumanStates, Reasons
<1> HIDE DEF e, k
<1>6. HasRecord(e) => Steady(e, d) BY <1>4, <1>5, RetireSteady
<1> HIDE DEF d
<1>7. HasRecord(e) => Steady(cust[k], d) BY <1>4, <1>6, SteadyTrans
<1> QED BY <1>1, <1>3, <1>4, <1>7, RestStep, OneStep

(* The service. *)
LEMMA ServiceCases ==
  ASSUME IInv, Service
  PROVE  \/ SteadyStep
         \/ \E k \in Kinds, request \in Ids : PreparesStep(k, request)
         \/ \E k \in Kinds : CommitsStep(k)
<1>1. CASE Serve \/ Claim \/ Confirm \/ RetryRequest \/ PublishPlain
  <2>1. UNCHANGED <<origin, proposals, closed>>
    BY <1>1 DEF Serve, Claim, Confirm, RetryRequest, PublishPlain, world, ghosts
  <2>2. cust' = cust \/ SynchronizeTarget(session.project)
    BY <1>1 DEF Serve, Claim, Confirm, RetryRequest, PublishPlain, Synchronize
  <2> QED BY <2>1, <2>2, RestStep, SynchronizeSteady
<1>2. CASE CheckRequest
  <2> DEFINE k == Kind
             e == Looked(k)
  <2>1. CustodyOf(k, e) /\ pc \in Claiming /\ UNCHANGED <<origin, proposals, closed>>
    BY <1>2 DEF CheckRequest, world, ghosts, Claiming
  <2>2. k \in Kinds BY <2>1, Serving
  <2>3. Steady(cust[k], e) BY <2>2, LookedSteady
  <2> HIDE DEF k, e
  <2> QED BY <2>1, <2>2, <2>3, OneStep
<1>3. CASE FailRequest BY <1>3, FailSteady
<1>4. CASE PrepareProposal
  <2>1. Kind \in Kinds BY <1>4, Serving DEF PrepareProposal, Claiming
  <2> QED BY <1>4, <2>1, PrepareSteady DEF PreparesStep
<1>5. CASE FailPublication BY <1>5, StalePreviewSteady
<1>6. CASE PublishReview
  <2> DEFINE k == Kind
             d == CompleteWithReview(k)[2]
  <2>1. CustodyOf(k, d) /\ pc \in Claiming /\ UNCHANGED <<proposals, closed>>
    BY <1>6 DEF PublishReview, world, Claiming
  <2>2. k \in Kinds BY <2>1, Serving
  <2>3. CASE CommitsReview(k) BY <1>6, <2>2, <2>3, ReviewCommits
  <2>4. CASE ~CommitsReview(k)
    <3>1. Steady(cust[k], d) BY <2>2, <2>4, ReviewSteady
    <3> HIDE DEF d
    <3>2. cust'[k] = d BY <2>1, <2>2, Usable DEF CustodyOf, Custody, CustodyParts
    <3>3. d.record = cust[k].record \/ d.record = NoRecord BY <3>1 DEF Steady
    <3>4. ~(cust'[k].record.state = "pending" /\ cust[k].record.state = "prepared")
      BY <3>2, <3>3, NoRecordType
    <3>5. UNCHANGED origin BY <1>6, <3>4 DEF PublishReview
    <3> HIDE DEF k
    <3> QED BY <2>1, <2>2, <3>1, <3>5, OneStep
  <2> QED BY <2>3, <2>4
<1>7. CASE PublishDuplicate
  <2> DEFINE k == Kind
             e == Expired(k)
             d == CompleteWithDuplicate(k)[2]
  <2>1. CustodyOf(k, d) /\ pc \in Claiming /\ UNCHANGED <<origin, proposals, closed>>
    BY <1>7 DEF PublishDuplicate, world, ghosts, Claiming
  <2>2. k \in Kinds BY <2>1, Serving
  <2>3. d = cust[k] \/ d = e BY DEF CompleteWithDuplicate
  <2> HIDE DEF d
  <2>4. Steady(cust[k], d) BY <2>2, <2>3, LookSteady, SteadySame
  <2> HIDE DEF k, e
  <2> QED BY <2>1, <2>2, <2>4, OneStep
<1> QED BY <1>1, <1>2, <1>3, <1>4, <1>5, <1>6, <1>7 DEF Service

(* A step prepares a request that is not remembered, commits what is       *)
(* prepared with its acknowledgment, gives all up, or does none of these.  *)
LEMMA StepCases ==
  ASSUME IInv, [Next]_vars
  PROVE  \/ SteadyStep
         \/ \E k \in Kinds, request \in Ids : PreparesStep(k, request)
         \/ \E k \in Kinds : CommitsStep(k)
         \/ ClosesStep
<1>1. CASE Service BY <1>1, ServiceCases
<1>2. CASE Human BY <1>2, HumanSteady
<1>3. CASE Apply BY <1>3, ApplySteady
<1>4. CASE Pipe BY <1>4, PipeSteady
<1>5. CASE Interrupt \/ Tick \/ UNCHANGED vars
  <2>1. UNCHANGED <<cust, origin, proposals, closed>>
    BY <1>5 DEF Interrupt, Tick, vars, ghosts
  <2> QED BY <2>1, RestStep
<1>6. CASE CloseSession
  <2>1. closed' = TRUE /\ UNCHANGED <<origin, proposals>>
        /\ cust' = [k \in Kinds |-> CloseCustody(cust[k])]
    BY <1>6 DEF CloseSession, Custody, ghosts
  <2>2. \A k \in Kinds : CloseCustody(cust[k]).record = NoRecord
                         /\ CloseCustody(cust[k]).tombstones = <<>>
    BY Usable DEF CloseCustody, Orderly, CustodianType
  <2> QED BY <2>1, <2>2 DEF ClosesStep
<1> QED BY <1>1, <1>2, <1>3, <1>4, <1>5, <1>6 DEF Next

-----------------------------------------------------------------------------
(* A request id is queued for review once. *)

(* At first nothing is remembered and nothing queued. *)
LEMMA InitOnce == ASSUME Init PROVE FInv
<1>1. proposals = 0 /\ \A p \in Proposals : origin[p].kind = "none" BY DEF Init, NoOrigin
<1>2. \A p : p \notin 1..proposals BY <1>1
<1>3. ASSUME NEW k \in Kinds PROVE Remembered(k)
  <2>1. cust[k] = InitCustodian BY DEF Init
  <2>2. InitCustodian.tombstones = <<>> /\ ~HasRecord(InitCustodian)
        /\ InitCustodian.record.state = "absent"
    BY DEF InitCustodian, HasRecord, NoRecord
  <2>3. Knows(InitCustodian) BY <2>2 DEF Knows, Known, Asked, Distinct
  <2> QED BY <1>2, <2>1, <2>2, <2>3 DEF Remembered
<1> QED BY <1>1, <1>2, <1>3 DEF FInv, OnceOK

(* The proposals a committed origin can be of. *)
LEMMA Numbers ==
  ASSUME IInv
  PROVE  /\ proposals \in Nat /\ 1..proposals \subseteq Proposals
         /\ \A k \in Kinds : k # "none"
         /\ origin \in [Proposals -> OriginType] /\ NoRecord.proposal \notin 1..proposals
BY Numbered, Bounds, NoRecordType DEF IInv, Typed

(* What is steady remembers on. *)
LEMMA SteadyOnce == ASSUME IInv, FewIds, OnceOK, SteadyStep PROVE OnceOK'
<1>1. UNCHANGED <<origin, proposals, closed>> BY DEF SteadyStep
<1>2. ASSUME NEW k \in Kinds PROVE Remembered(k)'
  <2> DEFINE c == cust[k]
  <2>0. Remembered(k) BY DEF OnceOK
  <2>1. PICK d : d = cust'[k] OBVIOUS
  <2>2. Steady(c, d) \/ Applies(c, d) BY <2>1 DEF SteadyStep
  <2>3. /\ Knows(c)
        /\ \A p \in 1..proposals : origin[p].kind = k =>
             IF c.record.proposal = p
             THEN c.record.state \in Committed /\ c.record.request = origin[p].request
             ELSE closed \/ origin[p].request \in Known(c)
        /\ c.record.state = "prepared" =>
             \A p \in 1..proposals : origin[p].kind = k => origin[p].request # c.record.request
    BY <2>0 DEF Remembered
  <2> HIDE DEF c
  <2>4. CASE Steady(c, d)
    <3>1. /\ d.record = c.record \/ d.record = NoRecord
          /\ Knows(d) /\ Known(c) \subseteq Known(d)
          /\ d.record # c.record => c.record.request \in Known(d)
      BY <2>3, <2>4 DEF Steady
    <3>2. ASSUME NEW p \in 1..proposals, origin[p].kind = k
          PROVE  IF d.record.proposal = p
                 THEN d.record.state \in Committed /\ d.record.request = origin[p].request
                 ELSE closed \/ origin[p].request \in Known(d)
      <4>1. CASE d.record.proposal = p
        <5>1. d.record = c.record BY <3>1, <4>1, Numbers
        <5> QED BY <2>3, <3>2, <4>1, <5>1
      <4>2. CASE d.record.proposal # p
        <5>1. CASE c.record.proposal = p
          <6>1. d.record # c.record BY <4>2, <5>1
          <6>2. c.record.request = origin[p].request BY <2>3, <3>2, <5>1
          <6> QED BY <3>1, <4>2, <6>1, <6>2
        <5>2. CASE c.record.proposal # p BY <2>3, <3>1, <3>2, <4>2, <5>2
        <5> QED BY <5>1, <5>2
      <4> QED BY <4>1, <4>2
    <3>3. d.record.state = "prepared" =>
            \A p \in 1..proposals : origin[p].kind = k => origin[p].request # d.record.request
      BY <2>3, <3>1, NoRecordType
    <3> QED BY <1>1, <2>1, <3>1, <3>2, <3>3 DEF Remembered
  <2>5. CASE Applies(c, d)
    <3>1. /\ d.tombstones = c.tombstones /\ c.record.state \in Committed
          /\ d.record.proposal = c.record.proposal /\ d.record.request = c.record.request
          /\ d.record.state = "applying"
      BY <2>5 DEF Applies, SameProposal
    <3>2. Known(d) = Known(c) /\ Knows(d)
      BY <2>3, <3>1 DEF Known, Knows, HasRecord, Committed
    <3>3. ASSUME NEW p \in 1..proposals, origin[p].kind = k
          PROVE  IF d.record.proposal = p
                 THEN d.record.state \in Committed /\ d.record.request = origin[p].request
                 ELSE closed \/ origin[p].request \in Known(d)
      BY <2>3, <3>1, <3>2, <3>3 DEF Committed
    <3>4. d.record.state # "prepared" BY <3>1
    <3> QED BY <1>1, <2>1, <3>2, <3>3, <3>4 DEF Remembered
  <2> QED BY <2>2, <2>4, <2>5
<1> QED BY <1>1, <1>2 DEF OnceOK

(* What is prepared was not queued before. *)
LEMMA PreparesOnce ==
  ASSUME IInv, IInv', FewIds, OnceOK, NEW k \in Kinds, NEW request \in Ids,
         PreparesStep(k, request)
  PROVE  OnceOK'
<1>1. /\ ~HasRecord(cust[k]) /\ ~cust[k].closed /\ Tombs(cust[k], request) = {}
      /\ proposals' = proposals + 1 /\ UNCHANGED <<origin, closed>>
      /\ \A j \in Kinds \ {k} : cust'[j] = cust[j]
  BY DEF PreparesStep
<1>2. /\ proposals \in Nat /\ proposals + 1 \in Proposals
      /\ 1..proposals' = 1..proposals \cup {proposals + 1}
      /\ \A p \in Proposals : p > proposals' => p > proposals
  <2>1. proposals \in Nat /\ 1..proposals' \subseteq Proposals
    <3>1. proposals' \in 0..MaxProposals BY DEF IInv, Typed, TypeOK
    <3>2. proposals \in Nat BY Numbers
    <3> QED BY <3>1, <3>2, Bounds DEF Proposals
  <2>2. proposals + 1 \in 1..proposals' BY <1>1, <2>1
  <2>3. 1..proposals' = 1..proposals \cup {proposals + 1} BY <1>1, <2>1
  <2>4. \A p \in Proposals : p > proposals' => p > proposals
    BY <1>1, <2>1, Bounds DEF Proposals
  <2> QED BY <2>1, <2>2, <2>3, <2>4
<1>3. origin[proposals + 1].kind = "none"
  <2>1. proposals + 1 > proposals BY <1>2
  <2> QED BY <1>2, <2>1 DEF OnceOK
<1>4. \A p \in 1..proposals' : origin[p].kind # "none" => p \in 1..proposals BY <1>2, <1>3
<1>5. ASSUME NEW j \in Kinds PROVE Remembered(j)'
  <2>1. Remembered(j) /\ j # "none" BY Numbers DEF OnceOK
  <2>2. CASE j # k
    <3>1. cust'[j] = cust[j] BY <1>1, <2>2
    <3> QED BY <1>1, <1>4, <2>1, <3>1 DEF Remembered
  <2>3. CASE j = k
    <3> DEFINE c == cust[k]
    <3>1. PICK d : d = cust'[k] OBVIOUS
    <3>2. /\ d.record.state = "prepared" /\ d.record.proposal = proposals + 1
          /\ d.record.request = request /\ d.tombstones = c.tombstones
      BY <3>1 DEF PreparesStep
    <3>3. /\ Knows(c)
          /\ \A p \in 1..proposals : origin[p].kind = k =>
               IF c.record.proposal = p
               THEN c.record.state \in Committed /\ c.record.request = origin[p].request
               ELSE closed \/ origin[p].request \in Known(c)
      BY <2>1, <2>3 DEF Remembered
    <3>4. c.record = NoRecord /\ ~closed
      BY <1>1 DEF IInv, RecordsOK, SameTarget
    <3>5. request \notin Known(c) BY <1>1 DEF Tombs, Known, Asked
    <3> HIDE DEF c
    <3>6. Known(d) = Known(c) /\ Knows(d) BY <3>2, <3>3 DEF Known, Knows
    <3>7. \A p \in 1..proposals : origin[p].kind = k => origin[p].request \in Known(c)
      BY <3>3, <3>4, Numbers
    <3>8. \A p \in 1..proposals : p # proposals + 1 BY <1>2
    <3>9. \A p \in 1..proposals' : origin'[p].kind = k =>
            /\ d.record.proposal # p
            /\ origin'[p].request \in Known(d) /\ origin'[p].request # d.record.request
      BY <1>1, <1>4, <2>1, <2>3, <3>2, <3>5, <3>6, <3>7, <3>8
    <3> QED BY <2>3, <3>1, <3>6, <3>9 DEF Remembered
  <2> QED BY <2>2, <2>3
<1>6. \A p \in Proposals : p > proposals' => origin'[p].kind = "none"
  BY <1>1, <1>2 DEF OnceOK
<1>7. \A p, o \in 1..proposals' :
        p # o /\ origin'[p].kind # "none" /\ origin'[p].kind = origin'[o].kind
        => origin'[p].request # origin'[o].request
  BY <1>1, <1>4 DEF OnceOK
<1> QED BY <1>5, <1>6, <1>7 DEF OnceOK

(* What is committed was prepared for a request that was not queued        *)
(* before.                                                                 *)
LEMMA CommitsOnce ==
  ASSUME IInv, FewIds, OnceOK, NEW k \in Kinds, CommitsStep(k)
  PROVE  OnceOK'
<1> DEFINE c == cust[k]
           q == c.record.proposal
<1>1. PICK o : /\ o.kind = k /\ o.request = c.record.request
               /\ origin' = [origin EXCEPT ![q] = o]
  BY DEF CommitsStep
<1>2. PICK d : d = cust'[k] OBVIOUS
<1>3. /\ c.record.state = "prepared" /\ q \in 1..proposals
      /\ d.record.proposal = q /\ d.record.request = c.record.request
      /\ d.tombstones = c.tombstones /\ d.record.state = "pending"
      /\ \A j \in Kinds \ {k} : cust'[j] = cust[j]
      /\ UNCHANGED <<proposals, closed>>
  BY <1>2 DEF CommitsStep, SameProposal
<1>4. /\ Knows(c)
      /\ \A p \in 1..proposals : origin[p].kind = k =>
           IF q = p
           THEN c.record.state \in Committed /\ c.record.request = origin[p].request
           ELSE closed \/ origin[p].request \in Known(c)
      /\ \A p \in 1..proposals : origin[p].kind = k => origin[p].request # c.record.request
  <2>1. Remembered(k) BY DEF OnceOK
  <2> QED BY <1>3, <2>1 DEF Remembered
<1> HIDE DEF c, q
<1>5. /\ q \in Proposals /\ proposals \in Nat /\ 1..proposals \subseteq Proposals
      /\ origin'[q] = o /\ \A p \in Proposals \ {q} : origin'[p] = origin[p]
  BY <1>1, <1>3, Numbers
<1>6. k # "none" BY Numbers
<1>7. ASSUME NEW j \in Kinds PROVE Remembered(j)'
  <2>1. Remembered(j) /\ j # "none" BY Numbers DEF OnceOK
  <2>2. CASE j # k
    <3>1. cust'[j] = cust[j] BY <1>3, <2>2
    <3>2. \A p \in 1..proposals : origin'[p].kind = j => p # q /\ origin'[p] = origin[p]
      BY <1>1, <1>5, <2>2
    <3>3. \A p \in 1..proposals : origin'[p].kind = j => origin[p].kind = j BY <3>2
    <3> QED BY <1>3, <2>1, <3>1, <3>2, <3>3 DEF Remembered
  <2>3. CASE j = k
    <3>1. Known(d) = Known(c) /\ Knows(d)
      BY <1>3, <1>4 DEF Known, Knows, HasRecord
    <3>2. ASSUME NEW p \in 1..proposals, origin'[p].kind = k
          PROVE  IF d.record.proposal = p
                 THEN d.record.state \in Committed /\ d.record.request = origin'[p].request
                 ELSE closed \/ origin'[p].request \in Known(d)
      <4>1. CASE p = q BY <1>1, <1>3, <1>5, <4>1 DEF Committed
      <4>2. CASE p # q
        <5>1. origin'[p] = origin[p] BY <1>5, <4>2
        <5> QED BY <1>3, <1>4, <3>1, <3>2, <4>2, <5>1
      <4> QED BY <4>1, <4>2
    <3>3. d.record.state # "prepared" BY <1>3
    <3> QED BY <1>2, <1>3, <2>3, <3>1, <3>2, <3>3 DEF Remembered
  <2> QED BY <2>2, <2>3
<1>8. \A p \in Proposals : p > proposals' => origin'[p].kind = "none"
  <2>1. ~(q > proposals) BY <1>3, <1>5
  <2> QED BY <1>3, <1>5, <2>1 DEF OnceOK
<1>9. \A p, r \in 1..proposals' :
        p # r /\ origin'[p].kind # "none" /\ origin'[p].kind = origin'[r].kind
        => origin'[p].request # origin'[r].request
  <2> SUFFICES ASSUME NEW p \in 1..proposals, NEW r \in 1..proposals, p # r,
                      origin'[p].kind # "none", origin'[p].kind = origin'[r].kind
               PROVE  origin'[p].request # origin'[r].request
    BY <1>3
  <2>1. CASE p = q
    <3>1. origin'[r] = origin[r] /\ origin[r].kind = k BY <1>1, <1>5, <2>1
    <3> QED BY <1>1, <1>4, <1>5, <2>1, <3>1
  <2>2. CASE r = q
    <3>1. origin'[p] = origin[p] /\ origin[p].kind = k BY <1>1, <1>5, <2>2
    <3> QED BY <1>1, <1>4, <1>5, <2>2, <3>1
  <2>3. CASE p # q /\ r # q
    <3>1. origin'[p] = origin[p] /\ origin'[r] = origin[r] BY <1>5, <2>3
    <3> QED BY <3>1 DEF OnceOK
  <2> QED BY <2>1, <2>2, <2>3
<1> QED BY <1>7, <1>8, <1>9 DEF OnceOK

(* The end of the session ends all. *)
LEMMA ClosesOnce == ASSUME IInv, FewIds, OnceOK, ClosesStep PROVE OnceOK'
<1>1. closed' = TRUE /\ UNCHANGED <<origin, proposals>> BY DEF ClosesStep
<1>2. ASSUME NEW k \in Kinds PROVE Remembered(k)'
  <2>1. PICK d : d = cust'[k] OBVIOUS
  <2>2. d.record = NoRecord /\ d.tombstones = <<>> BY <2>1 DEF ClosesStep
  <2>3. Knows(d) BY <2>2, NoRecordType DEF Knows, Known, Asked, Distinct, HasRecord
  <2>4. \A p \in 1..proposals' : d.record.proposal # p BY <1>1, <2>2, Numbers
  <2> QED BY <1>1, <2>1, <2>2, <2>3, <2>4, NoRecordType DEF Remembered
<1> QED BY <1>1, <1>2 DEF OnceOK

(* While the request ids in use do not exceed the tombstones, every step   *)
(* remembers what was queued.                                              *)
LEMMA NextOnce == ASSUME IInv, IInv', FInv, [Next]_vars PROVE FInv'
<1> SUFFICES ASSUME FewIds, OnceOK PROVE OnceOK' BY DEF FInv
<1> QED BY StepCases, SteadyOnce, PreparesOnce, CommitsOnce, ClosesOnce

(* A request id is queued for review once in the life of the session, over *)
(* retries, expiry, target changes, applies and new pairings, as long as   *)
(* the ids in use do not exceed the tombstones.                            *)
THEOREM RequestsAreQueuedOnce == Spec => []OneProposalPerRequest
<1>1. Init => FInv BY InitOnce
<1>2. IInv /\ IInv' /\ FInv /\ [Next]_vars => FInv' BY NextOnce
<1>3. FInv => OneProposalPerRequest BY DEF FInv, OnceOK, OneProposalPerRequest
<1> QED BY <1>1, <1>2, <1>3, Invariance, PTL DEF Spec

-----------------------------------------------------------------------------
(* Who queues an acknowledgment. *)

(* A new target queues none. *)
LEMMA SyncQueues ==
  ASSUME IInv, NEW project, SynchronizeTarget(project), Unread(mb')
  PROVE  Unread(mb)
<1> DEFINE same == tracker.initialized /\ tracker.target = project
           epoch == IF same THEN tracker.epoch ELSE epochs + 1
           m == [mb EXCEPT !.target_epoch = epoch]
<1>1. mb' = SynchronizeTargetEpoch(mb, epoch) BY DEF SynchronizeTarget
<1>2. epoch \in Nat BY DEF IInv, Typed, TypeOK
<1> HIDE DEF epoch
<1>3. m \in MailboxType /\ (Unread(m) => Unread(mb))
  BY <1>2, Usable DEF IsMailbox, MailboxType, Unread
<1>4. mb' \in {mb, m, [m EXCEPT !.invalidated = TRUE], SetTerminal(m, "stale_target")}
  BY <1>1 DEF SynchronizeTargetEpoch, InvalidateTarget
<1> HIDE DEF m
<1>5. ~Unread(SetTerminal(m, "stale_target"))
  BY <1>3 DEF MailboxType, SetTerminal, ClearRequestPayload, Unread
<1>6. Unread([m EXCEPT !.invalidated = TRUE]) => Unread(m) BY <1>3 DEF MailboxType, Unread
<1> QED BY <1>3, <1>4, <1>5, <1>6

(* An acknowledgment is queued by a publication only. *)
LEMMA OthersQueueNone ==
  ASSUME IInv, [Next]_vars, ~PublishReview, ~PublishDuplicate, Unread(mb')
  PROVE  Unread(mb)
<1>1. IsMailbox(mb) /\ clock \in Nat BY Usable
<1>2. CASE mb' = mb BY <1>2 DEF Unread
<1>3. CASE \E m : IsMailbox(m) /\ Calm(mb, m) /\ Withdraws(m, mb') BY <1>3 DEF Withdraws, Calm
<1>4. CASE Service
  <2>1. CASE Serve BY <1>2, <2>1, SyncQueues DEF Serve, Synchronize
  <2>2. CASE Claim
    <3>1. run.epoch \in Nat /\ claims + 1 \in Nat \ {0} BY DEF IInv, Typed, TypeOK, LocalsType
    <3>2. mb' = ClaimTake(mb, run.epoch, claims + 1, clock) BY <2>2 DEF Claim
    <3> DEFINE number == claims + 1
    <3>3. number \in Nat \ {0} /\ mb' = ClaimTake(mb, run.epoch, number, clock) BY <3>1, <3>2
    <3> HIDE DEF number
    <3>4. Calm(mb, mb') BY <1>1, <3>1, <3>3, ClaimMail
    <3> QED BY <3>4 DEF Calm
  <2>3. CASE Confirm
    <3>1. run.epoch \in Nat /\ run.claim \in Nat BY DEF IInv, Typed, TypeOK, LocalsType
    <3>2. mb' = ClaimCheck(mb, run.epoch, run.claim, clock) BY <2>3 DEF Confirm
    <3>3. Calm(mb, mb') BY <1>1, <3>1, <3>2, ConfirmMail
    <3> QED BY <3>3 DEF Calm
  <2>4. CASE PublishPlain
    <3> DEFINE reply == PlainReply
    <3>1. pc \in Claiming BY <2>4 DEF PublishPlain, Claiming
    <3>2. reply \in ReplyType /\ run.claim \in Nat /\ run.epoch \in Nat BY <3>1, Serving
    <3>3. mb' = Complete(mb, run.claim, run.epoch, reply, run.epoch, clock)
      BY <2>4 DEF PublishPlain
    <3> HIDE DEF reply
    <3>4. Calm(mb, mb') BY <1>1, <3>2, <3>3, CompleteMail
    <3> QED BY <3>4 DEF Calm
  <2>5. CASE CheckRequest \/ FailRequest \/ RetryRequest \/ PrepareProposal \/ FailPublication
    BY <1>2, <2>5 DEF CheckRequest, FailRequest, RetryRequest, PrepareProposal, FailPublication
  <2> QED BY <1>4, <2>1, <2>2, <2>3, <2>4, <2>5 DEF Service
<1>5. CASE Human
  <2>1. CASE Observe BY <2>1, SyncQueues DEF Observe
  <2>2. CASE Disarm
    <3>1. Withdraws(mb, mb') BY <1>1, <2>2, CalmRefl, CancelAckLemma DEF Disarm
    <3> QED BY <3>1 DEF Withdraws, Calm
  <2>3. CASE SwitchTarget \/ Edit BY <1>2, <2>3 DEF SwitchTarget, Edit
  <2>4. ASSUME NEW k \in Kinds, Inspect(k) \/ MarkProposalStale(k) PROVE Unread(mb)
    <3>1. Withdraws(mb, mb')
      BY <1>1, <2>4, InspectAckLemma, StaleAckLemma DEF Inspect, MarkProposalStale
    <3> QED BY <3>1 DEF Withdraws, Calm
  <2>5. ASSUME NEW k \in Kinds, NEW p, NEW human, ResolveProposal(k, p, human)
        PROVE  Unread(mb)
    <3>1. Withdraws(mb, mb') BY <1>1, <2>5, ResolveAckLemma DEF ResolveProposal
    <3> QED BY <3>1 DEF Withdraws, Calm
  <2> QED BY <1>5, <2>1, <2>2, <2>3, <2>4, <2>5 DEF Human
<1>6. CASE Apply
  <2>1. CASE InspectForApply \/ StaleForApply \/ Recheck \/ LookAfterApply
    <3>1. Withdraws(mb, mb')
      BY <1>1, <2>1, InspectAckLemma, StaleAckLemma
         DEF InspectForApply, StaleForApply, Recheck, LookAfterApply
    <3> QED BY <3>1 DEF Withdraws, Calm
  <2>2. CASE RetireAck \/ FinishProposal
    <3>1. Withdraws(mb, mb')
      BY <1>1, <2>2, DiscardLemma, CalmRefl DEF RetireAck, FinishProposal, TerminalStatuses
    <3> QED BY <3>1 DEF Withdraws, Calm
  <2>3. CASE ClaimProposal \/ CoreApply \/ StagePublication \/ ReplaceProject
             \/ RollbackPublication \/ SaveApplied
    BY <1>2, <2>3 DEF ClaimProposal, CoreApply, StagePublication, ReplaceProject,
                      RollbackPublication, SaveApplied
  <2>4. CASE ObserveReplacement BY <2>4, SyncQueues DEF ObserveReplacement
  <2>5. ASSUME NEW p, StartApply(p) PROVE Unread(mb)
    BY <1>2, <2>5, SyncQueues DEF StartApply, Synchronize
  <2> QED BY <1>6, <2>1, <2>2, <2>3, <2>4, <2>5 DEF Apply, ApplyStep
<1>7. CASE Pipe
  <2>1. CASE PeekReply \/ TakeReply
    <3> DEFINE m == ExpiredAck[1]
    <3>1. Withdraws(mb, m) BY ExpiredAckStep
    <3>2. mb' = Peek(m, client.epoch, clock) \/ mb' = Take(m, client.epoch, client.generation)
      BY <2>1 DEF PeekReply, TakeReply
    <3> HIDE DEF m
    <3>3. IsMailbox(m) BY <3>1 DEF Withdraws, Calm
    <3>4. Withdraws(m, mb') BY <3>2, <3>3, PeekMail, TakeMail
    <3> QED BY <3>1, <3>4 DEF Withdraws, Calm
  <2>2. ASSUME NEW q \in Payloads, SubmitRequest(q) PROVE Unread(mb)
    <3>1. mb'.state = "pending"
      BY <1>1, <2>2 DEF SubmitRequest, Submit, IsMailbox, MailboxType
    <3> QED BY <3>1 DEF Unread
  <2>3. CASE PairAgain BY <1>2, <2>3 DEF PairAgain, world
  <2> QED BY <1>7, <2>1, <2>2, <2>3 DEF Pipe
<1>8. CASE CloseSession
  <2>1. mb'.state = "closed" BY <1>1, <1>8 DEF CloseSession, Close, IsMailbox, MailboxType
  <2> QED BY <2>1 DEF Unread
<1>9. CASE Interrupt \/ Tick \/ UNCHANGED vars BY <1>2, <1>9 DEF Interrupt, Tick, vars
<1> QED BY <1>4, <1>5, <1>6, <1>7, <1>8, <1>9 DEF Next

(* What is queued is the acknowledgment of a proposal that is pending and  *)
(* in time.                                                                *)
Acknowledges ==
  \E k \in Kinds :
    /\ mb'.review.owner = k /\ cust'[k].record.state = "pending"
    /\ cust'[k].record.proposal = mb'.review.proposal /\ clock < cust'[k].record.expires

(* complete_with_review queues that of the proposal it commits, ... *)
LEMMA CommitAcknowledges ==
  ASSUME IInv, PublishReview, Unread(mb'), ~Unread(mb)
  PROVE  Acknowledges
<1> DEFINE k == Kind
           n == CompleteWithReview(k)[1]
<1>1. pc \in Claiming /\ mb' = n BY DEF PublishReview, Claiming
<1>2. k \in Kinds BY <1>1, Serving
<1>3. CASE CommitsReview(k) BY <1>2, <1>3, ReviewCommits DEF CommitsStep, Acknowledges
<1>4. CASE ~CommitsReview(k)
  <2>1. /\ n # mb => mb.state = "executing"
        /\ n = mb \/ \E status \in TerminalStatuses : n = SetTerminal(mb, status)
    BY <1>2, <1>4, ReviewCases DEF CommitsReview
  <2> HIDE DEF n, k
  <2>2. CASE n = mb BY <1>1, <2>2 DEF Unread
  <2>3. CASE n # mb BY <1>1, <2>1, <2>3, Usable, CalmRefusal
  <2> QED BY <2>2, <2>3
<1> QED BY <1>3, <1>4

(* ... complete_with_duplicate_review that of the one it finds. *)
LEMMA RetryAcknowledges ==
  ASSUME IInv, PublishDuplicate, Unread(mb'), ~Unread(mb)
  PROVE  Acknowledges
<1> DEFINE k == Kind
           n == CompleteWithDuplicate(k)[1]
           d == CompleteWithDuplicate(k)[2]
           e == Expired(k)
           ack == Ack(k, IdOf[run.payload], e.record)
<1>1. pc \in Claiming /\ mb' = n /\ CustodyOf(k, d) BY DEF PublishDuplicate, Claiming
<1>2. k \in Kinds BY <1>1, Serving
<1>3. \/ /\ n # mb => mb.state = "executing"
         /\ n = mb \/ \E status \in TerminalStatuses : n = SetTerminal(mb, status)
      \/ IsPending(e, run.proposal) /\ n = SetCompleted(mb, AckReply, ack) /\ d = e
  BY <1>2, DuplicateCases
<1>4. ack.owner = k /\ ack.proposal = e.record.proposal BY DEF Ack
<1>5. e.record.state \in {"prepared", "pending"} => clock < e.record.expires BY <1>2, LookStep
<1> HIDE DEF n, d, e, ack, k
<1>6. CASE /\ n # mb => mb.state = "executing"
           /\ n = mb \/ \E status \in TerminalStatuses : n = SetTerminal(mb, status)
  <2>1. CASE n = mb BY <1>1, <2>1 DEF Unread
  <2>2. CASE n # mb BY <1>1, <1>6, <2>2, Usable, CalmRefusal
  <2> QED BY <2>1, <2>2
<1>7. CASE IsPending(e, run.proposal) /\ n = SetCompleted(mb, AckReply, ack) /\ d = e
  <2>1. mb'.review = ack
    BY <1>1, <1>7, Usable DEF SetCompleted, ClearRequestPayload, IsMailbox, MailboxType
  <2>2. cust'[k] = e
    BY <1>1, <1>2, <1>7, Usable DEF CustodyOf, Custody, CustodyParts
  <2> QED BY <1>2, <1>4, <1>5, <1>7, <2>1, <2>2 DEF Acknowledges, IsPending
<1> QED BY <1>3, <1>6, <1>7

(* Reply and proposal are committed together: a proposal becomes pending   *)
(* only in the step that queues its acknowledgment, in time and for its    *)
(* target; and no acknowledgment, of a retry either, is queued for a       *)
(* proposal that is not pending or whose time has run out                  *)
(* (complete_with_review, complete_with_duplicate_review).                 *)
THEOREM ReplyAndProposalTogether == Spec => PairedCommit
<1> DEFINE Together ==
             \A k \in Kinds : cust[k].record.state # "pending" /\ cust'[k].record.state = "pending" =>
               /\ UnreadAck' /\ mb'.review.owner = k
               /\ mb'.review.proposal = cust'[k].record.proposal
               /\ ~IsExpired(mb, clock) /\ mb.target_epoch = cust'[k].record.epoch
           Queued ==
             ~UnreadAck /\ UnreadAck' =>
               /\ cust'[mb'.review.owner].record.state = "pending"
               /\ cust'[mb'.review.owner].record.proposal = mb'.review.proposal
               /\ clock < cust'[mb'.review.owner].record.expires
<1>1. IInv /\ [Next]_vars => Together
  <2> SUFFICES ASSUME IInv, [Next]_vars, NEW k \in Kinds,
                      cust[k].record.state # "pending", cust'[k].record.state = "pending"
               PROVE  /\ UnreadAck' /\ mb'.review.owner = k
                      /\ mb'.review.proposal = cust'[k].record.proposal
                      /\ ~IsExpired(mb, clock) /\ mb.target_epoch = cust'[k].record.epoch
    OBVIOUS
  <2>1. ~SteadyStep
    BY NoRecordType DEF SteadyStep, Steady, Applies
  <2>2. \A j \in Kinds, request \in Ids : ~PreparesStep(j, request)
    BY DEF PreparesStep
  <2>3. ~ClosesStep BY NoRecordType DEF ClosesStep
  <2>4. PICK j \in Kinds : CommitsStep(j) BY <2>1, <2>2, <2>3, StepCases
  <2>5. j = k BY <2>4 DEF CommitsStep
  <2> QED BY <2>4, <2>5 DEF CommitsStep, Unread, UnreadAck
<1>2. IInv /\ [Next]_vars => Queued
  <2> SUFFICES ASSUME IInv, [Next]_vars, ~Unread(mb), Unread(mb')
               PROVE  Acknowledges
    BY DEF Acknowledges, UnreadAck, Unread
  <2> QED BY OthersQueueNone, CommitAcknowledges, RetryAcknowledges
<1>3. IInv /\ [Next]_vars => [Together /\ Queued]_vars BY <1>1, <1>2
<1> QED BY <1>3, Invariance, PTL DEF Spec, PairedCommit


-----------------------------------------------------------------------------
(* What a client is told, and what an apply replaces and takes back. *)

(* A reader is told that a proposal is queued only if the reply it looked  *)
(* at is still there and is the acknowledgment of that proposal.           *)
LEMMA ToldIsUnread ==
  ASSUME IInv, client.state = "copying", Told = "completed", client.review.owner # "none"
  PROVE  Unread(mb) /\ mb.review = client.review
<1> DEFINE m == ExpiredAck[1]
<1>1. Withdraws(mb, m) /\ Told = TakeStatus(m, client.epoch, client.generation, client.status)
  BY ExpiredAckStep DEF Told
<1> HIDE DEF m
<1>2. m.state = "reply_ready" /\ m.reply_generation = client.generation
      /\ client.status = "completed"
  BY <1>1 DEF TakeStatus, TerminalStatuses
<1>3. /\ client.generation \in Nat /\ mb.reply_generation \in Nat /\ m.reply_generation \in Nat
  BY <1>1 DEF IInv, Typed, TypeOK, CallType, MailboxType, Withdraws, Calm, IsMailbox
<1>4. client.generation = mb.reply_generation
  BY <1>1, <1>2, <1>3 DEF IInv, ReaderOK, Withdraws, Calm, Reads
<1>5. mb.state = "reply_ready" /\ mb.reply_status = "completed" /\ mb.review = client.review
  BY <1>2, <1>4 DEF IInv, ReaderOK
<1> QED BY <1>5 DEF Unread

(* A client that is told its proposal is queued can rely on it: at that    *)
(* moment the proposal is in custody, or its time has run out              *)
(* (consume_reply, _expire_generation_ack_locked).                         *)
THEOREM ToldInCustody == Spec => AcknowledgedInCustody
<1> DEFINE Relied ==
             client.state = "copying" /\ client'.state = "idle" /\ Told = "completed"
             /\ client.review.owner # "none" =>
               \/ cust[client.review.owner].record.proposal = client.review.proposal
               \/ clock >= origin[client.review.proposal].expires
<1>1. IInv => Relied BY ToldIsUnread DEF IInv, AckOK, UnreadAck, Unread
<1>2. IInv /\ [Next]_vars => [Relied]_vars BY <1>1
<1> QED BY <1>2, Invariance, PTL DEF Spec, AcknowledgedInCustody

(* Only the assignment of the new Project counts as a replacement. *)
LEMMA OnlyReplaceReplaces == ASSUME [Next]_vars, ~ReplaceProject PROVE replaced' = replaced
<1>1. CASE Service
  BY <1>1 DEF Service, Serve, Claim, Confirm, CheckRequest, FailRequest, RetryRequest,
              PrepareProposal, FailPublication, PublishPlain, PublishReview, PublishDuplicate,
              ghosts
<1>2. CASE Human
  BY <1>2 DEF Human, Observe, Disarm, SwitchTarget, Edit, Inspect, MarkProposalStale,
              ResolveProposal, ghosts
<1>3. CASE Apply
  <2>1. CASE InspectForApply \/ StaleForApply \/ Recheck \/ ClaimProposal \/ CoreApply
    BY <2>1 DEF InspectForApply, StaleForApply, Recheck, ClaimProposal, CoreApply, ghosts
  <2>2. CASE StagePublication \/ RollbackPublication \/ RetireAck \/ ObserveReplacement
             \/ SaveApplied \/ FinishProposal \/ LookAfterApply
    BY <2>2 DEF StagePublication, RollbackPublication, RetireAck, ObserveReplacement,
                SaveApplied, FinishProposal, LookAfterApply, ghosts
  <2>3. ASSUME NEW p, StartApply(p) PROVE replaced' = replaced BY <2>3 DEF StartApply, ghosts
  <2> QED BY <1>3, <2>1, <2>2, <2>3 DEF Apply, ApplyStep
<1>4. CASE Pipe
  BY <1>4 DEF Pipe, SubmitRequest, PeekReply, TakeReply, PairAgain, ghosts
<1>5. CASE Interrupt \/ CloseSession \/ Tick \/ UNCHANGED vars
  BY <1>5 DEF Interrupt, CloseSession, Tick, vars, ghosts
<1> QED BY <1>1, <1>2, <1>3, <1>4, <1>5 DEF Next

(* An apply replaces the Project its proposal was computed from, with that *)
(* content and in that activation, while the proposal is in custody and    *)
(* marked; and only once (publish_review_apply).                           *)
THEOREM ReplacesTheReviewed == Spec => ReplacesItsSource
<1> DEFINE Source ==
             replaced' # replaced =>
               /\ Swap.record.proposal = run.proposal /\ Swap.record.published
               /\ origin[run.proposal].kind = "swap"
               /\ origin[run.proposal].project = session.project
               /\ origin[run.proposal].content = session.content
               /\ tracker.epoch = Swap.record.epoch
               /\ replaced[run.proposal] = 0
<1>1. ASSUME IInv, [Next]_vars PROVE Source
  <2> SUFFICES ASSUME replaced' # replaced
               PROVE  /\ Swap.record.proposal = run.proposal /\ Swap.record.published
                      /\ origin[run.proposal].kind = "swap"
                      /\ origin[run.proposal].project = session.project
                      /\ origin[run.proposal].content = session.content
                      /\ tracker.epoch = Swap.record.epoch
                      /\ replaced[run.proposal] = 0
    OBVIOUS
  <2>1. pc = "assign" BY <1>1, OnlyReplaceReplaces DEF ReplaceProject
  <2>2. Staged /\ "swap" \in Kinds /\ session.content = run.preview
    BY <1>1, <2>1 DEF IInv, StagedOK, ApplyOK, Applying
  <2>3. /\ origin[Swap.record.proposal].kind = "swap"
        /\ origin[Swap.record.proposal].content = Swap.record.preview
        /\ origin[Swap.record.proposal].project = tracker.target
    BY <1>1, <2>2 DEF IInv, OriginOK, Staged, Swap, Committed
  <2> QED BY <2>2, <2>3 DEF Staged
<1>2. IInv /\ [Next]_vars => [Source]_vars BY <1>1
<1> QED BY <1>2, Invariance, PTL DEF Spec, ReplacesItsSource

(* From the assignment an apply comes to its finish only by the rollback. *)
LEMMA OnlyRollbackFinishes ==
  ASSUME [Next]_vars, pc = "assign", pc' = "finish"
  PROVE  RollbackPublication
<1>1. ~Service
  BY DEF Service, Serve, Claim, Confirm, CheckRequest, FailRequest, RetryRequest,
         PrepareProposal, FailPublication, PublishPlain, PublishReview, PublishDuplicate
<1>2. ~Human
  BY DEF Human, Observe, Disarm, SwitchTarget, Edit, Inspect, MarkProposalStale, ResolveProposal
<1>3. CASE Apply
  BY <1>3 DEF Apply, ApplyStep, InspectForApply, StaleForApply, Recheck, ClaimProposal, CoreApply,
              StagePublication, ReplaceProject, RetireAck, ObserveReplacement, SaveApplied,
              FinishProposal, LookAfterApply, StartApply, Goto
<1>4. ~Pipe
  BY DEF Pipe, SubmitRequest, PeekReply, TakeReply, PairAgain, world
<1>5. ~(Interrupt \/ CloseSession \/ Tick \/ UNCHANGED vars)
  BY DEF Interrupt, CloseSession, Tick, vars, End
<1> QED BY <1>1, <1>2, <1>3, <1>4, <1>5 DEF Next

(* An apply that fails after it staged its undo snapshot leaves the undo   *)
(* history as it found it, the evicted snapshot included                   *)
(* (publish_review_apply's rollback).                                      *)
THEOREM RollbackRestoresUndo == Spec => UndoRestored
<1> DEFINE Restored == pc = "assign" /\ pc' = "finish" => history' = run.undo
<1>1. ASSUME IInv, [Next]_vars, pc = "assign", pc' = "finish" PROVE history' = run.undo
  <2>1. history' = Unstaged BY <1>1, OnlyRollbackFinishes DEF RollbackPublication
  <2>2. Staged /\ Typed BY <1>1 DEF IInv, StagedOK
  <2> QED BY <2>1, <2>2, UndoBack
<1>2. IInv /\ [Next]_vars => [Restored]_vars BY <1>1
<1> QED BY <1>2, Invariance, PTL DEF Spec, UndoRestored
=============================================================================
