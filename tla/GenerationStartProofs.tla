----------------------- MODULE GenerationStartProofs -----------------------
(***************************************************************************)
(* Safety of the start of a generation for every number of Projects,       *)
(* proposals, jobs, requests and outputs: one job for a proposal, nothing  *)
(* handed out that was not reviewed, the envelope of a live job kept,      *)
(* reports that are true, and outputs registered in their own Project.     *)
(***************************************************************************)
EXTENDS GenerationStart, TLAPS

Proposal == [id : Nat, epoch : Nat, pairing : Nat, preview : Contents \cup {0}]
Review == [phase : {"none", "preparing", "held"}, proposal : Proposal, certified : BOOLEAN,
           content : Contents \cup {0}, confirmed : BOOLEAN]
Request == [state : RequestStates, outputs : Nat, registered : Nat]
JobRecord == [proposal : Nat, target : Nat, pairing : Nat, state : JobStates,
              save : {"not_attempted", "saved", "save_failed", "save_uncertain"},
              count : Nat, left : Nat, reqs : [1..Requests -> Request]]
Table == UNION {[ids -> JobRecord] : ids \in SUBSET Nat}
Registry == [closed : BOOLEAN, target : Nat, jobs : Table]
Inbox == [closed : BOOLEAN,
          state : {"empty", "reserved", "offered", "accepted", "unknown", "invalidated"},
          reservation : Nat, job : Nat, left : Nat, late : BOOLEAN]
Runtime == [closed : BOOLEAN, seen : Projects, epoch : Nat, proposal : Proposal, review : Review,
            revision : Nat, registry : Registry, inbox : Inbox]
HumanCall == [step : Steps, proposal : Proposal, revision : Nat, project : Projects \cup {0},
              content : Contents \cup {0},
              view : {"none", "certified", "uncertifiable", "computation_failure", "absent", "stale",
                      "accepted", "rejected", "unknown"},
              purpose : {"none", "show", "confirm", "handoff"}, reservation : Nat, job : Nat]
Counts == [pairings : Nat, proposals : Nat, jobs : Nat, reservations : Nat]
Made == [proposal : Nat, content : Contents \cup {0}, preview : Contents \cup {0},
         confirmed : BOOLEAN]

Types ==
  /\ host \in [project : Projects, content : Contents] /\ pairing \in Nat
  /\ rt \in Runtime /\ counts \in Counts
  /\ made \in Seq(Made) /\ Len(made) = counts.jobs
  /\ taken \subseteq Ids /\ DOMAIN answers \subseteq Ids

(* Numbers are drawn before they are used. *)
Drawn ==
  /\ rt.proposal.id <= counts.proposals
  /\ \A i \in Ids : made[i].proposal <= counts.proposals
  /\ DOMAIN Jobs \subseteq Ids /\ rt.inbox.job <= counts.jobs

(* A proposal that is still pending has not been made a job. *)
Once ==
  /\ OneJobPerProposal
  /\ rt.proposal.id # 0 => \A i \in Ids : made[i].proposal # rt.proposal.id

(* A held review shows the content of its proposal's preview.              *)
Shown(v) == v.phase = "held" => v.content = v.proposal.preview
Reviewed == OfferedAsReviewed /\ Shown(rt.review)

(* The call in progress: a review that is built shows its proposal's       *)
(* preview if that proposal is still the pending one, and it is the review *)
(* in preparation unless the revision has moved on.                        *)
Asked ==
  /\ call \in HumanCall /\ call.proposal.id <= counts.proposals
  /\ call.step \in {"offered", "checking", "receipt", "settling", "started"} => call.job \in Ids
  /\ call.step \in {"building", "built"} =>
       /\ call.proposal.id # 0 /\ call.revision <= rt.revision
       /\ call.revision = rt.revision =>
            rt.review.phase = "preparing" /\ rt.review.proposal = call.proposal
  /\ call.step = "built" /\ call.view \in {"certified", "uncertifiable"}
     /\ rt.proposal = call.proposal => call.content = call.proposal.preview

(* Of a rejected job the inbox holds nothing, and an envelope that is      *)
(* still offered has not been taken; nor has that of a job started without *)
(* the inbox.                                                              *)
Told ==
  /\ \A id \in DOMAIN answers : answers[id] = "handoff_rejected" => id \notin taken /\ rt.inbox.job # id
  /\ rt.inbox.state = "offered" => rt.inbox.job \notin taken
  /\ call.step = "started" => call.job \notin taken /\ rt.inbox.job # call.job

(* What a job's state says of its requests. *)
SoundJob(j) ==
  /\ \A i \in 1..Requests :
       /\ j.reqs[i].state = "completed" => j.reqs[i].outputs > 0 /\ j.reqs[i].registered = j.reqs[i].outputs
       /\ j.reqs[i].state = "awaiting_host_registration" => j.reqs[i].outputs > 0
  /\ j.state = "completed" => \A i \in 1..Requests : j.reqs[i].state = "completed"
  /\ j.state = "partially_failed" => \E i \in 1..Requests : j.reqs[i].registered > 0
  /\ j.save # "not_attempted" => j.state \in {"completed", "partially_failed"}

(* Nothing lives in a closed registry. *)
Sound ==
  /\ \A id \in DOMAIN Jobs : SoundJob(Jobs[id])
  /\ rt.registry.closed => \A id \in DOMAIN Jobs : ~Live(Jobs[id])

IInv == Types /\ Drawn /\ Once /\ Reviewed /\ Asked /\ LiveJobPinsInbox /\ Told /\ Sound
-----------------------------------------------------------------------------
(* The registry: from r to n jobs are forgotten or end, but none appears,  *)
(* revives or becomes unsound; and with Same no request has moved.         *)
Later(r, n) ==
  /\ n \in Registry /\ DOMAIN n.jobs \subseteq DOMAIN r.jobs
  /\ \A id \in DOMAIN n.jobs : /\ Live(n.jobs[id]) => Live(r.jobs[id])
                               /\ SoundJob(r.jobs[id]) => SoundJob(n.jobs[id])
Same(r, n) ==
  \A id \in DOMAIN n.jobs : n.jobs[id].reqs = r.jobs[id].reqs /\ n.jobs[id].target = r.jobs[id].target

(* The states in which a job ends without its requests saying so. *)
Ends == Terminal \ {"completed", "partially_failed"}

(* The jobs of a registry are numbered records. *)
LEMMA JobsOf ==
  ASSUME NEW r \in Registry
  PROVE  /\ r.jobs \in [DOMAIN r.jobs -> JobRecord] /\ DOMAIN r.jobs \subseteq Nat
         /\ \A id \in DOMAIN r.jobs : r.jobs[id] \in JobRecord
BY DEF Registry, Table

(* A registry is given other jobs. *)
LEMMA WithJobs ==
  ASSUME NEW r \in Registry, NEW S \in SUBSET Nat, NEW f \in [S -> JobRecord]
  PROVE  LET n == [r EXCEPT !.jobs = f]
         IN  /\ n \in Registry /\ n.jobs = f /\ DOMAIN n.jobs = S
             /\ n.target = r.target /\ n.closed = r.closed
<1>1. f \in Table
  BY DEF Table
<1> QED BY <1>1 DEF Registry

(* A job ends. *)
LEMMA FinishLemma ==
  ASSUME NEW j \in JobRecord, NEW state \in Ends, Live(j)
  PROVE  LET n == Finish(j, state)
         IN  /\ n \in JobRecord /\ ~Live(n) /\ n.reqs = j.reqs /\ n.target = j.target
             /\ n.state = state /\ (SoundJob(j) => SoundJob(n))
<1> DEFINE n == Finish(j, state)
<1>1. /\ n \in JobRecord /\ n.reqs = j.reqs /\ n.target = j.target /\ n.state = state
      /\ n.save = j.save
  BY JobsAssumption DEF Finish, JobRecord, JobStates, Ends
<1>2. ~Live(n) /\ state # "completed" /\ state # "partially_failed"
  BY <1>1 DEF Live, Ends
<1>3. j.state # "completed" /\ j.state # "partially_failed"
  BY DEF Live, Terminal, Settled
<1> HIDE DEF n
<1>4. SoundJob(j) => SoundJob(n)
  BY <1>1, <1>2, <1>3 DEF SoundJob
<1> QED BY <1>1, <1>2, <1>4 DEF n

(* One job of the registry is replaced. *)
LEMMA SetJobLemma ==
  ASSUME NEW r \in Registry, NEW id \in DOMAIN r.jobs, NEW j \in JobRecord,
         Live(j) => Live(r.jobs[id]), SoundJob(r.jobs[id]) => SoundJob(j)
  PROVE  LET n == SetJob(r, id, j)
         IN  /\ Later(r, n) /\ n.target = r.target /\ n.closed = r.closed
             /\ DOMAIN n.jobs = DOMAIN r.jobs /\ n.jobs[id] = j
             /\ \A k \in DOMAIN r.jobs : k # id => n.jobs[k] = r.jobs[k]
<1> DEFINE f == [r.jobs EXCEPT ![id] = j]
           n == [r EXCEPT !.jobs = f]
<1>1. f \in [DOMAIN r.jobs -> JobRecord]
  BY JobsOf
<1>2. f[id] = j /\ \A k \in DOMAIN r.jobs : k # id => f[k] = r.jobs[k]
  BY JobsOf
<1> HIDE DEF f
<1>3. /\ n \in Registry /\ n.jobs = f /\ DOMAIN n.jobs = DOMAIN r.jobs
      /\ n.target = r.target /\ n.closed = r.closed
  BY <1>1, JobsOf, WithJobs
<1>4. SetJob(r, id, j) = n
  BY DEF SetJob, f, Registry
<1> HIDE DEF n
<1> QED BY <1>2, <1>3, <1>4 DEF Later

(* A job that is alive ends: what Finish and SetJob do together. *)
LEMMA EndJobLemma ==
  ASSUME NEW r \in Registry, NEW id \in DOMAIN r.jobs, NEW state \in Ends, Live(r.jobs[id])
  PROVE  LET n == SetJob(r, id, Finish(r.jobs[id], state))
         IN  /\ Later(r, n) /\ Same(r, n) /\ n.target = r.target /\ n.closed = r.closed
             /\ ~Live(n.jobs[id])
<1> DEFINE j == Finish(r.jobs[id], state)
<1>1. r.jobs[id] \in JobRecord
  BY JobsOf
<1>2. /\ j \in JobRecord /\ ~Live(j) /\ j.reqs = r.jobs[id].reqs /\ j.target = r.jobs[id].target
      /\ (SoundJob(r.jobs[id]) => SoundJob(j))
  BY <1>1, FinishLemma
<1> HIDE DEF j
<1>3. LET n == SetJob(r, id, j)
      IN  /\ Later(r, n) /\ n.target = r.target /\ n.closed = r.closed
          /\ DOMAIN n.jobs = DOMAIN r.jobs /\ n.jobs[id] = j
          /\ \A k \in DOMAIN r.jobs : k # id => n.jobs[k] = r.jobs[k]
  BY <1>2, SetJobLemma
<1> QED BY <1>2, <1>3 DEF Same, j

(* Passed deadlines: some jobs are forgotten, others time out. *)
LEMMA CleanupLemma ==
  ASSUME NEW r \in Registry
  PROVE  LET n == Cleanup(r)
         IN  Later(r, n) /\ Same(r, n) /\ n.target = r.target /\ n.closed = r.closed
<1> DEFINE kept == {id \in DOMAIN r.jobs : r.jobs[id].left > 0 \/ Live(r.jobs[id])}
           f == [id \in kept |-> IF r.jobs[id].left = 0 THEN Finish(r.jobs[id], "unavailable") ELSE r.jobs[id]]
<1>1. "unavailable" \in Ends
  BY DEF Ends, Terminal, Settled
<1>2. ASSUME NEW id \in kept
      PROVE  /\ f[id] \in JobRecord /\ (Live(f[id]) => Live(r.jobs[id]))
             /\ f[id].reqs = r.jobs[id].reqs /\ f[id].target = r.jobs[id].target
             /\ (SoundJob(r.jobs[id]) => SoundJob(f[id]))
  <2>1. r.jobs[id] \in JobRecord /\ (r.jobs[id].left > 0 \/ Live(r.jobs[id]))
    BY JobsOf
  <2>2. CASE r.jobs[id].left = 0
    BY <1>1, <2>1, <2>2, FinishLemma
  <2>3. CASE r.jobs[id].left # 0
    BY <2>1, <2>3
  <2> QED BY <2>2, <2>3
<1>3. kept \in SUBSET Nat /\ kept \subseteq DOMAIN r.jobs
  BY JobsOf
<1>4. f \in [kept -> JobRecord]
  BY <1>2
<1>5. Cleanup(r) = [r EXCEPT !.jobs = f]
  BY DEF Cleanup
<1> HIDE DEF f, kept
<1> QED BY <1>2, <1>3, <1>4, <1>5, WithJobs DEF Later, Same

(* Some of the jobs end. *)
LEMMA FinishAllLemma ==
  ASSUME NEW r \in Registry, NEW ids, NEW state \in Ends
  PROVE  LET n == FinishAll(r, ids, state)
         IN  /\ Later(r, n) /\ Same(r, n) /\ n.target = r.target /\ n.closed = r.closed
             /\ \A id \in DOMAIN n.jobs : id \in ids => ~Live(n.jobs[id])
<1> DEFINE f == [id \in DOMAIN r.jobs |->
                   IF id \in ids /\ Live(r.jobs[id]) THEN Finish(r.jobs[id], state) ELSE r.jobs[id]]
<1>1. ASSUME NEW id \in DOMAIN r.jobs
      PROVE  /\ f[id] \in JobRecord /\ (Live(f[id]) => Live(r.jobs[id]) /\ id \notin ids)
             /\ f[id].reqs = r.jobs[id].reqs /\ f[id].target = r.jobs[id].target
             /\ (SoundJob(r.jobs[id]) => SoundJob(f[id]))
  BY JobsOf, FinishLemma
<1>2. f \in [DOMAIN r.jobs -> JobRecord] /\ DOMAIN r.jobs \in SUBSET Nat
  BY <1>1, JobsOf
<1>3. FinishAll(r, ids, state) = [r EXCEPT !.jobs = f]
  BY DEF FinishAll
<1> HIDE DEF f
<1> QED BY <1>1, <1>2, <1>3, WithJobs DEF Later, Same

(* Two things that happen one after the other. *)
LEMMA LaterTwice ==
  ASSUME NEW r, NEW m, NEW n, Later(r, m), Later(m, n)
  PROVE  Later(r, n) /\ (Same(r, m) /\ Same(m, n) => Same(r, n))
BY DEF Later, Same

(* The target is synchronized. *)
LEMMA SynchronizeTargetLemma ==
  ASSUME NEW r \in Registry, NEW target \in Nat
  PROVE  LET n == SynchronizeTarget(r, target)
         IN  Later(r, n) /\ Same(r, n) /\ n.target = target /\ n.closed = r.closed
<1> DEFINE c == Cleanup(r)
           d == [c EXCEPT !.target = target]
           n == FinishAll(d, {id \in DOMAIN c.jobs : c.jobs[id].target # target},
                          "stale_target_outputs_not_registered")
<1>1. Later(r, c) /\ Same(r, c) /\ c \in Registry /\ c.closed = r.closed
  BY CleanupLemma DEF Later
<1> HIDE DEF c
<1>2. d \in Registry /\ d.jobs = c.jobs /\ d.target = target /\ d.closed = c.closed
  BY <1>1 DEF Registry
<1> HIDE DEF d
<1>3. Later(c, d) /\ Same(c, d)
  BY <1>2 DEF Later, Same
<1>4. "stale_target_outputs_not_registered" \in Ends
  BY DEF Ends, Terminal, Settled
<1>5. Later(d, n) /\ Same(d, n) /\ n.target = target /\ n.closed = d.closed
  BY <1>2, <1>4, FinishAllLemma
<1>6. SynchronizeTarget(r, target) = n
  BY DEF SynchronizeTarget, c, d
<1> HIDE DEF n
<1> QED BY <1>1, <1>2, <1>3, <1>5, <1>6, LaterTwice

(* The invalidation of every job, and the end of the registry. *)
LEMMA InvalidateLemma ==
  ASSUME NEW r \in Registry
  PROVE  LET n == InvalidateExecutionCustody(r)
             c == CloseRegistry(r)
         IN  /\ Later(r, n) /\ Same(r, n) /\ \A id \in DOMAIN n.jobs : ~Live(n.jobs[id])
             /\ n.target = r.target
             /\ Later(r, c) /\ Same(r, c) /\ \A id \in DOMAIN c.jobs : ~Live(c.jobs[id])
<1> DEFINE n == InvalidateExecutionCustody(r)
           c == CloseRegistry(r)
<1>1. "unavailable" \in Ends
  BY DEF Ends, Terminal, Settled
<1>2. Later(r, n) /\ Same(r, n) /\ n.target = r.target /\ \A id \in DOMAIN n.jobs : ~Live(n.jobs[id])
  <2>1. DOMAIN n.jobs \subseteq DOMAIN r.jobs
    BY <1>1, FinishAllLemma DEF InvalidateExecutionCustody, Later
  <2> QED BY <1>1, <2>1, FinishAllLemma DEF InvalidateExecutionCustody
<1>3. c = [n EXCEPT !.closed = TRUE]
  BY DEF CloseRegistry
<1> HIDE DEF c, n
<1>4. c \in Registry /\ c.jobs = n.jobs
  BY <1>2, <1>3 DEF Registry, Later
<1> QED BY <1>2, <1>4 DEF Later, Same, n, c

(* The job's state follows its requests. *)
LEMMA AggregateLemma ==
  ASSUME NEW j \in JobRecord, Live(j), SoundJob(j)
  PROVE  LET n == Aggregate(j)
         IN  n \in JobRecord /\ SoundJob(n) /\ n.reqs = j.reqs /\ n.target = j.target
<1> DEFINE n == Aggregate(j)
           states == {j.reqs[i].state : i \in 1..Requests}
           ended == IF states = {"completed"} THEN "completed"
                    ELSE IF \E i \in 1..Requests : j.reqs[i].registered > 0
                    THEN "partially_failed" ELSE "failed"
<1>1. j.save = "not_attempted"
  BY DEF SoundJob, Live, Terminal, Settled
<1>2. CASE states \subseteq Settled
  <2>1. n = [j EXCEPT !.state = ended, !.left = TerminalTTL]
    BY <1>2 DEF Aggregate, Finish
  <2>2. ended \in JobStates
    BY DEF JobStates, Terminal, Settled
  <2>3. ended = "completed" => \A i \in 1..Requests : j.reqs[i].state = "completed"
    OBVIOUS
  <2>4. ended = "partially_failed" => \E i \in 1..Requests : j.reqs[i].registered > 0
    OBVIOUS
  <2> HIDE DEF ended
  <2>5. /\ n \in JobRecord /\ n.reqs = j.reqs /\ n.target = j.target /\ n.save = j.save
        /\ n.state = ended
    BY <2>1, <2>2, JobsAssumption DEF JobRecord
  <2> QED BY <1>1, <2>3, <2>4, <2>5 DEF SoundJob
<1>3. CASE ~(states \subseteq Settled)
  <2> DEFINE s == IF "submitting" \in states THEN "running" ELSE "awaiting_result"
  <2>1. n = [j EXCEPT !.state = s] /\ s \in JobStates /\ s # "completed" /\ s # "partially_failed"
    BY <1>3 DEF Aggregate, JobStates
  <2> HIDE DEF s
  <2>2. /\ n \in JobRecord /\ n.reqs = j.reqs /\ n.target = j.target /\ n.save = j.save /\ n.state = s
    BY <2>1 DEF JobRecord
  <2> QED BY <1>1, <2>1, <2>2 DEF SoundJob
<1> QED BY <1>2, <1>3

(* One request of a live job moves on. *)
LEMMA RequestLemma ==
  ASSUME NEW j \in JobRecord, Live(j), SoundJob(j), NEW i \in 1..Requests, NEW q \in Request,
         q.state = "completed" => q.outputs > 0 /\ q.registered = q.outputs,
         q.state = "awaiting_host_registration" => q.outputs > 0
  PROVE  LET n == [j EXCEPT !.reqs[i] = q]
         IN  /\ n \in JobRecord /\ Live(n) /\ SoundJob(n) /\ n.target = j.target /\ n.count = j.count
             /\ n.reqs = [j.reqs EXCEPT ![i] = q]
<1> DEFINE n == [j EXCEPT !.reqs[i] = q]
<1>1. /\ n \in JobRecord /\ n.target = j.target /\ n.reqs = [j.reqs EXCEPT ![i] = q]
      /\ n.state = j.state /\ n.save = j.save /\ n.count = j.count
  BY DEF JobRecord
<1> HIDE DEF n
<1>2. \A k \in 1..Requests : n.reqs[k] = IF k = i THEN q ELSE j.reqs[k]
  BY <1>1 DEF JobRecord
<1>3. Live(n) /\ j.save = "not_attempted" /\ n.state # "completed" /\ n.state # "partially_failed"
  BY <1>1 DEF Live, SoundJob, Terminal, Settled
<1>4. SoundJob(n)
  BY <1>1, <1>2, <1>3 DEF SoundJob
<1> QED BY <1>1, <1>3, <1>4 DEF n

(* What an event may be. *)
Event == [sequence : Nat, index : 1..Requests, kind : Kinds, outputs : Nat]

(* An accepted event moves its request to a state that fits its outputs.   *)
LEMMA EventLemma ==
  ASSUME NEW j \in JobRecord, Live(j), SoundJob(j), NEW e \in Event, EventAccepted(j, e),
         e.kind \in OutputKinds => e.outputs > 0
  PROVE  LET n == ApplyEvent(j, e) IN n \in JobRecord /\ SoundJob(n) /\ n.target = j.target
<1> DEFINE i == e.index
           after == After(j.reqs[i].state, e.kind)
           keeps == e.kind \in {"remote_outputs_ready", "execution_progress", "execution_timeout"}
           o == IF keeps THEN j.reqs[i].outputs ELSE e.outputs
           q == [j.reqs[i] EXCEPT !.state = after, !.outputs = o]
           m == [j EXCEPT !.count = j.count + 1]
           next == [m EXCEPT !.reqs[i] = q]
<1>1. i \in 1..Requests /\ j.reqs[i] \in Request /\ o \in Nat
  BY DEF JobRecord, Event, Request
<1>2. after \in {"submitting", "awaiting_result", "awaiting_download", "awaiting_host_registration",
                 "failed", "submission_outcome_unknown"}
  BY DEF EventAccepted, After
<1>3. after = "awaiting_host_registration" => e.kind = "outputs_ready"
  BY DEF After
<1>4. q \in Request /\ q.state = after /\ q.outputs = o
  <2> HIDE DEF after, o
  <2> QED BY <1>1, <1>2 DEF Request, RequestStates, Settled
<1>5. q.state # "completed" /\ (q.state = "awaiting_host_registration" => q.outputs > 0)
  <2>1. e.kind = "outputs_ready" => o > 0
    BY DEF OutputKinds
  <2> QED BY <1>2, <1>3, <1>4, <2>1
<1>6. /\ m \in JobRecord /\ m.reqs = j.reqs /\ m.target = j.target /\ m.state = j.state
      /\ m.save = j.save
  BY DEF JobRecord
<1>7. Live(m) /\ SoundJob(m)
  BY <1>6 DEF Live, SoundJob
<1>8. ApplyEvent(j, e) =
        LET n == [j EXCEPT !.count = j.count + 1, !.reqs[i] = q]
        IN  IF after = "submission_outcome_unknown" THEN Finish(n, after) ELSE Aggregate(n)
  BY DEF ApplyEvent
<1> HIDE DEF q
<1>9. [j EXCEPT !.count = j.count + 1, !.reqs[i] = q] = next
  BY DEF JobRecord
<1> HIDE DEF m
<1>10. next \in JobRecord /\ Live(next) /\ SoundJob(next) /\ next.target = m.target
  BY <1>1, <1>4, <1>5, <1>6, <1>7, RequestLemma
<1> HIDE DEF next
<1>11. "submission_outcome_unknown" \in Ends
  BY DEF Ends, Terminal, Settled
<1>12. ApplyEvent(j, e) = IF after = "submission_outcome_unknown" THEN Finish(next, after) ELSE Aggregate(next)
  BY <1>8, <1>9
<1> QED BY <1>6, <1>10, <1>11, <1>12, FinishLemma, AggregateLemma

(* A step of the registry that is no event: nothing appears or revives,    *)
(* and requests move only in the registry's own target.                    *)
Moves(r, n) ==
  /\ Later(r, n) /\ n.target = r.target /\ n.closed = r.closed
  /\ \A id \in DOMAIN n.jobs : /\ n.jobs[id].target = r.jobs[id].target
                               /\ n.jobs[id].reqs # r.jobs[id].reqs => n.jobs[id].target = r.target

(* Outputs are registered. *)
LEMMA PublicationLemma ==
  ASSUME NEW r \in Registry, \A id \in DOMAIN r.jobs : SoundJob(r.jobs[id]),
         NEW id, NEW binding, NEW i \in 1..Requests, NEW n \in Nat
  PROVE  Moves(r, Publication(r, id, binding, i, n))
<1> DEFINE c == Cleanup(r)
           j == c.jobs[id]
           req == j.reqs[i]
           q == [req EXCEPT !.registered = n,
                            !.state = IF n = req.outputs THEN "completed"
                                      ELSE IF n > 0 THEN "partially_failed" ELSE "failed"]
           next == [j EXCEPT !.reqs[i] = q]
           done == Aggregate(next)
           end == Finish(j, "stale_target_outputs_not_registered")
<1>1. Later(r, c) /\ Same(r, c) /\ c.target = r.target /\ c.closed = r.closed
  BY CleanupLemma
<1>2. Moves(r, c) /\ c \in Registry
  BY <1>1 DEF Moves, Later, Same
<1>3. \A k \in DOMAIN c.jobs : SoundJob(c.jobs[k]) /\ c.jobs[k] \in JobRecord
  BY <1>1, <1>2, JobsOf DEF Later
<1> HIDE DEF c
<1>4. ASSUME Has(c, id), Live(j) PROVE Moves(r, SetJob(c, id, end))
  <2>1. "stale_target_outputs_not_registered" \in Ends
    BY DEF Ends, Terminal, Settled
  <2>2. LET m == SetJob(c, id, end) IN Later(c, m) /\ Same(c, m) /\ m.target = c.target /\ m.closed = c.closed
    BY <1>2, <1>4, <2>1, EndJobLemma DEF Has
  <2> HIDE DEF end
  <2> QED BY <1>1, <2>2, LaterTwice DEF Moves, Same
<1>5. ASSUME Has(c, id), Live(j), binding = j.target, binding = c.target,
             req.state = "awaiting_host_registration", n <= req.outputs
      PROVE  Moves(r, SetJob(c, id, done))
  <2>0. j \in JobRecord /\ SoundJob(j)
    BY <1>3, <1>5 DEF Has
  <2>1. req \in Request /\ req.outputs > 0
    <3> HIDE DEF j
    <3>1. req \in Request
      BY <2>0 DEF JobRecord
    <3> QED BY <1>5, <2>0, <3>1 DEF SoundJob
  <2> HIDE DEF j, req
  <2>2. q \in Request /\ (q.state = "completed" => q.outputs > 0 /\ q.registered = q.outputs)
        /\ q.state # "awaiting_host_registration"
    BY <2>1 DEF Request, RequestStates, Settled
  <2> HIDE DEF q
  <2>3. next \in JobRecord /\ Live(next) /\ SoundJob(next) /\ next.target = j.target
    BY <1>5, <2>0, <2>1, <2>2, RequestLemma
  <2> HIDE DEF next
  <2>4. done \in JobRecord /\ SoundJob(done) /\ done.target = j.target
    BY <2>3, AggregateLemma
  <2> HIDE DEF done
  <2>5. LET m == SetJob(c, id, done)
        IN  /\ Later(c, m) /\ m.target = c.target /\ m.closed = c.closed
            /\ DOMAIN m.jobs = DOMAIN c.jobs /\ m.jobs[id] = done
            /\ \A k \in DOMAIN c.jobs : k # id => m.jobs[k] = c.jobs[k]
    BY <1>2, <1>5, <2>4, SetJobLemma DEF Has, j
  <2>6. c.jobs[id].target = c.target /\ done.target = c.jobs[id].target
    BY <1>5, <2>4 DEF j
  <2> QED BY <1>1, <2>5, <2>6, LaterTwice DEF Moves, Same
<1>6. Publication(r, id, binding, i, n) \in {c, SetJob(c, id, end), SetJob(c, id, done)}
  BY DEF Publication, c
<1>7. CASE Publication(r, id, binding, i, n) = c
  BY <1>2, <1>7
<1>8. CASE Has(c, id) /\ Live(j) /\ Publication(r, id, binding, i, n) = SetJob(c, id, end)
  BY <1>4, <1>8
<1>9. CASE /\ Has(c, id) /\ Live(j) /\ binding = j.target /\ binding = c.target
           /\ req.state = "awaiting_host_registration" /\ n <= req.outputs
           /\ Publication(r, id, binding, i, n) = SetJob(c, id, done)
  BY <1>5, <1>9
<1>10. Has(c, id) /\ Live(j) => j \in JobRecord /\ req \in Request
  BY <1>3 DEF Has, JobRecord
<1> QED BY <1>7, <1>8, <1>9, <1>10, SMTT(30) DEF Publication, c, Request

(* The outcome of a save is recorded with a job that has outputs. *)
LEMMA SaveLemma ==
  ASSUME NEW r \in Registry, NEW id, NEW binding, NEW outcome \in {"saved", "save_failed", "save_uncertain"}
  PROVE  Moves(r, Save(r, id, binding, outcome))
<1> DEFINE c == Cleanup(r)
           j == c.jobs[id]
           n == [j EXCEPT !.save = outcome]
<1>1. Later(r, c) /\ Same(r, c) /\ c.target = r.target /\ c.closed = r.closed
  BY CleanupLemma
<1>2. Moves(r, c) /\ c \in Registry
  BY <1>1 DEF Moves, Later, Same
<1> HIDE DEF c
<1>3. ASSUME Has(c, id), j.state \in {"completed", "partially_failed"} PROVE Moves(r, SetJob(c, id, n))
  <2>1. j \in JobRecord
    BY <1>2, <1>3, JobsOf DEF Has
  <2>2. n \in JobRecord /\ n.reqs = j.reqs /\ n.target = j.target /\ n.state = j.state
    BY <2>1 DEF JobRecord
  <2>3. Live(n) <=> Live(j)
    BY <2>2 DEF Live
  <2>4. SoundJob(j) => SoundJob(n)
    BY <1>3, <2>2 DEF SoundJob
  <2> HIDE DEF n
  <2>5. LET m == SetJob(c, id, n)
        IN  /\ Later(c, m) /\ m.target = c.target /\ m.closed = c.closed
            /\ DOMAIN m.jobs = DOMAIN c.jobs /\ m.jobs[id] = n
            /\ \A k \in DOMAIN c.jobs : k # id => m.jobs[k] = c.jobs[k]
    BY <1>2, <1>3, <2>2, <2>3, <2>4, SetJobLemma DEF Has
  <2>6. Same(c, SetJob(c, id, n))
    BY <2>2, <2>5 DEF Same
  <2> QED BY <1>1, <2>5, <2>6, LaterTwice DEF Moves, Same
<1> QED BY <1>2, <1>3 DEF Save, c

(* A job that nobody has started is cancelled. *)
LEMMA CancelLemma ==
  ASSUME NEW r \in Registry, NEW id
  PROVE  Moves(r, CancelBeforeSubmission(r, id)) /\ Same(r, CancelBeforeSubmission(r, id))
<1> DEFINE c == Cleanup(r)
           m == SetJob(c, id, Finish(c.jobs[id], "cancelled"))
<1>1. Later(r, c) /\ Same(r, c) /\ c.target = r.target /\ c.closed = r.closed
  BY CleanupLemma
<1>2. Moves(r, c) /\ Same(r, c) /\ c \in Registry /\ "cancelled" \in Ends
  BY <1>1 DEF Moves, Later, Same, Ends, Terminal, Settled
<1> HIDE DEF c
<1>3. Has(c, id) /\ Live(c.jobs[id]) => Later(c, m) /\ Same(c, m) /\ m.target = c.target /\ m.closed = c.closed
  BY <1>2, EndJobLemma DEF Has
<1>4. Has(c, id) /\ Live(c.jobs[id]) => Moves(r, m) /\ Same(r, m)
  BY <1>1, <1>3, LaterTwice DEF Moves, Same
<1> QED BY <1>2, <1>4 DEF CancelBeforeSubmission, c

(* The start without the inbox is settled. *)
LEMMA SettleHandoffLemma ==
  ASSUME NEW r \in Registry, NEW id, NEW outcome
  PROVE  Moves(r, SettleHandoff(r, id, outcome)) /\ Same(r, SettleHandoff(r, id, outcome))
<1> DEFINE end == IF outcome = "rejected" THEN "failed" ELSE "submission_outcome_unknown"
           m == SetJob(r, id, Finish(r.jobs[id], end))
<1>1. end \in Ends
  BY DEF Ends, Terminal, Settled
<1>2. Moves(r, r) /\ Same(r, r)
  BY DEF Moves, Later, Same
<1>3. ASSUME Has(r, id), r.jobs[id].state = "claimed" PROVE Moves(r, m) /\ Same(r, m)
  <2>1. Live(r.jobs[id])
    BY <1>3 DEF Live, Terminal, Settled
  <2> HIDE DEF end
  <2>2. Later(r, m) /\ Same(r, m) /\ m.target = r.target /\ m.closed = r.closed
    BY <1>1, <1>3, <2>1, EndJobLemma DEF Has
  <2> QED BY <2>2 DEF Moves, Same
<1> QED BY <1>2, <1>3 DEF SettleHandoff

(* A handoff is settled: a live job of it ends. *)
LEMMA SettleJobLemma ==
  ASSUME NEW r \in Registry, NEW x, NEW id, NEW outcome
  PROVE  LET n == SettleJob(r, x, id, outcome)
         IN  /\ Moves(r, n) /\ Same(r, n)
             /\ ~r.closed => (id \in DOMAIN n.jobs => ~Live(n.jobs[id]))
<1> DEFINE end == IF SettledAs(x, outcome) = "rejected" THEN "failed" ELSE "submission_outcome_unknown"
           m == SetJob(r, id, Finish(r.jobs[id], end))
<1>1. end \in Ends
  BY DEF Ends, Terminal, Settled
<1>2. Moves(r, r) /\ Same(r, r)
  BY DEF Moves, Later, Same
<1>3. ASSUME Has(r, id), Live(r.jobs[id]) PROVE Moves(r, m) /\ Same(r, m) /\ ~Live(m.jobs[id])
  <2> HIDE DEF end
  <2>1. Later(r, m) /\ Same(r, m) /\ m.target = r.target /\ m.closed = r.closed /\ ~Live(m.jobs[id])
    BY <1>1, <1>3, EndJobLemma DEF Has
  <2> QED BY <2>1 DEF Moves, Same
<1> QED BY <1>2, <1>3 DEF SettleJob, Has

(* A new job is sound, and the oldest gives way to it. *)
LEMMA ClaimLemma ==
  ASSUME NEW r \in Registry, NEW new \in Nat, new \notin DOMAIN r.jobs,
         NEW proposal \in Nat, NEW target \in Nat, NEW pair \in Nat,
         NEW j, j = NewJob(proposal, target, pair), NEW n, n = ClaimAuthorized(r, new, j)
  PROVE  /\ n \in Registry /\ n.target = r.target /\ n.closed = r.closed
         /\ DOMAIN n.jobs \subseteq DOMAIN r.jobs \cup {new} /\ new \in DOMAIN n.jobs
         /\ n.jobs[new] = j /\ SoundJob(j)
         /\ \A id \in DOMAIN n.jobs : id # new => n.jobs[id] = r.jobs[id]
<1> DEFINE ids == DOMAIN r.jobs
           kept == IF Cardinality(ids) < MaxJobs THEN ids ELSE {id \in ids : \E k \in ids : k < id}
           f == [id \in kept \cup {new} |-> IF id = new THEN j ELSE r.jobs[id]]
<1>1. j \in JobRecord
  BY JobsAssumption DEF NewJob, JobRecord, JobStates, Request, RequestStates
<1>2. SoundJob(j)
  BY DEF NewJob, SoundJob
<1>3. kept \subseteq ids /\ ids \subseteq Nat
  BY JobsOf
<1>4. ClaimAuthorized(r, new, j) = [r EXCEPT !.jobs = f]
  BY DEF ClaimAuthorized
<1> HIDE DEF kept
<1>5. f \in [kept \cup {new} -> JobRecord] /\ kept \cup {new} \in SUBSET Nat
  BY <1>1, <1>3, JobsOf
<1>6. f[new] = j /\ \A id \in kept : id # new => f[id] = r.jobs[id]
  OBVIOUS
<1> HIDE DEF f
<1>7. DOMAIN n.jobs = kept \cup {new} /\ n.jobs = f /\ n \in Registry
      /\ n.target = r.target /\ n.closed = r.closed
  BY <1>4, <1>5, WithJobs
<1> QED BY <1>2, <1>3, <1>6, <1>7
-----------------------------------------------------------------------------
(* The runtime: from r to n the proposal may be lost, jobs may end, and no *)
(* review appears that does not show its proposal.                         *)
Quiet(r, n) ==
  /\ n \in Runtime /\ n.proposal \in {r.proposal, NoProposal}
  /\ Shown(r.review) => Shown(n.review)
  /\ Later(r.registry, n.registry)
  /\ n.registry.closed => r.registry.closed \/ \A id \in DOMAIN n.registry.jobs : ~Live(n.registry.jobs[id])

(* A change of the review is a new revision. *)
Steady(r, n) == r.revision <= n.revision /\ (r.revision = n.revision => n.review = r.review)

(* The target is the host's Project, and the registry knows it. *)
Aligned(n) == n.registry.target = n.epoch /\ n.seen = host.project

HostOK == host \in [project : Projects, content : Contents]

(* Nothing happens to the runtime. *)
LEMMA QuietSelf ==
  ASSUME NEW r \in Runtime
  PROVE  Quiet(r, r) /\ Steady(r, r) /\ Same(r.registry, r.registry) /\ r.registry \in Registry
<1>1. r.registry \in Registry /\ r.revision \in Nat
  BY DEF Runtime
<1> QED BY <1>1 DEF Quiet, Steady, Same, Later

(* One thing after another happens to the runtime. *)
LEMMA QuietTwice ==
  ASSUME NEW r, NEW m, NEW n, r.revision \in Nat, m.revision \in Nat, n.revision \in Nat,
         Quiet(r, m), Quiet(m, n)
  PROVE  Quiet(r, n) /\ (Steady(r, m) /\ Steady(m, n) => Steady(r, n))
<1>1. Later(r.registry, n.registry)
  BY LaterTwice DEF Quiet
<1>2. m.registry.closed /\ n.registry.closed =>
        r.registry.closed \/ \A id \in DOMAIN n.registry.jobs : ~Live(n.registry.jobs[id])
  BY DEF Quiet, Later
<1>3. Quiet(r, n)
  BY <1>1, <1>2 DEF Quiet
<1>4. Steady(r, m) /\ Steady(m, n) => Steady(r, n)
  BY DEF Steady
<1> QED BY <1>3, <1>4

(* The review is cleared. *)
LEMMA ClearLemma ==
  ASSUME NEW r \in Runtime
  PROVE  LET n == Clear(r)
         IN  /\ Quiet(r, n) /\ Steady(r, n) /\ n \in Runtime /\ n.review.phase = "none"
             /\ n.closed = r.closed /\ n.seen = r.seen /\ n.epoch = r.epoch
             /\ n.proposal = r.proposal /\ n.registry = r.registry /\ n.inbox = r.inbox
<1> DEFINE n == Clear(r)
<1>1. CASE r.review.phase = "none"
  BY <1>1, QuietSelf DEF Clear
<1>2. CASE r.review.phase # "none"
  <2> DEFINE next == r.revision + 1
  <2>0. r.revision \in Nat /\ next \in Nat /\ r.registry \in Registry
    BY DEF Runtime
  <2>1. n = [r EXCEPT !.review = NoReview, !.revision = next]
    BY <1>2 DEF Clear
  <2>2. NoReview \in Review /\ NoReview.phase = "none"
    BY DEF NoReview, Review, NoProposal, Proposal
  <2> HIDE DEF next
  <2>3. /\ n \in Runtime /\ n.review = NoReview /\ n.revision = next
        /\ n.closed = r.closed /\ n.seen = r.seen /\ n.epoch = r.epoch
        /\ n.proposal = r.proposal /\ n.registry = r.registry /\ n.inbox = r.inbox
    BY <2>0, <2>1, <2>2 DEF Runtime
  <2> HIDE DEF n
  <2>4. Quiet(r, n)
    BY <2>0, <2>2, <2>3 DEF Quiet, Shown, Later
  <2>5. Steady(r, n)
    BY <2>0, <2>3 DEF Steady, next
  <2> QED BY <2>2, <2>3, <2>4, <2>5 DEF n
<1> QED BY <1>1, <1>2

(* The runtime follows the host's Project. *)
LEMMA SynchronizeLemma ==
  ASSUME NEW r \in Runtime, HostOK
  PROVE  LET n == Synchronize(r)
         IN  /\ n \in Runtime /\ Quiet(r, n) /\ Steady(r, n) /\ Aligned(n)
             /\ Same(r.registry, n.registry) /\ n.inbox = r.inbox /\ n.closed = r.closed
             /\ n.registry.closed = r.registry.closed
<1> DEFINE e == Epoch(r)
           p == IF r.proposal.epoch = e THEN r.proposal ELSE NoProposal
           g == SynchronizeTarget(r.registry, e)
           m == [r EXCEPT !.seen = host.project, !.epoch = e, !.proposal = p, !.registry = g]
           n == Prune(m)
<1>1. r.registry \in Registry /\ r.revision \in Nat /\ r.epoch \in Nat /\ r.proposal \in Proposal
  BY DEF Runtime
<1>2. e \in Nat
  BY <1>1 DEF Epoch
<1>3. Synchronize(r) = n
  BY DEF Synchronize
<1> HIDE DEF e
<1>4. p \in Proposal /\ p \in {r.proposal, NoProposal}
  BY <1>1 DEF Proposal, NoProposal
<1>5. Later(r.registry, g) /\ Same(r.registry, g) /\ g.target = e /\ g.closed = r.registry.closed
      /\ g \in Registry
  BY <1>1, <1>2, SynchronizeTargetLemma DEF Later
<1> HIDE DEF p, g
<1>6. /\ m \in Runtime /\ m.seen = host.project /\ m.epoch = e /\ m.proposal = p /\ m.registry = g
      /\ m.review = r.review /\ m.revision = r.revision /\ m.inbox = r.inbox /\ m.closed = r.closed
  BY <1>2, <1>4, <1>5 DEF Runtime, HostOK
<1> HIDE DEF m
<1>7. Quiet(r, m) /\ Steady(r, m)
  BY <1>1, <1>4, <1>5, <1>6 DEF Quiet, Steady
<1>8. n \in {m, Clear(m)}
  BY DEF Prune
<1>9. /\ n \in Runtime /\ Quiet(m, n) /\ Steady(m, n) /\ n.registry = g /\ n.inbox = r.inbox
      /\ n.closed = r.closed /\ n.seen = host.project /\ n.epoch = e
  BY <1>6, <1>8, ClearLemma, QuietSelf
<1> HIDE DEF n
<1>10. Quiet(r, n) /\ Steady(r, n)
  <2>1. m.revision \in Nat /\ n.revision \in Nat
    BY <1>6, <1>9 DEF Runtime
  <2> QED BY <1>1, <1>7, <1>9, <2>1, QuietTwice
<1>11. Aligned(n)
  BY <1>5, <1>9 DEF Aligned
<1> QED BY <1>3, <1>5, <1>9, <1>10, <1>11

(* The pending proposal is looked up, after the target. *)
LEMMA RecordLockedLemma ==
  ASSUME NEW r \in Runtime, HostOK
  PROVE  LET n == RecordLocked(r)
         IN  /\ n \in Runtime /\ Quiet(r, n) /\ Steady(r, n) /\ Aligned(n)
             /\ Same(r.registry, n.registry) /\ n.inbox = r.inbox /\ n.closed = r.closed
             /\ n.registry.closed = r.registry.closed
<1> DEFINE s == Synchronize(r)
           n == RecordLocked(r)
<1>1. /\ s \in Runtime /\ Quiet(r, s) /\ Steady(r, s) /\ Aligned(s)
      /\ Same(r.registry, s.registry) /\ s.inbox = r.inbox /\ s.closed = r.closed
      /\ s.registry.closed = r.registry.closed
  BY SynchronizeLemma
<1>2. n \in {s, Clear(s)}
  BY DEF RecordLocked
<1> HIDE DEF s, n
<1>3. /\ n \in Runtime /\ Quiet(s, n) /\ Steady(s, n) /\ n.registry = s.registry /\ n.inbox = s.inbox
      /\ n.closed = s.closed /\ n.seen = s.seen /\ n.epoch = s.epoch
  BY <1>1, <1>2, ClearLemma, QuietSelf
<1>4. Quiet(r, n) /\ Steady(r, n)
  <2>1. r.revision \in Nat /\ s.revision \in Nat /\ n.revision \in Nat
    BY <1>1, <1>3 DEF Runtime
  <2> QED BY <1>1, <1>3, <2>1, QuietTwice
<1>5. Aligned(n)
  BY <1>1, <1>3 DEF Aligned
<1> QED BY <1>1, <1>3, <1>4, <1>5 DEF n
-----------------------------------------------------------------------------
(* The parts of a step. *)

(* Requests move only in the Project their job was started from.           *)
Placed ==
  \A id \in DOMAIN Jobs \cap DOMAIN Jobs' :
    Jobs[id].reqs # Jobs'[id].reqs => Jobs'[id].target = rt'.epoch /\ rt'.seen = host.project

(* The inbox keeps its envelope, or nothing that lives needs it.           *)
Pinned ==
  /\ rt'.inbox.job \in {rt.inbox.job, 0}
  /\ \/ rt'.inbox.job = rt.inbox.job /\ rt'.inbox.state \in {rt.inbox.state, "accepted"}
     \/ \A id \in DOMAIN Jobs' : made[id].confirmed => ~Live(Jobs'[id])

(* No requests move with the jobs' requests as they were. *)
LEMMA PlacedSame ==
  ASSUME Same(rt.registry, rt'.registry) PROVE Placed
BY DEF Same, Placed, Jobs

(* A quiet step with its call and its reports in order keeps the invariant. *)
LEMMA CalmLemma ==
  ASSUME IInv, Quiet(rt, rt'), Pinned,
         host' \in [project : Projects, content : Contents], pairing' \in Nat,
         made' = made, counts' \in Counts, counts'.jobs = counts.jobs,
         counts.proposals <= counts'.proposals,
         taken' \subseteq Ids, DOMAIN answers' \subseteq Ids, Asked', Told'
  PROVE  IInv'
<1> USE DEF IInv
<1>1. Ids' = Ids /\ \A i \in Ids : i # 0
  BY DEF Ids, Types, Counts
<1>2. rt \in Runtime /\ rt' \in Runtime /\ rt.inbox \in Inbox /\ rt'.inbox \in Inbox
      /\ counts \in Counts /\ counts' \in Counts
  BY DEF Types, Quiet, Runtime
<1>3. Types'
  BY <1>1, <1>2 DEF Types
<1>4. rt'.proposal.id <= counts'.proposals
  BY <1>2 DEF Quiet, Drawn, NoProposal, Runtime, Proposal, Counts
<1>5. \A i \in Ids : made[i].proposal \in Nat
  <2>1. made \in Seq(Made) /\ \A i \in Ids : i \in 1..Len(made)
    BY DEF Types, Ids
  <2>2. \A i \in Ids : made[i] \in Made
    BY <2>1
  <2> QED BY <2>2 DEF Made
<1>6. Drawn'
  <2>1. \A i \in Ids : made'[i].proposal <= counts'.proposals
    BY <1>2, <1>5 DEF Drawn, Counts
  <2>2. DOMAIN Jobs' \subseteq Ids
    BY DEF Drawn, Quiet, Later, Jobs
  <2>3. rt'.inbox.job <= counts'.jobs
    BY <1>2 DEF Drawn, Pinned, Counts
  <2> QED BY <1>1, <1>4, <2>1, <2>2, <2>3 DEF Drawn
<1>7. Once'
  BY <1>1 DEF Once, OneJobPerProposal, Quiet, NoProposal
<1>8. Reviewed'
  BY DEF Reviewed, OfferedAsReviewed, Quiet
<1>9. LiveJobPinsInbox'
  BY DEF LiveJobPinsInbox, Pinned, Quiet, Later, Jobs
<1>10. Sound'
  BY DEF Sound, Quiet, Later, Jobs
<1> QED BY <1>3, <1>6, <1>7, <1>8, <1>9, <1>10

(* The reports stay true while the inbox offers nothing else. *)
LEMMA ToldStays ==
  ASSUME IInv, UNCHANGED <<taken, answers>>, call' = call \/ call'.step # "started",
         rt'.inbox.job \in {rt.inbox.job, 0},
         rt'.inbox.state = "offered" => rt.inbox.state = "offered" /\ rt'.inbox.job = rt.inbox.job
  PROVE  Told' /\ taken' \subseteq Ids /\ DOMAIN answers' \subseteq Ids
<1>1. \A i \in Ids : i # 0
  BY DEF Ids
<1> QED BY <1>1 DEF IInv, Told, Types, Asked

(* The call in progress goes on while the review counts its changes. *)
LEMMA AskedStays ==
  ASSUME IInv, Quiet(rt, rt'), Steady(rt, rt'), call' = call, counts' \in Counts,
         counts'.jobs = counts.jobs, counts.proposals <= counts'.proposals
  PROVE  Asked'
<1>1. Ids' = Ids
  BY DEF Ids
<1>2. /\ rt.revision \in Nat /\ rt'.revision \in Nat /\ call.revision \in Nat
      /\ call.proposal.id \in Nat /\ counts.proposals \in Nat /\ counts'.proposals \in Nat
  BY DEF IInv, Types, Asked, HumanCall, Quiet, Runtime, Counts, Proposal
<1>3. rt'.proposal = call.proposal /\ call.proposal.id # 0 => rt.proposal = call.proposal
  BY DEF Quiet, NoProposal
<1>4. call'.step \in {"building", "built"} =>
        /\ call'.proposal.id # 0 /\ call'.revision <= rt'.revision
        /\ call'.revision = rt'.revision =>
             rt'.review.phase = "preparing" /\ rt'.review.proposal = call'.proposal
  BY <1>2 DEF IInv, Asked, Steady
<1>5. call'.step = "built" /\ call'.view \in {"certified", "uncertifiable"}
        /\ rt'.proposal = call'.proposal => call'.content = call'.proposal.preview
  BY <1>3 DEF IInv, Asked
<1> QED BY <1>1, <1>2, <1>4, <1>5 DEF IInv, Asked

(* There is no call. *)
LEMMA IdleLemma ==
  ASSUME call' = Idle, counts' \in Counts
  PROVE  Asked' /\ call'.step # "started"
BY DEF Idle, Asked, HumanCall, NoProposal, Proposal, Steps, Counts

(* A step that leaves the inbox and the reports alone. *)
LEMMA QuietStep ==
  ASSUME IInv, Quiet(rt, rt'), rt'.inbox.job = rt.inbox.job, rt'.inbox.state = rt.inbox.state,
         host' \in [project : Projects, content : Contents], pairing' \in Nat,
         counts' \in Counts, counts'.jobs = counts.jobs, counts.proposals <= counts'.proposals,
         UNCHANGED <<made, taken, answers>>, Asked', call' = call \/ call'.step # "started"
  PROVE  IInv'
<1>1. Pinned
  BY DEF Pinned
<1>2. Told' /\ taken' \subseteq Ids /\ DOMAIN answers' \subseteq Ids
  BY ToldStays
<1> QED BY <1>1, <1>2, CalmLemma

(* Where an inductive state has its host, its counts and its runtime. *)
LEMMA StateLemma ==
  ASSUME IInv
  PROVE  /\ HostOK /\ pairing \in Nat /\ rt \in Runtime /\ counts \in Counts /\ call \in HumanCall
         /\ counts.proposals \in Nat /\ counts.proposals <= counts.proposals /\ counts.jobs \in Nat
BY DEF IInv, Types, HostOK, Asked, Counts
-----------------------------------------------------------------------------
(* The executable review. *)

(* A review is begun for the pending proposal. *)
LEMMA PrepareBeginStep ==
  ASSUME IInv, PrepareBegin PROVE IInv' /\ Placed
<1> DEFINE r == RecordLocked(rt)
           v == [NoReview EXCEPT !.phase = "preparing", !.proposal = r.proposal]
           k == r.revision + 1
<1>1. /\ r \in Runtime /\ Quiet(rt, r) /\ Steady(rt, r) /\ Same(rt.registry, r.registry)
      /\ r.inbox = rt.inbox
  BY StateLemma, RecordLockedLemma
<1>2. /\ Pending(r) /\ rt' = [r EXCEPT !.revision = k, !.review = v]
      /\ call' = [Idle EXCEPT !.step = "building", !.proposal = r.proposal, !.revision = k,
                              !.project = host.project]
      /\ UNCHANGED <<host, pairing, counts, made, taken, answers>>
  BY DEF PrepareBegin
<1> HIDE DEF r
<1>3. r.revision \in Nat /\ k \in Nat /\ r.proposal \in Proposal /\ r.registry \in Registry
  BY <1>1 DEF Runtime
<1>4. v \in Review /\ v.phase = "preparing" /\ v.proposal = r.proposal
  BY <1>3 DEF NoReview, Review
<1> HIDE DEF v, k
<1>5. /\ rt' \in Runtime /\ rt'.revision = k /\ rt'.review = v /\ rt'.proposal = r.proposal
      /\ rt'.registry = r.registry /\ rt'.inbox = r.inbox
  BY <1>1, <1>2, <1>3, <1>4 DEF Runtime
<1>6. Quiet(r, rt')
  BY <1>3, <1>4, <1>5 DEF Quiet, Shown, Later
<1>7. Quiet(rt, rt')
  <2>1. rt.revision \in Nat /\ rt'.revision \in Nat
    BY <1>5, StateLemma DEF Runtime
  <2> QED BY <1>1, <1>3, <1>6, <2>1, QuietTwice
<1>8. r.proposal.id # 0 /\ r.proposal.id <= counts.proposals
  BY <1>1, <1>2 DEF Pending, Quiet, IInv, Drawn, NoProposal
<1>9. /\ call' \in HumanCall /\ call'.step = "building" /\ call'.proposal = r.proposal
      /\ call'.revision = k
  BY <1>2, <1>3, StateLemma DEF HostOK, Idle, HumanCall, Steps
<1>10. Asked'
  BY <1>2, <1>3, <1>4, <1>5, <1>8, <1>9 DEF Asked
<1>11. IInv'
  BY <1>1, <1>2, <1>5, <1>7, <1>9, <1>10, StateLemma, QuietStep DEF HostOK
<1> QED BY <1>1, <1>5, <1>11, PlacedSame

(* The preview is computed again outside the gate. *)
LEMMA RecomputeStep ==
  ASSUME IInv, NEW step \in {"built", "inspected"}, step = "built" => call.step = "building",
         Recompute(step)
  PROVE  IInv' /\ Placed
<1> DEFINE p == rt.proposal
           stale == p.id # 0 /\ host.content # p.preview
           view == call'.view
<1>1. /\ rt' = IF stale THEN [rt EXCEPT !.proposal = NoProposal] ELSE rt
      /\ UNCHANGED <<host, pairing, counts, made, taken, answers>>
  BY DEF Recompute
<1>2. /\ call' \in HumanCall /\ call'.step = step /\ call'.content = host.content
      /\ call'.proposal = call.proposal /\ call'.revision = call.revision /\ call'.job = call.job
      /\ call'.view \in {"certified", "uncertifiable"} => p.id # 0 /\ ~stale
  <2>1. PICK w \in {"certified", "uncertifiable", "computation_failure"} :
          call' = [call EXCEPT !.step = step, !.content = host.content,
                     !.view = IF p.id = 0 THEN "absent" ELSE IF stale THEN "stale" ELSE w]
    BY DEF Recompute
  <2> DEFINE u == IF p.id = 0 THEN "absent" ELSE IF stale THEN "stale" ELSE w
  <2>2. /\ u \in {"certified", "uncertifiable", "computation_failure", "absent", "stale"}
        /\ u \in {"certified", "uncertifiable"} => p.id # 0 /\ ~stale
    OBVIOUS
  <2>3. call \in HumanCall /\ host.content \in Contents
    BY StateLemma DEF HostOK
  <2> HIDE DEF u, p, stale
  <2>4. call' = [call EXCEPT !.step = step, !.content = host.content, !.view = u]
    BY <2>1 DEF u
  <2> QED BY <2>2, <2>3, <2>4 DEF HumanCall, Steps
<1>3. /\ rt' \in Runtime /\ rt'.proposal \in {rt.proposal, NoProposal} /\ rt'.review = rt.review
      /\ rt'.revision = rt.revision /\ rt'.registry = rt.registry /\ rt'.inbox = rt.inbox
      /\ rt.registry \in Registry /\ rt.revision \in Nat
  <2>1. NoProposal \in Proposal /\ rt \in Runtime
    BY StateLemma DEF NoProposal, Proposal
  <2> QED BY <1>1, <2>1 DEF Runtime
<1>4. Quiet(rt, rt') /\ Same(rt.registry, rt'.registry)
  BY <1>3 DEF Quiet, Later, Same
<1>5. Asked'
  <2>1. call.proposal.id <= counts.proposals
    BY DEF IInv, Asked
  <2>2. ASSUME step = "built"
        PROVE  /\ call.proposal.id # 0 /\ call.revision <= rt.revision
               /\ call.revision = rt.revision =>
                    rt.review.phase = "preparing" /\ rt.review.proposal = call.proposal
    BY <2>2 DEF IInv, Asked
  <2>3. ASSUME step = "built", call'.view \in {"certified", "uncertifiable"}, rt'.proposal = call'.proposal
        PROVE  call'.content = call'.proposal.preview
    BY <1>1, <1>2, <2>3
  <2> QED BY <1>1, <1>2, <1>3, <2>1, <2>2, <2>3 DEF Asked
<1>6. IInv'
  BY <1>1, <1>2, <1>3, <1>4, <1>5, StateLemma, QuietStep DEF HostOK
<1> QED BY <1>4, <1>6, PlacedSame

(* The review is held, if it is still the one that was begun. *)
LEMMA PrepareEndStep ==
  ASSUME IInv, PrepareEnd PROVE IInv' /\ Placed
<1> DEFINE r == RecordLocked(rt)
           b == (call.view = "certified")
           v == [r.review EXCEPT !.phase = "held", !.content = call.content, !.certified = b]
<1>1. /\ r \in Runtime /\ Quiet(rt, r) /\ Steady(rt, r) /\ Same(rt.registry, r.registry)
      /\ r.inbox = rt.inbox
  BY StateLemma, RecordLockedLemma
<1>2. call.step = "built" /\ call' = Idle /\ UNCHANGED <<host, pairing, counts, made, taken, answers>>
  BY DEF PrepareEnd
<1>3. \/ rt' \in {r, Clear(r)}
      \/ /\ r.revision = call.revision /\ Pending(r) /\ r.proposal = call.proposal
         /\ call.view \in {"certified", "uncertifiable"}
         /\ rt' = [r EXCEPT !.review = v]
  <2>1. r.review \in Review
    BY <1>1 DEF Runtime
  <2> HIDE DEF r
  <2>2. [r EXCEPT !.review.phase = "held", !.review.content = call.content, !.review.certified = b]
          = [r EXCEPT !.review = v]
    BY <1>1 DEF Runtime, Review
  <2> QED BY <2>2 DEF PrepareEnd, r
<1> HIDE DEF r
<1>4. r.registry \in Registry /\ r.revision \in Nat /\ rt.revision \in Nat /\ r.review \in Review
  BY <1>1, StateLemma DEF Runtime
<1>5. /\ Quiet(r, rt') /\ rt'.registry = r.registry /\ rt'.inbox = r.inbox /\ rt'.revision \in Nat
  <2>1. CASE rt' \in {r, Clear(r)}
    <3>1. rt' \in Runtime /\ Quiet(r, rt') /\ rt'.registry = r.registry /\ rt'.inbox = r.inbox
      BY <1>1, <2>1, ClearLemma, QuietSelf
    <3> QED BY <3>1 DEF Runtime
  <2>2. CASE /\ r.revision = call.revision /\ Pending(r) /\ r.proposal = call.proposal
             /\ call.view \in {"certified", "uncertifiable"}
             /\ rt' = [r EXCEPT !.review = v]
    <3>1. call.content \in Contents \cup {0} /\ call.revision <= rt.revision /\ call.proposal.id # 0
      BY <1>2, StateLemma DEF IInv, Asked, HumanCall
    <3>2. r.review = rt.review /\ rt.revision = call.revision
      BY <1>1, <1>4, <2>2, <3>1 DEF Steady
    <3>3. r.review.proposal = call.proposal
      BY <1>2, <3>2 DEF IInv, Asked
    <3>4. rt.proposal = call.proposal
      BY <1>1, <2>2, <3>1 DEF Quiet, NoProposal
    <3>5. call.content = call.proposal.preview
      BY <1>2, <2>2, <3>4 DEF IInv, Asked
    <3>6. v \in Review /\ v.content = call.content /\ v.proposal = call.proposal
      BY <1>4, <3>1, <3>3 DEF Review
    <3> HIDE DEF v
    <3>7. /\ rt' \in Runtime /\ rt'.review = v /\ rt'.proposal = r.proposal /\ rt'.registry = r.registry
          /\ rt'.inbox = r.inbox /\ rt'.revision = r.revision
      BY <1>1, <2>2, <3>6 DEF Runtime
    <3> QED BY <1>4, <3>5, <3>6, <3>7 DEF Quiet, Shown, Later
  <2> QED BY <1>3, <2>1, <2>2
<1>6. Quiet(rt, rt')
  BY <1>1, <1>4, <1>5, QuietTwice
<1>7. Asked' /\ call'.step # "started"
  BY <1>2, StateLemma, IdleLemma
<1>8. IInv'
  BY <1>1, <1>2, <1>5, <1>6, <1>7, StateLemma, QuietStep DEF HostOK
<1> QED BY <1>1, <1>5, <1>8, PlacedSame
(* A held review is looked at. *)
LEMMA InspectBeginStep ==
  ASSUME IInv, NEW purpose \in {"show", "confirm", "handoff"}, InspectBegin(purpose)
  PROVE  IInv' /\ Placed
<1> DEFINE r == RecordLocked(rt)
<1>1. /\ r \in Runtime /\ Quiet(rt, r) /\ Steady(rt, r) /\ Same(rt.registry, r.registry)
      /\ r.inbox = rt.inbox
  BY StateLemma, RecordLockedLemma
<1>2. /\ rt' \in {r, Clear(r)} /\ UNCHANGED <<host, pairing, counts, made, taken, answers>>
      /\ \/ call' = Idle
         \/ call' = [Idle EXCEPT !.step = "inspecting", !.revision = r.revision, !.purpose = purpose]
  BY DEF InspectBegin
<1> HIDE DEF r
<1>3. r.revision \in Nat /\ rt.revision \in Nat
  BY <1>1, StateLemma DEF Runtime
<1>4. rt' \in Runtime /\ Quiet(r, rt') /\ rt'.registry = r.registry /\ rt'.inbox = r.inbox
  BY <1>1, <1>2, ClearLemma, QuietSelf
<1>5. Quiet(rt, rt')
  <2>1. rt'.revision \in Nat
    BY <1>4 DEF Runtime
  <2> QED BY <1>1, <1>3, <1>4, <2>1, QuietTwice
<1>6. Asked' /\ call'.step # "started"
  <2>1. CASE call' = Idle
    BY <1>2, <2>1, StateLemma, IdleLemma
  <2>2. CASE call' = [Idle EXCEPT !.step = "inspecting", !.revision = r.revision, !.purpose = purpose]
    <3>1. /\ call' \in HumanCall /\ call'.step = "inspecting" /\ call'.proposal = NoProposal
      BY <1>3, <2>2 DEF Idle, HumanCall, Steps, NoProposal, Proposal
    <3> QED BY <1>2, <3>1, StateLemma DEF Asked, NoProposal
  <2> QED BY <1>2, <2>1, <2>2
<1>7. IInv'
  BY <1>1, <1>2, <1>4, <1>5, <1>6, StateLemma, QuietStep DEF HostOK
<1> QED BY <1>1, <1>4, <1>7, PlacedSame

(* What was looked at is shown, confirmed or handed off, or it is lost. *)
LEMMA InspectEndStep ==
  ASSUME IInv, InspectEnd PROVE IInv' /\ Placed
<1> DEFINE r == RecordLocked(rt)
<1>1. /\ r \in Runtime /\ Quiet(rt, r) /\ Steady(rt, r) /\ Same(rt.registry, r.registry)
      /\ r.inbox = rt.inbox
  BY StateLemma, RecordLockedLemma
<1>2. /\ rt' \in {r, Clear(r)} /\ UNCHANGED <<host, pairing, counts, made, taken, answers>>
  BY DEF InspectEnd
<1>3. \/ call' = Idle
      \/ \E s \in {"confirming", "reserving"} :
           call' = [call EXCEPT !.step = s, !.proposal = r.proposal, !.content = r.review.content]
  BY DEF InspectEnd
<1> HIDE DEF r
<1>4. /\ r.revision \in Nat /\ rt.revision \in Nat /\ r.proposal \in Proposal
      /\ r.review.content \in Contents \cup {0}
  BY <1>1, StateLemma DEF Runtime, Review
<1>5. rt' \in Runtime /\ Quiet(r, rt') /\ rt'.registry = r.registry /\ rt'.inbox = r.inbox
  BY <1>1, <1>2, ClearLemma, QuietSelf
<1>6. Quiet(rt, rt')
  <2>1. rt'.revision \in Nat
    BY <1>5 DEF Runtime
  <2> QED BY <1>1, <1>4, <1>5, <2>1, QuietTwice
<1>7. Asked' /\ call'.step # "started"
  <2>1. CASE call' = Idle
    BY <1>2, <2>1, StateLemma, IdleLemma
  <2>2. ASSUME NEW s \in {"confirming", "reserving"},
               call' = [call EXCEPT !.step = s, !.proposal = r.proposal, !.content = r.review.content]
        PROVE  Asked' /\ call'.step # "started"
    <3>1. /\ call' \in HumanCall /\ call'.step = s /\ call'.proposal = r.proposal
      BY <1>4, <2>2, StateLemma DEF HumanCall, Steps
    <3>2. r.proposal.id <= counts.proposals
      BY <1>1, StateLemma DEF Quiet, IInv, Drawn, NoProposal
    <3> QED BY <1>2, <3>1, <3>2 DEF Asked
  <2> QED BY <1>3, <2>1, <2>2
<1>8. IInv'
  BY <1>1, <1>2, <1>5, <1>6, <1>7, StateLemma, QuietStep DEF HostOK
<1> QED BY <1>1, <1>5, <1>8, PlacedSame

(* The human confirms the review. *)
LEMMA ConfirmStep ==
  ASSUME IInv, Confirm PROVE IInv' /\ Placed
<1> DEFINE r == RecordLocked(rt)
           v == [r.review EXCEPT !.confirmed = TRUE]
           n == [r EXCEPT !.review = v]
<1>1. /\ r \in Runtime /\ Quiet(rt, r) /\ Steady(rt, r) /\ Same(rt.registry, r.registry)
      /\ r.inbox = rt.inbox
  BY StateLemma, RecordLockedLemma
<1>2. call' = Idle /\ UNCHANGED <<host, pairing, counts, made, taken, answers>>
  BY DEF Confirm
<1>3. rt' \in {r, n}
  <2>1. r.review \in Review
    BY <1>1 DEF Runtime
  <2> HIDE DEF r
  <2>2. [r EXCEPT !.review.confirmed = TRUE] = n
    BY <1>1 DEF Runtime, Review
  <2> QED BY <2>2 DEF Confirm, r
<1> HIDE DEF r
<1>4. /\ r.revision \in Nat /\ rt.revision \in Nat /\ r.registry \in Registry /\ r.review \in Review
  BY <1>1, StateLemma DEF Runtime
<1>5. rt' \in Runtime /\ Quiet(r, rt') /\ rt'.registry = r.registry /\ rt'.inbox = r.inbox
  <2>1. v \in Review /\ (Shown(r.review) => Shown(v))
    BY <1>4 DEF Review, Shown
  <2> HIDE DEF v
  <2>2. /\ n \in Runtime /\ n.registry = r.registry /\ n.inbox = r.inbox /\ n.review = v
        /\ n.proposal = r.proposal
    BY <1>1, <2>1 DEF Runtime
  <2> HIDE DEF n
  <2>3. Quiet(r, n)
    BY <1>4, <2>1, <2>2 DEF Quiet, Later
  <2> QED BY <1>1, <1>3, <2>2, <2>3, QuietSelf
<1>6. Quiet(rt, rt')
  <2>1. rt'.revision \in Nat
    BY <1>5 DEF Runtime
  <2> QED BY <1>1, <1>4, <1>5, <2>1, QuietTwice
<1>7. Asked' /\ call'.step # "started"
  BY <1>2, StateLemma, IdleLemma
<1>8. IInv'
  BY <1>1, <1>2, <1>5, <1>6, <1>7, StateLemma, QuietStep DEF HostOK
<1> QED BY <1>1, <1>5, <1>8, PlacedSame

(* Nothing of the runtime, the call or the reports changes. *)
LEMMA RestStep ==
  ASSUME IInv, UNCHANGED <<rt, call, made, taken, answers>>,
         host' \in [project : Projects, content : Contents], pairing' \in Nat,
         counts' \in Counts, counts'.jobs = counts.jobs, counts.proposals <= counts'.proposals
  PROVE  IInv' /\ Placed
<1>1. Quiet(rt, rt') /\ Steady(rt, rt') /\ Same(rt.registry, rt'.registry)
  BY StateLemma, QuietSelf
<1>2. Asked'
  BY <1>1, AskedStays
<1>3. IInv'
  BY <1>1, <1>2, QuietStep
<1> QED BY <1>1, <1>3, PlacedSame
-----------------------------------------------------------------------------
(* The handoff. *)

(* The inbox is cleared or reserved while it holds no envelope. *)
LEMMA UnpinnedStep ==
  ASSUME IInv, NEW r, Quiet(rt, r), Same(rt.registry, r.registry), r.inbox = rt.inbox,
         NEW x \in Inbox, rt' = [r EXCEPT !.inbox = x], rt.inbox.state \in {"empty", "reserved"},
         x.job = 0, x.state # "offered",
         counts' \in Counts, counts'.jobs = counts.jobs, counts'.proposals = counts.proposals,
         UNCHANGED <<host, pairing, made, taken, answers>>, Asked', call'.step # "started"
  PROVE  IInv' /\ Placed
<1>1. /\ r \in Runtime /\ rt' \in Runtime /\ rt'.inbox = x /\ rt'.registry = r.registry
      /\ rt'.proposal = r.proposal /\ rt'.review = r.review
  BY DEF Quiet, Runtime
<1>2. Quiet(rt, rt')
  BY <1>1 DEF Quiet
<1>3. Pinned
  <2>1. \A id \in DOMAIN Jobs' : made[id].confirmed => ~Live(Jobs'[id])
    BY <1>1 DEF IInv, LiveJobPinsInbox, Quiet, Later, Jobs
  <2> QED BY <1>1, <2>1 DEF Pinned
<1>4. Told' /\ taken' \subseteq Ids /\ DOMAIN answers' \subseteq Ids
  BY <1>1, ToldStays
<1>5. IInv'
  BY <1>2, <1>3, <1>4, StateLemma, CalmLemma DEF HostOK
<1> QED BY <1>1, <1>5, PlacedSame

(* An empty inbox is reserved. *)
LEMMA HandoffReserveStep ==
  ASSUME IInv, HandoffReserve PROVE IInv' /\ Placed
<1> DEFINE id == counts.reservations + 1
           x == Reserve(rt.inbox, id)
<1>1. id \in Nat /\ rt.inbox \in Inbox /\ UNCHANGED <<host, pairing, made, taken, answers>>
  BY StateLemma DEF Counts, Runtime, HandoffReserve
<1>2. CASE Reservable(rt.inbox)
  <2>1. /\ rt' = [rt EXCEPT !.inbox = x] /\ counts' = [counts EXCEPT !.reservations = id]
        /\ call' = [call EXCEPT !.step = "committing", !.reservation = id, !.project = host.project,
                                !.content = host.content]
    BY <1>2 DEF HandoffReserve
  <2>2. x \in Inbox /\ x.job = 0 /\ x.state # "offered"
    BY <1>1, JobsAssumption DEF Reserve, ClearInbox, EmptyInbox, Inbox
  <2>3. rt.inbox.state \in {"empty", "reserved"}
    BY <1>2 DEF Reservable
  <2> HIDE DEF x, id
  <2>4. counts' \in Counts /\ counts'.jobs = counts.jobs /\ counts'.proposals = counts.proposals
    BY <1>1, <2>1, StateLemma DEF Counts
  <2>5. call' \in HumanCall /\ call'.step = "committing" /\ call'.proposal = call.proposal
    BY <1>1, <2>1, StateLemma DEF HumanCall, Steps, HostOK
  <2>6. Asked'
    BY <2>4, <2>5 DEF Asked, IInv
  <2>7. Quiet(rt, rt) /\ Same(rt.registry, rt.registry)
    BY StateLemma, QuietSelf
  <2> QED BY <1>1, <2>1, <2>2, <2>3, <2>4, <2>5, <2>6, <2>7, UnpinnedStep
<1>3. CASE ~Reservable(rt.inbox)
  <2>1. UNCHANGED <<rt, counts>> /\ call' = Idle
    BY <1>3 DEF HandoffReserve
  <2>2. Quiet(rt, rt') /\ Same(rt.registry, rt'.registry)
    BY <2>1, StateLemma, QuietSelf
  <2>3. Asked' /\ call'.step # "started"
    BY <2>1, StateLemma, IdleLemma
  <2>4. IInv'
    BY <1>1, <2>1, <2>2, <2>3, StateLemma, QuietStep DEF HostOK
  <2> QED BY <2>2, <2>4, PlacedSame
<1> QED BY <1>2, <1>3
(* The record of what a job was made for grows by one. *)
LEMMA MadeLemma ==
  ASSUME IInv, NEW m \in Made, made' = Append(made, m)
  PROVE  /\ made' \in Seq(Made) /\ Len(made') = counts.jobs + 1 /\ made'[counts.jobs + 1] = m
         /\ \A i \in Ids : made'[i] = made[i] /\ made[i] \in Made
<1>1. made \in Seq(Made) /\ Len(made) = counts.jobs /\ counts.jobs \in Nat
  BY DEF IInv, Types, Counts
<1> QED BY <1>1 DEF Ids

(* One more number. *)
LEMMA IdsLemma ==
  ASSUME NEW n \in Nat
  PROVE  1..(n + 1) = 1..n \cup {n + 1} /\ n + 1 \notin 1..n
<1>1. \A i : i \in 1..(n + 1) <=> i \in 1..n \/ i = n + 1
  OBVIOUS
<1> QED BY <1>1

(* The claim of a runtime's pending proposal. *)
LEMMA ClaimPending ==
  ASSUME NEW r \in Runtime, NEW new \in Nat, new \notin DOMAIN r.registry.jobs,
         NEW j, j = NewJob(r.proposal.id, r.epoch, r.proposal.pairing),
         NEW n, n = ClaimAuthorized(r.registry, new, j)
  PROVE  /\ n \in Registry /\ n.target = r.registry.target /\ n.closed = r.registry.closed
         /\ DOMAIN n.jobs \subseteq DOMAIN r.registry.jobs \cup {new} /\ new \in DOMAIN n.jobs
         /\ n.jobs[new] = j /\ SoundJob(j)
         /\ \A id \in DOMAIN n.jobs : id # new => n.jobs[id] = r.registry.jobs[id]
<1> DEFINE g == r.registry
           a == r.proposal.id
           e == r.epoch
           b == r.proposal.pairing
<1>1. g \in Registry /\ a \in Nat /\ e \in Nat /\ b \in Nat
  BY DEF Runtime, Proposal
<1>2. new \notin DOMAIN g.jobs /\ j = NewJob(a, e, b) /\ n = ClaimAuthorized(g, new, j)
  OBVIOUS
<1> HIDE DEF g, a, e, b
<1>3. /\ n \in Registry /\ n.target = g.target /\ n.closed = g.closed
      /\ DOMAIN n.jobs \subseteq DOMAIN g.jobs \cup {new} /\ new \in DOMAIN n.jobs
      /\ n.jobs[new] = j /\ SoundJob(j)
      /\ \A id \in DOMAIN n.jobs : id # new => n.jobs[id] = g.jobs[id]
  BY <1>1, <1>2, ClaimLemma
<1> QED BY <1>3 DEF g

(* A job is made of the pending proposal, whichever way it is started.     *)
LEMMA ClaimStep ==
  ASSUME IInv, NEW r \in Runtime, Quiet(rt, r), Same(rt.registry, r.registry),
         Pending(r), CanClaim(r.registry, r.epoch),
         rt' \in Runtime, rt'.proposal = NoProposal, Shown(rt'.review),
         rt'.registry = ClaimAuthorized(r.registry, counts.jobs + 1,
                          NewJob(r.proposal.id, r.epoch, r.proposal.pairing)),
         counts' = [counts EXCEPT !.jobs = counts.jobs + 1],
         NEW m \in Made, m.proposal = r.proposal.id, m.content = m.preview,
         made' = Append(made, m),
         m.confirmed => rt'.inbox.job = counts.jobs + 1 /\ rt'.inbox.state = "offered",
         rt'.inbox.job \in {rt.inbox.job, counts.jobs + 1},
         UNCHANGED <<host, pairing, taken, answers>>, Asked', Told'
  PROVE  IInv' /\ Placed
<1> DEFINE id == counts.jobs + 1
           j == NewJob(r.proposal.id, r.epoch, r.proposal.pairing)
<1>1. /\ counts \in Counts /\ counts.jobs \in Nat /\ id \in Nat /\ counts.proposals \in Nat
      /\ Ids = 1..counts.jobs
  BY StateLemma DEF Ids, Counts
<1>2. counts' \in Counts /\ counts'.jobs = id /\ counts'.proposals = counts.proposals
      /\ Ids' = Ids \cup {id} /\ id \notin Ids
  <2>1. counts' \in Counts /\ counts'.jobs = id /\ counts'.proposals = counts.proposals
    BY <1>1 DEF Counts
  <2>2. Ids' = 1..id
    BY <2>1 DEF Ids
  <2>3. 1..id = 1..counts.jobs \cup {id} /\ id \notin 1..counts.jobs
    BY <1>1, IdsLemma
  <2> QED BY <1>1, <2>1, <2>2, <2>3
<1>3. /\ made' \in Seq(Made) /\ Len(made') = id /\ made'[id] = m /\ Len(made) = counts.jobs
      /\ \A i \in Ids : made'[i] = made[i] /\ made[i] \in Made
  BY MadeLemma DEF IInv, Types
<1>4. /\ r.registry \in Registry /\ r.proposal \in Proposal /\ r.epoch \in Nat
      /\ DOMAIN r.registry.jobs \subseteq Ids /\ r.proposal = rt.proposal /\ r.proposal.id # 0
  BY DEF Runtime, Quiet, Later, IInv, Drawn, Jobs, Pending, NoProposal
<1>5. LET n == rt'.registry
      IN  /\ n \in Registry /\ n.closed = r.registry.closed
          /\ DOMAIN n.jobs \subseteq DOMAIN r.registry.jobs \cup {id} /\ id \in DOMAIN n.jobs
          /\ n.jobs[id] = j /\ SoundJob(j)
          /\ \A k \in DOMAIN n.jobs : k # id => n.jobs[k] = r.registry.jobs[k]
  <2>1. id \notin DOMAIN r.registry.jobs /\ r.proposal.id \in Nat /\ r.proposal.pairing \in Nat
    BY <1>2, <1>4 DEF Proposal
  <2>2. rt'.registry = ClaimAuthorized(r.registry, id, j)
    OBVIOUS
  <2> HIDE DEF id
  <2>3. j = NewJob(r.proposal.id, r.epoch, r.proposal.pairing)
    OBVIOUS
  <2> HIDE DEF j
  <2> QED BY <1>1, <2>1, <2>2, <2>3, ClaimPending
<1> HIDE DEF j, id
<1>6. Types'
  BY <1>1, <1>2, <1>3 DEF IInv, Types
<1>7. Drawn'
  <2>1. \A i \in Ids' : made'[i].proposal <= counts'.proposals
    BY <1>2, <1>3, <1>4 DEF IInv, Drawn
  <2>2. DOMAIN Jobs' \subseteq Ids'
    BY <1>2, <1>4, <1>5 DEF Jobs
  <2>3. rt'.inbox.job <= counts'.jobs
    <3>1. rt.inbox.job \in Nat /\ rt.inbox.job <= counts.jobs
      BY StateLemma DEF IInv, Drawn, Runtime, Inbox
    <3>2. rt'.inbox.job \in {rt.inbox.job, id}
      BY DEF id
    <3> QED BY <1>1, <1>2, <3>1, <3>2 DEF id
  <2>4. rt'.proposal.id <= counts'.proposals
    BY <1>1, <1>2 DEF NoProposal
  <2> QED BY <2>1, <2>2, <2>3, <2>4 DEF Drawn
<1>8. Once'
  <2>1. \A i \in Ids : made[i].proposal # m.proposal
    BY <1>4 DEF IInv, Once
  <2>2. \A i \in 1..Len(made') : i = id \/ i \in Ids
    BY <1>1, <1>3 DEF id
  <2>3. \A i, k \in Ids : made[i].proposal = made[k].proposal => i = k
    BY <1>1, <1>3 DEF IInv, Once, OneJobPerProposal
  <2> QED BY <1>3, <2>1, <2>2, <2>3 DEF Once, OneJobPerProposal, NoProposal
<1>9. Reviewed'
  <2>1. \A i \in 1..Len(made') : i = id \/ i \in Ids
    BY <1>1, <1>3 DEF id
  <2>2. \A i \in Ids : made[i].content = made[i].preview
    BY <1>1, <1>3 DEF IInv, Reviewed, OfferedAsReviewed
  <2> QED BY <1>3, <2>1, <2>2 DEF Reviewed, OfferedAsReviewed
<1>10. LiveJobPinsInbox'
  <2>1. \A k \in DOMAIN Jobs' : Live(Jobs'[k]) => k = id
    BY <1>5 DEF Jobs, CanClaim
  <2> QED BY <1>3, <2>1 DEF LiveJobPinsInbox, id
<1>11. Sound'
  <2>1. \A k \in DOMAIN Jobs' : SoundJob(Jobs'[k])
    BY <1>5 DEF Jobs, Quiet, Later, IInv, Sound
  <2>2. ~rt'.registry.closed
    BY <1>5 DEF CanClaim
  <2> QED BY <2>1, <2>2 DEF Sound
<1>12. IInv'
  BY <1>6, <1>7, <1>8, <1>9, <1>10, <1>11 DEF IInv
<1>13. Placed
  BY <1>2, <1>5 DEF Placed, Jobs, Same, IInv, Drawn
<1> QED BY <1>12, <1>13

(* The call knows the job it has made. *)
LEMMA AskedJob ==
  ASSUME counts' \in Counts, call' \in HumanCall, call'.step \in {"offered", "started"},
         call'.proposal = NoProposal, call'.job \in Ids'
  PROVE  Asked'
<1>1. call'.proposal.id <= counts'.proposals
  BY DEF NoProposal, Counts
<1> QED BY <1>1 DEF Asked

(* The handoff claims and offers in one step, or gives up its reservation. *)
LEMMA HandoffCommitStep ==
  ASSUME IInv, HandoffCommit PROVE IInv' /\ Placed
<1> DEFINE r == RecordLocked(rt)
           id == counts.jobs + 1
           j == NewJob(r.proposal.id, r.epoch, r.proposal.pairing)
           g == ClaimAuthorized(r.registry, id, j)
           x == Commit(r.inbox, id)
           s == [r EXCEPT !.registry = g, !.proposal = NoProposal]
           c == Clear(s)
           m == [proposal |-> r.proposal.id, content |-> r.review.content,
                 preview |-> r.proposal.preview, confirmed |-> TRUE]
           ok == /\ Pending(r) /\ Holds(r, call.revision) /\ r.review.proposal = r.proposal
                 /\ Reserved(r.inbox, call.reservation) /\ CanClaim(r.registry, r.epoch)
<1>1. /\ r \in Runtime /\ Quiet(rt, r) /\ Steady(rt, r) /\ Same(rt.registry, r.registry)
      /\ r.inbox = rt.inbox
  BY StateLemma, RecordLockedLemma
<1>2. counts.jobs \in Nat /\ id \in Nat /\ UNCHANGED <<host, pairing, taken, answers>>
  BY StateLemma DEF HandoffCommit
<1>3. \/ /\ rt' \in {Release1(rt, call.reservation), Release1(r, call.reservation)} /\ call' = Idle
         /\ UNCHANGED <<counts, made>>
      \/ /\ ok /\ rt' = [c EXCEPT !.inbox = Commit(@, id)]
         /\ call' = [Idle EXCEPT !.step = "offered", !.job = id]
         /\ counts' = [counts EXCEPT !.jobs = id] /\ made' = Append(made, m)
  BY DEF HandoffCommit, Claimed
<1> HIDE DEF r
<1>4. CASE /\ rt' \in {Release1(rt, call.reservation), Release1(r, call.reservation)} /\ call' = Idle
           /\ UNCHANGED <<counts, made>>
  <2>1. PICK b \in {rt, r} : rt' = Release1(b, call.reservation)
    BY <1>4
  <2> DEFINE y == Release(b.inbox, call.reservation)
  <2>2. /\ b \in Runtime /\ Quiet(rt, b) /\ Same(rt.registry, b.registry) /\ b.inbox = rt.inbox
        /\ rt.inbox \in Inbox
    BY <1>1, StateLemma, QuietSelf DEF Runtime
  <2>3. rt' = [b EXCEPT !.inbox = y]
    BY <2>1 DEF Release1
  <2>4. Asked' /\ call'.step # "started" /\ counts' \in Counts
    BY <1>4, StateLemma, IdleLemma
  <2>5. CASE rt.inbox.state = "reserved" /\ rt.inbox.reservation = call.reservation
    <3>1. y \in Inbox /\ y.job = 0 /\ y.state # "offered"
      BY <2>2, <2>5 DEF Release, ClearInbox, EmptyInbox, Inbox
    <3> HIDE DEF y
    <3> QED BY <1>2, <1>4, <2>2, <2>3, <2>4, <2>5, <3>1, UnpinnedStep
  <2>6. CASE ~(rt.inbox.state = "reserved" /\ rt.inbox.reservation = call.reservation)
    <3>1. y = b.inbox
      BY <2>2, <2>6 DEF Release
    <3>2. rt' = b
      BY <2>2, <2>3, <3>1 DEF Runtime
    <3>3. IInv'
      BY <1>2, <1>4, <2>2, <2>4, <3>2, StateLemma, QuietStep DEF HostOK
    <3> QED BY <2>2, <3>2, <3>3, PlacedSame
  <2> QED BY <2>5, <2>6
<1>5. CASE /\ ok /\ rt' = [c EXCEPT !.inbox = Commit(@, id)]
           /\ call' = [Idle EXCEPT !.step = "offered", !.job = id]
           /\ counts' = [counts EXCEPT !.jobs = id] /\ made' = Append(made, m)
  <2>1. /\ r.registry \in Registry /\ r.proposal \in Proposal /\ r.epoch \in Nat
        /\ r.review \in Review /\ r.inbox \in Inbox /\ r.proposal.id \in Nat /\ r.proposal.pairing \in Nat
    BY <1>1 DEF Runtime, Proposal
  <2>2. DOMAIN r.registry.jobs \subseteq Ids /\ id \notin Ids
    BY <1>1, <1>2 DEF Quiet, Later, IInv, Drawn, Jobs, Ids
  <2> HIDE DEF id
  <2>3. g \in Registry
    <3>1. id \in Nat /\ id \notin DOMAIN r.registry.jobs
      BY <1>2, <2>2
    <3>2. j = NewJob(r.proposal.id, r.epoch, r.proposal.pairing) /\ g = ClaimAuthorized(r.registry, id, j)
      OBVIOUS
    <3> HIDE DEF g, j
    <3> QED BY <1>1, <3>1, <3>2, ClaimPending
  <2> HIDE DEF g, j
  <2>4. s \in Runtime /\ s.registry = g /\ s.proposal = NoProposal /\ s.inbox = r.inbox
    <3>1. NoProposal \in Proposal
      BY DEF NoProposal, Proposal
    <3> QED BY <1>1, <2>3, <3>1 DEF Runtime
  <2> HIDE DEF s
  <2>5. /\ c \in Runtime /\ c.registry = g /\ c.proposal = NoProposal /\ c.inbox = r.inbox
        /\ c.review.phase = "none"
    BY <2>4, ClearLemma
  <2> HIDE DEF c
  <2>6. x \in Inbox /\ x.job = id /\ x.state = "offered"
    BY <1>2, <2>1 DEF Commit, Inbox
  <2>7. rt' = [c EXCEPT !.inbox = x]
    BY <1>5, <2>5
  <2> HIDE DEF x
  <2>8. /\ rt' \in Runtime /\ rt'.registry = g /\ rt'.proposal = NoProposal /\ rt'.inbox = x
        /\ rt'.review.phase = "none"
    BY <2>5, <2>6, <2>7 DEF Runtime
  <2>9. m \in Made /\ m.proposal = r.proposal.id /\ m.content = m.preview
    <3>1. Shown(r.review)
      BY <1>1 DEF Quiet, IInv, Reviewed
    <3>2. r.review.content = r.proposal.preview
      BY <1>5, <3>1 DEF Shown, Holds
    <3> QED BY <2>1, <3>2 DEF Made, Review, Proposal
  <2>10. counts' \in Counts /\ id \in Ids'
    <3>1. counts' \in Counts /\ counts'.jobs = id
      BY <1>2, <1>5, StateLemma DEF Counts
    <3> QED BY <1>2, <3>1 DEF Ids, id
  <2>11. Asked' /\ call'.step = "offered"
    <3>1. call' = [Idle EXCEPT !.step = "offered", !.job = id]
      BY <1>5
    <3>2. /\ call' \in HumanCall /\ call'.step = "offered" /\ call'.proposal = NoProposal
          /\ call'.job = id
      BY <1>2, <3>1 DEF Idle, HumanCall, Steps, NoProposal, Proposal
    <3> QED BY <2>10, <3>2, AskedJob
  <2>12. Told'
    <3>1. id \notin taken /\ id \notin DOMAIN answers
      BY <2>2 DEF IInv, Types
    <3> QED BY <1>2, <2>6, <2>8, <2>11, <3>1 DEF IInv, Told
  <2>13. Shown(rt'.review)
    BY <2>8 DEF Shown
  <2> HIDE DEF m
  <2> QED BY <1>1, <1>2, <1>5, <2>6, <2>8, <2>9, <2>11, <2>12, <2>13, ClaimStep DEF g, j, id
<1> QED BY <1>3, <1>4, <1>5
(* The runtime is given another registry. *)
LEMMA RegistryLemma ==
  ASSUME NEW r \in Runtime, NEW g \in Registry, Later(r.registry, g),
         g.closed => r.registry.closed \/ \A id \in DOMAIN g.jobs : ~Live(g.jobs[id]),
         NEW n, n = [r EXCEPT !.registry = g]
  PROVE  /\ n \in Runtime /\ Quiet(r, n) /\ Steady(r, n) /\ n.registry = g /\ n.inbox = r.inbox
         /\ n.epoch = r.epoch /\ n.seen = r.seen /\ n.closed = r.closed /\ n.proposal = r.proposal
         /\ n.review = r.review
<1>1. /\ n \in Runtime /\ n.registry = g /\ n.inbox = r.inbox /\ n.epoch = r.epoch /\ n.seen = r.seen
      /\ n.closed = r.closed /\ n.proposal = r.proposal /\ n.review = r.review
      /\ n.revision = r.revision /\ r.revision \in Nat
  BY DEF Runtime
<1> QED BY <1>1 DEF Quiet, Steady

(* A start is answered. *)
LEMMA AnswerLemma ==
  ASSUME IInv, NEW id \in Ids, NEW what, Answer(id, what)
  PROVE  /\ DOMAIN answers' \subseteq Ids /\ answers'[id] = what
         /\ \A i \in DOMAIN answers' : i # id => i \in DOMAIN answers /\ answers'[i] = answers[i]
<1>1. DOMAIN answers' = DOMAIN answers \cup {id}
  BY DEF Answer
<1> QED BY <1>1 DEF Answer, IInv, Types

(* An answer that promises nothing. *)
LEMMA ToldAnswer ==
  ASSUME IInv, NEW id \in Ids, NEW what, what # "handoff_rejected", Answer(id, what), taken' = taken,
         call'.step # "started", rt'.inbox.job = rt.inbox.job, rt'.inbox.state = rt.inbox.state
  PROVE  Told' /\ taken' \subseteq Ids /\ DOMAIN answers' \subseteq Ids
BY AnswerLemma DEF IInv, Told, Types

(* A step that answers, or does not, and leaves the inbox alone. *)
LEMMA AnswerStep ==
  ASSUME IInv, Quiet(rt, rt'), rt'.inbox = rt.inbox, NEW id \in Ids, NEW what, what # "handoff_rejected",
         UNCHANGED answers \/ Answer(id, what), call'.step # "started", Asked',
         UNCHANGED <<host, pairing, counts, made, taken>>
  PROVE  IInv'
<1>1. Told' /\ taken' \subseteq Ids /\ DOMAIN answers' \subseteq Ids
  BY ToldStays, ToldAnswer
<1>2. Pinned
  BY DEF Pinned
<1> QED BY <1>1, <1>2, StateLemma, CalmLemma DEF HostOK

(* The call goes on with its job, its view aside. *)
LEMMA AskedOn ==
  ASSUME IInv, call.step \in {"offered", "checking", "receipt"}, UNCHANGED counts,
         call' \in HumanCall, call'.step \in {"checking", "receipt", "settling"},
         call'.proposal = call.proposal, call'.job = call.job
  PROVE  Asked' /\ call'.step # "started"
<1>1. Ids' = Ids
  BY DEF Ids
<1> QED BY <1>1 DEF IInv, Asked

(* The executor has said something. *)
LEMMA WorkerAnswersStep ==
  ASSUME IInv, NEW said \in {"accepted", "rejected", "unknown"}, WorkerAnswers(said)
  PROVE  IInv' /\ Placed
<1>1. /\ call' \in HumanCall /\ call'.step \in {"checking", "settling"}
      /\ call'.proposal = call.proposal /\ call'.job = call.job /\ call.step = "offered"
      /\ UNCHANGED <<host, pairing, rt, counts, made, taken, answers>>
  <2> DEFINE s == IF said = "accepted" THEN "checking" ELSE "settling"
  <2>1. s \in {"checking", "settling"} /\ call' = [call EXCEPT !.step = s, !.view = said]
        /\ call.step = "offered"
        /\ UNCHANGED <<host, pairing, rt, counts, made, taken, answers>>
    BY DEF WorkerAnswers
  <2> HIDE DEF s
  <2> QED BY <2>1, StateLemma DEF HumanCall, Steps
<1>2. Asked' /\ call'.step # "started"
  BY <1>1, AskedOn
<1>3. Quiet(rt, rt') /\ Same(rt.registry, rt'.registry)
  BY <1>1, StateLemma, QuietSelf
<1>4. IInv'
  BY <1>1, <1>2, <1>3, StateLemma, QuietStep DEF HostOK
<1> QED BY <1>3, <1>4, PlacedSame

(* The host checks that the target is still the job's. *)
LEMMA HandoffTargetCurrentStep ==
  ASSUME IInv, HandoffTargetCurrent PROVE IInv' /\ Placed
<1> DEFINE r == Synchronize(rt)
           g == InvalidateExecutionCustody(r.registry)
           n == [r EXCEPT !.registry = g]
<1>1. /\ r \in Runtime /\ Quiet(rt, r) /\ Same(rt.registry, r.registry) /\ r.inbox = rt.inbox
  BY StateLemma, SynchronizeLemma
<1>2. /\ rt' \in {rt, r, n} /\ call.step = "checking"
      /\ call' \in {Idle, [call EXCEPT !.step = "receipt"]}
      /\ UNCHANGED answers \/ Answer(call.job, "handoff_invalidated")
      /\ UNCHANGED <<host, pairing, counts, made, taken>>
  BY DEF HandoffTargetCurrent
<1> HIDE DEF r
<1>3. r.registry \in Registry /\ r.revision \in Nat /\ rt.revision \in Nat
  BY <1>1, StateLemma DEF Runtime
<1>4. /\ g \in Registry /\ Later(r.registry, g) /\ Same(r.registry, g)
      /\ \A id \in DOMAIN g.jobs : ~Live(g.jobs[id])
  BY <1>3, InvalidateLemma DEF Later
<1> HIDE DEF g
<1>5. n \in Runtime /\ Quiet(r, n) /\ n.registry = g /\ n.inbox = r.inbox
  BY <1>1, <1>4, RegistryLemma
<1> HIDE DEF n
<1>6. Quiet(rt, n) /\ Same(rt.registry, n.registry)
  <2>1. n.revision \in Nat
    BY <1>5 DEF Runtime
  <2> QED BY <1>1, <1>3, <1>4, <1>5, <2>1, QuietTwice, LaterTwice DEF Quiet
<1>7. Quiet(rt, rt') /\ Same(rt.registry, rt'.registry) /\ rt'.inbox = rt.inbox
  <2>1. Quiet(rt, rt) /\ Same(rt.registry, rt.registry)
    BY StateLemma, QuietSelf
  <2> QED BY <1>1, <1>2, <1>5, <1>6, <2>1
<1>8. Asked' /\ call'.step # "started"
  <2>1. CASE call' = Idle
    BY <1>2, <2>1, StateLemma, IdleLemma
  <2>2. CASE call' = [call EXCEPT !.step = "receipt"]
    <3>1. /\ call' \in HumanCall /\ call'.step = "receipt" /\ call'.proposal = call.proposal
          /\ call'.job = call.job
      BY <2>2, StateLemma DEF HumanCall, Steps
    <3> QED BY <1>2, <3>1, AskedOn
  <2> QED BY <1>2, <2>1, <2>2
<1>9. call.job \in Ids
  BY <1>2 DEF IInv, Asked
<1>10. IInv'
  BY <1>2, <1>7, <1>8, <1>9, AnswerStep
<1> QED BY <1>7, <1>10, PlacedSame

(* The host reads the receipt. *)
LEMMA HandoffReceiptStep ==
  ASSUME IInv, HandoffReceipt PROVE IInv' /\ Placed
<1> DEFINE g == Cleanup(rt.registry)
           said == AcceptedReceipt(rt.inbox, g, call.job)
<1>1. /\ rt' = [rt EXCEPT !.registry = g] /\ call.step = "receipt"
      /\ call' \in {Idle, [call EXCEPT !.step = "settling"]}
      /\ UNCHANGED answers \/ Answer(call.job, said)
      /\ UNCHANGED <<host, pairing, counts, made, taken>>
  BY DEF HandoffReceipt
<1>2. said # "handoff_rejected"
  BY DEF AcceptedReceipt
<1>3. Later(rt.registry, g) /\ Same(rt.registry, g) /\ g \in Registry /\ g.closed = rt.registry.closed
  BY StateLemma, QuietSelf, CleanupLemma DEF Later
<1> HIDE DEF said, g
<1>4. Quiet(rt, rt') /\ Same(rt.registry, rt'.registry) /\ rt'.inbox = rt.inbox
  BY <1>1, <1>3, StateLemma, RegistryLemma
<1>5. Asked' /\ call'.step # "started"
  <2>1. CASE call' = Idle
    BY <1>1, <2>1, StateLemma, IdleLemma
  <2>2. CASE call' = [call EXCEPT !.step = "settling"]
    <3>1. /\ call' \in HumanCall /\ call'.step = "settling" /\ call'.proposal = call.proposal
          /\ call'.job = call.job
      BY <2>2, StateLemma DEF HumanCall, Steps
    <3> QED BY <1>1, <3>1, AskedOn
  <2> QED BY <1>1, <2>1, <2>2
<1>6. call.job \in Ids
  BY <1>1 DEF IInv, Asked
<1>7. IInv'
  BY <1>1, <1>2, <1>4, <1>5, <1>6, AnswerStep
<1> QED BY <1>4, <1>7, PlacedSame

(* The handoff is settled: "rejected" is answered only of an envelope that *)
(* was never taken, and the inbox is free of it.                           *)
LEMMA HandoffSettleStep ==
  ASSUME IInv, HandoffSettle PROVE IInv' /\ Placed
<1> DEFINE outcome == IF call.view = "rejected" THEN "rejected" ELSE "unknown"
           settles == Settles(rt.inbox, call.job)
           rejected == SettledAs(rt.inbox, outcome) = "rejected"
           x == SettleInbox(rt.inbox, outcome)
           g == SettleJob(rt.registry, rt.inbox, call.job, outcome)
           what == IF ~settles THEN "settled" ELSE IF rejected THEN "handoff_rejected" ELSE "handoff_unknown"
<1>1. /\ rt' = IF settles THEN [rt EXCEPT !.inbox = x, !.registry = g] ELSE rt
      /\ Answer(call.job, what) /\ call' = Idle /\ call.step = "settling"
      /\ UNCHANGED <<host, pairing, counts, made, taken>>
  BY DEF HandoffSettle
<1>2. call.job \in Ids
  BY <1>1 DEF IInv, Asked
<1>3. Asked' /\ call'.step # "started"
  BY <1>1, StateLemma, IdleLemma
<1>4. CASE ~settles
  <2>1. rt' = rt /\ what # "handoff_rejected"
    BY <1>1, <1>4
  <2> HIDE DEF what, settles
  <2>2. Quiet(rt, rt') /\ Same(rt.registry, rt'.registry) /\ rt'.inbox = rt.inbox
    BY <2>1, StateLemma, QuietSelf
  <2>3. IInv'
    BY <1>1, <1>2, <1>3, <2>1, <2>2, AnswerStep
  <2> QED BY <2>2, <2>3, PlacedSame
<1>5. CASE settles
  <2>1. rt.inbox \in Inbox /\ rt.registry \in Registry
    BY StateLemma DEF Runtime
  <2>2. rt.inbox.job = call.job /\ (rejected => rt.inbox.state = "offered")
    BY <1>5 DEF Settles, SettledAs
  <2>3. x \in Inbox /\ x.job \in {rt.inbox.job, 0} /\ x.state # "offered" /\ (rejected => x.job = 0)
    BY <2>1 DEF SettleInbox, ClearInbox, EmptyInbox, Inbox
  <2>4. /\ Moves(rt.registry, g) /\ Same(rt.registry, g)
        /\ ~rt.registry.closed => (call.job \in DOMAIN g.jobs => ~Live(g.jobs[call.job]))
    BY <2>1, SettleJobLemma
  <2>5. rt' = [rt EXCEPT !.inbox = x, !.registry = g]
    BY <1>1, <1>5
  <2>6. what = IF rejected THEN "handoff_rejected" ELSE "handoff_unknown"
    BY <1>5
  <2> HIDE DEF x, g, outcome, settles, rejected, what
  <2>7. Later(rt.registry, g) /\ g \in Registry /\ g.closed = rt.registry.closed
    BY <2>4 DEF Moves, Later
  <2>8. /\ rt' \in Runtime /\ rt'.inbox = x /\ rt'.registry = g /\ rt'.review = rt.review
        /\ rt'.proposal = rt.proposal
    BY <2>3, <2>5, <2>7, StateLemma DEF Runtime
  <2>9. Quiet(rt, rt')
    BY <2>7, <2>8 DEF Quiet
  <2>10. Pinned
    <3>1. ASSUME NEW id \in DOMAIN g.jobs, made[id].confirmed PROVE ~Live(g.jobs[id])
      <4>1. id \in DOMAIN rt.registry.jobs /\ (Live(g.jobs[id]) => Live(rt.registry.jobs[id]))
        BY <2>7 DEF Later
      <4>2. CASE id = call.job
        BY <2>4, <4>1, <4>2 DEF IInv, Sound, Jobs
      <4>3. CASE id # call.job
        BY <2>2, <3>1, <4>1, <4>3 DEF IInv, LiveJobPinsInbox, Jobs
      <4> QED BY <4>2, <4>3
    <3> QED BY <2>3, <2>8, <3>1 DEF Pinned, Jobs
  <2>11. Told' /\ taken' \subseteq Ids /\ DOMAIN answers' \subseteq Ids
    <3>1. /\ DOMAIN answers' \subseteq Ids /\ answers'[call.job] = what
          /\ \A i \in DOMAIN answers' : i # call.job => i \in DOMAIN answers /\ answers'[i] = answers[i]
      BY <1>1, <1>2, AnswerLemma
    <3>2. \A i \in Ids : i # 0
      BY DEF Ids
    <3>3. rejected => call.job \notin taken
      BY <2>2 DEF IInv, Told
    <3>4. ASSUME NEW i \in DOMAIN answers', answers'[i] = "handoff_rejected"
          PROVE  i \notin taken' /\ rt'.inbox.job # i
      <4>1. CASE i = call.job
        <5>1. rejected
          BY <2>6, <3>1, <3>4, <4>1
        <5> QED BY <1>1, <2>3, <2>8, <3>1, <3>2, <3>3, <4>1, <5>1
      <4>2. CASE i # call.job
        BY <1>1, <2>3, <2>8, <3>1, <3>2, <3>4, <4>2 DEF IInv, Told
      <4> QED BY <4>1, <4>2
    <3>5. taken' \subseteq Ids
      BY <1>1 DEF IInv, Types
    <3> QED BY <1>3, <2>3, <2>8, <3>1, <3>4, <3>5 DEF Told
  <2>12. IInv'
    BY <1>1, <1>3, <2>9, <2>10, <2>11, StateLemma, CalmLemma DEF HostOK
  <2> QED BY <2>4, <2>8, <2>12, PlacedSame
<1> QED BY <1>4, <1>5
-----------------------------------------------------------------------------
(* The start without the inbox. *)

(* A pending proposal is to be started, or it is stale. *)
LEMMA StartBeginStep ==
  ASSUME IInv, StartBegin PROVE IInv' /\ Placed
<1> DEFINE r == Synchronize(rt)
           n == [r EXCEPT !.proposal = NoProposal]
<1>1. /\ r \in Runtime /\ Quiet(rt, r) /\ Same(rt.registry, r.registry) /\ r.inbox = rt.inbox
  BY StateLemma, SynchronizeLemma
<1>2. /\ rt' \in {r, n} /\ UNCHANGED <<host, pairing, counts, made, taken, answers>>
      /\ call' \in {Idle, [Idle EXCEPT !.step = "starting", !.proposal = r.proposal,
                                       !.project = host.project]}
  BY DEF StartBegin
<1> HIDE DEF r
<1>3. r.registry \in Registry /\ r.proposal \in Proposal /\ r.revision \in Nat /\ rt.revision \in Nat
  BY <1>1, StateLemma DEF Runtime
<1>4. rt' \in Runtime /\ Quiet(r, rt') /\ rt'.registry = r.registry /\ rt'.inbox = r.inbox
  <2>1. NoProposal \in Proposal
    BY DEF NoProposal, Proposal
  <2>2. /\ n \in Runtime /\ n.proposal = NoProposal /\ n.registry = r.registry /\ n.inbox = r.inbox
        /\ n.review = r.review
    BY <1>1, <2>1 DEF Runtime
  <2> HIDE DEF n
  <2>3. Quiet(r, n)
    BY <1>3, <2>2 DEF Quiet, Later
  <2> QED BY <1>1, <1>2, <2>2, <2>3, QuietSelf
<1>5. Quiet(rt, rt')
  <2>1. rt'.revision \in Nat
    BY <1>4 DEF Runtime
  <2> QED BY <1>1, <1>3, <1>4, <2>1, QuietTwice
<1>6. Asked' /\ call'.step # "started"
  <2>1. CASE call' = Idle
    BY <1>2, <2>1, StateLemma, IdleLemma
  <2>2. CASE call' = [Idle EXCEPT !.step = "starting", !.proposal = r.proposal, !.project = host.project]
    <3>1. call' \in HumanCall /\ call'.step = "starting" /\ call'.proposal = r.proposal
      BY <1>3, <2>2, StateLemma DEF Idle, HumanCall, Steps, HostOK
    <3>2. r.proposal.id <= counts.proposals
      BY <1>1, StateLemma DEF Quiet, IInv, Drawn, NoProposal
    <3> QED BY <1>2, <3>1, <3>2 DEF Asked
  <2> QED BY <1>2, <2>1, <2>2
<1>7. IInv'
  BY <1>1, <1>2, <1>4, <1>5, <1>6, StateLemma, QuietStep DEF HostOK
<1> QED BY <1>1, <1>4, <1>7, PlacedSame

(* The proposal becomes a job. *)
LEMMA StartCommitStep ==
  ASSUME IInv, StartCommit PROVE IInv' /\ Placed
<1> DEFINE r == Synchronize(rt)
           id == counts.jobs + 1
           j == NewJob(r.proposal.id, r.epoch, r.proposal.pairing)
           g == ClaimAuthorized(r.registry, id, j)
           s == [r EXCEPT !.registry = g, !.proposal = NoProposal]
           m == [proposal |-> r.proposal.id, content |-> r.proposal.preview,
                 preview |-> r.proposal.preview, confirmed |-> FALSE]
<1>1. /\ r \in Runtime /\ Quiet(rt, r) /\ Same(rt.registry, r.registry) /\ r.inbox = rt.inbox
  BY StateLemma, SynchronizeLemma
<1>2. counts.jobs \in Nat /\ id \in Nat /\ UNCHANGED <<host, pairing, taken, answers>>
  BY StateLemma DEF StartCommit
<1>3. \/ rt' \in {rt, r} /\ call' = Idle /\ UNCHANGED <<counts, made>>
      \/ /\ Pending(r) /\ CanClaim(r.registry, r.epoch) /\ rt' = s
         /\ call' = [Idle EXCEPT !.step = "started", !.job = id]
         /\ counts' = [counts EXCEPT !.jobs = id] /\ made' = Append(made, m)
  BY DEF StartCommit, Claimed
<1> HIDE DEF r
<1>4. CASE rt' \in {rt, r} /\ call' = Idle /\ UNCHANGED <<counts, made>>
  <2>1. Quiet(rt, rt') /\ Same(rt.registry, rt'.registry) /\ rt'.inbox = rt.inbox
    BY <1>1, <1>4, StateLemma, QuietSelf
  <2>2. Asked' /\ call'.step # "started"
    BY <1>4, StateLemma, IdleLemma
  <2>3. IInv'
    BY <1>2, <1>4, <2>1, <2>2, StateLemma, QuietStep DEF HostOK
  <2> QED BY <2>1, <2>3, PlacedSame
<1>5. CASE /\ Pending(r) /\ CanClaim(r.registry, r.epoch) /\ rt' = s
           /\ call' = [Idle EXCEPT !.step = "started", !.job = id]
           /\ counts' = [counts EXCEPT !.jobs = id] /\ made' = Append(made, m)
  <2>1. r.proposal \in Proposal /\ r.proposal.id \in Nat /\ r.review \in Review
    BY <1>1 DEF Runtime, Proposal
  <2>2. DOMAIN r.registry.jobs \subseteq Ids /\ id \notin Ids
    BY <1>1, <1>2 DEF Quiet, Later, IInv, Drawn, Jobs, Ids
  <2>3. counts' \in Counts /\ id \in Ids'
    <3>1. counts' \in Counts /\ counts'.jobs = id
      BY <1>2, <1>5, StateLemma DEF Counts
    <3> QED BY <1>2, <3>1 DEF Ids
  <2> HIDE DEF id
  <2>4. g \in Registry
    <3>1. id \in Nat /\ id \notin DOMAIN r.registry.jobs
      BY <1>2, <2>2
    <3>2. j = NewJob(r.proposal.id, r.epoch, r.proposal.pairing) /\ g = ClaimAuthorized(r.registry, id, j)
      OBVIOUS
    <3> HIDE DEF g, j
    <3> QED BY <1>1, <3>1, <3>2, ClaimPending
  <2> HIDE DEF g, j
  <2>5. /\ rt' \in Runtime /\ rt'.registry = g /\ rt'.proposal = NoProposal /\ rt'.inbox = r.inbox
        /\ rt'.review = r.review
    <3>1. NoProposal \in Proposal
      BY DEF NoProposal, Proposal
    <3> QED BY <1>1, <1>5, <2>4, <3>1 DEF Runtime
  <2>6. m \in Made /\ m.proposal = r.proposal.id /\ m.content = m.preview /\ ~m.confirmed
    BY <2>1 DEF Made, Proposal
  <2>7. /\ call' \in HumanCall /\ call'.step = "started" /\ call'.proposal = NoProposal
        /\ call'.job = id
    BY <1>2, <1>5 DEF Idle, HumanCall, Steps, NoProposal, Proposal
  <2>8. Asked'
    BY <2>3, <2>7, AskedJob
  <2>9. Told'
    <3>1. id \notin taken /\ rt.inbox.job # id
      BY <1>2, <2>2, StateLemma DEF IInv, Types, Drawn, id, Runtime, Inbox
    <3> QED BY <1>1, <1>2, <2>5, <2>7, <3>1 DEF IInv, Told
  <2>10. Shown(rt'.review)
    BY <1>1, <2>5 DEF Quiet, IInv, Reviewed
  <2> HIDE DEF m
  <2> QED BY <1>1, <1>2, <1>5, <2>5, <2>6, <2>8, <2>9, <2>10, ClaimStep DEF g, j, id
<1> QED BY <1>3, <1>4, <1>5

(* The start is answered: with "rejected" only while nobody has the job.   *)
LEMMA StartAnsweredStep ==
  ASSUME IInv, NEW outcome \in {"accepted", "rejected", "unknown"}, StartAnswered(outcome)
  PROVE  IInv' /\ Placed
<1> DEFINE g == IF outcome = "accepted" THEN Cleanup(rt.registry)
                ELSE SettleHandoff(rt.registry, call.job, outcome)
           what == IF outcome = "rejected" THEN "handoff_rejected"
                   ELSE IF outcome = "unknown" THEN "handoff_unknown"
                   ELSE IF Has(g, call.job) /\ g.jobs[call.job].state = "claimed"
                   THEN "characterized_acceptance" ELSE "handoff_invalidated"
<1>1. /\ rt' = [rt EXCEPT !.registry = g] /\ call.step = "started" /\ call' = Idle
      /\ Answer(call.job, what)
      /\ taken' = IF outcome = "accepted" THEN taken \cup {call.job} ELSE taken
      /\ UNCHANGED <<host, pairing, counts, made>>
  BY DEF StartAnswered
<1>2. call.job \in Ids
  BY <1>1 DEF IInv, Asked
<1>3. Asked' /\ call'.step # "started"
  BY <1>1, StateLemma, IdleLemma
<1>4. what = "handoff_rejected" => outcome = "rejected"
  OBVIOUS
<1>5. rt.registry \in Registry
  BY StateLemma DEF Runtime
<1>6. Later(rt.registry, g) /\ Same(rt.registry, g) /\ g.closed = rt.registry.closed /\ g \in Registry
  <2>1. CASE outcome = "accepted"
    BY <1>5, <2>1, CleanupLemma DEF Later
  <2>2. CASE outcome # "accepted"
    BY <1>5, <2>2, SettleHandoffLemma DEF Moves, Later
  <2> QED BY <2>1, <2>2
<1> HIDE DEF g, what
<1>7. Quiet(rt, rt') /\ Same(rt.registry, rt'.registry) /\ rt'.inbox = rt.inbox
  BY <1>1, <1>6, StateLemma, RegistryLemma
<1>8. /\ DOMAIN answers' \subseteq Ids /\ answers'[call.job] = what
      /\ \A i \in DOMAIN answers' : i # call.job => i \in DOMAIN answers /\ answers'[i] = answers[i]
  BY <1>1, <1>2, AnswerLemma
<1>9. call.job \notin taken /\ rt.inbox.job # call.job
  BY <1>1 DEF IInv, Told
<1>10. ASSUME NEW i \in DOMAIN answers', answers'[i] = "handoff_rejected"
       PROVE  i \notin taken' /\ rt'.inbox.job # i
  <2>1. CASE i = call.job
    BY <1>1, <1>4, <1>7, <1>8, <1>9, <1>10, <2>1
  <2>2. CASE i # call.job
    BY <1>1, <1>7, <1>8, <1>10, <2>2 DEF IInv, Told
  <2> QED BY <2>1, <2>2
<1>11. taken' \subseteq Ids
  BY <1>1, <1>2 DEF IInv, Types
<1>12. Told'
  BY <1>1, <1>3, <1>7, <1>9, <1>10 DEF IInv, Told
<1>13. Pinned
  BY <1>7 DEF Pinned
<1>14. IInv'
  BY <1>1, <1>3, <1>7, <1>8, <1>11, <1>12, <1>13, StateLemma, CalmLemma DEF HostOK
<1> QED BY <1>7, <1>14, PlacedSame
-----------------------------------------------------------------------------
(* The executor's threads and the host's registrations. *)

(* A registry that has only lost jobs, and what then becomes of it. *)
LEMMA MovesAfter ==
  ASSUME NEW r, NEW m, NEW n, Later(r, m), Same(r, m), m.target = r.target, m.closed = r.closed,
         Moves(m, n)
  PROVE  Moves(r, n) /\ (Same(m, n) => Same(r, n))
BY LaterTwice DEF Moves, Same, Later

(* An accepted event moves one request of its job. *)
LEMMA EventMoves ==
  ASSUME NEW r \in Registry, NEW id \in DOMAIN r.jobs, SoundJob(r.jobs[id]), Live(r.jobs[id]),
         r.jobs[id].target = r.target, NEW e \in Event, EventAccepted(r.jobs[id], e),
         e.kind \in OutputKinds => e.outputs > 0
  PROVE  Moves(r, SetJob(r, id, ApplyEvent(r.jobs[id], e)))
<1> DEFINE j == r.jobs[id]
           n == ApplyEvent(j, e)
<1>1. j \in JobRecord
  BY JobsOf
<1>2. n \in JobRecord /\ SoundJob(n) /\ n.target = j.target
  BY <1>1, EventLemma
<1> HIDE DEF n
<1>3. LET m == SetJob(r, id, n)
      IN  /\ Later(r, m) /\ m.target = r.target /\ m.closed = r.closed
          /\ DOMAIN m.jobs = DOMAIN r.jobs /\ m.jobs[id] = n
          /\ \A k \in DOMAIN r.jobs : k # id => m.jobs[k] = r.jobs[k]
  BY <1>2, SetJobLemma
<1>4. Moves(r, SetJob(r, id, n))
  BY <1>2, <1>3 DEF Moves
<1> QED BY <1>4 DEF n

(* From r to n the registry changes, the inbox not visibly. *)
Registers(r, n) ==
  /\ n \in Runtime /\ n.epoch = r.epoch /\ n.seen = r.seen /\ n.proposal = r.proposal
  /\ n.review = r.review /\ n.revision = r.revision
  /\ n.inbox.job = r.inbox.job /\ n.inbox.state = r.inbox.state

(* The registry is replaced. *)
LEMMA RegistersLemma ==
  ASSUME NEW r \in Runtime, NEW g \in Registry, NEW n, n = [r EXCEPT !.registry = g]
  PROVE  Registers(r, n) /\ n.registry = g
BY DEF Runtime, Registers

(* A step of the registry, with the call and the reports as they are.      *)
LEMMA MovesStep ==
  ASSUME IInv, NEW r \in Runtime, Quiet(rt, r), Steady(rt, r), Same(rt.registry, r.registry),
         r.inbox = rt.inbox, Moves(r.registry, rt'.registry),
         Aligned(r) \/ Same(r.registry, rt'.registry), Registers(r, rt'),
         UNCHANGED <<host, pairing, call, counts, made, taken, answers>>
  PROVE  IInv' /\ Placed
<1>1. Later(r.registry, rt'.registry) /\ rt'.registry.closed = r.registry.closed
  BY DEF Moves
<1>2. rt.revision \in Nat /\ r.revision \in Nat /\ rt'.revision \in Nat
  BY StateLemma DEF Registers, Runtime
<1>3. Quiet(r, rt') /\ Steady(r, rt')
  BY <1>1, <1>2 DEF Quiet, Steady, Registers
<1>4. Quiet(rt, rt') /\ Steady(rt, rt')
  BY <1>2, <1>3, QuietTwice
<1>5. Asked'
  BY <1>4, StateLemma, AskedStays
<1>6. IInv'
  BY <1>4, <1>5, StateLemma, QuietStep DEF HostOK, Registers
<1>7. Placed
  BY <1>1 DEF Placed, Same, Moves, Aligned, Jobs, Quiet, Later, Registers
<1> QED BY <1>6, <1>7

(* An executor takes the envelope, which nobody else has. *)
LEMMA ExecutorAcceptsStep ==
  ASSUME IInv, NEW id \in Ids, ExecutorAccepts(id) PROVE IInv' /\ Placed
<1> DEFINE g == Cleanup(rt.registry)
           y == [rt.inbox EXCEPT !.state = "accepted"]
<1>1. rt \in Runtime /\ rt.registry \in Registry /\ rt.inbox \in Inbox
  BY StateLemma DEF Runtime
<1>2. /\ rt.inbox.job = id /\ rt.inbox.state = "offered"
      /\ taken' = taken \cup {id} /\ UNCHANGED <<host, pairing, call, counts, made, answers>>
  BY DEF ExecutorAccepts, Acceptable
<1>3. Later(rt.registry, g) /\ Same(rt.registry, g) /\ g \in Registry /\ g.closed = rt.registry.closed
  BY <1>1, CleanupLemma DEF Later
<1>4. rt' = [rt EXCEPT !.registry = g, !.inbox = y]
  <2>1. rt' = [rt EXCEPT !.registry = g, !.inbox.state = "accepted"]
    BY DEF ExecutorAccepts
  <2> HIDE DEF g
  <2> QED BY <1>1, <2>1 DEF Runtime, Inbox
<1>5. y \in Inbox /\ y.job = id /\ y.state = "accepted"
  BY <1>1, <1>2 DEF Inbox
<1> HIDE DEF g, y
<1>6. /\ rt' \in Runtime /\ rt'.registry = g /\ rt'.inbox = y /\ rt'.proposal = rt.proposal
      /\ rt'.review = rt.review /\ rt'.revision = rt.revision /\ rt.revision \in Nat
  BY <1>1, <1>3, <1>4, <1>5 DEF Runtime
<1>7. Quiet(rt, rt') /\ Steady(rt, rt')
  BY <1>3, <1>6 DEF Quiet, Steady
<1>8. Pinned
  BY <1>2, <1>5, <1>6 DEF Pinned
<1>9. Told' /\ taken' \subseteq Ids /\ DOMAIN answers' \subseteq Ids
  BY <1>2, <1>5, <1>6 DEF IInv, Told, Types
<1>10. Asked'
  BY <1>2, <1>7, StateLemma, AskedStays
<1>11. IInv'
  BY <1>2, <1>7, <1>8, <1>9, <1>10, StateLemma, CalmLemma DEF HostOK
<1> QED BY <1>3, <1>6, <1>11, PlacedSame

(* An event arrives: it counts only in the job's own target. *)
LEMMA DeliverEventStep ==
  ASSUME IInv, NEW id \in Ids, NEW e \in Event, e.kind \in OutputKinds => e.outputs > 0,
         DeliverEvent(id, e)
  PROVE  IInv' /\ Placed
<1> DEFINE r == IF rt.closed THEN rt ELSE Synchronize(rt)
           g == Cleanup(r.registry)
           x == r.inbox
           job == g.jobs[id]
           current == /\ ~rt.closed /\ Has(g, id) /\ job.target = r.epoch /\ job.pairing = pairing
           late == LateEvent(x, g, id, current)
           end == SetJob(g, id, Finish(job, "stale_target_outputs_not_registered"))
           event == SetJob(g, id, ApplyEvent(job, e))
           b == x.late \/ e.kind \in OutputKinds
           y == [x EXCEPT !.late = b]
<1>1. /\ r \in Runtime /\ Quiet(rt, r) /\ Steady(rt, r) /\ Same(rt.registry, r.registry)
      /\ r.inbox = rt.inbox /\ (~rt.closed => Aligned(r)) /\ r.registry \in Registry /\ x \in Inbox
  <2>1. /\ r \in Runtime /\ Quiet(rt, r) /\ Steady(rt, r) /\ Same(rt.registry, r.registry)
        /\ r.inbox = rt.inbox /\ (~rt.closed => Aligned(r))
    BY StateLemma, SynchronizeLemma, QuietSelf
  <2> HIDE DEF r
  <2> QED BY <2>1 DEF Runtime
<1>2. UNCHANGED <<host, pairing, call, counts, made, taken, answers>>
  BY DEF DeliverEvent
<1>3. \/ rt' = [r EXCEPT !.registry = IF Has(g, id) /\ Live(job) THEN end ELSE g, !.inbox.late = b]
      \/ ~late /\ EventAccepted(job, e) /\ rt' = [r EXCEPT !.registry = event]
      \/ rt' = [r EXCEPT !.registry = g]
  BY DEF DeliverEvent
<1> HIDE DEF r
<1>4. Later(r.registry, g) /\ Same(r.registry, g) /\ g.target = r.registry.target
      /\ g.closed = r.registry.closed /\ g \in Registry
  BY <1>1, CleanupLemma DEF Later
<1> HIDE DEF g
<1>5. Moves(r.registry, g)
  BY <1>4 DEF Moves, Same
<1>6. Has(g, id) /\ Live(job) => Moves(r.registry, end) /\ Same(r.registry, end)
  <2>1. "stale_target_outputs_not_registered" \in Ends
    BY DEF Ends, Terminal, Settled
  <2>2. Has(g, id) /\ Live(job) => Later(g, end) /\ Same(g, end) /\ end.target = g.target /\ end.closed = g.closed
    BY <1>4, <2>1, EndJobLemma DEF Has
  <2> HIDE DEF end
  <2>3. Has(g, id) /\ Live(job) => Moves(g, end)
    BY <2>2 DEF Moves, Same
  <2> QED BY <1>4, <2>2, <2>3, MovesAfter
<1>7. ~late /\ EventAccepted(job, e) => Moves(r.registry, event) /\ Aligned(r)
  <2> SUFFICES ASSUME ~late, EventAccepted(job, e) PROVE Moves(r.registry, event) /\ Aligned(r)
    OBVIOUS
  <2>1. ~rt.closed /\ id \in DOMAIN g.jobs /\ Live(job) /\ job.target = r.epoch
    BY DEF LateEvent, Has
  <2>2. Aligned(r) /\ job.target = g.target
    BY <1>1, <1>4, <2>1 DEF Aligned
  <2>3. SoundJob(job)
    BY <1>1, <1>4, <2>1 DEF IInv, Sound, Jobs, Quiet, Later
  <2>4. Moves(g, event)
    BY <1>4, <2>1, <2>2, <2>3, EventMoves
  <2> HIDE DEF event
  <2> QED BY <1>4, <2>2, <2>4, MovesAfter
<1> HIDE DEF end, event, late
<1>8. CASE rt' = [r EXCEPT !.registry = IF Has(g, id) /\ Live(job) THEN end ELSE g, !.inbox.late = b]
  <2> DEFINE h == IF Has(g, id) /\ Live(job) THEN end ELSE g
  <2>1. Moves(r.registry, h) /\ Same(r.registry, h)
    BY <1>4, <1>5, <1>6
  <2>2. rt' = [r EXCEPT !.registry = h, !.inbox.late = b]
    BY <1>8
  <2> HIDE DEF h
  <2>3. y \in Inbox /\ y.job = x.job /\ y.state = x.state
    BY <1>1 DEF Inbox
  <2>4. rt' = [r EXCEPT !.registry = h, !.inbox = y]
    BY <1>1, <2>2 DEF Runtime, Inbox
  <2> HIDE DEF y
  <2>5. h \in Registry
    BY <2>1 DEF Moves, Later
  <2>6. Registers(r, rt') /\ rt'.registry = h
    BY <1>1, <2>3, <2>4, <2>5 DEF Runtime, Registers
  <2> QED BY <1>1, <1>2, <2>1, <2>6, MovesStep
<1>9. CASE ~late /\ EventAccepted(job, e) /\ rt' = [r EXCEPT !.registry = event]
  <2>1. Moves(r.registry, event) /\ Aligned(r) /\ rt' = [r EXCEPT !.registry = event]
    BY <1>7, <1>9
  <2>2. Registers(r, rt') /\ rt'.registry = event
    BY <1>1, <2>1, RegistersLemma DEF Moves, Later
  <2> QED BY <1>1, <1>2, <2>1, <2>2, MovesStep
<1>10. CASE rt' = [r EXCEPT !.registry = g]
  <2>1. Registers(r, rt') /\ rt'.registry = g
    BY <1>1, <1>4, <1>10, RegistersLemma
  <2> QED BY <1>1, <1>2, <1>4, <1>5, <2>1, MovesStep
<1> QED BY <1>3, <1>8, <1>9, <1>10

(* Outputs are registered in the Project of the job. *)
LEMMA PublishOutputsStep ==
  ASSUME IInv, NEW id \in Ids, NEW i \in 1..Requests, NEW n \in Nat, PublishOutputs(id, i, n)
  PROVE  IInv' /\ Placed
<1> DEFINE r == Synchronize(rt)
           binding == r.registry.jobs[id].target
           g == IF Has(r.registry, id) THEN Publication(r.registry, id, binding, i, n) ELSE r.registry
<1>1. /\ r \in Runtime /\ Quiet(rt, r) /\ Steady(rt, r) /\ Same(rt.registry, r.registry)
      /\ r.inbox = rt.inbox /\ Aligned(r)
  BY StateLemma, SynchronizeLemma
<1>2. rt' = [r EXCEPT !.registry = g] /\ UNCHANGED <<host, pairing, call, counts, made, taken, answers>>
  BY DEF PublishOutputs
<1> HIDE DEF r
<1>3. r.registry \in Registry
  BY <1>1 DEF Runtime
<1>4. \A k \in DOMAIN r.registry.jobs : SoundJob(r.registry.jobs[k])
  BY <1>1 DEF IInv, Sound, Jobs, Quiet, Later
<1>5. Moves(r.registry, g)
  <2>1. Moves(r.registry, Publication(r.registry, id, binding, i, n))
    BY <1>3, <1>4, PublicationLemma
  <2>2. Moves(r.registry, r.registry)
    BY <1>3 DEF Moves, Later
  <2> QED BY <2>1, <2>2
<1> HIDE DEF g
<1>6. Registers(r, rt') /\ rt'.registry = g
  BY <1>1, <1>2, <1>5, RegistersLemma DEF Moves, Later
<1> QED BY <1>1, <1>2, <1>5, <1>6, MovesStep

(* A save is recorded. *)
LEMMA SaveOutputsStep ==
  ASSUME IInv, NEW id \in Ids, NEW outcome \in {"saved", "save_failed", "save_uncertain"},
         SaveOutputs(id, outcome)
  PROVE  IInv' /\ Placed
<1> DEFINE r == Synchronize(rt)
           binding == r.registry.jobs[id].target
           g == IF Has(r.registry, id) THEN Save(r.registry, id, binding, outcome) ELSE r.registry
<1>1. /\ r \in Runtime /\ Quiet(rt, r) /\ Steady(rt, r) /\ Same(rt.registry, r.registry)
      /\ r.inbox = rt.inbox /\ Aligned(r)
  BY StateLemma, SynchronizeLemma
<1>2. rt' = [r EXCEPT !.registry = g] /\ UNCHANGED <<host, pairing, call, counts, made, taken, answers>>
  BY DEF SaveOutputs
<1> HIDE DEF r
<1>3. r.registry \in Registry
  BY <1>1 DEF Runtime
<1>4. Moves(r.registry, g)
  <2>1. Moves(r.registry, Save(r.registry, id, binding, outcome))
    BY <1>3, SaveLemma
  <2>2. Moves(r.registry, r.registry)
    BY <1>3 DEF Moves, Later
  <2> QED BY <2>1, <2>2
<1> HIDE DEF g
<1>5. Registers(r, rt') /\ rt'.registry = g
  BY <1>1, <1>2, <1>4, RegistersLemma DEF Moves, Later
<1> QED BY <1>1, <1>2, <1>4, <1>5, MovesStep

(* A job is cancelled before anything of it was submitted. *)
LEMMA CancelJobStep ==
  ASSUME IInv, NEW id \in Ids, CancelJob(id) PROVE IInv' /\ Placed
<1> DEFINE g == CancelBeforeSubmission(rt.registry, id)
<1>1. rt' = [rt EXCEPT !.registry = g] /\ UNCHANGED <<host, pairing, call, counts, made, taken, answers>>
  BY DEF CancelJob
<1>2. rt \in Runtime /\ rt.registry \in Registry
  BY StateLemma DEF Runtime
<1>3. Moves(rt.registry, g) /\ Same(rt.registry, g)
  BY <1>2, CancelLemma
<1> HIDE DEF g
<1>4. Quiet(rt, rt) /\ Steady(rt, rt) /\ Same(rt.registry, rt.registry)
  BY <1>2, QuietSelf
<1>5. Registers(rt, rt') /\ rt'.registry = g
  BY <1>1, <1>2, <1>3, RegistersLemma DEF Moves, Later
<1> QED BY <1>1, <1>2, <1>3, <1>4, <1>5, MovesStep

(* The executor's slot is freed when its job has ended. *)
LEMMA RetireStep ==
  ASSUME IInv, NEW id \in Ids, Retire(id) PROVE IInv' /\ Placed
<1> DEFINE x == ClearInbox(rt.inbox)
<1>1. rt' = [rt EXCEPT !.inbox = x] /\ UNCHANGED <<host, pairing, call, counts, made, taken, answers>>
      /\ rt.inbox.job = id /\ id \in DOMAIN Jobs /\ Jobs[id].state \in Settled
  BY DEF Retire, Retirable, Has, Jobs
<1>2. rt \in Runtime /\ rt.inbox \in Inbox /\ rt.registry \in Registry
  BY StateLemma DEF Runtime
<1>3. x \in Inbox /\ x.job = 0 /\ x.state = "empty"
  BY <1>2 DEF ClearInbox, EmptyInbox, Inbox
<1> HIDE DEF x
<1>4. /\ rt' \in Runtime /\ rt'.inbox = x /\ rt'.registry = rt.registry /\ rt'.proposal = rt.proposal
      /\ rt'.review = rt.review /\ rt'.revision = rt.revision /\ rt.revision \in Nat
  BY <1>1, <1>2, <1>3 DEF Runtime
<1>5. Quiet(rt, rt') /\ Steady(rt, rt') /\ Same(rt.registry, rt'.registry)
  BY <1>2, <1>4 DEF Quiet, Steady, Later, Same
<1>6. Pinned
  <2>1. ~Live(Jobs[id])
    BY <1>1 DEF Live, Terminal
  <2> QED BY <1>1, <1>3, <1>4, <2>1 DEF IInv, LiveJobPinsInbox, Pinned, Jobs
<1>7. Told' /\ taken' \subseteq Ids /\ DOMAIN answers' \subseteq Ids
  BY <1>1, <1>3, <1>4, ToldStays
<1>8. Asked'
  BY <1>1, <1>5, StateLemma, AskedStays
<1>9. IInv'
  BY <1>1, <1>5, <1>6, <1>7, <1>8, StateLemma, CalmLemma DEF HostOK
<1> QED BY <1>5, <1>9, PlacedSame
-----------------------------------------------------------------------------
(* The session around them. *)

(* A proposal is published: its number is new. *)
LEMMA ProposeStep ==
  ASSUME IInv, Propose PROVE IInv' /\ Placed
<1> DEFINE r == Synchronize(rt)
           id == counts.proposals + 1
           p == [id |-> id, epoch |-> r.epoch, pairing |-> pairing, preview |-> host.content]
<1>1. /\ r \in Runtime /\ Quiet(rt, r) /\ Steady(rt, r) /\ Same(rt.registry, r.registry)
      /\ r.inbox = rt.inbox
  BY StateLemma, SynchronizeLemma
<1>2. /\ rt' = [r EXCEPT !.proposal = p] /\ counts' = [counts EXCEPT !.proposals = id]
      /\ UNCHANGED <<host, pairing, call, made, taken, answers>>
  BY DEF Propose
<1> HIDE DEF r
<1>3. id \in Nat /\ counts.proposals \in Nat /\ id > counts.proposals
  BY StateLemma
<1>4. p \in Proposal /\ p.id = id
  BY <1>1, <1>3, StateLemma DEF Proposal, Runtime, HostOK
<1> HIDE DEF p
<1>5. /\ rt' \in Runtime /\ rt'.registry = r.registry /\ rt'.inbox = rt.inbox /\ rt'.proposal = p
      /\ rt'.review = r.review /\ rt'.revision = r.revision
      /\ r.revision \in Nat /\ rt.revision \in Nat /\ r.registry \in Registry
  BY <1>1, <1>2, <1>4, StateLemma DEF Runtime
<1>6. counts' \in Counts /\ counts'.jobs = counts.jobs /\ counts'.proposals = id
  BY <1>2, <1>3, StateLemma DEF Counts
<1> HIDE DEF id
<1>7. Ids' = Ids /\ Jobs' = r.registry.jobs /\ Later(rt.registry, r.registry)
  BY <1>1, <1>5, <1>6 DEF Ids, Jobs, Quiet
<1>8. Types'
  BY <1>2, <1>5, <1>6, <1>7 DEF IInv, Types
<1>9. \A i \in Ids : made[i].proposal \in Nat /\ made[i].proposal <= counts.proposals
  <2>1. made \in Seq(Made) /\ \A i \in Ids : i \in 1..Len(made)
    BY DEF IInv, Types, Ids
  <2>2. \A i \in Ids : made[i] \in Made
    BY <2>1
  <2> QED BY <2>2 DEF Made, IInv, Drawn
<1>10. Drawn'
  <2>1. \A i \in Ids : made'[i].proposal <= id
    BY <1>2, <1>3, <1>9
  <2>2. DOMAIN Jobs' \subseteq Ids /\ rt'.inbox.job <= counts'.jobs
    BY <1>5, <1>6, <1>7 DEF IInv, Drawn, Later, Jobs
  <2> QED BY <1>3, <1>4, <1>5, <1>6, <1>7, <2>1, <2>2 DEF Drawn
<1>11. Once'
  BY <1>2, <1>3, <1>4, <1>5, <1>7, <1>9 DEF IInv, Once, OneJobPerProposal
<1>12. Reviewed'
  BY <1>1, <1>2, <1>5 DEF IInv, Reviewed, OfferedAsReviewed, Quiet
<1>13. Asked'
  <2>1. call.proposal.id \in Nat /\ call.proposal.id <= counts.proposals /\ call.revision \in Nat
    BY StateLemma DEF IInv, Asked, HumanCall, Proposal
  <2>2. rt'.proposal # call.proposal
    BY <1>3, <1>4, <1>5, <2>1
  <2>3. call.step \in {"building", "built"} =>
          /\ call.proposal.id # 0 /\ call.revision <= rt'.revision
          /\ call.revision = rt'.revision =>
               rt'.review.phase = "preparing" /\ rt'.review.proposal = call.proposal
    BY <1>1, <1>5, <2>1 DEF IInv, Asked, Steady
  <2>4. call.proposal.id <= id
    BY <1>3, <2>1
  <2> QED BY <1>2, <1>6, <1>7, <2>2, <2>3, <2>4 DEF IInv, Asked
<1>14. LiveJobPinsInbox'
  BY <1>2, <1>5, <1>7 DEF IInv, LiveJobPinsInbox, Later, Jobs
<1>15. Told'
  BY <1>2, <1>5 DEF IInv, Told
<1>16. Sound'
  BY <1>1, <1>5, <1>7 DEF IInv, Sound, Quiet, Later, Jobs
<1>17. IInv'
  BY <1>8, <1>10, <1>11, <1>12, <1>13, <1>14, <1>15, <1>16 DEF IInv
<1> QED BY <1>1, <1>5, <1>17, PlacedSame

(* The proposal leaves custody. *)
LEMMA NoProposalLemma ==
  ASSUME NEW r \in Runtime, NEW n, n = [r EXCEPT !.proposal = NoProposal]
  PROVE  /\ n \in Runtime /\ Quiet(r, n) /\ Steady(r, n) /\ n.registry = r.registry
         /\ n.inbox = r.inbox /\ n.revision \in Nat
<1>1. NoProposal \in Proposal
  BY DEF NoProposal, Proposal
<1>2. /\ n \in Runtime /\ n.proposal = NoProposal /\ n.review = r.review /\ n.registry = r.registry
      /\ n.inbox = r.inbox /\ n.revision = r.revision /\ r.revision \in Nat /\ r.registry \in Registry
  BY <1>1 DEF Runtime
<1> QED BY <1>2 DEF Quiet, Steady, Later

(* The proposal ends. *)
LEMMA ProposalEndsStep ==
  ASSUME IInv, ProposalEnds PROVE IInv' /\ Placed
<1>1. rt' = [rt EXCEPT !.proposal = NoProposal] /\ rt \in Runtime
      /\ UNCHANGED <<host, pairing, call, counts, made, taken, answers>>
  BY StateLemma DEF ProposalEnds
<1>2. /\ Quiet(rt, rt') /\ Steady(rt, rt') /\ rt'.registry = rt.registry /\ rt'.inbox = rt.inbox
  BY <1>1, NoProposalLemma
<1>3. Asked'
  BY <1>1, <1>2, StateLemma, AskedStays
<1>4. IInv'
  BY <1>1, <1>2, <1>3, StateLemma, QuietStep DEF HostOK
<1>5. Same(rt.registry, rt'.registry)
  BY <1>2 DEF Same
<1> QED BY <1>4, <1>5, PlacedSame

(* A rerun pumps the session. *)
LEMMA PumpStep ==
  ASSUME IInv, Pump PROVE IInv' /\ Placed
<1>1. rt' = Synchronize(rt) /\ UNCHANGED <<host, pairing, call, counts, made, taken, answers>>
  BY DEF Pump
<1>2. /\ Quiet(rt, rt') /\ Steady(rt, rt') /\ Same(rt.registry, rt'.registry) /\ rt'.inbox = rt.inbox
  BY <1>1, StateLemma, SynchronizeLemma
<1>3. Asked'
  BY <1>1, <1>2, StateLemma, AskedStays
<1>4. IInv'
  BY <1>1, <1>2, <1>3, StateLemma, QuietStep DEF HostOK
<1> QED BY <1>2, <1>4, PlacedSame

(* The envelope is invalidated together with every job. *)
LEMMA InvalidationStep ==
  ASSUME IInv, NEW c \in Runtime, Quiet(rt, c), Steady(rt, c), c.registry = rt.registry, c.inbox = rt.inbox,
         NEW g \in Registry, Later(rt.registry, g), Same(rt.registry, g),
         \A id \in DOMAIN g.jobs : ~Live(g.jobs[id]),
         rt' \in Runtime, rt'.registry = g, rt'.proposal = c.proposal, rt'.review = c.review,
         rt'.revision = c.revision, rt'.inbox.job \in {rt.inbox.job, 0}, rt'.inbox.state # "offered",
         pairing' \in Nat, UNCHANGED <<host, call, counts, made, taken, answers>>
  PROVE  IInv' /\ Placed
<1>1. c.revision \in Nat /\ rt.revision \in Nat /\ rt'.revision \in Nat
  BY StateLemma DEF Runtime
<1>2. Quiet(rt, rt') /\ Steady(rt, rt')
  BY <1>1 DEF Quiet, Steady
<1>3. Pinned
  BY DEF Pinned, Jobs
<1>4. Told' /\ taken' \subseteq Ids /\ DOMAIN answers' \subseteq Ids
  BY ToldStays
<1>5. Asked'
  BY <1>2, StateLemma, AskedStays
<1>6. IInv'
  BY <1>2, <1>3, <1>4, <1>5, StateLemma, CalmLemma DEF HostOK
<1> QED BY <1>6, PlacedSame

(* Both inboxes that no longer offer their envelope. *)
LEMMA InvalidateInboxLemma ==
  ASSUME NEW x \in Inbox
  PROVE  /\ InvalidateInbox(x) \in Inbox /\ InvalidateInbox(x).job \in {x.job, 0}
         /\ InvalidateInbox(x).state # "offered"
         /\ CloseInbox(x) \in Inbox /\ CloseInbox(x).job \in {x.job, 0}
         /\ CloseInbox(x).state # "offered"
<1>1. /\ InvalidateInbox(x) \in Inbox /\ InvalidateInbox(x).job \in {x.job, 0}
      /\ InvalidateInbox(x).state # "offered"
  BY DEF InvalidateInbox, ClearInbox, EmptyInbox, Inbox
<1> DEFINE y == InvalidateInbox(x)
<1>2. CloseInbox(x) = [y EXCEPT !.closed = TRUE]
  BY DEF CloseInbox
<1> HIDE DEF y
<1>3. y \in Inbox => /\ CloseInbox(x) \in Inbox /\ CloseInbox(x).job = y.job
                     /\ CloseInbox(x).state = y.state
  BY <1>2 DEF Inbox
<1> QED BY <1>1, <1>3 DEF y

(* The pairing is disarmed. *)
LEMMA DisarmStep ==
  ASSUME IInv, Disarm PROVE IInv' /\ Placed
<1> DEFINE b == [rt EXCEPT !.proposal = NoProposal]
           c == Clear(b)
           g == InvalidateExecutionCustody(c.registry)
           y == InvalidateInbox(c.inbox)
<1>1. rt \in Runtime /\ rt.registry \in Registry /\ rt.inbox \in Inbox /\ rt.revision \in Nat
  BY StateLemma DEF Runtime
<1>2. rt' = [c EXCEPT !.registry = g, !.inbox = y] /\ pairing' = 0
      /\ UNCHANGED <<host, call, counts, made, taken, answers>>
  BY DEF Disarm
<1>3. /\ b \in Runtime /\ Quiet(rt, b) /\ Steady(rt, b) /\ b.registry = rt.registry /\ b.inbox = rt.inbox
      /\ b.revision \in Nat
  BY <1>1, NoProposalLemma
<1> HIDE DEF b
<1>4. /\ c \in Runtime /\ Quiet(b, c) /\ Steady(b, c) /\ c.registry = rt.registry /\ c.inbox = rt.inbox
  BY <1>3, ClearLemma
<1> HIDE DEF c
<1>5. Quiet(rt, c) /\ Steady(rt, c)
  <2>1. c.revision \in Nat
    BY <1>4 DEF Runtime
  <2> QED BY <1>1, <1>3, <1>4, <2>1, QuietTwice
<1>6. /\ g \in Registry /\ Later(rt.registry, g) /\ Same(rt.registry, g)
      /\ \A id \in DOMAIN g.jobs : ~Live(g.jobs[id])
  BY <1>1, <1>4, InvalidateLemma DEF Later
<1>7. y \in Inbox /\ y.job \in {rt.inbox.job, 0} /\ y.state # "offered"
  BY <1>1, <1>4, InvalidateInboxLemma
<1> HIDE DEF g, y
<1>8. /\ rt' \in Runtime /\ rt'.registry = g /\ rt'.proposal = c.proposal /\ rt'.review = c.review
      /\ rt'.revision = c.revision /\ rt'.inbox = y
  BY <1>2, <1>4, <1>6, <1>7 DEF Runtime
<1> QED BY <1>2, <1>4, <1>5, <1>6, <1>7, <1>8, InvalidationStep

(* The session is closed. *)
LEMMA CloseStep ==
  ASSUME IInv, Close PROVE IInv' /\ Placed
<1> DEFINE b == [rt EXCEPT !.proposal = NoProposal]
           c == Clear(b)
           g == CloseRegistry(c.registry)
           y == CloseInbox(c.inbox)
<1>1. rt \in Runtime /\ rt.registry \in Registry /\ rt.inbox \in Inbox /\ rt.revision \in Nat
  BY StateLemma DEF Runtime
<1>2. rt' = [c EXCEPT !.closed = TRUE, !.registry = g, !.inbox = y] /\ pairing' = 0
      /\ UNCHANGED <<host, call, counts, made, taken, answers>>
  BY DEF Close
<1>3. /\ b \in Runtime /\ Quiet(rt, b) /\ Steady(rt, b) /\ b.registry = rt.registry /\ b.inbox = rt.inbox
      /\ b.revision \in Nat
  BY <1>1, NoProposalLemma
<1> HIDE DEF b
<1>4. /\ c \in Runtime /\ Quiet(b, c) /\ Steady(b, c) /\ c.registry = rt.registry /\ c.inbox = rt.inbox
  BY <1>3, ClearLemma
<1> HIDE DEF c
<1>5. Quiet(rt, c) /\ Steady(rt, c)
  <2>1. c.revision \in Nat
    BY <1>4 DEF Runtime
  <2> QED BY <1>1, <1>3, <1>4, <2>1, QuietTwice
<1>6. /\ g \in Registry /\ Later(rt.registry, g) /\ Same(rt.registry, g)
      /\ \A id \in DOMAIN g.jobs : ~Live(g.jobs[id])
  BY <1>1, <1>4, InvalidateLemma DEF Later
<1>7. y \in Inbox /\ y.job \in {rt.inbox.job, 0} /\ y.state # "offered"
  BY <1>1, <1>4, InvalidateInboxLemma
<1> HIDE DEF g, y
<1>8. /\ rt' \in Runtime /\ rt'.registry = g /\ rt'.proposal = c.proposal /\ rt'.review = c.review
      /\ rt'.revision = c.revision /\ rt'.inbox = y
  BY <1>2, <1>4, <1>6, <1>7 DEF Runtime
<1> QED BY <1>2, <1>4, <1>5, <1>6, <1>7, <1>8, InvalidationStep

(* Time passes. *)
LEMMA TickStep ==
  ASSUME IInv, Tick PROVE IInv' /\ Placed
<1> DEFINE g == rt.registry
           f == [id \in DOMAIN g.jobs |-> [g.jobs[id] EXCEPT !.left = Down(g.jobs[id].left)]]
           h == [g EXCEPT !.jobs = f]
           left == Down(rt.inbox.left)
           y == [rt.inbox EXCEPT !.left = left]
<1>1. rt \in Runtime /\ g \in Registry /\ rt.inbox \in Inbox
  BY StateLemma DEF Runtime
<1>2. /\ rt'.registry = h /\ rt'.inbox = y
      /\ rt' = [rt EXCEPT !.registry = rt'.registry, !.inbox = rt'.inbox]
      /\ UNCHANGED <<host, pairing, call, counts, made, taken, answers>>
  <2>1. rt' = [rt EXCEPT !.inbox.left = left, !.registry.jobs = f]
        /\ UNCHANGED <<host, pairing, call, counts, made, taken, answers>>
    BY DEF Tick, Jobs
  <2> HIDE DEF left, f
  <2>2. "registry" \in DOMAIN rt /\ "inbox" \in DOMAIN rt
    BY <1>1 DEF Runtime
  <2>3. rt' = [k \in DOMAIN rt |-> IF k = "registry" THEN rt'.registry
                                  ELSE IF k = "inbox" THEN rt'.inbox ELSE rt[k]]
    BY <2>1, <2>2
  <2> QED BY <1>1, <2>1, <2>2, <2>3
<1>3. ASSUME NEW id \in DOMAIN g.jobs
      PROVE  /\ f[id] \in JobRecord /\ (Live(f[id]) <=> Live(g.jobs[id]))
             /\ f[id].reqs = g.jobs[id].reqs /\ f[id].target = g.jobs[id].target
             /\ (SoundJob(g.jobs[id]) => SoundJob(f[id]))
  <2> DEFINE j == g.jobs[id]
             d == Down(j.left)
             n == [j EXCEPT !.left = d]
  <2>1. j \in JobRecord
    BY <1>1, JobsOf
  <2> HIDE DEF j
  <2>2. d \in Nat
    <3>1. j.left \in Nat
      BY <2>1 DEF JobRecord
    <3> QED BY <3>1 DEF Down
  <2> HIDE DEF d
  <2>3. n \in JobRecord /\ n.reqs = j.reqs /\ n.target = j.target /\ n.state = j.state /\ n.save = j.save
    BY <2>1, <2>2 DEF JobRecord
  <2>4. f[id] = n
    BY <1>3 DEF d, j
  <2> HIDE DEF n
  <2>5. (Live(n) <=> Live(j)) /\ (SoundJob(j) => SoundJob(n))
    BY <2>3 DEF Live, SoundJob
  <2> QED BY <2>3, <2>4, <2>5 DEF j
<1>4. f \in [DOMAIN g.jobs -> JobRecord] /\ DOMAIN g.jobs \in SUBSET Nat
  BY <1>1, <1>3, JobsOf
<1>5. y \in Inbox /\ y.job = rt.inbox.job /\ y.state = rt.inbox.state
  <2>1. left \in Nat
    BY <1>1 DEF Down, Inbox
  <2> HIDE DEF left
  <2> QED BY <1>1, <2>1 DEF Inbox
<1> HIDE DEF f, g, y
<1>6. h \in Registry /\ h.jobs = f /\ DOMAIN h.jobs = DOMAIN g.jobs /\ h.target = g.target
      /\ h.closed = g.closed
  BY <1>1, <1>4, WithJobs
<1> HIDE DEF h
<1>7. Moves(g, h) /\ Same(g, h)
  BY <1>3, <1>6 DEF Moves, Later, Same
<1>8. Registers(rt, rt') /\ rt'.registry = h
  BY <1>1, <1>2, <1>5, <1>6 DEF Runtime, Registers
<1>9. Quiet(rt, rt) /\ Steady(rt, rt) /\ Same(rt.registry, rt.registry)
  BY <1>1, QuietSelf
<1> QED BY <1>1, <1>2, <1>7, <1>8, <1>9, MovesStep DEF g
-----------------------------------------------------------------------------
(* The theorems. *)

(* The first state. *)
LEMMA InitLemma ==
  ASSUME Init PROVE IInv
<1> DEFINE g == [InitRegistry EXCEPT !.target = 1]
           r == [closed |-> FALSE, seen |-> host.project, epoch |-> 1, proposal |-> NoProposal,
                 review |-> NoReview, revision |-> 0, registry |-> g, inbox |-> EmptyInbox]
<1>1. /\ host \in [project : Projects, content : Contents] /\ pairing = 0 /\ rt = r /\ call = Idle
      /\ counts = [pairings |-> 0, proposals |-> 0, jobs |-> 0, reservations |-> 0]
      /\ made = <<>> /\ taken = {} /\ answers = <<>>
  BY DEF Init
<1>2. g \in Registry /\ g.jobs = <<>> /\ g.closed = FALSE
  <2>1. <<>> \in [{} -> JobRecord] /\ {} \in SUBSET Nat
    OBVIOUS
  <2>2. <<>> \in Table
    BY <2>1 DEF Table
  <2> QED BY <2>2 DEF InitRegistry, Registry
<1>3. NoProposal \in Proposal /\ NoReview \in Review
  BY DEF NoProposal, NoReview, Proposal, Review
<1>4. EmptyInbox \in Inbox
  BY DEF EmptyInbox, Inbox
<1> HIDE DEF g
<1>5. r \in Runtime
  BY <1>1, <1>2, <1>3, <1>4 DEF Runtime
<1>6. Ids = {} /\ counts \in Counts /\ DOMAIN Jobs = {}
  BY <1>1, <1>2 DEF Ids, Counts, Jobs
<1>7. Types
  <2>1. made \in Seq(Made) /\ Len(made) = 0 /\ DOMAIN answers = {}
    BY <1>1
  <2>2. counts.jobs = 0
    BY <1>1
  <2> QED BY <1>1, <1>5, <1>6, <2>1, <2>2 DEF Types
<1>8. Drawn
  BY <1>1, <1>6 DEF Drawn, NoProposal, EmptyInbox
<1>9. Once
  BY <1>1, <1>6 DEF Once, OneJobPerProposal, NoProposal
<1>10. Reviewed
  BY <1>1 DEF Reviewed, OfferedAsReviewed, Shown, NoReview
<1>11. Asked
  <2>1. call \in HumanCall /\ call.step = "idle" /\ call.proposal.id = 0
    BY <1>1, <1>3 DEF Idle, HumanCall, Steps, NoProposal
  <2> QED BY <1>1, <2>1 DEF Asked
<1>12. LiveJobPinsInbox
  BY <1>6 DEF LiveJobPinsInbox
<1>13. Told
  BY <1>1 DEF Told, EmptyInbox, Idle
<1>14. Sound
  BY <1>6 DEF Sound
<1> QED BY <1>7, <1>8, <1>9, <1>10, <1>11, <1>12, <1>13, <1>14 DEF IInv

(* The events the model draws are events. *)
LEMMA EventsLemma ==
  ASSUME IInv, NEW id \in Ids, NEW e \in Events(id)
  PROVE  e \in Event /\ (e.kind \in OutputKinds => e.outputs > 0)
<1>1. \A k \in Sequences(id) : k \in Nat
  BY StartAssumption DEF Sequences
<1>2. \A k \in 0..MaxOutputs : k \in Nat
  BY JobsAssumption
<1> QED BY <1>1, <1>2 DEF Events, Event

(* Every step keeps the inductive invariant, and outputs in their Project. *)
LEMMA StepLemma ==
  ASSUME IInv, Next PROVE IInv' /\ Placed
<1>1. CASE HumanSteps
  <2>1. CASE PrepareBegin BY <2>1, PrepareBeginStep
  <2>2. CASE Build
    <3>1. call.step = "building" /\ Recompute("built")
      BY <2>2 DEF Build
    <3> QED BY <3>1, RecomputeStep
  <2>3. CASE PrepareEnd BY <2>3, PrepareEndStep
  <2>4. CASE \E purpose \in {"show", "confirm", "handoff"} : InspectBegin(purpose)
    BY <2>4, InspectBeginStep
  <2>5. CASE InspectCompute
    <3>1. Recompute("inspected") /\ "inspected" # "built"
      BY <2>5 DEF InspectCompute
    <3> QED BY <3>1, RecomputeStep
  <2>6. CASE InspectEnd BY <2>6, InspectEndStep
  <2>7. CASE Confirm BY <2>7, ConfirmStep
  <2>8. CASE CaptureAction
    BY <2>8, StateLemma, RestStep DEF CaptureAction, HostOK
  <2>9. CASE HandoffReserve BY <2>9, HandoffReserveStep
  <2>10. CASE HandoffCommit BY <2>10, HandoffCommitStep
  <2>11. CASE \E said \in {"accepted", "rejected", "unknown"} : WorkerAnswers(said)
    BY <2>11, WorkerAnswersStep
  <2>12. CASE HandoffTargetCurrent BY <2>12, HandoffTargetCurrentStep
  <2>13. CASE HandoffReceipt BY <2>13, HandoffReceiptStep
  <2>14. CASE HandoffSettle BY <2>14, HandoffSettleStep
  <2>15. CASE StartBegin BY <2>15, StartBeginStep
  <2>16. CASE StartCommit BY <2>16, StartCommitStep
  <2>17. CASE \E outcome \in {"accepted", "rejected", "unknown"} : StartAnswered(outcome)
    BY <2>17, StartAnsweredStep
  <2>18. CASE Abandon
    <3>1. call' = Idle /\ UNCHANGED <<host, pairing, rt, counts, made, taken, answers>>
      BY <2>18 DEF Abandon
    <3>2. Quiet(rt, rt') /\ Same(rt.registry, rt'.registry)
      BY <3>1, StateLemma, QuietSelf
    <3>3. Asked' /\ call'.step # "started"
      BY <3>1, StateLemma, IdleLemma
    <3>4. IInv'
      BY <3>1, <3>2, <3>3, StateLemma, QuietStep DEF HostOK
    <3> QED BY <3>2, <3>4, PlacedSame
  <2> QED BY <1>1, <2>1, <2>2, <2>3, <2>4, <2>5, <2>6, <2>7, <2>8, <2>9, <2>10, <2>11, <2>12,
             <2>13, <2>14, <2>15, <2>16, <2>17, <2>18 DEF HumanSteps
<1>2. CASE JobSteps
  <2>1. CASE \E id \in Ids : ExecutorAccepts(id) \/ CancelJob(id) \/ Retire(id)
    BY <2>1, ExecutorAcceptsStep, CancelJobStep, RetireStep
  <2>2. CASE \E id \in Ids : \E e \in Events(id) : DeliverEvent(id, e)
    <3>1. PICK id \in Ids : \E e \in Events(id) : DeliverEvent(id, e)
      BY <2>2
    <3>2. PICK e \in Events(id) : DeliverEvent(id, e)
      BY <3>1
    <3> QED BY <3>2, EventsLemma, DeliverEventStep
  <2>3. CASE \E id \in Ids, i \in 1..Requests, n \in 0..MaxOutputs : PublishOutputs(id, i, n)
    <3>1. PICK id \in Ids, i \in 1..Requests, n \in 0..MaxOutputs : PublishOutputs(id, i, n)
      BY <2>3
    <3>2. n \in Nat
      BY JobsAssumption
    <3> QED BY <3>1, <3>2, PublishOutputsStep
  <2>4. CASE \E id \in Ids, outcome \in {"saved", "save_failed", "save_uncertain"} : SaveOutputs(id, outcome)
    BY <2>4, SaveOutputsStep
  <2> QED BY <1>2, <2>1, <2>2, <2>3, <2>4 DEF JobSteps
<1>3. CASE Surroundings
  <2>1. CASE Propose BY <2>1, ProposeStep
  <2>2. CASE ProposalEnds BY <2>2, ProposalEndsStep
  <2>3. CASE Pump BY <2>3, PumpStep
  <2>4. CASE Pair
    <3>1. counts' \in Counts /\ counts'.jobs = counts.jobs /\ counts'.proposals = counts.proposals
          /\ pairing' \in Nat
      BY <2>4, StateLemma DEF Pair, Counts
    <3> QED BY <2>4, <3>1, StateLemma, RestStep DEF Pair, HostOK
  <2>5. CASE Unpair
    BY <2>5, StateLemma, RestStep DEF Unpair, HostOK
  <2>6. CASE Disarm BY <2>6, DisarmStep
  <2>7. CASE Close BY <2>7, CloseStep
  <2>8. CASE Tick BY <2>8, TickStep
  <2>9. CASE \E h \in [project : Projects, content : Contents] : HostChanges(h)
    BY <2>9, StateLemma, RestStep DEF HostChanges
  <2> QED BY <1>3, <2>1, <2>2, <2>3, <2>4, <2>5, <2>6, <2>7, <2>8, <2>9 DEF Surroundings
<1> QED BY <1>1, <1>2, <1>3 DEF Next

(* Nothing happens. *)
LEMMA StutterLemma ==
  ASSUME IInv, UNCHANGED vars PROVE IInv' /\ Placed
BY StateLemma, RestStep DEF vars, HostOK

(* The inductive invariant of the start of a generation. *)
THEOREM Invariance == Spec => []IInv
<1>1. Init => IInv
  BY InitLemma
<1>2. IInv /\ [Next]_vars => IInv'
  BY StepLemma, StutterLemma
<1> QED BY <1>1, <1>2, PTL DEF Spec

(* A proposal authorizes at most one job, for any number of Projects,      *)
(* proposals and jobs, and however the steps of the call interleave with   *)
(* the rest of the session.                                                *)
THEOREM ProposalStartsOnce == Spec => []OneJobPerProposal
<1>1. IInv => OneJobPerProposal
  BY DEF IInv, Once
<1> QED BY <1>1, Invariance, PTL

(* What is handed to an executor is what the agent previewed. *)
THEOREM HandsOffWhatWasReviewed == Spec => []OfferedAsReviewed
<1>1. IInv => OfferedAsReviewed
  BY DEF IInv, Reviewed
<1> QED BY <1>1, Invariance, PTL

(* The envelope of a live job that was handed off stays in the inbox. *)
THEOREM EnvelopeIsKept == Spec => []LiveJobPinsInbox
<1>1. IInv => LiveJobPinsInbox
  BY DEF IInv
<1> QED BY <1>1, Invariance, PTL

(* "Rejected" is told only of a job no executor has or will have, and      *)
(* "completed" only of one whose outputs are all registered.               *)
THEOREM JobsAreReportedTruly == Spec => []ReportsAreTrue
<1>1. IInv => RejectedNeverTaken
  BY DEF IInv, Told, RejectedNeverTaken
<1>2. ASSUME NEW j, SoundJob(j)
      PROVE  /\ j.state = "completed" =>
                  \A i \in 1..Requests : j.reqs[i].outputs > 0 /\ j.reqs[i].registered = j.reqs[i].outputs
             /\ j.save # "not_attempted" => \E i \in 1..Requests : j.reqs[i].registered > 0
  <2>1. 1 \in 1..Requests
    BY JobsAssumption
  <2> QED BY <1>2, <2>1 DEF SoundJob
<1>3. IInv => CompletedIsRegistered
  BY <1>2 DEF IInv, Sound, CompletedIsRegistered
<1>4. IInv => ReportsAreTrue
  BY <1>1, <1>3 DEF ReportsAreTrue
<1> QED BY <1>4, Invariance, PTL

(* Outputs are registered only in the Project their job was started from,  *)
(* while the host shows it.                                                *)
THEOREM OutputsStayInTheirProject == Spec => RegisteredInItsProject
<1> DEFINE A == \A id \in DOMAIN Jobs \cap DOMAIN Jobs' :
                  Jobs[id].reqs # Jobs'[id].reqs => Jobs'[id].target = rt'.epoch /\ rt'.seen = host.project
<1>1. IInv /\ [Next]_vars => [A]_vars
  BY StepLemma DEF Placed
<1>2. Spec => [][A]_vars
  <2> HIDE DEF A
  <2> QED BY <1>1, Invariance, PTL DEF Spec
<1> QED BY <1>2 DEF RegisteredInItsProject
=============================================================================
