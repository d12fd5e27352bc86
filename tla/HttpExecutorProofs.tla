------------------------- MODULE HttpExecutorProofs -------------------------
(***************************************************************************)
(* Safety of an operation for every number of requests, history reads and  *)
(* outputs: the journal file tells what was sent at every moment, and      *)
(* requests are sent once, in order, under an acknowledged intent.         *)
(***************************************************************************)
EXTENDS HttpExecutor, TLAPS

RequestStates == {"unsent", "submitting", "awaiting_result", "awaiting_download",
                  "awaiting_host_registration", "submission_outcome_unknown",
                  "completed", "partially_failed", "failed"}
Request == [state : RequestStates, outputs : Nat, registered : Nat]
JobRecord == [proposal : {0}, target : {0}, pairing : {0},
              state : {"claimed", "running", "awaiting_result"} \cup J!Terminal,
              save : {"not_attempted"}, count : Nat, left : {1}, reqs : [Requests -> Request]]

(* What a call replies, and what an event says. *)
Words == {"none", "unknown", "rejected", "accepted", "ready", "pending", "timeout",
          "pre_send_rejected", "execution_completed", "execution_failed"}
Ev == [kind : {"none", "submission_intent", "submission_outcome", "request_settlement"},
       req : Nat, value : Words]
File == [events : Seq(Ev), lock : BOOLEAN, temp : BOOLEAN]
Writer == [events : Seq(Ev), uncertain : BOOLEAN, closed : BOOLEAN,
           step : {"idle", "written", "replaced"}, event : Ev]
OwnerStates == {"unbound", "binding", "bound", "refused", "intent_writing",
                "intent_acknowledged", "send_permitted", "no_send", "result_writing",
                "result_observed", "outcome_unknown", "history_reading",
                "settlement_writing", "settled", "uncertain", "closed"}
Owner == [state : OwnerStates, closed : BOOLEAN, index : Nat, outcomes : [Requests -> Words]]
Task == [id : Nat, kind : {"none", "submission", "history"}, req : Nat,
         state : {"collected", "queued", "running", "completed", "abandoned", "discarded",
                  "cancelled_before_transport"},
         entered : BOOLEAN, cancelled : BOOLEAN, outcome : Words]
Worker == [state : {"created", "running", "start_failed", "uncertain", "close_pending",
                    "closed", "uncertain_stopped"},
           thread : {"none", "idle", "holding", "transport", "posting", "stopped"},
           task : Task, active : Nat, queue : Seq(Nat), hand : Nat,
           posted : SUBSET Nat, unsure : SUBSET Nat]

Types ==
  /\ reply \in Words /\ idx \in Nat \ {0}
  /\ owner \in Owner /\ writer \in Writer /\ file \in File /\ w \in Worker
  /\ job \in JobRecord /\ sent \in Seq(Nat)

(* The worker's record: only the last task can be queued, held or in the   *)
(* transport, once each; and what has not entered the transport says so.   *)
Shape(x) ==
  LET t == x.task
  IN  /\ InTransport(x) => /\ x.hand = t.id /\ x.active = t.id /\ t.id # 0 /\ t.entered
                           /\ t.state \in {"running", "abandoned"}
      /\ t.state \in {"queued", "cancelled_before_transport"} => ~t.entered
      /\ t.state = "queued" => x.active = t.id /\ t.id # 0
      /\ x.queue = <<>> \/ x.queue = <<t.id>>
      /\ x.queue = <<t.id>> \/ (x.thread = "holding" /\ x.hand = t.id) =>
           ~t.entered /\ (~t.cancelled => t.state = "queued")
      /\ x.thread \in {"holding", "transport", "posting"} /\ x.hand = t.id => x.queue = <<>>
      /\ x.hand <= t.id
      /\ x.thread = "posting" => t.kind = "submission"
      /\ t.kind = "submission" => /\ t.outcome \in {"unknown", "rejected", "accepted"}
                                  /\ t.state = "cancelled_before_transport" => t.outcome = "rejected"

(* A submission that may still be posted. *)
Pending(x) == x.task.kind = "submission" /\ (x.task.state = "queued" \/ x.thread = "transport")

(* What the worker's task says of what was sent. *)
Sends(x) ==
  /\ x.task.kind = "submission" /\ ~x.task.entered => x.task.req \notin Sent
  /\ x.thread = "posting" => x.task.req \in Sent
  /\ x.task.kind = "submission" /\ x.task.state = "completed" =>
       /\ x.task.outcome = "accepted" => x.task.req \in Sent
       /\ x.task.outcome = "rejected" => x.task.req \notin Sent

Posts == /\ Shape(w) /\ Sends(w) /\ Sent \subseteq 1..idx
         /\ pc = "wait" => /\ w.task.kind # "none"
                           /\ w.task.kind = "submission" => w.task.req = idx

LastIs(events, e) == events # <<>> /\ events[Len(events)] = e

(* Where an append has come: the file is the chain, or the chain with one  *)
(* more event.                                                             *)
Appending ==
  /\ pc = "write" => /\ writer.event.req = idx
                     /\ \/ writer.step = "written" /\ file.events = writer.events
                        \/ writer.step = "replaced" /\ file.events = Append(writer.events, writer.event)
  /\ pc = "written" => /\ file.events = writer.events /\ LastIs(file.events, writer.event)
                       /\ writer.event.req = idx
  /\ \A k \in 1..Len(file.events) : file.events[k].req <= idx

Writes(kind) == pc = "write" /\ writer.event.kind = kind
Wrote(kind) == pc = "written" /\ writer.event.kind = kind

(* The intent on file. *)
Announced ==
  /\ pc \in {"start", "intent", "claim", "submit"} => idx \in Requests
  /\ Writes("submission_intent") \/ Wrote("submission_intent") =>
       idx \in Requests /\ writer.event = Intent(idx) /\ NextRequest(file.events) = idx
  /\ pc \in {"claim", "submit"} =>
       /\ NextRequest(file.events) = idx /\ LastIs(file.events, Intent(idx))
       /\ \E k \in 1..Len(writer.events) : writer.events[k] = Intent(idx)

(* Before its send a request is neither sent nor in the worker, and of its *)
(* events the file can only have the intent.                               *)
BeforeSend ==
  \/ pc = "idle" /\ phase \in {"not_taken", "ready"}
  \/ pc \in {"bind", "request", "start", "intent", "claim", "submit"}
  \/ Writes("submission_intent") \/ Wrote("submission_intent")

Unsent ==
  BeforeSend => /\ idx \notin Sent /\ ~Pending(w)
                /\ \A k \in 1..Len(file.events) :
                     file.events[k].req = idx => file.events[k] = Intent(idx)

Registered(i) == job.reqs[i].state = "completed" /\ job.reqs[i].registered = job.reqs[i].outputs

(* An event that is written is true. *)
Truthful ==
  pc = "write" =>
    /\ writer.event = Outcome(idx, "pre_send_rejected") => idx \notin Sent /\ ~Pending(w)
    /\ writer.event = Outcome(idx, "accepted") => idx \in Sent
    /\ idx \in Requests /\ writer.event = Settlement(idx, "execution_completed") =>
         idx \in Sent /\ Registered(idx)

(* Who still waits for a submission, or has given it up as unknown. *)
GivenUp ==
  \/ pc = "record" /\ reply = "unknown"
  \/ pc \in {"write", "written"} /\ writer.event = Outcome(idx, "unknown")
  \/ pc = "recorded" /\ owner.outcomes[idx] = "unknown"
  \/ pc = "unknown"
  \/ pc = "idle" /\ phase = "stopped"

Waited ==
  Pending(w) =>
    /\ w.task.req = idx /\ idx \in Requests /\ idx \notin Sent
    /\ NextRequest(file.events) = idx
    /\ LastIs(file.events, Intent(idx)) \/ LastIs(file.events, Outcome(idx, "unknown"))
    /\ \E k \in 1..Len(writer.events) : writer.events[k] = Intent(idx)
    /\ ~OnFile(Outcome(idx, "pre_send_rejected")) /\ OnFile(Intent(idx))
    /\ pc = "wait" \/ (GivenUp /\ w.task.state = "abandoned")

(* Between the send and its recorded outcome. *)
Asked ==
  \/ pc \in {"recheck", "record", "recorded"} \/ (pc = "wait" /\ w.task.kind = "submission")
  \/ Writes("submission_outcome") \/ Wrote("submission_outcome")

Told ==
  /\ Asked => idx \in Requests
  /\ pc \in {"recheck", "record"} =>
       /\ reply \in {"accepted", "rejected", "unknown"}
       /\ reply = "accepted" => idx \in Sent
       /\ reply = "rejected" => idx \notin Sent /\ ~Pending(w)

Accepted == \A i \in Requests : owner.outcomes[i] = "accepted" => i \in Sent

IInv == Types /\ Posts /\ Appending /\ Announced /\ Unsent /\ Truthful /\ Waited /\ Told
        /\ Accepted /\ FileTellsSends

-----------------------------------------------------------------------------
(* The worker. *)

(* From x to y the worker keeps its last submission, and nothing can be    *)
(* posted, is being posted or has a result that had not before.            *)
Calm(x, y) ==
  /\ y \in Worker /\ Shape(y)
  /\ y.task.kind = x.task.kind /\ y.task.req = x.task.req
  /\ Pending(y) => Pending(x) /\ (x.task.state = "abandoned" => y.task.state = "abandoned")
  /\ ~y.task.entered => ~x.task.entered
  /\ y.thread = "posting" => x.thread = "posting"
  /\ y.task.state = "completed" => x.task.state = "completed" /\ y.task.outcome = x.task.outcome

(* Worker and task have the same place. *)
Kept(x, y) ==
  /\ y \in Worker /\ y.thread = x.thread /\ y.queue = x.queue /\ y.hand = x.hand
  /\ y.task.id = x.task.id /\ y.task.kind = x.task.kind /\ y.task.req = x.task.req
  /\ y.task.entered = x.task.entered

(* A task that is cancelled before its transport. *)
LEMMA CancelledLemma ==
  ASSUME NEW t \in Task
  PROVE  LET c == Cancelled(t)
         IN  /\ c \in Task /\ c.id = t.id /\ c.kind = t.kind /\ c.req = t.req
             /\ c.state = "cancelled_before_transport" /\ c.entered = t.entered
             /\ c.cancelled = t.cancelled
             /\ t.kind = "submission" => c.outcome = "rejected"
<1>1. CASE t.kind = "submission"
  BY <1>1 DEF Task, Cancelled, Words
<1>2. CASE t.kind # "submission"
  BY <1>2 DEF Task, Cancelled, Words
<1> QED BY <1>1, <1>2

(* A submission taken back before the transport. *)
Withdrawn(x) == [x EXCEPT !.task = [Cancelled(x.task) EXCEPT !.cancelled = TRUE]]
GivenBack(x) == [x EXCEPT !.task.state = "abandoned"]

(* A queued task that is withdrawn was never sent. *)
LEMMA WithdrawnLemma ==
  ASSUME NEW x \in Worker, Shape(x), x.task.state = "queued"
  PROVE  Calm(x, Withdrawn(x)) /\ Kept(x, Withdrawn(x)) /\ Withdrawn(x).active = x.active
<1> DEFINE t == [Cancelled(x.task) EXCEPT !.cancelled = TRUE]
           y == Withdrawn(x)
<1>0. x.task \in Task
  BY DEF Worker
<1>1. /\ t \in Task /\ t.id = x.task.id /\ t.kind = x.task.kind /\ t.req = x.task.req
      /\ t.state = "cancelled_before_transport" /\ t.entered = x.task.entered /\ t.cancelled
      /\ x.task.kind = "submission" => t.outcome = "rejected"
  <2> DEFINE c == Cancelled(x.task)
  <2>1. /\ c \in Task /\ c.id = x.task.id /\ c.kind = x.task.kind /\ c.req = x.task.req
        /\ c.state = "cancelled_before_transport" /\ c.entered = x.task.entered
        /\ x.task.kind = "submission" => c.outcome = "rejected"
    BY <1>0, CancelledLemma
  <2> HIDE DEF c
  <2> DEFINE d == [c EXCEPT !.cancelled = TRUE]
  <2>2. /\ d \in Task /\ d.id = c.id /\ d.kind = c.kind /\ d.req = c.req
        /\ d.state = c.state /\ d.entered = c.entered /\ d.cancelled /\ d.outcome = c.outcome
    BY <2>1 DEF Task
  <2>3. d = t
    BY DEF c
  <2> HIDE DEF d, t
  <2> QED BY <2>1, <2>2, <2>3
<1> HIDE DEF t
<1>2. /\ y \in Worker /\ y.task = t /\ y.thread = x.thread /\ y.queue = x.queue
      /\ y.hand = x.hand /\ y.active = x.active
  BY <1>1 DEF Worker, Withdrawn, t
<1> HIDE DEF y
<1>3. Calm(x, y)
  BY <1>1, <1>2 DEF Calm, Shape, Pending, InTransport
<1> QED BY <1>1, <1>2, <1>3 DEF Kept, y

(* A task that its caller gives up. *)
LEMMA GivenBackLemma ==
  ASSUME NEW x \in Worker, Shape(x), x.task.state # "queued"
  PROVE  Calm(x, GivenBack(x)) /\ Kept(x, GivenBack(x)) /\ GivenBack(x).active = x.active
<1> DEFINE y == GivenBack(x)
           t == [x.task EXCEPT !.state = "abandoned"]
<1>0. x.task \in Task
  BY DEF Worker
<1>a. /\ t \in Task /\ t.id = x.task.id /\ t.kind = x.task.kind /\ t.req = x.task.req
      /\ t.entered = x.task.entered /\ t.state = "abandoned" /\ t.cancelled = x.task.cancelled
      /\ t.outcome = x.task.outcome
  BY <1>0 DEF Task
<1> HIDE DEF t
<1>b. /\ y \in Worker /\ y.task = t /\ y.thread = x.thread /\ y.queue = x.queue
      /\ y.hand = x.hand /\ y.active = x.active /\ y.state = x.state
  BY <1>a DEF Worker, GivenBack, t
<1>1. /\ y \in Worker /\ Kept(x, y) /\ y.active = x.active /\ y.state = x.state
      /\ y.task.state = "abandoned" /\ y.task.cancelled = x.task.cancelled
      /\ y.task.outcome = x.task.outcome
  BY <1>a, <1>b DEF Kept
<1> HIDE DEF y
<1>2. Calm(x, y)
  BY <1>1 DEF Calm, Kept, Shape, Pending, InTransport
<1> QED BY <1>1, <1>2 DEF y

(* An unknown outcome changes no task. *)
LEMMA UnsureLemma ==
  ASSUME NEW x \in Worker, Shape(x)
  PROVE  /\ Calm(x, Unsure(x)) /\ Kept(x, Unsure(x)) /\ Unsure(x).active = x.active
         /\ Unsure(x).task = x.task /\ Unsure(x).state = x.state
<1> DEFINE y == Unsure(x)
<1> DEFINE unsure == x.unsure \cup {x.task.req}
<1>0. unsure \in SUBSET Nat
  BY DEF Worker, Task
<1>1. /\ y \in Worker /\ y.task = x.task /\ y.active = x.active /\ y.state = x.state
      /\ y.thread = x.thread /\ y.queue = x.queue /\ y.hand = x.hand
  <2>1. CASE x.task.kind = "submission"
    <3>1. y = [x EXCEPT !.unsure = unsure]
      BY <2>1 DEF Unsure
    <3> HIDE DEF unsure, y
    <3> QED BY <1>0, <3>1 DEF Worker
  <2>2. CASE x.task.kind # "submission"
    BY <2>2 DEF Unsure
  <2> QED BY <2>1, <2>2
<1> HIDE DEF y
<1>2. Calm(x, y)
  BY <1>1 DEF Calm, Shape, Pending, InTransport
<1> QED BY <1>1, <1>2 DEF Kept, y

(* The worker's own state can change without its task. *)
LEMMA StateLemma ==
  ASSUME NEW x \in Worker, Shape(x), NEW s \in {"created", "running", "start_failed", "uncertain", "close_pending",
                    "closed", "uncertain_stopped"}
  PROVE  LET y == [x EXCEPT !.state = s]
         IN  Calm(x, y) /\ Kept(x, y) /\ y.active = x.active /\ y.task = x.task /\ y.state = s
<1> DEFINE y == [x EXCEPT !.state = s]
<1>1. /\ y \in Worker /\ y.task = x.task /\ y.active = x.active /\ y.state = s
      /\ y.thread = x.thread /\ y.queue = x.queue /\ y.hand = x.hand
  BY DEF Worker, Task
<1> HIDE DEF y
<1>2. Calm(x, y)
  BY <1>1 DEF Calm, Shape, Pending, InTransport
<1> QED BY <1>1, <1>2 DEF Kept, y

(* Calm steps compose. *)
LEMMA CalmTwice ==
  ASSUME NEW x, NEW y, NEW z, Calm(x, y), Calm(y, z)
  PROVE  Calm(x, z)
BY DEF Calm, Pending

(* No step is calm. *)
LEMMA CalmStays ==
  ASSUME NEW x \in Worker, Shape(x)
  PROVE  Calm(x, x)
BY DEF Calm

(* The operators on the worker that only its caller or its closer use. *)
LEMMA TimedOutLemma ==
  ASSUME NEW x \in Worker, Shape(x), ~TaskOver(x)
  PROVE  Calm(x, TimedOut(x))
<1>1. CASE x.task.state = "queued"
  <2>1. TimedOut(x) = Withdrawn(x)
    BY <1>1 DEF TimedOut, Withdrawn
  <2> QED BY <1>1, <2>1, WithdrawnLemma
<1>2. CASE x.task.state # "queued"
  <2> DEFINE g == GivenBack(x)
             u == Unsure(g)
  <2>1. /\ g \in Worker /\ Shape(g) /\ Calm(x, g) /\ g.task.kind = x.task.kind
    BY <1>2, GivenBackLemma DEF Calm, Kept
  <2>2. /\ u \in Worker /\ Shape(u) /\ Calm(g, u)
    <3> HIDE DEF g
    <3> QED BY <2>1, UnsureLemma DEF Calm
  <2>3. Calm(u, [u EXCEPT !.state = "uncertain"])
    <3> HIDE DEF u
    <3> QED BY <2>2, StateLemma
  <2>4. TimedOut(x) = g \/ TimedOut(x) = [u EXCEPT !.state = "uncertain"]
    BY <1>2 DEF TimedOut, GivenBack
  <2> HIDE DEF g, u
  <2> QED BY <2>1, <2>2, <2>3, <2>4, CalmTwice
<1> QED BY <1>1, <1>2

(* A close withdraws or abandons the task. *)
LEMMA CloseTaskLemma ==
  ASSUME NEW x \in Worker, Shape(x)
  PROVE  Calm(x, CloseTask(x))
<1>1. CASE x.active = 0
  BY <1>1, CalmStays DEF CloseTask
<1>2. CASE x.active # 0 /\ x.task.state = "queued"
  <2>1. CloseTask(x) = Withdrawn(x)
    BY <1>2 DEF CloseTask, Withdrawn
  <2> QED BY <1>2, <2>1, WithdrawnLemma
<1>3. CASE x.active # 0 /\ x.task.state # "queued"
  <2> DEFINE g == GivenBack(x)
  <2>1. g \in Worker /\ Shape(g) /\ Calm(x, g)
    BY <1>3, GivenBackLemma DEF Calm
  <2>2. CloseTask(x) \in {g, Unsure(g)}
    BY <1>3 DEF CloseTask, GivenBack
  <2> HIDE DEF g
  <2>3. Calm(g, Unsure(g))
    BY <2>1, UnsureLemma
  <2> QED BY <2>1, <2>2, <2>3, CalmTwice
<1> QED BY <1>1, <1>2, <1>3

(* A requested close is calm. *)
LEMMA RequestCloseLemma ==
  ASSUME NEW x \in Worker, Shape(x)
  PROVE  Calm(x, RequestClose(x))
<1>1. CASE x.state \in {"created", "closed"}
  BY <1>1, StateLemma DEF RequestClose
<1>2. CASE x.state \notin {"created", "closed"}
  <2> DEFINE c == CloseTask(x)
  <2>1. c \in Worker /\ Shape(c) /\ Calm(x, c)
    BY CloseTaskLemma DEF Calm
  <2>2. \E s \in {"closed", "close_pending"} : RequestClose(x) = [c EXCEPT !.state = s]
    BY <1>2 DEF RequestClose
  <2> HIDE DEF c
  <2>3. \A s \in {"closed", "close_pending"} : Calm(c, [c EXCEPT !.state = s])
    BY <2>1, StateLemma
  <2> QED BY <2>1, <2>2, <2>3, CalmTwice
<1> QED BY <1>1, <1>2

(* So is a join. *)
LEMMA JoinedLemma ==
  ASSUME NEW x \in Worker, Shape(x)
  PROVE  Calm(x, Joined(x))
BY StateLemma DEF Joined

(* Nobody waits for the task any more, and it is not in the transport. *)
Cleared(x) == [x EXCEPT !.active = IF @ = x.task.id THEN 0 ELSE @, !.task.state = "collected"]

(* A task nobody waits for. *)
LEMMA ClearedLemma ==
  ASSUME NEW x \in Worker, Shape(x), ~InTransport(x), x.task.state # "queued"
  PROVE  Calm(x, Cleared(x)) /\ ~Pending(Cleared(x))
<1> DEFINE y == Cleared(x)
           t == [x.task EXCEPT !.state = "collected"]
           a == IF x.active = x.task.id THEN 0 ELSE x.active
<1>0. x.task \in Task
  BY DEF Worker
<1>a. /\ t \in Task /\ t.id = x.task.id /\ t.kind = x.task.kind /\ t.req = x.task.req
      /\ t.entered = x.task.entered /\ t.state = "collected" /\ t.cancelled = x.task.cancelled
      /\ t.outcome = x.task.outcome
  BY <1>0 DEF Task
<1>1. a \in Nat
  BY DEF Worker
<1> HIDE DEF t, a
<1>b. /\ y \in Worker /\ y.task = t /\ y.thread = x.thread /\ y.queue = x.queue
      /\ y.hand = x.hand /\ y.active = a /\ y.state = x.state
  BY <1>a, <1>1 DEF Worker, Cleared, t, a
<1> HIDE DEF y
<1>2. Calm(x, y) /\ ~Pending(y)
  BY <1>a, <1>b DEF Calm, Shape, Pending, InTransport
<1> QED BY <1>2 DEF y

(* The collection of an outcome leaves no task pending. *)
LEMMA CollectedLemma ==
  ASSUME NEW x \in Worker, Shape(x), TaskOver(x)
  PROVE  /\ Calm(x, Collected(x))
         /\ Pending(Collected(x)) => CollectedOutcome(x) = "refused" /\ x.task.state = "abandoned"
<1> DEFINE c == Cleared(x)
           g == GivenBack(x)
           z(k) == [Unsure(k) EXCEPT !.state = "uncertain"]
<1>1. x.task.state # "queued" /\ (Pending(x) => InTransport(x) /\ x.task.state = "abandoned" /\ x.hand = x.task.id)
  BY DEF TaskOver, Pending, InTransport, Shape
<1>2. ~InTransport(x) => c \in Worker /\ Shape(c) /\ Calm(x, c) /\ ~Pending(c)
  BY <1>1, ClearedLemma DEF Calm
<1>3. g \in Worker /\ Shape(g) /\ Calm(x, g)
  BY <1>1, GivenBackLemma DEF Calm
<1>4. ASSUME NEW k \in Worker, Shape(k)
      PROVE  Calm(k, z(k)) /\ (Pending(z(k)) => Pending(k))
  <2>1. Calm(k, Unsure(k)) /\ Unsure(k) \in Worker /\ Shape(Unsure(k))
    BY <1>4, UnsureLemma DEF Calm
  <2>2. Calm(Unsure(k), z(k))
    BY <2>1, StateLemma
  <2> QED BY <2>1, <2>2, CalmTwice DEF Calm
<1>5. CASE x.task.state = "cancelled_before_transport" \/ ~Lost(x)
  <2>1. ~InTransport(x)
    BY <1>5 DEF Lost, Shape, InTransport
  <2>2. Collected(x) \in {c, z(c)}
    BY <1>5 DEF Collected, Cleared
  <2> HIDE DEF c, z
  <2> QED BY <1>2, <1>4, <2>1, <2>2, CalmTwice
<1>6. CASE x.task.state # "cancelled_before_transport" /\ Lost(x)
  <2>1. CASE InTransport(x)
    <3>1. x.hand = x.task.id
      BY <2>1 DEF Shape
    <3>2. Collected(x) \in {g, z(g)}
      BY <1>6, <2>1, <3>1 DEF Collected, GivenBack
    <3>3. CollectedOutcome(x) = "refused"
      BY <1>6 DEF CollectedOutcome
    <3>4. Calm(x, Collected(x))
      <4> HIDE DEF g, z
      <4> QED BY <1>3, <1>4, <3>2, CalmTwice
    <3> QED BY <1>1, <3>3, <3>4 DEF Calm
  <2>2. CASE ~InTransport(x)
    <3>2. Collected(x) \in {c, z(c)}
      BY <1>6, <2>2 DEF Collected, Cleared
    <3> HIDE DEF c, z
    <3> QED BY <1>2, <1>4, <2>2, <3>2, CalmTwice
  <2> QED BY <2>1, <2>2
<1> QED BY <1>5, <1>6

-----------------------------------------------------------------------------
(* The worker's thread, its transport, and the queue. *)

(* The start of the worker thread. *)
LEMMA StartedLemma ==
  ASSUME NEW x \in Worker, Shape(x), x.state = "created",
         NEW y \in {[x EXCEPT !.state = "running", !.thread = "idle"],
                    [x EXCEPT !.state = "start_failed"]}
  PROVE  Calm(x, y)
<1>1. CASE y = [x EXCEPT !.state = "start_failed"]
  BY <1>1, StateLemma
<1>2. CASE y = [x EXCEPT !.state = "running", !.thread = "idle"]
  <2>1. /\ y \in Worker /\ y.task = x.task /\ y.active = x.active
        /\ y.thread = "idle" /\ y.queue = x.queue /\ y.hand = x.hand
    BY <1>2 DEF Worker, Task
  <2> QED BY <2>1 DEF Calm, Shape, Pending, InTransport
<1> QED BY <1>1, <1>2

(* A sequence of one. *)
LEMMA OneLemma ==
  ASSUME NEW a \in Nat
  PROVE  /\ Head(<<a>>) = a /\ Tail(<<a>>) = <<>> /\ <<a>> \in Seq(Nat)
         /\ <<>> \in Seq(Nat) /\ <<a>> # <<>>
OBVIOUS

(* The thread takes the task. *)
LEMMA TakenLemma ==
  ASSUME NEW x \in Worker, Shape(x), x.thread = "idle", x.queue # <<>>
  PROVE  Calm(x, Taken(x))
<1> DEFINE y == Taken(x)
<1>0. x.task \in Task /\ x.task.id \in Nat
  BY DEF Worker, Task
<1>1. x.queue = <<x.task.id>> /\ Head(x.queue) = x.task.id /\ Tail(x.queue) = <<>>
  <2>1. x.queue = <<x.task.id>>
    BY DEF Shape
  <2> QED BY <1>0, <2>1, OneLemma
<1>t. y = [x EXCEPT !.thread = "holding", !.hand = x.task.id, !.queue = <<>>]
  BY <1>1 DEF Taken
<1> HIDE DEF y
<1>2. /\ y \in Worker /\ y.task = x.task /\ y.active = x.active
      /\ y.thread = "holding" /\ y.queue = <<>> /\ y.hand = x.task.id
  BY <1>0, <1>t, OneLemma DEF Worker
<1>3. Calm(x, y)
  BY <1>0, <1>1, <1>2 DEF Calm, Shape, Pending, InTransport
<1> QED BY <1>3 DEF y

(* The task enters the transport. *)
LEMMA EnteredLemma ==
  ASSUME NEW x \in Worker, Shape(x), x.thread = "holding"
  PROVE  Calm(x, Entered(x))
<1> DEFINE y == Entered(x)
<1>0. x.task \in Task /\ x.task.id \in Nat
  BY DEF Worker, Task
<1>1. CASE x.hand # x.task.id
  <2>1. /\ y \in Worker /\ y.task = x.task /\ y.active = x.active
        /\ y.thread = "idle" /\ y.queue = x.queue /\ y.hand = 0
    BY <1>1 DEF Worker, Entered
  <2> HIDE DEF y
  <2>2. Calm(x, y)
    BY <1>0, <1>1, <2>1 DEF Calm, Shape, Pending, InTransport
  <2> QED BY <2>2 DEF y
<1>2. CASE x.hand = x.task.id /\ (x.task.cancelled \/ Closing(x))
  <2> DEFINE t == IF x.task.state = "collected" THEN x.task ELSE Cancelled(x.task)
             a == IF x.active = x.hand THEN 0 ELSE x.active
  <2>1. /\ t \in Task /\ t.id = x.task.id /\ t.kind = x.task.kind /\ t.req = x.task.req
        /\ t.entered = x.task.entered /\ t.cancelled = x.task.cancelled
        /\ t.state \in {"collected", "cancelled_before_transport"}
        /\ t.state = "cancelled_before_transport" => (t.kind = "submission" => t.outcome = "rejected")
        /\ t.kind = "submission" => t.outcome \in {x.task.outcome, "rejected"}
    <3>1. CASE x.task.state = "collected"
      BY <1>0, <3>1
    <3>2. CASE x.task.state # "collected"
      <4> DEFINE c == Cancelled(x.task)
      <4>1. /\ c \in Task /\ c.id = x.task.id /\ c.kind = x.task.kind /\ c.req = x.task.req
            /\ c.state = "cancelled_before_transport" /\ c.entered = x.task.entered
            /\ c.cancelled = x.task.cancelled
            /\ x.task.kind = "submission" => c.outcome = "rejected"
        BY <1>0, CancelledLemma
      <4>2. t = c
        BY <3>2
      <4> HIDE DEF c, t
      <4> QED BY <4>1, <4>2
    <3> QED BY <3>1, <3>2
  <2>2. a \in Nat
    BY DEF Worker
  <2>t. y = [x EXCEPT !.thread = "idle", !.hand = 0, !.active = a, !.task = t]
    BY <1>2 DEF Entered
  <2> HIDE DEF t, a, y
  <2>3. /\ y \in Worker /\ y.task = t /\ y.active = a
        /\ y.thread = "idle" /\ y.queue = x.queue /\ y.hand = 0
    BY <2>1, <2>2, <2>t DEF Worker
  <2>4. ~t.entered /\ y.queue = <<>>
    BY <1>2, <2>1, <2>3 DEF Shape
  <2>5. Calm(x, y)
    BY <1>0, <1>2, <2>1, <2>3, <2>4 DEF Calm, Shape, Pending, InTransport
  <2> QED BY <2>5 DEF y
<1>3. CASE x.hand = x.task.id /\ ~x.task.cancelled /\ ~Closing(x)
  <2> DEFINE t == [x.task EXCEPT !.state = "running", !.entered = TRUE]
  <2>1. /\ t \in Task /\ t.id = x.task.id /\ t.kind = x.task.kind /\ t.req = x.task.req
        /\ t.entered /\ t.state = "running" /\ t.outcome = x.task.outcome
    BY <1>0 DEF Task
  <2>t. y = [x EXCEPT !.thread = "transport", !.task = t]
    BY <1>0, <1>3 DEF Entered, Worker, Task
  <2> HIDE DEF t
  <2>3. /\ y \in Worker /\ y.task = t /\ y.active = x.active
        /\ y.thread = "transport" /\ y.queue = x.queue /\ y.hand = x.hand
    BY <2>1, <2>t DEF Worker
  <2> HIDE DEF y
  <2>4. x.task.state = "queued" /\ x.queue = <<>> /\ x.active = x.task.id /\ x.task.id # 0
    BY <1>3 DEF Shape
  <2>5. Calm(x, y)
    BY <1>0, <1>3, <2>1, <2>3, <2>4 DEF Calm, Shape, Pending, InTransport
  <2> QED BY <2>5 DEF y
<1> QED BY <1>1, <1>2, <1>3

(* The thread stops. *)
LEMMA StoppedLemma ==
  ASSUME NEW x \in Worker, Shape(x), Stops(x)
  PROVE  Calm(x, Stopped(x))
<1> DEFINE y == Stopped(x)
<1>1. /\ y \in Worker /\ y.task = x.task /\ y.active = x.active
      /\ y.thread = "stopped" /\ y.queue = x.queue /\ y.hand = x.hand
  BY DEF Worker, Task, Stopped
<1> HIDE DEF y
<1>2. Calm(x, y)
  BY <1>1 DEF Calm, Shape, Pending, InTransport, Stops
<1> QED BY <1>2 DEF y

(* A task that is refused. *)
LEMMA RefusedLemma ==
  ASSUME NEW x \in Worker, Shape(x), NEW k, NEW r \in Nat
  PROVE  Calm(x, Refused(x, k, r)) /\ Refused(x, k, r).task = x.task /\ Refused(x, k, r).thread = x.thread
<1> DEFINE y == Refused(x, k, r)
<1>1. /\ y \in Worker /\ y.task = x.task /\ y.active = x.active
      /\ y.thread = x.thread /\ y.queue = x.queue /\ y.hand = x.hand
  <2>1. y = [x EXCEPT !.posted = x.posted \cup {r}] \/ y = x
    BY DEF Refused
  <2> HIDE DEF y
  <2> QED BY <2>1 DEF Worker
<1> HIDE DEF y
<1>2. Calm(x, y)
  BY <1>1 DEF Calm, Shape, Pending, InTransport
<1> QED BY <1>1, <1>2 DEF y

(* A new task is not the one the thread may still hold. *)
LEMMA AdmittedLemma ==
  ASSUME NEW x \in Worker, Shape(x), NEW r \in Nat, NEW k \in {"submission", "history"},
         x.active = 0, x.queue = <<>>
  PROVE  LET y == Admitted(x, k, r)
         IN  /\ y \in Worker /\ Shape(y) /\ y.thread = x.thread /\ ~InTransport(x)
             /\ y.task.kind = k /\ y.task.req = r /\ y.task.state = "queued" /\ ~y.task.entered
<1> DEFINE y == Admitted(x, k, r)
           id == x.task.id + 1
           t == [NoTask EXCEPT !.id = id, !.kind = k, !.req = r, !.state = "queued"]
           p == IF k = "submission" THEN x.posted \cup {r} ELSE x.posted
<1>0. x.task \in Task /\ x.task.id \in Nat /\ id \in Nat /\ id = x.task.id + 1
  BY DEF Worker, Task
<1>1. /\ t \in Task /\ t.id = id /\ t.kind = k /\ t.req = r /\ t.state = "queued"
      /\ ~t.entered /\ ~t.cancelled /\ t.outcome = "unknown"
  BY <1>0 DEF Task, NoTask, Words
<1>2. p \in SUBSET Nat
  BY DEF Worker
<1>3. y = [x EXCEPT !.task = t, !.active = id, !.queue = <<id>>, !.posted = p]
  BY DEF Admitted
<1> HIDE DEF t, id, p, y
<1>4. /\ y \in Worker /\ y.task = t /\ y.active = id
      /\ y.thread = x.thread /\ y.queue = <<id>> /\ y.hand = x.hand
  BY <1>0, <1>1, <1>2, <1>3, OneLemma DEF Worker
<1>5. ~InTransport(x) /\ x.hand \in Nat
  BY DEF Shape, Worker
<1>6. Shape(y)
  BY <1>0, <1>1, <1>4, <1>5 DEF Shape, InTransport
<1> QED BY <1>1, <1>4, <1>5, <1>6 DEF y

(* The transport posts the request. *)
LEMMA PostingLemma ==
  ASSUME NEW x \in Worker, Shape(x), x.thread = "transport", x.task.kind = "submission"
  PROVE  LET y == [x EXCEPT !.thread = "posting"]
         IN  y \in Worker /\ Shape(y) /\ y.task = x.task /\ y.thread = "posting"
<1> DEFINE y == [x EXCEPT !.thread = "posting"]
<1>1. /\ y \in Worker /\ y.task = x.task /\ y.active = x.active
      /\ y.thread = "posting" /\ y.queue = x.queue /\ y.hand = x.hand
  BY DEF Worker, Task
<1> HIDE DEF y
<1>2. Shape(y)
  BY <1>1 DEF Shape, InTransport
<1> QED BY <1>1, <1>2 DEF y

(* The transport ends with an outcome. *)
LEMMA EndedLemma ==
  ASSUME NEW x \in Worker, Shape(x), InTransport(x),
         NEW o \in Words, x.task.kind = "submission" => o \in {"unknown", "rejected", "accepted"}
  PROVE  LET y == TransportEnded(x, o)
         IN  /\ y \in Worker /\ Shape(y) /\ ~Pending(y) /\ y.thread = "idle"
             /\ y.task.kind = x.task.kind /\ y.task.req = x.task.req /\ y.task.entered
             /\ y.task.state \in {"completed", "discarded"}
             /\ y.task.state = "completed" => y.task.outcome = o
<1> DEFINE y == TransportEnded(x, o)
<1>0. x.task \in Task /\ x.task.id \in Nat
  BY DEF Worker, Task
<1>s. /\ x.hand = x.task.id /\ x.active = x.task.id /\ x.task.id # 0 /\ x.task.entered
      /\ x.queue = <<>>
  BY DEF Shape, InTransport
<1>1. CASE x.task.state = "abandoned" \/ Closing(x)
  <2> DEFINE t == [x.task EXCEPT !.state = "discarded"]
             g == [x EXCEPT !.thread = "idle", !.hand = 0, !.active = 0, !.task = t]
             u == Unsure(g)
  <2>1. /\ t \in Task /\ t.id = x.task.id /\ t.kind = x.task.kind /\ t.req = x.task.req
        /\ t.entered /\ t.state = "discarded" /\ t.outcome = x.task.outcome
    BY <1>0, <1>s DEF Task
  <2>2. \/ y = g
        \/ \E s \in {"close_pending", "uncertain"} : y = [u EXCEPT !.state = s]
    BY <1>1 DEF TransportEnded, Unsure, Worker, Task
  <2> HIDE DEF t
  <2>3. /\ g \in Worker /\ g.task = t /\ g.active = 0
        /\ g.thread = "idle" /\ g.queue = <<>> /\ g.hand = 0
    BY <1>s, <2>1 DEF Worker
  <2> HIDE DEF g
  <2>4. Shape(g)
    BY <1>0, <1>s, <2>1, <2>3 DEF Shape, InTransport
  <2>5. u \in Worker /\ Shape(u) /\ u.task = t /\ u.thread = "idle"
    BY <2>3, <2>4, UnsureLemma DEF Calm, Kept
  <2> HIDE DEF u
  <2>6. ASSUME NEW s \in {"close_pending", "uncertain"}
        PROVE  LET v == [u EXCEPT !.state = s]
               IN  v \in Worker /\ Shape(v) /\ v.task = t /\ v.thread = "idle"
    <3> DEFINE v == [u EXCEPT !.state = s]
    <3>0. u \in Worker /\ Shape(u)
      BY <2>5
    <3>s. s \in {"created", "running", "start_failed", "uncertain", "close_pending",
                "closed", "uncertain_stopped"}
      OBVIOUS
    <3>1. Calm(u, v) /\ Kept(u, v) /\ v.task = u.task
      BY <3>0, <3>s, StateLemma
    <3> QED BY <2>5, <3>1 DEF Calm, Kept
  <2>7. y \in Worker /\ Shape(y) /\ y.task = t /\ y.thread = "idle"
    BY <2>2, <2>3, <2>4, <2>6
  <2> HIDE DEF y
  <2>8. ~Pending(y)
    BY <2>1, <2>7 DEF Pending
  <2> QED BY <2>1, <2>7, <2>8 DEF y
<1>2. CASE x.task.state # "abandoned" /\ ~Closing(x)
  <2> DEFINE t == [x.task EXCEPT !.state = "completed", !.outcome = o]
  <2>1. /\ t \in Task /\ t.id = x.task.id /\ t.kind = x.task.kind /\ t.req = x.task.req
        /\ t.entered /\ t.state = "completed" /\ t.outcome = o
    BY <1>0, <1>s DEF Task
  <2>2. y = [x EXCEPT !.thread = "idle", !.hand = 0, !.task = t]
    BY <1>0, <1>2 DEF TransportEnded, Worker, Task
  <2> HIDE DEF t, y
  <2>3. /\ y \in Worker /\ y.task = t /\ y.active = x.active
        /\ y.thread = "idle" /\ y.queue = <<>> /\ y.hand = 0
    BY <1>s, <2>1, <2>2 DEF Worker
  <2>4. Shape(y) /\ ~Pending(y)
    BY <1>0, <1>s, <2>1, <2>3 DEF Shape, InTransport, Pending
  <2> QED BY <2>1, <2>3, <2>4 DEF y
<1> QED BY <1>1, <1>2

-----------------------------------------------------------------------------
(* The job. *)

(* From j to k a request that is completed stays as it is. *)
JobKept(j, k) ==
  k \in JobRecord /\ \A i \in Requests : j.reqs[i].state = "completed" => k.reqs[i] = j.reqs[i]

(* A job that ends keeps its requests. *)
LEMMA FinishLemma ==
  ASSUME NEW j \in JobRecord, NEW s \in J!Terminal
  PROVE  J!Finish(j, s) \in JobRecord /\ J!Finish(j, s).reqs = j.reqs
BY DEF J!Finish, JobRecord

(* So does its aggregation. *)
LEMMA AggregateLemma ==
  ASSUME NEW j \in JobRecord
  PROVE  J!Aggregate(j) \in JobRecord /\ J!Aggregate(j).reqs = j.reqs
<1> DEFINE states == {j.reqs[i].state : i \in 1..N}
           ended == IF states = {"completed"} THEN "completed"
                    ELSE IF \E i \in 1..N : j.reqs[i].registered > 0
                    THEN "partially_failed" ELSE "failed"
           s == IF "submitting" \in states THEN "running" ELSE "awaiting_result"
<1>1. J!Aggregate(j) \in {J!Finish(j, ended), [j EXCEPT !.state = s]}
  BY DEF J!Aggregate
<1>2. ended \in J!Terminal
  BY DEF J!Terminal, J!Settled
<1>3. s \in {"running", "awaiting_result"}
  OBVIOUS
<1> HIDE DEF ended, s
<1>4. [j EXCEPT !.state = s] \in JobRecord /\ [j EXCEPT !.state = s].reqs = j.reqs
  BY <1>3 DEF JobRecord
<1> QED BY <1>1, <1>2, <1>4, FinishLemma

(* One request that is not completed moves on. *)
LEMMA RequestLemma ==
  ASSUME NEW j \in JobRecord, NEW i, NEW q,
         i \in Requests => q \in Request /\ j.reqs[i].state # "completed"
  PROVE  LET n == [j EXCEPT !.reqs[i] = q] IN JobKept(j, n)
<1> DEFINE n == [j EXCEPT !.reqs[i] = q]
           f == [j.reqs EXCEPT ![i] = q]
<1>1. j.reqs \in [Requests -> Request]
  BY DEF JobRecord
<1>2. f \in [Requests -> Request] /\ \A k \in Requests : k # i => f[k] = j.reqs[k]
  BY <1>1
<1>3. n = [j EXCEPT !.reqs = f]
  BY DEF JobRecord
<1> HIDE DEF f
<1>4. n \in JobRecord /\ n.reqs = f
  BY <1>2, <1>3 DEF JobRecord
<1> HIDE DEF n
<1>5. JobKept(j, n)
  BY <1>2, <1>4 DEF JobKept
<1> QED BY <1>5 DEF n

(* Keeping what is registered composes. *)
LEMMA KeptTwice ==
  ASSUME NEW i, NEW j, NEW k, JobKept(i, j), JobKept(j, k)
  PROVE  JobKept(i, k)
BY DEF JobKept

(* An accepted event unregisters nothing. *)
LEMMA EventLemma ==
  ASSUME NEW j \in JobRecord, NEW kind, NEW n \in Nat, J!EventAccepted(j, EventOf(kind, n))
  PROVE  JobKept(j, J!ApplyEvent(j, EventOf(kind, n)))
<1> DEFINE e == EventOf(kind, n)
           after == J!After(j.reqs[idx].state, kind)
           keeps == kind \in {"remote_outputs_ready", "execution_progress", "execution_timeout"}
           o == IF keeps THEN j.reqs[idx].outputs ELSE n
           q == [j.reqs[idx] EXCEPT !.state = after, !.outputs = o]
           m == [j EXCEPT !.count = j.count + 1]
           next == [m EXCEPT !.reqs[idx] = q]
<1>1. e.index = idx /\ e.kind = kind /\ e.outputs = n
  BY DEF EventOf
<1>2. after \in {"submitting", "awaiting_result", "awaiting_download", "awaiting_host_registration",
                 "failed", "submission_outcome_unknown"} /\ j.reqs[idx].state # "completed"
  BY <1>1 DEF J!EventAccepted, J!After
<1>3. idx \in Requests => q \in Request
  <2> SUFFICES ASSUME idx \in Requests PROVE q \in Request
    OBVIOUS
  <2>1. j.reqs[idx] \in Request
    BY DEF JobRecord
  <2>2. o \in Nat
    BY <2>1 DEF Request
  <2> HIDE DEF after, o
  <2> QED BY <1>2, <2>1, <2>2 DEF Request, RequestStates
<1>4. m \in JobRecord /\ m.reqs = j.reqs
  BY DEF JobRecord
<1>5. J!ApplyEvent(j, e) =
        LET x == [j EXCEPT !.count = j.count + 1, !.reqs[idx] = q]
        IN  IF after = "submission_outcome_unknown" THEN J!Finish(x, after) ELSE J!Aggregate(x)
  BY <1>1 DEF J!ApplyEvent
<1> HIDE DEF q
<1>6. [j EXCEPT !.count = j.count + 1, !.reqs[idx] = q] = next
  BY DEF JobRecord
<1> HIDE DEF m
<1>7. JobKept(m, next)
  BY <1>2, <1>3, <1>4, RequestLemma
<1>8. JobKept(j, next) /\ next \in JobRecord
  BY <1>4, <1>7 DEF JobKept
<1> HIDE DEF next
<1>9. J!ApplyEvent(j, e) = IF after = "submission_outcome_unknown"
                           THEN J!Finish(next, "submission_outcome_unknown") ELSE J!Aggregate(next)
  BY <1>5, <1>6
<1>10. "submission_outcome_unknown" \in J!Terminal
  BY DEF J!Terminal
<1>11. JobKept(next, J!ApplyEvent(j, e))
  <2>1. J!ApplyEvent(j, e) \in JobRecord /\ J!ApplyEvent(j, e).reqs = next.reqs
    BY <1>8, <1>9, <1>10, FinishLemma, AggregateLemma
  <2> QED BY <2>1 DEF JobKept
<1> QED BY <1>8, <1>11, KeptTwice DEF JobKept

(* Nor does one that may be refused. *)
LEMMA JobAfterLemma ==
  ASSUME job \in JobRecord, NEW kind, NEW n \in Nat
  PROVE  JobKept(job, JobAfter(kind, n))
<1>1. JobKept(job, job)
  BY DEF JobKept
<1>2. "stale_target_outputs_not_registered" \in J!Terminal
  BY DEF J!Terminal
<1>3. JobKept(job, J!Finish(job, "stale_target_outputs_not_registered"))
  BY <1>2, FinishLemma DEF JobKept
<1>4. Delivered(kind, n) => JobKept(job, J!ApplyEvent(job, EventOf(kind, n)))
  BY EventLemma DEF Delivered
<1> QED BY <1>1, <1>3, <1>4 DEF JobAfter

(* Nor does a publication. *)
LEMMA PublishLemma ==
  ASSUME job \in JobRecord, NEW n \in Nat, Publish(n)
  PROVE  JobKept(job, job')
<1> DEFINE registry == [closed |-> FALSE, target |-> 0, jobs |-> <<job>>]
           c == J!Cleanup(registry)
<1>1. PICK i \in Requests : /\ job.reqs[i].state = "awaiting_host_registration"
                            /\ job' = J!Publication(registry, 1, 0, i, n).jobs[1]
  BY DEF Publish
<1>2. job.left = 1 /\ job.target = 0
  BY DEF JobRecord
<1>3. c = [registry EXCEPT !.jobs = [id \in {1} |-> job]]
  <2>1. DOMAIN registry.jobs = {1} /\ registry.jobs[1] = job
    OBVIOUS
  <2>2. {id \in DOMAIN registry.jobs : registry.jobs[id].left > 0 \/ J!Live(registry.jobs[id])} = {1}
    BY <1>2, <2>1
  <2>3. c = [registry EXCEPT !.jobs = [id \in {1} |->
               IF registry.jobs[id].left = 0 THEN J!Finish(registry.jobs[id], "unavailable")
               ELSE registry.jobs[id]]]
    BY <2>2 DEF J!Cleanup
  <2>4. \A id \in {1} : (IF registry.jobs[id].left = 0 THEN J!Finish(registry.jobs[id], "unavailable")
                         ELSE registry.jobs[id]) = job
    BY <1>2, <2>1
  <2> HIDE DEF registry
  <2> QED BY <2>3, <2>4
<1>4. c.closed = FALSE /\ c.target = 0 /\ c.jobs = [id \in {1} |-> job]
  BY <1>3
<1> HIDE DEF c
<1> DEFINE req == job.reqs[i]
           s == IF n = req.outputs THEN "completed" ELSE IF n > 0 THEN "partially_failed" ELSE "failed"
           q == [req EXCEPT !.registered = n, !.state = s]
           next == [job EXCEPT !.reqs[i] = q]
<1>5. job' \in {job, J!Aggregate(next)}
  <2>1. J!Publication(registry, 1, 0, i, n) \in {c, J!SetJob(c, 1, J!Aggregate(next))}
    BY <1>2, <1>4 DEF J!Publication, J!Has, c
  <2>2. c.jobs[1] = job
    BY <1>4
  <2>3. J!SetJob(c, 1, J!Aggregate(next)).jobs[1] = J!Aggregate(next)
    <3> DEFINE a == J!Aggregate(next)
    <3> HIDE DEF a
    <3>1. J!SetJob(c, 1, a).jobs[1] = a
      <4> DEFINE f == [id \in {1} |-> job]
      <4>1. [f EXCEPT ![1] = a][1] = a
        OBVIOUS
      <4>2. J!SetJob(c, 1, a) = [c EXCEPT !.jobs = [f EXCEPT ![1] = a]]
        BY <1>4 DEF J!SetJob
      <4>3. c = [closed |-> FALSE, target |-> 0, jobs |-> f]
        BY <1>3
      <4> QED BY <4>1, <4>2, <4>3
    <3> QED BY <3>1 DEF a
  <2> QED BY <1>1, <2>1, <2>2, <2>3
<1>6. req \in Request /\ s \in RequestStates
  BY DEF JobRecord, RequestStates
<1>7. q \in Request
  <2> HIDE DEF s
  <2> QED BY <1>6 DEF Request
<1> HIDE DEF q
<1>8. JobKept(job, next)
  BY <1>1, <1>7, RequestLemma
<1> HIDE DEF next
<1>9. JobKept(next, J!Aggregate(next))
  BY <1>8, AggregateLemma DEF JobKept
<1> QED BY <1>5, <1>8, <1>9, KeptTwice DEF JobKept

-----------------------------------------------------------------------------
(* Steps. *)

JobStep == JobKept(job, job')

(* The journals' chains, what was sent and the request stay. *)
Frame ==
  /\ idx' = idx /\ sent' = sent /\ reply' \in Words
  /\ owner' \in Owner /\ owner'.outcomes = owner.outcomes
  /\ writer' \in Writer /\ writer'.events = writer.events /\ file' \in File /\ file'.events = file.events

(* A step of the host or the owner alone. *)
LEMMA FrameLemma ==
  ASSUME IInv, JobStep, Frame
  PROVE  /\ FileTellsSends' /\ Accepted' /\ Sent' = Sent /\ idx' = idx
         /\ \A i \in Requests : Registered(i) => Registered(i)'
         /\ \A e : OnFile(e)' <=> OnFile(e)
         /\ \A k \in 1..Len(file'.events) : file'.events[k].req <= idx
         /\ w' \in Worker => Types'
<1>1. Sent' = Sent /\ \A e : OnFile(e)' <=> OnFile(e)
  BY DEF Frame, Sent, OnFile
<1>2. \A i \in Requests : job.reqs[i].state = "completed" => job'.reqs[i] = job.reqs[i]
  BY DEF JobStep, JobKept
<1>3. \A i \in Requests : Registered(i) => Registered(i)'
  BY <1>2 DEF Registered
<1>4. FileTellsSends'
  BY <1>1, <1>2 DEF IInv, FileTellsSends
<1>5. Accepted'
  BY <1>1 DEF IInv, Accepted, Frame
<1>6. \A k \in 1..Len(file'.events) : file'.events[k].req <= idx
  BY DEF IInv, Appending, Frame
<1>7. w' \in Worker => Types'
  BY DEF IInv, Types, Frame, JobStep, JobKept
<1> QED BY <1>1, <1>3, <1>4, <1>5, <1>6, <1>7 DEF Frame

(* The worker moves, the call stays where it is. *)
LEMMA WorkerStep ==
  ASSUME IInv, JobStep, Frame, Calm(w, w'), pc' = pc, phase' = phase, reply' = reply,
         writer'.step = writer.step, writer'.event = writer.event
  PROVE  IInv'
<1>1. /\ FileTellsSends' /\ Accepted' /\ Sent' = Sent /\ idx' = idx
      /\ \A i \in Requests : Registered(i) => Registered(i)'
      /\ \A e : OnFile(e)' <=> OnFile(e)
      /\ \A k \in 1..Len(file'.events) : file'.events[k].req <= idx
      /\ Types'
  BY FrameLemma DEF Calm
<1>e. file'.events = file.events /\ writer'.events = writer.events
  BY DEF Frame
<1>2. Posts'
  BY <1>1 DEF IInv, Posts, Sends, Calm
<1>3. Appending' /\ Announced'
  BY <1>1, <1>e DEF IInv, Appending, Announced, Writes, Wrote
<1>4. Unsent'
  <2>1. BeforeSend' <=> BeforeSend
    BY DEF BeforeSend, Writes, Wrote
  <2> QED BY <1>1, <1>e, <2>1 DEF IInv, Unsent, Calm
<1>5. Truthful'
  BY <1>1, <1>e DEF IInv, Truthful, Calm
<1>6. Waited'
  <2>1. GivenUp' <=> GivenUp
    BY <1>1 DEF GivenUp, Frame
  <2> QED BY <1>1, <1>e, <2>1 DEF IInv, Waited, Calm
<1>7. Told'
  BY <1>1 DEF IInv, Told, Calm, Asked, Writes, Wrote
<1> QED BY <1>1, <1>2, <1>3, <1>4, <1>5, <1>6, <1>7 DEF IInv

(* The call moves, the worker does not. *)
LEMMA CallStep ==
  ASSUME IInv, JobStep, Frame, w' = w, pc = "wait" <=> pc' = "wait", BeforeSend' => BeforeSend,
         Pending(w) /\ pc # "wait" => GivenUp',
         Appending', Announced', Truthful', Told'
  PROVE  IInv'
<1>1. /\ FileTellsSends' /\ Accepted' /\ Sent' = Sent /\ idx' = idx
      /\ \A e : OnFile(e)' <=> OnFile(e)
      /\ Types'
  BY FrameLemma DEF IInv, Types
<1>e. file'.events = file.events /\ writer'.events = writer.events
  BY DEF Frame
<1>2. Posts'
  BY <1>1 DEF IInv, Posts, Sends
<1>4. Unsent'
  BY <1>1, <1>e DEF IInv, Unsent
<1>6. Waited'
  BY <1>1, <1>e DEF IInv, Waited
<1> QED BY <1>1, <1>2, <1>4, <1>6 DEF IInv

(* Most steps of the call lead to a place where nothing is at stake. *)
QuietPlaces == {"idle", "bind", "unbound", "request", "unknown", "settle", "issue",
                "history", "read", "finish", "result"}

(* A step between two places where nothing is being sent. *)
LEMMA QuietStep ==
  ASSUME IInv, JobStep, Frame, w' = w, pc # "wait", pc' \in QuietPlaces, BeforeSend' => BeforeSend,
         Pending(w) => GivenUp'
  PROVE  IInv'
<1>1. Appending' /\ Announced' /\ Truthful' /\ Told' /\ pc' # "wait"
  <2>1. \A k \in 1..Len(file'.events) : file'.events[k].req <= idx'
    BY FrameLemma
  <2> QED BY <2>1 DEF QuietPlaces, Appending, Announced, Truthful, Told, Asked, Writes, Wrote
<1> QED BY <1>1, CallStep

(* The host that stays. *)
LEMMA HostStays ==
  ASSUME IInv, UNCHANGED host
  PROVE  JobStep
BY DEF IInv, Types, JobStep, JobKept, host

(* An event that is emitted. *)
LEMMA Emits ==
  ASSUME IInv, NEW kind, NEW n \in Nat, NEW why, EmitAs(kind, n, why)
  PROVE  JobStep
<1>1. job \in JobRecord
  BY DEF IInv, Types
<1> QED BY <1>1, JobAfterLemma DEF EmitAs, JobStep

OwnerMoves == owner' = owner \/ \E s \in OwnerStates : owner' = [owner EXCEPT !.state = s]

(* A step of the journal owner alone. *)
LEMMA OwnerFrame ==
  ASSUME IInv, OwnerMoves, UNCHANGED <<idx, writer, file, sent>>, reply' \in Words
  PROVE  Frame
<1>1. owner' \in Owner /\ owner'.outcomes = owner.outcomes
  <2>1. owner \in Owner
    BY DEF IInv, Types
  <2>2. ASSUME NEW s \in OwnerStates, owner' = [owner EXCEPT !.state = s]
        PROVE  owner' \in Owner /\ owner'.outcomes = owner.outcomes
    BY <2>1, <2>2 DEF Owner
  <2> QED BY <2>1, <2>2 DEF OwnerMoves
<1> QED BY <1>1 DEF Frame, IInv, Types

(* Where a submission can be pending at all. *)
LEMMA PendingLemma ==
  ASSUME IInv, Pending(w)
  PROVE  ~BeforeSend /\ (pc = "wait" \/ GivenUp)
BY DEF IInv, Unsent, Waited

(* The steps of the call before its send that write nothing. *)
LEMMA BeforeSendSteps ==
  ASSUME IInv,
         \/ Accept \/ Bind \/ SendNothing \/ Advance \/ PreparationFails
         \/ (NextRequestBegins /\ pc' # "start") \/ (Start /\ pc' # "intent")
         \/ (ClaimSend /\ pc' # "submit")
  PROVE  IInv'
<1> USE DEF Go, Return, Private, Quiet, journals, Emit, QuietPlaces, BeforeSend, Writes, Wrote
<1>0. reply \in Words /\ "none" \in Words
  BY DEF IInv, Types, Words
<1>1. CASE Accept
  <2>1. Frame /\ JobStep
    BY <1>0, <1>1, OwnerFrame, HostStays DEF Accept, OwnerMoves, OwnerStates
  <2> QED BY <1>1, <2>1, PendingLemma, QuietStep DEF Accept
<1>2. CASE Bind
  <2>1. Frame /\ JobStep
    BY <1>0, <1>2, OwnerFrame, HostStays DEF Bind, OwnerMoves, OwnerStates
  <2> QED BY <1>2, <2>1, PendingLemma, QuietStep DEF Bind
<1>3. CASE SendNothing
  <2>1. Frame /\ JobStep
    BY <1>0, <1>3, OwnerFrame, Emits DEF SendNothing, OwnerMoves
  <2> QED BY <1>3, <2>1, QuietStep DEF SendNothing, GivenUp
<1>4. CASE Advance
  <2>1. Frame /\ JobStep
    BY <1>0, <1>4, OwnerFrame, HostStays DEF Advance, OwnerMoves
  <2> QED BY <1>4, <2>1, PendingLemma, QuietStep DEF Advance
<1>5. CASE PreparationFails
  <2>1. Frame /\ JobStep
    BY <1>0, <1>5, OwnerFrame, Emits DEF PreparationFails, OwnerMoves
  <2> QED BY <1>5, <2>1, PendingLemma, QuietStep DEF PreparationFails
<1>6. CASE NextRequestBegins /\ pc' # "start"
  <2>1. Frame /\ JobStep
    BY <1>0, <1>6, OwnerFrame, HostStays DEF NextRequestBegins, OwnerMoves
  <2> QED BY <1>6, <2>1, PendingLemma, QuietStep DEF NextRequestBegins
<1>7. CASE Start /\ pc' # "intent"
  <2>1. Frame /\ JobStep
    BY <1>0, <1>7, OwnerFrame, Emits DEF Start, OwnerMoves
  <2> QED BY <1>7, <2>1, PendingLemma, QuietStep DEF Start
<1>8. CASE ClaimSend /\ pc' # "submit"
  <2>1. Frame /\ JobStep
    BY <1>0, <1>8, OwnerFrame, HostStays DEF ClaimSend, OwnerMoves, OwnerStates, IInv, Types, Owner
  <2> QED BY <1>8, <2>1, PendingLemma, QuietStep DEF ClaimSend
<1> QED BY <1>1, <1>2, <1>3, <1>4, <1>5, <1>6, <1>7, <1>8

(* The steps of the call after the send that write nothing.                *)
LEMMA AfterSendSteps ==
  ASSUME IInv,
         \/ AdvanceSettled \/ StopUnknown \/ Recorded \/ Settle \/ BeginHistory \/ FinishHistory
         \/ TipUnreadable \/ ReceiveReady \/ ReceiveTimeout \/ ReceiveNothing \/ ReadCurrentHistory
  PROVE  IInv'
<1> USE DEF Go, Return, Private, Quiet, journals, Emit, Uncertain, QuietPlaces, BeforeSend, Writes, Wrote
<1>0. reply \in Words /\ "execution_completed" \in Words
  BY DEF IInv, Types, Words
<1>1. CASE AdvanceSettled
  <2>1. Frame /\ JobStep
    BY <1>0, <1>1, OwnerFrame, HostStays DEF AdvanceSettled, OwnerMoves
  <2> QED BY <1>1, <2>1, PendingLemma, QuietStep DEF AdvanceSettled, GivenUp
<1>2. CASE StopUnknown
  <2>1. Frame /\ JobStep
    BY <1>0, <1>2, OwnerFrame, Emits DEF StopUnknown, OwnerMoves
  <2> QED BY <1>2, <2>1, QuietStep DEF StopUnknown, GivenUp
<1>3. CASE Recorded
  <2>1. JobStep
    BY <1>3, Emits DEF Recorded
  <2>2. idx \in Requests
    BY <1>3 DEF Recorded, IInv, Told, Asked
  <2>3. owner.outcomes[idx] \in Words
    BY <2>2 DEF IInv, Types, Owner
  <2>4. Frame
    BY <1>3, <2>3, OwnerFrame DEF Recorded, OwnerMoves
  <2>5. Pending(w) => owner.outcomes[idx] = "unknown"
    BY <1>3, PendingLemma DEF Recorded, GivenUp
  <2>6. CASE owner.outcomes[idx] \in {"accepted", "pre_send_rejected"}
    BY <1>3, <2>1, <2>4, <2>5, <2>6, QuietStep DEF Recorded
  <2>7. CASE owner.outcomes[idx] \notin {"accepted", "pre_send_rejected"}
    BY <1>3, <2>1, <2>4, <2>7, QuietStep DEF Recorded, GivenUp
  <2> QED BY <2>6, <2>7
<1>4. CASE Settle
  <2>1. Frame /\ JobStep
    BY <1>0, <1>4, OwnerFrame, HostStays DEF Settle, OwnerMoves, OwnerStates
  <2> QED BY <1>4, <2>1, PendingLemma, QuietStep DEF Settle, GivenUp
<1>5. CASE BeginHistory
  <2>1. Frame /\ JobStep
    BY <1>0, <1>5, OwnerFrame, HostStays DEF BeginHistory, OwnerMoves, OwnerStates
  <2> QED BY <1>5, <2>1, PendingLemma, QuietStep DEF BeginHistory, GivenUp
<1>6. CASE FinishHistory
  <2>1. Frame /\ JobStep
    BY <1>0, <1>6, OwnerFrame, HostStays DEF FinishHistory, OwnerMoves, OwnerStates
  <2> QED BY <1>6, <2>1, PendingLemma, QuietStep DEF FinishHistory, GivenUp
<1>7. CASE TipUnreadable
  <2>1. Frame /\ JobStep
    BY <1>0, <1>7, OwnerFrame, HostStays DEF TipUnreadable, OwnerMoves, OwnerStates
  <2> QED BY <1>7, <2>1, PendingLemma, QuietStep DEF TipUnreadable, GivenUp
<1>8. CASE ReceiveReady
  <2>1. Frame /\ JobStep
    BY <1>0, <1>8, OwnerFrame, Emits DEF ReceiveReady, OwnerMoves
  <2> QED BY <1>8, <2>1, PendingLemma, QuietStep DEF ReceiveReady, GivenUp
<1>9. CASE ReceiveTimeout
  <2>1. Frame /\ JobStep
    BY <1>0, <1>9, OwnerFrame, Emits DEF ReceiveTimeout, OwnerMoves
  <2> QED BY <1>9, <2>1, PendingLemma, QuietStep DEF ReceiveTimeout, GivenUp
<1>10. CASE ReceiveNothing
  <2>1. Frame /\ JobStep
    BY <1>0, <1>10, OwnerFrame, HostStays DEF ReceiveNothing, OwnerMoves
  <2> QED BY <1>10, <2>1, PendingLemma, QuietStep DEF ReceiveNothing, GivenUp
<1>11. CASE ReadCurrentHistory
  <2>1. Frame /\ JobStep
    BY <1>0, <1>11, OwnerFrame, HostStays DEF ReadCurrentHistory, OwnerMoves
  <2> QED BY <1>11, <2>1, PendingLemma, QuietStep DEF ReadCurrentHistory, GivenUp
<1> QED BY <1>1, <1>2, <1>3, <1>4, <1>5, <1>6, <1>7, <1>8, <1>9, <1>10, <1>11

(* Whatever becomes of the outputs, the call is not concerned.             *)
LEMMA OutputSteps ==
  ASSUME IInv, Contain \/ OutputsIncomplete \/ OutputsReady
  PROVE  IInv'
<1>0. reply \in Words /\ MaxOutputs \in Nat
  BY ExecutorAssumption DEF IInv, Types
<1>1. Frame /\ w' = w /\ pc' = pc /\ phase' \notin {"not_taken", "ready"}
  <2>1. UNCHANGED <<idx, pc, reply, journals, w, sent>> /\ phase' \notin {"not_taken", "ready"}
    BY DEF Contain, OutputsIncomplete, OutputsReady
  <2> QED BY <1>0, <2>1, OwnerFrame DEF OwnerMoves, journals
<1>2. JobStep
  BY <1>0, HostStays, Emits DEF Contain, OutputsIncomplete, OutputsReady
<1>3. phase # "stopped"
  BY DEF Contain, OutputsIncomplete, OutputsReady
<1>4. writer' = writer /\ file' = file /\ owner' = owner /\ reply' = reply
  BY DEF Contain, OutputsIncomplete, OutputsReady, journals
<1>5. BeforeSend' => BeforeSend
  BY <1>1, <1>4 DEF BeforeSend, Writes, Wrote
<1>6. Pending(w) /\ pc # "wait" => GivenUp'
  BY <1>1, <1>3, <1>4, PendingLemma DEF GivenUp, Frame
<1>7. /\ Sent' = Sent /\ idx' = idx /\ \A i \in Requests : Registered(i) => Registered(i)'
  BY <1>1, <1>2, FrameLemma
<1>8. Appending' /\ Announced'
  BY <1>1, <1>4, <1>7 DEF IInv, Appending, Announced, Writes, Wrote
<1>9. Truthful'
  BY <1>1, <1>4, <1>7 DEF IInv, Truthful
<1>10. Told'
  BY <1>1, <1>4, <1>7 DEF IInv, Told, Asked, Writes, Wrote
<1> QED BY <1>1, <1>2, <1>5, <1>6, <1>8, <1>9, <1>10, CallStep

(* A write that does not begin, and one that is given up.                  *)
LEMMA UnwrittenSteps ==
  ASSUME IInv,
         \/ (WriteIntent \/ WriteSettlement \/ Record) /\ pc' # "write"
         \/ VerificationFails
         \/ TakeIntent /\ pc' # "claim"
         \/ TakeOutcome /\ pc' # "recorded"
         \/ TakeSettlement /\ pc' # "request"
  PROVE  IInv'
<1> USE DEF Go, Return, Private, Quiet, journals, Uncertain, QuietPlaces, BeforeSend, Writes, Wrote,
            BeginWrite, Unwritten, Intent, Outcome, Settlement, Event
<1>0. reply \in Words
  BY DEF IInv, Types
<1>1. CASE WriteIntent /\ pc' # "write"
  <2>1. Frame /\ JobStep
    BY <1>0, <1>1, OwnerFrame, HostStays DEF WriteIntent, OwnerMoves, OwnerStates
  <2> QED BY <1>1, <2>1, PendingLemma, QuietStep DEF WriteIntent, GivenUp
<1>2. CASE WriteSettlement /\ pc' # "write"
  <2>1. Frame /\ JobStep
    BY <1>0, <1>2, OwnerFrame, HostStays DEF WriteSettlement, OwnerMoves, OwnerStates
  <2> QED BY <1>2, <2>1, PendingLemma, QuietStep DEF WriteSettlement, GivenUp
<1>3. CASE Record /\ pc' # "write"
  <2>1. Frame /\ JobStep
    BY <1>0, <1>3, OwnerFrame, HostStays DEF Record, OwnerMoves, OwnerStates
  <2> QED BY <1>3, <2>1, PendingLemma, QuietStep DEF Record, GivenUp
<1>4. CASE VerificationFails
  <2>1. Frame /\ JobStep
    BY <1>0, <1>4, OwnerFrame, HostStays DEF VerificationFails, OwnerMoves, OwnerStates
  <2> QED BY <1>4, <2>1, PendingLemma, QuietStep DEF VerificationFails, GivenUp
<1>5. CASE TakeIntent /\ pc' # "claim"
  <2>1. Frame /\ JobStep
    BY <1>0, <1>5, OwnerFrame, HostStays DEF TakeIntent, OwnerMoves, OwnerStates
  <2> QED BY <1>5, <2>1, PendingLemma, QuietStep DEF TakeIntent, GivenUp
<1>6. CASE TakeOutcome /\ pc' # "recorded"
  <2>1. Frame /\ JobStep
    BY <1>0, <1>6, OwnerFrame, HostStays DEF TakeOutcome, OwnerMoves, OwnerStates
  <2> QED BY <1>6, <2>1, PendingLemma, QuietStep DEF TakeOutcome, GivenUp
<1>7. CASE TakeSettlement /\ pc' # "request"
  <2>1. Frame /\ JobStep
    BY <1>0, <1>7, OwnerFrame, HostStays DEF TakeSettlement, OwnerMoves, OwnerStates
  <2> QED BY <1>7, <2>1, PendingLemma, QuietStep DEF TakeSettlement, GivenUp
<1> QED BY <1>1, <1>2, <1>3, <1>4, <1>5, <1>6, <1>7

(* A write of the journal that fails. *)
LEMMA WriteFailsStep ==
  ASSUME IInv, WriteFails
  PROVE  IInv'
<1> USE DEF Go, Return, Private, Quiet, Uncertain, Unwritten
<1>1. writer' \in Writer /\ writer'.events = writer.events /\ writer'.event = writer.event
  BY DEF WriteFails, Failed, IInv, Types, Writer
<1>2. owner' \in Owner /\ owner'.outcomes = owner.outcomes
  BY DEF WriteFails, IInv, Types, Owner, OwnerStates
<1>3. Frame /\ JobStep
  BY <1>1, <1>2, HostStays DEF WriteFails, Frame, IInv, Types
<1>4. pc' \in QuietPlaces /\ ~BeforeSend' /\ w' = w /\ pc # "wait"
  BY DEF WriteFails, QuietPlaces, BeforeSend, Writes, Wrote
<1>5. Pending(w) => GivenUp'
  BY PendingLemma DEF WriteFails, GivenUp, Outcome, Event
<1> QED BY <1>3, <1>4, <1>5, QuietStep

-----------------------------------------------------------------------------
(* The steps that announce, write and take an event.                       *)

(* The next request begins. *)
LEMMA BeginStep ==
  ASSUME IInv, NextRequestBegins, pc' = "start"
  PROVE  IInv'
<1> USE DEF Private, Quiet, journals, BeforeSend, Writes, Wrote, NextRequestBegins, Return
<1>1. "none" \in Words
  BY DEF Words
<1>2. Frame /\ JobStep
  BY <1>1, OwnerFrame, HostStays DEF OwnerMoves
<1>3. w' = w /\ idx' = idx /\ pc = "request" /\ idx \in Requests
  <2>1. idx \in Nat \ {0} /\ N \in Nat
    BY ExecutorAssumption DEF IInv, Types
  <2>2. ~(idx > N)
    OBVIOUS
  <2> QED BY <2>1, <2>2 DEF Requests
<1>4. \A k \in 1..Len(file'.events) : file'.events[k].req <= idx'
  BY <1>2, FrameLemma
<1>5. Appending' /\ Announced' /\ Truthful' /\ Told'
  BY <1>3, <1>4 DEF Appending, Announced, Truthful, Told, Asked
<1> QED BY <1>2, <1>3, <1>5, PendingLemma, CallStep

(* The worker is started. *)
LEMMA StartStep ==
  ASSUME IInv, Start, pc' = "intent"
  PROVE  IInv'
<1> USE DEF Private, Quiet, journals, BeforeSend, Writes, Wrote, Start, Return, Go, Emit
<1>1. reply \in Words
  BY DEF IInv, Types
<1>2. Frame /\ JobStep
  BY <1>1, OwnerFrame, Emits DEF OwnerMoves, OwnerStates
<1>3. w' = w /\ idx' = idx /\ pc = "start" /\ idx \in Requests
  BY DEF IInv, Announced
<1>4. \A k \in 1..Len(file'.events) : file'.events[k].req <= idx'
  BY <1>2, FrameLemma
<1>5. Appending' /\ Announced' /\ Truthful' /\ Told'
  BY <1>3, <1>4 DEF Appending, Announced, Truthful, Told, Asked
<1> QED BY <1>2, <1>3, <1>5, PendingLemma, CallStep

(* An append begins: the writer holds the event, the file its temporary.   *)
LEMMA BegunLemma ==
  ASSUME IInv, NEW e \in Ev, writer' = Begun(writer, e), file' = WithTemp(file)
  PROVE  /\ writer' \in Writer /\ writer'.events = writer.events /\ writer'.event = e
         /\ writer'.step = "written" /\ file' \in File /\ file'.events = file.events
<1>1. writer \in Writer /\ file \in File
  BY DEF IInv, Types
<1>2. /\ writer' \in Writer /\ writer'.events = writer.events /\ writer'.event = e
      /\ writer'.step = "written"
  BY <1>1 DEF Begun, Writer
<1>3. file' \in File /\ file'.events = file.events
  BY <1>1 DEF WithTemp, File
<1> QED BY <1>2, <1>3

(* The intent is written. *)
LEMMA WriteIntentStep ==
  ASSUME IInv, WriteIntent, pc' = "write"
  PROVE  IInv'
<1> USE DEF Private, Quiet, Go
<1>1. /\ pc = "intent" /\ Appendable(writer, file, Intent(idx), N)
      /\ writer' = Begun(writer, Intent(idx)) /\ file' = WithTemp(file) /\ owner' = owner
      /\ UNCHANGED <<idx, phase, reply, sent, w>> /\ UNCHANGED host
  BY DEF WriteIntent, BeginWrite, Unwritten, Intent, Event
<1>2. Intent(idx) \in Ev /\ Intent(idx).kind = "submission_intent" /\ Intent(idx).req = idx
  BY DEF IInv, Types, Intent, Event, Ev, Words
<1>3. /\ writer' \in Writer /\ writer'.events = writer.events /\ writer'.event = Intent(idx)
      /\ writer'.step = "written" /\ file' \in File /\ file'.events = file.events
  BY <1>1, <1>2, BegunLemma
<1>4. Frame /\ JobStep
  BY <1>1, <1>3, HostStays DEF Frame, IInv, Types
<1>5. idx \in Requests /\ file.events = writer.events /\ NextRequest(file.events) = idx
  BY <1>1, <1>2 DEF IInv, Announced, Appendable, Follows
<1>6. \A k \in 1..Len(file'.events) : file'.events[k].req <= idx'
  BY <1>1, <1>4, FrameLemma
<1>7. Appending' /\ Announced'
  BY <1>1, <1>2, <1>3, <1>5, <1>6 DEF Appending, Announced, Writes, Wrote
<1>8. Truthful' /\ Told'
  BY <1>1, <1>2, <1>3, <1>5 DEF Truthful, Told, Asked, Intent, Outcome, Settlement, Event, Writes, Wrote
<1>9. BeforeSend /\ ~Pending(w)
  BY <1>1, PendingLemma DEF BeforeSend
<1> QED BY <1>1, <1>4, <1>7, <1>8, <1>9, CallStep

(* The settlement is written. *)
LEMMA WriteSettlementStep ==
  ASSUME IInv, WriteSettlement, pc' = "write"
  PROVE  IInv'
<1> USE DEF Private, Quiet, Go
<1> DEFINE e == Settlement(idx, reply)
<1>1. /\ pc = "issue" /\ Appendable(writer, file, e, N) /\ SettlementObserved(reply)
      /\ writer' = Begun(writer, e) /\ file' = WithTemp(file) /\ owner' = owner
      /\ UNCHANGED <<idx, phase, reply, sent, w>> /\ UNCHANGED host
  <2>1. e.kind = "request_settlement"
    BY DEF Settlement, Event
  <2> HIDE DEF e
  <2>2. WriteSettlement <=> /\ pc = "issue" /\ BeginWrite(e, SettlementObserved(reply))
                            /\ UNCHANGED <<reply, host>> /\ Private /\ Quiet
    BY DEF WriteSettlement, e
  <2> QED BY <2>1, <2>2 DEF BeginWrite, Unwritten, Return
<1>2. e \in Ev /\ e.kind = "request_settlement" /\ e.req = idx /\ e.value = reply
  BY DEF IInv, Types, Settlement, Event, Ev
<1> HIDE DEF e
<1>3. /\ writer' \in Writer /\ writer'.events = writer.events /\ writer'.event = e
      /\ writer'.step = "written" /\ file' \in File /\ file'.events = file.events
  BY <1>1, <1>2, BegunLemma
<1>4. Frame /\ JobStep
  BY <1>1, <1>3, HostStays DEF Frame, IInv, Types
<1>5. file.events = writer.events
  BY <1>1 DEF Appendable
<1>6. \A k \in 1..Len(file'.events) : file'.events[k].req <= idx'
  BY <1>1, <1>4, FrameLemma
<1>7. Appending' /\ Announced'
  BY <1>1, <1>2, <1>3, <1>5, <1>6 DEF Appending, Announced, Writes, Wrote
<1>8. idx \in Requests /\ e = Settlement(idx, "execution_completed") => idx \in Sent /\ Registered(idx)
  BY <1>1, <1>2 DEF SettlementObserved, IInv, Accepted, Registered, Settlement, Event
<1>9. Truthful'
  <2>1. e # Outcome(idx, "pre_send_rejected") /\ e # Outcome(idx, "accepted")
    BY <1>2 DEF Outcome, Event
  <2>2. Sent' = Sent /\ (idx \in Requests /\ Registered(idx) => Registered(idx)')
    BY <1>4, FrameLemma DEF Frame
  <2> QED BY <1>1, <1>3, <1>8, <2>1, <2>2 DEF Truthful
<1>10. Told'
  BY <1>1, <1>2, <1>3 DEF Told, Asked, Writes, Wrote
<1>11. ~BeforeSend' /\ ~Pending(w)
  BY <1>1, <1>2, <1>3, PendingLemma DEF BeforeSend, GivenUp, Writes, Wrote
<1> QED BY <1>1, <1>4, <1>7, <1>9, <1>10, <1>11, CallStep

(* The outcome is to be recorded. *)
LEMMA RecordStep ==
  ASSUME IInv, Record, pc' = "write"
  PROVE  IInv'
<1> USE DEF Private, Quiet, Go
<1> DEFINE e == Outcome(idx, JournalOutcome)
<1>1. /\ pc = "record" /\ Appendable(writer, file, e, N)
      /\ owner' = [owner EXCEPT !.state = "result_writing"]
      /\ writer' = Begun(writer, e) /\ file' = WithTemp(file)
      /\ UNCHANGED <<idx, phase, reply, sent, w>> /\ UNCHANGED host
  BY DEF Record
<1>2. reply \in {"accepted", "rejected", "unknown"} /\ idx \in Requests
  BY <1>1 DEF IInv, Told, Asked
<1>3. /\ e \in Ev /\ e.kind = "submission_outcome" /\ e.req = idx /\ e.value = JournalOutcome
      /\ e = Outcome(idx, JournalOutcome)
  BY <1>2 DEF IInv, Types, Outcome, Event, Ev, JournalOutcome, Words
<1> HIDE DEF e
<1>4. /\ writer' \in Writer /\ writer'.events = writer.events /\ writer'.event = e
      /\ writer'.step = "written" /\ file' \in File /\ file'.events = file.events
  BY <1>1, <1>3, BegunLemma
<1>5. owner' \in Owner /\ owner'.outcomes = owner.outcomes
  BY <1>1 DEF IInv, Types, Owner, OwnerStates
<1>6. Frame /\ JobStep
  BY <1>1, <1>4, <1>5, HostStays DEF Frame, IInv, Types
<1>7. file.events = writer.events
  BY <1>1 DEF Appendable
<1>8. \A k \in 1..Len(file'.events) : file'.events[k].req <= idx'
  BY <1>1, <1>6, FrameLemma
<1>9. Appending' /\ Announced' /\ Told'
  BY <1>1, <1>2, <1>3, <1>4, <1>7, <1>8 DEF Appending, Announced, Told, Asked, Writes, Wrote
<1>10. Truthful'
  <2>1. e = Outcome(idx, "pre_send_rejected") => reply = "rejected"
    BY <1>2, <1>3 DEF Outcome, Event, JournalOutcome
  <2>2. e = Outcome(idx, "accepted") => reply = "accepted"
    BY <1>2, <1>3 DEF Outcome, Event, JournalOutcome
  <2>3. e # Settlement(idx, "execution_completed")
    BY <1>3 DEF Settlement, Event
  <2>4. Sent' = Sent
    BY <1>6, FrameLemma
  <2> QED BY <1>1, <1>4, <2>1, <2>2, <2>3, <2>4 DEF Truthful, IInv, Told
<1>11. ~BeforeSend' /\ (Pending(w) => GivenUp')
  <2>1. ~BeforeSend'
    BY <1>1, <1>3, <1>4 DEF BeforeSend, Writes, Wrote
  <2>2. Pending(w) => reply = "unknown"
    BY <1>1, PendingLemma DEF GivenUp
  <2>3. reply = "unknown" => e = Outcome(idx, "unknown")
    BY <1>3 DEF JournalOutcome
  <2> QED BY <1>1, <1>4, <2>1, <2>2, <2>3 DEF GivenUp
<1> QED BY <1>1, <1>6, <1>9, <1>10, <1>11, CallStep

(* Only a settlement moves the chain to its next request.                  *)
LEMMA NextRequestLemma ==
  ASSUME NEW s \in Seq(Ev), NEW e \in Ev, e.kind # "request_settlement"
  PROVE  NextRequest(Append(s, e)) = NextRequest(s)
<1> DEFINE t == Append(s, e)
<1>1. Len(t) = Len(s) + 1 /\ Len(s) \in Nat /\ t[Len(t)] = e /\ \A k \in 1..Len(s) : t[k] = s[k]
  OBVIOUS
<1> HIDE DEF t
<1>2. {k \in 1..Len(t) : t[k].kind = "request_settlement"}
        = {k \in 1..Len(s) : s[k].kind = "request_settlement"}
  BY <1>1
<1>3. Of(t, "request_settlement") = Of(s, "request_settlement")
  BY <1>1, <1>2 DEF Of
<1> QED BY <1>3 DEF NextRequest, t

(* The file is replaced. *)
LEMMA ReplaceStep ==
  ASSUME IInv, Replace
  PROVE  IInv'
<1> DEFINE e == writer.event
<1>0. writer \in Writer /\ file \in File /\ e \in Ev /\ file.events \in Seq(Ev) /\ writer.events \in Seq(Ev)
  BY DEF IInv, Types, Writer, File
<1>1. /\ pc = "write" /\ pc' = "write" /\ writer' = Replaced(writer) /\ file' = WithEvent(file, writer)
      /\ UNCHANGED <<idx, phase, reply, owner, w, job, sent>> /\ writer.step = "written"
  BY DEF Replace, adapter, host
<1>2. /\ writer' \in Writer /\ writer'.events = writer.events /\ writer'.event = e
      /\ writer'.step = "replaced"
  BY <1>0, <1>1 DEF Writer, Replaced
<1>3. file' \in File /\ file'.events = Append(file.events, e)
  <2> DEFINE a == Append(file.events, e)
  <2>1. a \in Seq(Ev)
    BY <1>0
  <2>2. file' = [file EXCEPT !.events = a, !.temp = FALSE]
    BY <1>1 DEF WithEvent
  <2> HIDE DEF a
  <2>3. file' \in File /\ file'.events = a
    BY <1>0, <2>1, <2>2 DEF File
  <2> QED BY <2>3 DEF a
<1> HIDE DEF e
<1>4. Len(file'.events) = Len(file.events) + 1 /\ Len(file.events) \in Nat
  BY <1>0, <1>3
<1>5. /\ file'.events[Len(file'.events)] = e /\ file'.events # <<>>
      /\ \A k \in 1..Len(file.events) : file'.events[k] = file.events[k]
  BY <1>0, <1>3
<1>6. /\ e.req = idx /\ file.events = writer.events
      /\ \A k \in 1..Len(file.events) : file.events[k].req <= idx
  BY <1>1 DEF IInv, Appending, e
<1>7. \A x : OnFile(x)' <=> OnFile(x) \/ x = e
  BY <1>4, <1>5 DEF OnFile
<1>8. Sent' = Sent /\ idx \in Nat
  BY <1>1 DEF Sent, IInv, Types
<1>9. Types'
  BY <1>1, <1>2, <1>3 DEF IInv, Types
<1>10. Posts' /\ Accepted' /\ Told'
  <2>1. Posts' /\ Accepted'
    BY <1>1, <1>8 DEF IInv, Posts, Sends, Accepted
  <2>2. Told'
    BY <1>1, <1>2, <1>8 DEF IInv, Told, Asked, Writes, Wrote, e
  <2> QED BY <2>1, <2>2
<1>11. Appending'
  <2>1. \A k \in 1..Len(file'.events) : file'.events[k].req <= idx
    <3> TAKE k \in 1..Len(file'.events)
    <3>1. k \in 1..Len(file.events) \/ k = Len(file'.events)
      BY <1>4
    <3> QED BY <1>5, <1>6, <1>8, <3>1
  <2> QED BY <1>1, <1>2, <1>3, <1>6, <2>1 DEF Appending
<1>12. Announced'
  <2>1. Writes("submission_intent")' => Writes("submission_intent")
    BY <1>1, <1>2 DEF Writes, e
  <2>2. e.kind # "request_settlement" => NextRequest(file'.events) = NextRequest(file.events)
    BY <1>0, <1>3, NextRequestLemma
  <2>3. ~Wrote("submission_intent")'
    BY <1>1 DEF Wrote
  <2>4. Writes("submission_intent") =>
          /\ idx \in Requests /\ e = Intent(idx) /\ NextRequest(file.events) = idx
          /\ e.kind # "request_settlement"
    BY DEF IInv, Announced, Writes, e
  <2> QED BY <1>1, <1>2, <2>1, <2>2, <2>3, <2>4 DEF Announced
<1>13. Unsent'
  <2>1. BeforeSend' => Writes("submission_intent")
    BY <1>1, <1>2 DEF BeforeSend, Writes, Wrote, e
  <2>2. Writes("submission_intent") => BeforeSend /\ e = Intent(idx)
    BY DEF BeforeSend, IInv, Announced, e
  <2>3. ASSUME BeforeSend' PROVE \A k \in 1..Len(file'.events) :
                                   file'.events[k].req = idx => file'.events[k] = Intent(idx)
    <3> TAKE k \in 1..Len(file'.events)
    <3>1. k \in 1..Len(file.events) \/ k = Len(file'.events)
      BY <1>4
    <3> QED BY <1>5, <2>1, <2>2, <2>3, <3>1 DEF IInv, Unsent
  <2> QED BY <1>1, <1>8, <2>1, <2>2, <2>3 DEF IInv, Unsent
<1>14. Truthful'
  BY <1>1, <1>2, <1>8 DEF IInv, Truthful, Registered, e
<1>15. Waited'
  <2> SUFFICES ASSUME Pending(w) PROVE Waited'
    BY <1>1 DEF Waited
  <2>1. e = Outcome(idx, "unknown")
    BY <1>1, PendingLemma DEF GivenUp, e
  <2>2. e.kind = "submission_outcome" /\ e # Outcome(idx, "pre_send_rejected")
    BY <2>1 DEF Outcome, Event
  <2>3. NextRequest(file'.events) = idx
    BY <1>0, <1>3, <2>2, NextRequestLemma DEF IInv, Waited
  <2>4. GivenUp' /\ w.task.state = "abandoned"
    BY <1>1, <1>2, <2>1 DEF GivenUp, IInv, Waited
  <2> QED BY <1>1, <1>2, <1>5, <1>7, <1>8, <2>1, <2>2, <2>3, <2>4 DEF IInv, Waited, LastIs
<1>16. FileTellsSends'
  <2> SUFFICES ASSUME NEW i \in Requests
               PROVE  /\ i \in Sent => OnFile(Intent(i))' /\ ~OnFile(Outcome(i, "pre_send_rejected"))'
                      /\ OnFile(Outcome(i, "accepted"))' => i \in Sent
                      /\ OnFile(Settlement(i, "execution_completed"))' => i \in Sent /\ Registered(i)
    BY <1>1, <1>8 DEF FileTellsSends, Registered
  <2>1. \A v : (e = Outcome(i, v) \/ e = Settlement(i, v)) => i = idx
    BY <1>6 DEF Outcome, Settlement, Event
  <2> QED BY <1>1, <1>7, <2>1 DEF IInv, FileTellsSends, Truthful, Registered, e
<1> QED BY <1>9, <1>10, <1>11, <1>12, <1>13, <1>14, <1>15, <1>16 DEF IInv

(* The replacement is acknowledged. *)
LEMMA AcknowledgeStep ==
  ASSUME IInv, Acknowledge
  PROVE  IInv'
<1> DEFINE e == writer.event
<1>0. writer \in Writer /\ file \in File /\ e \in Ev /\ writer.events \in Seq(Ev)
  BY DEF IInv, Types, Writer, File
<1>1. /\ pc = "write" /\ pc' = "written" /\ writer' = Acknowledged(writer)
      /\ file' = WithoutLock(file)
      /\ UNCHANGED <<idx, phase, reply, owner, w, job, sent>> /\ writer.step = "replaced"
  BY DEF Acknowledge, adapter, host, Go, Private, Quiet
<1>2. /\ writer' \in Writer /\ writer'.events = Append(writer.events, e) /\ writer'.event = e
  <2> DEFINE a == Append(writer.events, e)
  <2>1. a \in Seq(Ev)
    BY <1>0
  <2>2. writer' = [writer EXCEPT !.step = "idle", !.events = a]
    BY <1>1 DEF Acknowledged
  <2> HIDE DEF a
  <2>3. writer' \in Writer /\ writer'.events = a /\ writer'.event = writer.event
    BY <1>0, <2>1, <2>2 DEF Writer
  <2> QED BY <2>3 DEF a
<1>3. file' \in File /\ file'.events = file.events
  BY <1>0, <1>1 DEF File, WithoutLock
<1>6. /\ e.req = idx /\ file.events = Append(writer.events, e)
      /\ \A k \in 1..Len(file.events) : file.events[k].req <= idx
  BY <1>1 DEF IInv, Appending
<1> HIDE DEF e
<1>4. LastIs(file.events, e) /\ \A x : (\E k \in 1..Len(writer.events) : writer.events[k] = x)
                                     => \E k \in 1..Len(writer'.events) : writer'.events[k] = x
  <2> DEFINE s == writer.events
             t == Append(s, e)
  <2>1. /\ Len(t) = Len(s) + 1 /\ Len(s) \in Nat /\ t[Len(t)] = e /\ t # <<>>
        /\ \A k \in 1..Len(s) : t[k] = s[k]
    BY <1>0
  <2>2. 1..Len(s) \subseteq 1..Len(t)
    BY <2>1
  <2>3. file.events = t /\ writer'.events = t
    BY <1>2, <1>6
  <2> HIDE DEF t
  <2> QED BY <2>1, <2>2, <2>3 DEF LastIs
<1>7. Sent' = Sent /\ \A x : OnFile(x)' <=> OnFile(x)
  BY <1>1, <1>3 DEF Sent, OnFile
<1>9. Types' /\ Posts' /\ Accepted' /\ FileTellsSends'
  BY <1>1, <1>2, <1>3, <1>7 DEF IInv, Types, Posts, Sends, Accepted, FileTellsSends
<1>10. Told' /\ Truthful'
  BY <1>1, <1>2, <1>7 DEF IInv, Told, Truthful, Asked, Writes, Wrote, e
<1>11. Appending'
  BY <1>1, <1>2, <1>3, <1>4, <1>6 DEF Appending
<1>12. Announced'
  BY <1>1, <1>2, <1>3 DEF IInv, Announced, Writes, Wrote, e
<1>13. Unsent'
  <2>1. BeforeSend' => BeforeSend
    BY <1>1, <1>2 DEF BeforeSend, Writes, Wrote, e
  <2> QED BY <1>1, <1>3, <1>7, <2>1 DEF IInv, Unsent
<1>14. Waited'
  <2> SUFFICES ASSUME Pending(w) PROVE Waited'
    BY <1>1 DEF Waited
  <2>1. e = Outcome(idx, "unknown")
    BY <1>1, PendingLemma DEF GivenUp, e
  <2>2. GivenUp' /\ w.task.state = "abandoned"
    BY <1>1, <1>2, <2>1 DEF GivenUp, IInv, Waited
  <2> QED BY <1>1, <1>3, <1>4, <1>7, <2>2 DEF IInv, Waited
<1> QED BY <1>9, <1>10, <1>11, <1>12, <1>13, <1>14 DEF IInv

(* The written intent is taken. *)
LEMMA TakeIntentStep ==
  ASSUME IInv, TakeIntent, pc' = "claim"
  PROVE  IInv'
<1> USE DEF Go, Private, Quiet
<1>0. reply \in Words
  BY DEF IInv, Types
<1>1. /\ pc = "written" /\ writer.event.kind = "submission_intent" /\ w' = w
      /\ UNCHANGED <<idx, phase, reply, writer, file, sent>> /\ UNCHANGED host
  BY DEF TakeIntent
<1>2. Frame /\ JobStep
  BY <1>0, <1>1, OwnerFrame, HostStays DEF TakeIntent, OwnerMoves, OwnerStates
<1>3. /\ idx \in Requests /\ NextRequest(file.events) = idx /\ writer.event = Intent(idx)
      /\ LastIs(file.events, Intent(idx)) /\ file.events = writer.events
  BY <1>1 DEF IInv, Announced, Appending, Wrote
<1>4. \E k \in 1..Len(writer.events) : writer.events[k] = Intent(idx)
  <2>1. writer.events \in Seq(Ev)
    BY DEF IInv, Types, Writer
  <2>2. Len(writer.events) \in 1..Len(writer.events)
    BY <1>3, <2>1 DEF LastIs
  <2> QED BY <1>3, <2>2 DEF LastIs
<1>5. \A k \in 1..Len(file'.events) : file'.events[k].req <= idx'
  BY <1>1, <1>2, FrameLemma
<1>6. Appending' /\ Announced' /\ Truthful' /\ Told'
  BY <1>1, <1>3, <1>4, <1>5 DEF Appending, Announced, Truthful, Told, Asked, Writes, Wrote
<1>7. BeforeSend
  BY <1>1 DEF BeforeSend, Wrote
<1> QED BY <1>1, <1>2, <1>6, <1>7, PendingLemma, CallStep

(* The submission is claimed from the host. *)
LEMMA ClaimStep ==
  ASSUME IInv, ClaimSend, pc' = "submit"
  PROVE  IInv'
<1> USE DEF Go, Private, Quiet
<1>0. reply \in Words
  BY DEF IInv, Types
<1>1. /\ pc = "claim" /\ w' = w
      /\ UNCHANGED <<idx, phase, reply, writer, file, sent>> /\ UNCHANGED host
  BY DEF ClaimSend
<1>2. Frame /\ JobStep
  BY <1>0, <1>1, OwnerFrame, HostStays DEF ClaimSend, OwnerMoves, OwnerStates
<1>3. /\ idx \in Requests /\ NextRequest(file.events) = idx /\ LastIs(file.events, Intent(idx))
      /\ \E k \in 1..Len(writer.events) : writer.events[k] = Intent(idx)
  BY <1>1 DEF IInv, Announced
<1>5. \A k \in 1..Len(file'.events) : file'.events[k].req <= idx'
  BY <1>1, <1>2, FrameLemma
<1>6. Appending' /\ Announced' /\ Truthful' /\ Told'
  BY <1>1, <1>3, <1>5 DEF Appending, Announced, Truthful, Told, Asked, Writes, Wrote
<1>7. BeforeSend
  BY <1>1 DEF BeforeSend
<1> QED BY <1>1, <1>2, <1>6, <1>7, PendingLemma, CallStep

(* The outcome is taken. *)
LEMMA TakeOutcomeStep ==
  ASSUME IInv, TakeOutcome, pc' = "recorded"
  PROVE  IInv'
<1> USE DEF Go, Private, Quiet
<1> DEFINE v == writer.event.value
           s == IF v = "unknown" THEN "outcome_unknown" ELSE "result_observed"
           o == [owner.outcomes EXCEPT ![idx] = v]
<1>0. owner \in Owner /\ writer \in Writer /\ writer.event \in Ev /\ v \in Words /\ s \in OwnerStates
  BY DEF IInv, Types, Writer, Ev, OwnerStates
<1>1. /\ pc = "written" /\ writer.event.kind = "submission_outcome" /\ w' = w
      /\ owner' = [owner EXCEPT !.outcomes = o, !.state = s]
      /\ UNCHANGED <<idx, phase, reply, writer, file, sent>> /\ UNCHANGED host
  <2>1. [owner EXCEPT !.outcomes[idx] = v, !.state = s] = [owner EXCEPT !.outcomes = o, !.state = s]
    BY <1>0 DEF Owner
  <2> QED BY <2>1 DEF TakeOutcome
<1>2. idx \in Requests /\ writer.event = Outcome(idx, v)
  <2>1. idx \in Requests /\ writer.event.req = idx
    BY <1>1 DEF IInv, Told, Asked, Wrote, Appending
  <2> QED BY <1>0, <1>1, <2>1 DEF Ev, Outcome, Event
<1>3. o \in [Requests -> Words] /\ o[idx] = v /\ \A i \in Requests : i # idx => o[i] = owner.outcomes[i]
  BY <1>0, <1>2 DEF Owner
<1> HIDE DEF v, s, o
<1>4. owner' \in Owner /\ owner'.outcomes = o
  BY <1>0, <1>1, <1>3 DEF Owner
<1>5. OnFile(Outcome(idx, v))
  <2>1. LastIs(file.events, Outcome(idx, v))
    BY <1>1, <1>2 DEF IInv, Appending
  <2>2. file.events \in Seq(Ev)
    BY DEF IInv, Types, File
  <2>3. Len(file.events) \in 1..Len(file.events)
    BY <2>1, <2>2 DEF LastIs
  <2> QED BY <2>1, <2>3 DEF LastIs, OnFile
<1>6. v = "accepted" => idx \in Sent
  BY <1>2, <1>5 DEF IInv, FileTellsSends
<1>7. Sent' = Sent /\ (\A x : OnFile(x)' <=> OnFile(x)) /\ job' = job
  BY <1>1 DEF Sent, OnFile, host
<1>8. Types' /\ FileTellsSends'
  BY <1>1, <1>4, <1>7 DEF IInv, Types, FileTellsSends
<1>9. Accepted'
  BY <1>3, <1>4, <1>6, <1>7 DEF IInv, Accepted
<1>10. Posts' /\ Appending' /\ Announced' /\ Truthful' /\ Told'
  <2>1. pc' = "recorded"
    OBVIOUS
  <2>2. Posts' /\ Told' /\ Truthful' /\ Announced'
    BY <1>1, <1>2, <1>7, <2>1 DEF IInv, Posts, Sends, Told, Asked, Truthful, Announced, Writes, Wrote
  <2>3. Appending'
    BY <1>1, <2>1 DEF IInv, Appending
  <2> QED BY <2>2, <2>3
<1>11. Unsent'
  BY DEF Unsent, BeforeSend, Writes, Wrote
<1>12. Waited'
  <2> SUFFICES ASSUME Pending(w) PROVE Waited'
    BY <1>1 DEF Waited
  <2>1. Outcome(idx, v) = Outcome(idx, "unknown")
    BY <1>1, <1>2, PendingLemma DEF GivenUp
  <2>2. v = "unknown"
    BY <2>1 DEF Outcome, Event
  <2>3. GivenUp' /\ w.task.state = "abandoned"
    BY <1>1, <1>3, <1>4, <2>2 DEF GivenUp, IInv, Waited
  <2> QED BY <1>1, <1>7, <2>3 DEF IInv, Waited
<1> QED BY <1>8, <1>9, <1>10, <1>11, <1>12 DEF IInv

(* The settlement is written: the next request begins with a clean slate.  *)
LEMMA TakeSettlementStep ==
  ASSUME IInv, TakeSettlement, pc' = "request"
  PROVE  IInv'
<1> USE DEF Private, Quiet
<1>0. owner \in Owner /\ idx \in Nat \ {0}
  BY DEF IInv, Types
<1>1. /\ pc = "written" /\ writer.event.kind = "request_settlement" /\ w' = w /\ idx' = idx + 1
      /\ owner' = [owner EXCEPT !.state = "settled", !.index = owner.index + 1]
      /\ UNCHANGED <<reply, writer, file, sent>> /\ UNCHANGED host
  BY DEF TakeSettlement, Return
<1>2. owner' \in Owner /\ owner'.outcomes = owner.outcomes
  <2>1. owner.index \in Nat
    BY <1>0 DEF Owner
  <2>2. owner.index + 1 \in Nat
    BY <2>1
  <2>3. "settled" \in OwnerStates
    BY DEF OwnerStates
  <2> QED BY <1>0, <1>1, <2>2, <2>3 DEF Owner
<1>3. Sent' = Sent /\ (\A x : OnFile(x)' <=> OnFile(x)) /\ job' = job
  BY <1>1 DEF Sent, OnFile, host
<1>4. ~Pending(w) /\ Sent \subseteq 1..idx /\ \A k \in 1..Len(file.events) : file.events[k].req <= idx
  BY <1>1, PendingLemma DEF GivenUp, IInv, Posts, Appending, Outcome, Event
<1>5. Types' /\ FileTellsSends' /\ Accepted'
  BY <1>0, <1>1, <1>2, <1>3 DEF IInv, Types, FileTellsSends, Accepted
<1>6. Posts'
  <2>1. Sent \subseteq 1..(idx + 1)
    BY <1>0, <1>4
  <2> QED BY <1>1, <1>3, <2>1 DEF IInv, Posts, Sends
<1>7. file.events \in Seq(Ev) /\ \A k \in 1..Len(file.events) : file.events[k].req \in Nat
  <2>1. file.events \in Seq(Ev)
    BY DEF IInv, Types, File
  <2>2. \A k \in 1..Len(file.events) : file.events[k] \in Ev
    BY <2>1
  <2> QED BY <2>1, <2>2 DEF Ev
<1>8. \A k \in 1..Len(file.events) : file.events[k].req <= idx + 1 /\ file.events[k].req # idx + 1
  BY <1>0, <1>4, <1>7
<1>9. Appending' /\ Announced' /\ Truthful' /\ Told'
  BY <1>1, <1>8 DEF Appending, Announced, Truthful, Told, Asked, Writes, Wrote
<1>10. Unsent'
  BY <1>0, <1>1, <1>3, <1>4, <1>8 DEF Unsent
<1>11. Waited'
  BY <1>1, <1>4 DEF Waited
<1> QED BY <1>5, <1>6, <1>9, <1>10, <1>11 DEF IInv

-----------------------------------------------------------------------------
(* The steps between the call and the worker.                              *)

(* The call goes on with an answer, or with none.                          *)
LEMMA AnswerStep ==
  ASSUME IInv, JobStep, Frame, Calm(w, w'), pc' \in {"recheck", "record", "finish"}, Told',
         Pending(w') => GivenUp' /\ w'.task.state = "abandoned"
  PROVE  IInv'
<1>1. /\ FileTellsSends' /\ Accepted' /\ Sent' = Sent /\ idx' = idx
      /\ \A e : OnFile(e)' <=> OnFile(e)
      /\ \A k \in 1..Len(file'.events) : file'.events[k].req <= idx
      /\ Types'
  BY FrameLemma DEF Calm
<1>e. file'.events = file.events /\ writer'.events = writer.events
  BY DEF Frame
<1>2. Posts'
  BY <1>1 DEF IInv, Posts, Sends, Calm
<1>3. Appending' /\ Announced' /\ Truthful' /\ ~BeforeSend'
  BY <1>1, <1>e DEF Appending, Announced, Truthful, BeforeSend, Writes, Wrote
<1>4. Unsent'
  BY <1>3 DEF Unsent
<1>6. Waited'
  BY <1>1, <1>e DEF IInv, Waited, Calm
<1> QED BY <1>1, <1>2, <1>3, <1>4, <1>6 DEF IInv

(* A task in the queue: the call waits for it.                             *)
LEMMA QueuedStep ==
  ASSUME IInv, JobStep, Frame, NEW kind \in {"submission", "history"}, ~Refuses(w, kind, idx),
         w' = Admitted(w, kind, idx), pc' = "wait", ~BeforeSend', pc # "wait",
         ~Pending(w), kind = "submission" => pc = "submit"
  PROVE  IInv'
<1>0. w \in Worker /\ Shape(w) /\ idx \in Nat /\ w.active = 0 /\ w.queue = <<>>
  BY DEF IInv, Types, Posts, Refuses
<1>1. /\ w' \in Worker /\ Shape(w') /\ w'.thread = w.thread /\ ~InTransport(w)
      /\ w'.task.kind = kind /\ w'.task.req = idx /\ w'.task.state = "queued" /\ ~w'.task.entered
  BY <1>0, AdmittedLemma
<1>2. /\ FileTellsSends' /\ Accepted' /\ Sent' = Sent /\ idx' = idx
      /\ \A e : OnFile(e)' <=> OnFile(e)
      /\ \A k \in 1..Len(file'.events) : file'.events[k].req <= idx
      /\ Types'
  BY <1>1, FrameLemma
<1>e. file'.events = file.events /\ writer'.events = writer.events
  BY DEF Frame
<1>3. kind = "submission" =>
        /\ idx \in Requests /\ idx \notin Sent /\ NextRequest(file.events) = idx
        /\ LastIs(file.events, Intent(idx))
        /\ \E k \in 1..Len(writer.events) : writer.events[k] = Intent(idx)
        /\ \A k \in 1..Len(file.events) : file.events[k].req = idx => file.events[k] = Intent(idx)
  BY DEF IInv, Announced, Unsent, BeforeSend
<1>4. kind = "submission" => OnFile(Intent(idx)) /\ ~OnFile(Outcome(idx, "pre_send_rejected"))
  <2>1. file.events \in Seq(Ev)
    BY DEF IInv, Types, File
  <2>2. file.events # <<>> => Len(file.events) \in 1..Len(file.events)
    BY <2>1
  <2>3. Outcome(idx, "pre_send_rejected") # Intent(idx) /\ Outcome(idx, "pre_send_rejected").req = idx
    BY DEF Outcome, Intent, Event
  <2> QED BY <1>3, <2>2, <2>3 DEF LastIs, OnFile
<1>5. Sends(w)'
  BY <1>1, <1>2, <1>3 DEF Sends, InTransport
<1>6. Posts'
  BY <1>1, <1>2, <1>5 DEF IInv, Posts
<1>7. Appending' /\ Announced' /\ Truthful' /\ Unsent'
  BY <1>2 DEF Appending, Announced, Truthful, Unsent, Writes, Wrote
<1>8. Told'
  BY <1>1, <1>2, <1>3 DEF Told, Asked, Writes, Wrote
<1>9. Waited'
  BY <1>1, <1>2, <1>3, <1>4, <1>e DEF Waited, Pending, InTransport
<1> QED BY <1>2, <1>6, <1>7, <1>8, <1>9 DEF IInv

(* The task is submitted to the worker. *)
LEMMA SubmitStep ==
  ASSUME IInv, Submit
  PROVE  IInv'
<1> USE DEF Go, Private
<1>0. w \in Worker /\ Shape(w) /\ idx \in Nat /\ "none" \in Words
  BY DEF IInv, Types, Posts, Words
<1>1. pc = "submit" /\ UNCHANGED <<idx, phase, owner, writer, file, sent>> /\ UNCHANGED host
  BY DEF Submit, journals
<1>2. idx \in Requests /\ ~Pending(w) /\ idx \notin Sent /\ Sent' = Sent
  BY <1>1 DEF IInv, Announced, Unsent, BeforeSend, Sent
<1>3. reply' \in {"none", "rejected", "unknown"}
  BY DEF Submit, RefusalOutcome
<1>4. Frame /\ JobStep
  BY <1>1, <1>3, OwnerFrame, HostStays DEF OwnerMoves, Words
<1>5. CASE pc' # "wait"
  <2>1. reply' \in {"rejected", "unknown"} /\ pc' \in {"recheck", "record"}
    BY <1>5 DEF Submit, RefusalOutcome
  <2>2. w' = w \/ w' = Refused(w, "submission", idx)
    BY <1>5 DEF Submit
  <2>3. Calm(w, w') /\ ~Pending(w')
    BY <1>0, <1>2, <2>2, CalmStays, RefusedLemma DEF Calm
  <2>4. Told'
    BY <1>1, <1>2, <2>1, <2>3 DEF Told
  <2> QED BY <1>4, <2>1, <2>3, <2>4, AnswerStep
<1>6. CASE pc' = "wait"
  <2>1. ~Refuses(w, "submission", idx) /\ w' = Admitted(w, "submission", idx)
    BY <1>6 DEF Submit
  <2>2. ~BeforeSend'
    BY <1>6 DEF BeforeSend, Writes, Wrote
  <2> QED BY <1>1, <1>2, <1>4, <1>6, <2>1, <2>2, QueuedStep
<1> QED BY <1>5, <1>6

(* A history read is handed to the worker. *)
LEMMA ReadStep ==
  ASSUME IInv, Read
  PROVE  IInv'
<1> USE DEF Go, Private
<1>0. w \in Worker /\ Shape(w)
  BY DEF IInv, Types, Posts
<1>1. pc = "read" /\ UNCHANGED <<idx, phase, owner, writer, file, sent>> /\ UNCHANGED host
  BY DEF Read, journals
<1>2. ~Pending(w)
  BY <1>1, PendingLemma DEF GivenUp
<1>3. reply' \in Words
  BY DEF Read, Words
<1>4. Frame /\ JobStep
  BY <1>1, <1>3, OwnerFrame, HostStays DEF OwnerMoves
<1>5. CASE pc' # "wait"
  <2>1. pc' = "finish" /\ w' = w
    BY <1>5 DEF Read
  <2>2. Told'
    BY <2>1 DEF Told, Asked, Writes, Wrote
  <2> QED BY <1>0, <1>2, <1>4, <2>1, <2>2, CalmStays, AnswerStep
<1>6. CASE pc' = "wait"
  <2>1. ~Refuses(w, "history", idx) /\ w' = Admitted(w, "history", idx)
    BY <1>6 DEF Read
  <2>2. ~BeforeSend'
    BY <1>6 DEF BeforeSend, Writes, Wrote
  <2> QED BY <1>1, <1>2, <1>4, <1>6, <2>1, <2>2, QueuedStep
<1> QED BY <1>5, <1>6

(* The caller collects or times out. *)
LEMMA CollectStep ==
  ASSUME IInv, Collect
  PROVE  IInv'
<1> USE DEF Go, Private
<1> DEFINE o == CollectedOutcome(w)
<1>0. w \in Worker /\ Shape(w) /\ Sends(w)
  BY DEF IInv, Types, Posts
<1>1. /\ pc = "wait" /\ TaskOver(w) /\ w' = Collected(w)
      /\ UNCHANGED <<idx, phase, owner, writer, file, sent>> /\ UNCHANGED host
      /\ reply' = IF o = "refused" THEN "unknown" ELSE o
      /\ pc' = IF w.task.kind = "history" THEN "finish"
               ELSE IF o = "refused" THEN "record" ELSE "recheck"
  BY DEF Collect, journals
<1>2. /\ Calm(w, w')
      /\ Pending(w') => o = "refused" /\ w.task.state = "abandoned"
  BY <1>0, <1>1, CollectedLemma
<1>3. o \in Words \/ o = "refused"
  BY <1>0 DEF CollectedOutcome, Worker, Task
<1>4. reply' \in Words
  BY <1>1, <1>3 DEF Words
<1>5. Frame /\ JobStep /\ Sent' = Sent
  BY <1>1, <1>4, OwnerFrame, HostStays DEF OwnerMoves, Sent
<1>6. w.task.kind \in {"submission", "history"} /\ (w.task.kind = "submission" => w.task.req = idx)
  BY <1>0, <1>1 DEF IInv, Posts, Worker, Task
<1>7. CASE w.task.kind = "history"
  <2>1. Told' /\ ~Pending(w')
    BY <1>1, <1>2, <1>7 DEF Told, Asked, Pending, Calm, Writes, Wrote
  <2> QED BY <1>1, <1>2, <1>5, <1>7, <2>1, AnswerStep
<1>8. CASE w.task.kind = "submission"
  <2>1. idx \in Requests
    BY <1>1, <1>8 DEF IInv, Told, Asked
  <2>2. o \in {"refused", "unknown", "accepted", "rejected"}
    BY <1>0, <1>8 DEF CollectedOutcome, Shape
  <2>3. o = "accepted" => idx \in Sent
    <3>1. o = "accepted" => w.task.state = "completed" /\ w.task.outcome = "accepted"
      BY <1>0, <1>8 DEF CollectedOutcome, Shape, Lost
    <3> QED BY <1>0, <1>6, <1>8, <3>1 DEF Sends
  <2>4. o = "rejected" => idx \notin Sent
    <3>1. o = "rejected" => \/ w.task.state = "completed" /\ w.task.outcome = "rejected"
                            \/ w.task.state = "cancelled_before_transport"
      BY <1>0, <1>8 DEF CollectedOutcome, Lost
    <3>2. w.task.state = "cancelled_before_transport" => ~w.task.entered
      BY <1>0 DEF Shape
    <3> QED BY <1>0, <1>6, <1>8, <3>1, <3>2 DEF Sends
  <2> HIDE DEF o
  <2>5. Told'
    BY <1>1, <1>2, <1>5, <1>8, <2>1, <2>2, <2>3, <2>4 DEF Told
  <2>6. Pending(w') => GivenUp' /\ w'.task.state = "abandoned"
    BY <1>1, <1>2, <1>8 DEF GivenUp, Calm
  <2>7. pc' \in {"recheck", "record"}
    BY <1>1, <1>8
  <2> QED BY <1>2, <1>5, <2>5, <2>6, <2>7, AnswerStep
<1> QED BY <1>6, <1>7, <1>8

(* A result is checked against the current intent and host. *)
LEMMA RecheckStep ==
  ASSUME IInv, Recheck
  PROVE  IInv'
<1> USE DEF Go, Private
<1>0. w \in Worker /\ Shape(w)
  BY DEF IInv, Types, Posts
<1>1. /\ pc = "recheck" /\ pc' = "record" /\ reply' \in {reply, "unknown"}
      /\ UNCHANGED <<idx, phase, owner, writer, file, sent>> /\ UNCHANGED host
      /\ w' = w \/ w' = RequestClose(w)
  BY DEF Recheck, journals
<1>2. Calm(w, w') /\ ~Pending(w) /\ ~Pending(w')
  BY <1>0, <1>1, CalmStays, RequestCloseLemma, PendingLemma DEF GivenUp, Calm
<1>3. /\ reply \in {"accepted", "rejected", "unknown"} /\ idx \in Requests
      /\ (reply = "accepted" => idx \in Sent) /\ (reply = "rejected" => idx \notin Sent)
  BY <1>1 DEF IInv, Told, Asked
<1>4. Frame /\ JobStep /\ Sent' = Sent
  BY <1>1, <1>3, OwnerFrame, HostStays DEF OwnerMoves, Sent, Words
<1>5. Told'
  BY <1>1, <1>2, <1>3, <1>4 DEF Told
<1> QED BY <1>1, <1>2, <1>4, <1>5, AnswerStep

(* Only here a request reaches the server: the one the call asked for, or  *)
(* gave up as unknown.                                                     *)
LEMMA PostLemma ==
  ASSUME IInv, Post
  PROVE  /\ Pending(w) /\ w.task.req = idx /\ idx \in Requests /\ sent' = Append(sent, idx)
         /\ Sent' = Sent \cup {idx}
BY DEF IInv, Types, Waited, Pending, Post, Sent

(* The request may have reached the server. *)
LEMMA PostStep ==
  ASSUME IInv, Post
  PROVE  IInv'
<1>1. /\ w.thread = "transport" /\ w.task.kind = "submission" /\ w' = [w EXCEPT !.thread = "posting"]
      /\ UNCHANGED <<idx, phase, pc, reply, owner, writer, file, job>>
  BY DEF Post, adapter, journals, host
<1>2. /\ Pending(w) /\ w.task.req = idx /\ idx \in Requests /\ sent' = Append(sent, idx)
      /\ Sent' = Sent \cup {idx}
  BY PostLemma
<1>3. w \in Worker /\ Shape(w) /\ idx \in Nat \ {0}
  BY DEF IInv, Types, Posts
<1>4. w' \in Worker /\ Shape(w') /\ w'.task = w.task /\ w'.thread = "posting"
  BY <1>1, <1>3, PostingLemma
<1>5. w.task.entered /\ w.task.state \in {"running", "abandoned"}
  BY <1>1, <1>3 DEF Shape, InTransport
<1>6. \A e : OnFile(e)' <=> OnFile(e)
  BY <1>1 DEF OnFile
<1>7. Types'
  BY <1>1, <1>2, <1>3, <1>4 DEF IInv, Types
<1>8. Posts'
  <2>1. Sends(w)'
    BY <1>2, <1>4, <1>5 DEF Sends
  <2>2. Sent' \subseteq 1..idx
    BY <1>2, <1>3 DEF IInv, Posts
  <2> QED BY <1>1, <1>4, <2>1, <2>2 DEF IInv, Posts
<1>9. Appending' /\ Announced'
  BY <1>1 DEF IInv, Appending, Announced, Writes, Wrote
<1>10. ~BeforeSend /\ (BeforeSend' <=> BeforeSend) /\ ~Pending(w')
  BY <1>1, <1>2, <1>4, <1>5, PendingLemma DEF BeforeSend, Writes, Wrote, Pending
<1>11. Unsent' /\ Waited'
  BY <1>10 DEF Unsent, Waited
<1>12. Truthful' /\ Told'
  BY <1>1, <1>2, <1>4 DEF IInv, Truthful, Told, Asked, Registered, Writes, Wrote
<1>13. Accepted' /\ FileTellsSends'
  <2>1. OnFile(Intent(idx)) /\ ~OnFile(Outcome(idx, "pre_send_rejected"))
    BY <1>2 DEF IInv, Waited
  <2>2. FileTellsSends'
    BY <1>1, <1>2, <1>6, <2>1 DEF IInv, FileTellsSends
  <2> QED BY <1>1, <1>2, <2>2 DEF IInv, Accepted
<1> QED BY <1>7, <1>8, <1>9, <1>11, <1>12, <1>13 DEF IInv

(* The call returns. *)
LEMMA ReturnStep ==
  ASSUME IInv, TransportReturns
  PROVE  IInv'
<1>0. w \in Worker /\ Shape(w) /\ Sends(w)
  BY DEF IInv, Types, Posts
<1>1. PICK o \in IF w.task.kind = "history" THEN {"ready", "pending", "timeout", "unknown"}
                 ELSE IF w.thread = "posting" THEN {"accepted", "unknown"}
                 ELSE {"rejected", "unknown"} :
        w' = TransportEnded(w, o)
  BY DEF TransportReturns
<1>2. /\ InTransport(w) /\ UNCHANGED <<idx, phase, pc, reply, owner, writer, file, sent, job>>
  BY DEF TransportReturns, adapter, journals, host
<1>3. o \in Words /\ (w.task.kind = "submission" => o \in {"unknown", "rejected", "accepted"})
  BY <1>1 DEF Words
<1>4. /\ w' \in Worker /\ Shape(w') /\ ~Pending(w') /\ w'.thread = "idle"
      /\ w'.task.kind = w.task.kind /\ w'.task.req = w.task.req /\ w'.task.entered
      /\ w'.task.state = "completed" => w'.task.outcome = o
  BY <1>0, <1>1, <1>2, <1>3, EndedLemma
<1>5. Sent' = Sent /\ \A e : OnFile(e)' <=> OnFile(e)
  BY <1>2 DEF Sent, OnFile
<1>6. Sends(w)'
  <2>1. w.task.kind = "submission" /\ o = "accepted" => w.task.req \in Sent
    BY <1>0, <1>1 DEF Sends
  <2>2. w.task.kind = "submission" /\ o = "rejected" => w.task.req \notin Sent
    <3>1. w.task.kind = "submission" /\ o = "rejected" => Pending(w)
      BY <1>1, <1>2 DEF InTransport, Pending
    <3> QED BY <3>1 DEF IInv, Waited
  <2> QED BY <1>4, <1>5, <2>1, <2>2 DEF Sends
<1>7. Types' /\ Posts'
  BY <1>2, <1>4, <1>5, <1>6 DEF IInv, Types, Posts
<1>8. Appending' /\ Announced' /\ Told' /\ Truthful'
  BY <1>2, <1>4, <1>5 DEF IInv, Appending, Announced, Told, Truthful, Asked, Registered, Writes, Wrote
<1>9. Unsent' /\ Waited'
  <2>1. BeforeSend' <=> BeforeSend
    BY <1>2 DEF BeforeSend, Writes, Wrote
  <2> QED BY <1>2, <1>4, <1>5, <2>1 DEF IInv, Unsent, Waited
<1>10. Accepted' /\ FileTellsSends'
  BY <1>2, <1>5 DEF IInv, Accepted, FileTellsSends
<1> QED BY <1>7, <1>8, <1>9, <1>10 DEF IInv

(* The worker's thread, its bounds and its owner.                          *)
LEMMA WorkerSteps ==
  ASSUME IInv, Timeout \/ Thread \/ StartWorker \/ CloseWorker \/ JoinReturns
  PROVE  IInv'
<1>0. w \in Worker /\ Shape(w) /\ reply \in Words
  BY DEF IInv, Types, Posts
<1>1. UNCHANGED <<adapter, pc, journals, sent>> /\ UNCHANGED host
  BY DEF Timeout, Thread, ThreadTakes, ThreadEnters, ThreadStops, StartWorker, CloseWorker, JoinReturns
<1>2. Frame /\ JobStep
  BY <1>0, <1>1, OwnerFrame, HostStays DEF OwnerMoves, adapter, journals
<1>3. Calm(w, w')
  BY <1>0, TimedOutLemma, TakenLemma, EnteredLemma, StoppedLemma, StartedLemma, RequestCloseLemma,
     JoinedLemma
     DEF Timeout, Thread, ThreadTakes, ThreadEnters, ThreadStops, StartWorker, CloseWorker, JoinReturns
<1> QED BY <1>1, <1>2, <1>3, WorkerStep DEF adapter, journals

(* The host, the Project and the journal's owner.                          *)
LEMMA HostSteps ==
  ASSUME IInv, \/ TargetChanges \/ JobExpires \/ ProjectEdited
               \/ \E n \in 0..MaxOutputs : Publish(n)
  PROVE  IInv'
<1>0. w \in Worker /\ Shape(w) /\ reply \in Words /\ job \in JobRecord
  BY DEF IInv, Types, Posts
<1>1. UNCHANGED <<adapter, pc, journals, sent, w>>
  BY DEF TargetChanges, JobExpires, ProjectEdited, Publish
<1>2. Frame
  BY <1>0, <1>1, OwnerFrame DEF OwnerMoves, adapter, journals
<1>3. "stale_target_outputs_not_registered" \in J!Terminal /\ "unavailable" \in J!Terminal
  BY DEF J!Terminal
<1>4. \A s \in J!Terminal : JobKept(job, J!Finish(job, s))
  BY <1>0, FinishLemma DEF JobKept
<1>5. JobStep
  <2>1. CASE TargetChanges
    BY <1>0, <1>3, <1>4, <2>1 DEF TargetChanges, JobStep, JobKept
  <2>2. CASE JobExpires
    BY <1>3, <1>4, <2>2 DEF JobExpires, JobStep
  <2>3. CASE ProjectEdited
    BY <1>0, <2>3 DEF ProjectEdited, JobStep, JobKept
  <2>4. CASE \E n \in 0..MaxOutputs : Publish(n)
    <3>1. \A n \in 0..MaxOutputs : n \in Nat
      BY ExecutorAssumption
    <3> QED BY <1>0, <2>4, <3>1, PublishLemma DEF JobStep
  <2> QED BY <2>1, <2>2, <2>3, <2>4
<1> QED BY <1>0, <1>1, <1>2, <1>5, CalmStays, WorkerStep DEF adapter, journals

(* The journal owner closes. *)
LEMMA CloseOwnerStep ==
  ASSUME IInv, CloseOwner
  PROVE  IInv'
<1>0. w \in Worker /\ Shape(w) /\ writer \in Writer /\ owner \in Owner
  BY DEF IInv, Types, Posts
<1>1. UNCHANGED <<adapter, pc, file, w, sent>> /\ UNCHANGED host
  BY DEF CloseOwner
<1>2. owner' \in Owner /\ owner'.outcomes = owner.outcomes
  <2> DEFINE s == IF owner.state \in {"send_permitted", "result_writing", "history_reading"} THEN "uncertain"
                  ELSE IF owner.state \in {"unbound", "binding", "bound", "intent_writing",
                                "intent_acknowledged", "result_observed"} THEN "closed" ELSE owner.state
  <2>1. s \in OwnerStates
    BY <1>0 DEF Owner, OwnerStates
  <2>2. owner' = [owner EXCEPT !.closed = TRUE, !.state = s]
    BY DEF CloseOwner
  <2> HIDE DEF s
  <2> QED BY <1>0, <2>1, <2>2 DEF Owner
<1>3. /\ writer' \in Writer /\ writer'.events = writer.events /\ writer'.step = writer.step
      /\ writer'.event = writer.event
  <2>1. writer' \in {writer, [writer EXCEPT !.closed = TRUE], [writer EXCEPT !.uncertain = TRUE]}
    BY DEF CloseOwner, Closed
  <2> QED BY <1>0, <2>1 DEF Writer
<1>4. Frame /\ JobStep
  BY <1>1, <1>2, <1>3, HostStays DEF Frame, adapter, IInv, Types
<1> QED BY <1>0, <1>1, <1>3, <1>4, CalmStays, WorkerStep DEF adapter

-----------------------------------------------------------------------------
(* The invariant holds at first. *)
LEMMA InitLemma == Init => IInv
<1> SUFFICES ASSUME Init PROVE IInv
  OBVIOUS
<1> USE DEF Init, InitFile, InitWriter, InitWorker, NoTask, Event
<1>0. N \in Nat \ {0, 1}
  BY ExecutorAssumption
<1>1. job \in JobRecord /\ \A i \in Requests : job.reqs[i].state = "unsent"
  <2>1. [state |-> "unsent", outputs |-> 0, registered |-> 0] \in Request
    BY DEF Request, RequestStates
  <2> QED BY <2>1 DEF J!NewJob, JobRecord, Requests
<1>2. w \in Worker /\ Shape(w) /\ ~Pending(w)
  BY DEF Worker, Task, Words, Shape, Pending, InTransport
<1>3. owner \in Owner /\ \A i \in Requests : owner.outcomes[i] = "none"
  BY DEF Owner, OwnerStates, Words
<1>4. writer \in Writer /\ file \in File /\ writer.event.kind = "none" /\ file.events = <<>>
  BY DEF Writer, File, Ev, Words
<1>5. sent \in Seq(Nat) /\ Len(sent) = 0 /\ Sent = {} /\ Len(file.events) = 0
  BY <1>4 DEF Sent
<1>6. Types
  BY <1>1, <1>2, <1>3, <1>4, <1>5 DEF Types, Words
<1>7. Posts
  BY <1>2, <1>5 DEF Posts, Sends
<1>8. Appending /\ Announced /\ Unsent /\ Truthful /\ Waited /\ Told
  BY <1>2, <1>5 DEF Appending, Announced, Unsent, Truthful, Waited, Told, Asked, Writes, Wrote
<1>9. Accepted /\ FileTellsSends
  BY <1>3, <1>5 DEF Accepted, FileTellsSends, OnFile
<1> QED BY <1>6, <1>7, <1>8, <1>9 DEF IInv

(* And while nothing happens. *)
LEMMA StutterLemma ==
  ASSUME IInv, UNCHANGED vars
  PROVE  IInv'
<1>1. /\ UNCHANGED <<adapter, pc, journals, sent, w>> /\ UNCHANGED host
      /\ w \in Worker /\ Shape(w) /\ reply \in Words
  BY DEF vars, IInv, Types, Posts
<1>2. Frame /\ JobStep
  BY <1>1, OwnerFrame, HostStays DEF OwnerMoves, adapter, journals
<1> QED BY <1>1, <1>2, CalmStays, WorkerStep DEF adapter, journals

(* Every step keeps it. *)
LEMMA StepLemma == IInv /\ [Next]_vars => IInv'
<1> SUFFICES ASSUME IInv, [Next]_vars PROVE IInv'
  OBVIOUS
<1>1. ASSUME Write PROVE IInv'
  <2>1. WriteIntent => IInv'
    BY WriteIntentStep, UnwrittenSteps
  <2>2. TakeIntent => IInv'
    BY TakeIntentStep, UnwrittenSteps
  <2>3. TakeOutcome => IInv'
    BY TakeOutcomeStep, UnwrittenSteps
  <2>4. TakeSettlement => IInv'
    BY TakeSettlementStep, UnwrittenSteps
  <2>5. Replace \/ Acknowledge \/ WriteFails \/ VerificationFails => IInv'
    BY ReplaceStep, AcknowledgeStep, WriteFailsStep, UnwrittenSteps
  <2> QED BY <1>1, <2>1, <2>2, <2>3, <2>4, <2>5 DEF Write
<1>2. ASSUME Send PROVE IInv'
  BY <1>2, StartStep, BeforeSendSteps, ClaimStep, SubmitStep, WorkerSteps, CollectStep,
     RecheckStep, RecordStep, UnwrittenSteps, AfterSendSteps, WriteSettlementStep DEF Send
<1>3. ASSUME History PROVE IInv'
  BY <1>3, AfterSendSteps, ReadStep DEF History
<1>4. ASSUME Call PROVE IInv'
  BY <1>1, <1>2, <1>3, <1>4, BeforeSendSteps, BeginStep DEF Call
<1>5. ASSUME Calls PROVE IInv'
  BY <1>5, BeforeSendSteps, AfterSendSteps, OutputSteps DEF Calls
<1>6. ASSUME Outputs PROVE IInv'
  BY <1>6, OutputSteps, HostSteps DEF Outputs
<1>7. ASSUME Others PROVE IInv'
  BY <1>7, HostSteps, CloseOwnerStep, WorkerSteps DEF Others
<1>8. ASSUME Thread \/ Post \/ TransportReturns PROVE IInv'
  BY <1>8, WorkerSteps, PostStep, ReturnStep
<1> QED BY <1>4, <1>5, <1>6, <1>7, <1>8, StutterLemma DEF Next

(* The invariant holds in every state, for every number of requests, of    *)
(* history reads and of outputs.                                           *)
THEOREM Invariance == Spec => []IInv
<1> QED BY InitLemma, StepLemma, PTL DEF Spec

(* The journal file tells what was sent at every moment a crash could      *)
(* come: nothing without an intent, nothing under a rejection, everything  *)
(* that counts as accepted, and what is settled as completed has its       *)
(* outputs registered (agent_generation_executor_journal.py).              *)
THEOREM FileIsTrue == Spec => []FileTellsSends
<1>1. IInv => FileTellsSends
  BY DEF IInv
<1> QED BY <1>1, Invariance, PTL

(* A POST is the first of its request, which is the one the chain waits    *)
(* for, under an intent the journal acknowledged; if the host gave up      *)
(* waiting, the chain's last word is that nobody knows                     *)
(* (perform_for_characterization, record_submission_result_for_...).       *)
THEOREM RequestsAreSentInOrder == Spec => SendsInOrder
<1> DEFINE A == sent' # sent =>
                  LET r == sent'[Len(sent')]
                  IN  /\ r \notin Sent /\ r = NextRequest(file.events)
                      /\ \E k \in 1..Len(writer.events) : writer.events[k] = Intent(r)
                      /\ file.events[Len(file.events)] \in {Intent(r), Outcome(r, "unknown")}
<1>1. IInv /\ [Next]_vars => [A]_vars
  <2> SUFFICES ASSUME IInv, Next, sent' # sent PROVE A
    OBVIOUS
  <2>1. Post
    BY DEF Next, Call, Calls, Outputs, Others, Thread, Send, Write, History, Bind, NextRequestBegins,
           PreparationFails, Start, ClaimSend, Submit, Timeout, Collect, Recheck, Record, Recorded,
           StopUnknown, SendNothing, Settle, WriteSettlement, WriteIntent, Replace, Acknowledge,
           WriteFails, VerificationFails, TakeIntent, TakeOutcome, TakeSettlement, BeginHistory, Read,
           FinishHistory, TipUnreadable, ReceiveReady, ReceiveTimeout, ReceiveNothing, Accept, Advance,
           AdvanceSettled, ReadCurrentHistory, Contain, OutputsIncomplete, OutputsReady, Publish,
           TargetChanges, JobExpires, ProjectEdited, CloseOwner, StartWorker, CloseWorker, JoinReturns,
           ThreadTakes, ThreadEnters, ThreadStops, TransportReturns, Quiet
  <2>2. Pending(w) /\ idx \in Requests /\ w.task.req = idx /\ sent' = Append(sent, idx)
    BY <2>1, PostLemma
  <2>3. sent \in Seq(Nat) /\ idx \in Nat
    BY DEF IInv, Types
  <2>4. sent'[Len(sent')] = idx
    BY <2>2, <2>3
  <2>5. /\ idx \notin Sent /\ NextRequest(file.events) = idx
        /\ \E k \in 1..Len(writer.events) : writer.events[k] = Intent(idx)
        /\ LastIs(file.events, Intent(idx)) \/ LastIs(file.events, Outcome(idx, "unknown"))
    BY <2>2 DEF IInv, Waited
  <2> QED BY <2>4, <2>5 DEF LastIs
<1>2. Spec => [][A]_vars
  BY <1>1, Invariance, PTL DEF Spec
<1> QED BY <1>2 DEF SendsInOrder
=============================================================================
