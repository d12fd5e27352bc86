-------------------------- MODULE WorkerStorageProofs -------------------------
(***************************************************************************)
(* Safety of the generated outputs' stages for every number of requests,   *)
(* callers and images.                                                     *)
(***************************************************************************)
EXTENDS WorkerStorage, TLAPS

(* The fields of the integration and of an attempt. *)
Fields == {"closed", "bound", "host", "state", "reason", "active", "leases", "save", "live",
           "writer", "att", "ledger", "job", "todo"}
Marks == {"state", "evidence", "cancel", "operation", "reservation", "handoff", "acceptance",
          "promotion", "publication", "preflight", "admission", "candidates", "issued", "prompt",
          "started", "submitted", "remote", "ready"}
Items == Reqs \X {"staging", "promotion", "publication"}
Leases == {NoLease} \cup (Reqs \X {"submission", "history"})

(* The integration has its fields, and what it points at is about a        *)
(* request.                                                                *)
Shape(t) ==
  /\ DOMAIN t = Fields /\ DOMAIN t.att = Reqs /\ DOMAIN t.ledger = Reqs /\ DOMAIN t.job = Reqs
  /\ \A q \in Reqs : DOMAIN t.att[q] = Marks /\ DOMAIN t.ledger[q] = Files
  /\ t.todo \subseteq Items /\ t.active \in Leases

CallsShape ==
  /\ DOMAIN calls = Callers
  /\ \A c \in Callers : /\ DOMAIN calls[c] = {"op", "r", "left"}
                        /\ calls[c].op = "idle" \/ calls[c].r \in Reqs

(* Where the handoff and the promotion are while a call is at a step. *)
StageOps == {"stage check", "stage admit", "stage record", "stage create", "stage file",
             "stage complete", "stage end"}
PromoOps == {"promotion reserve", "promotion preflight", "promote admitting", "promote admit",
             "promote owner", "promote create", "promote file", "promote complete"}
Charged == {"writing", "completed", "uncertain"}
Done3 == {"private_committed", "promoted", "retained_uncertain"}

HandoffAt(o, h) ==
  /\ o \in {"stage check", "stage admit", "stage record"} => h = "in_progress"
  /\ o = "stage create" => h \in {"write_admitted", "create_boundary_crossed"}
  /\ o \in {"stage file", "stage complete", "stage end"} => h = "create_boundary_crossed"
  /\ o = "accept" => h \in {"staged", "retained_uncertain"}

EntryAt(o, l) ==
  /\ o = "stage file" => l \in Charged
  /\ o = "stage end" => l \in {"completed", "uncertain"}

PromotionAt(o, p) ==
  /\ o \in {"promotion reserve", "promotion preflight"} => p \in {"in_progress", "cancellation_requested"}
  /\ o = "promote admitting" => p = "claiming"
  /\ o \in {"promote admit", "promote owner"} => p = "admitting"
  /\ o = "promote create" => p \in {"admitted", "may_have_created"}
  /\ o \in {"promote file", "promote complete"} => p = "may_have_created"
  /\ o = "publish promotion" => p \in Done3

(* One call at most is staging a request, at the handoff's mark and under  *)
(* published evidence; a file is charged, and while it is being written    *)
(* the attempt knows that it may exist.                                    *)
StageSound(r) ==
  /\ \A c \in Callers : calls[c].r = r =>
       /\ HandoffAt(calls[c].op, s.att[r].handoff)
       /\ EntryAt(calls[c].op, s.ledger[r]["stage"])
       /\ calls[c].op \in StageOps =>
            /\ s.att[r].evidence \in {"evidence_published", "revoked", "cancelled"}
            /\ Bound(s) => s.att[r].evidence = "evidence_published" /\ s.active = NoLease
  /\ \A c, d \in Callers : calls[c].r = r /\ calls[d].r = r /\ calls[c].op \in StageOps
                            /\ calls[d].op \in StageOps => c = d
  /\ "stage" \in disk[r] =>
       /\ s.ledger[r]["stage"] \in Charged
       /\ s.ledger[r]["stage"] = "writing" => s.att[r].handoff = "create_boundary_crossed"

(* The same of a promotion; what a revocation still has to release is no   *)
(* longer in a call.                                                       *)
PromoSound(r) ==
  /\ \A c \in Callers : calls[c].r = r =>
       /\ PromotionAt(calls[c].op, s.att[r].promotion)
       /\ calls[c].op = "promote file" => s.ledger[r]["promo"] \in Charged
       /\ <<r, "promotion">> \in s.todo => calls[c].op \notin PromoOps
  /\ \A c, d \in Callers : calls[c].r = r /\ calls[d].r = r /\ calls[c].op \in PromoOps
                            /\ calls[d].op \in PromoOps => c = d
  /\ "promo" \in disk[r] =>
       /\ s.ledger[r]["promo"] \in Charged
       /\ s.ledger[r]["promo"] = "writing" => s.att[r].promotion = "may_have_created"
  /\ <<r, "promotion">> \in s.todo =>
       s.att[r].promotion \in {"cancellation_requested", "cancelled", "retained_uncertain"}
  /\ <<r, "publication">> \in s.todo => s.att[r].promotion \in Done3

(* A request whose submission is still to be answered has no outcome yet.  *)
Fresh(r) == ~s.att[r].issued \/ s.active = <<r, "submission">>
LeaseSound ==
  /\ s.active # NoLease => s.att[s.active[1]].issued
  /\ Bound(s) => /\ s.reason = "none"
                 /\ \A r \in Reqs : Fresh(r) =>
                      /\ s.att[r].handoff = "not_started" /\ s.att[r].submitted = "none"
                      /\ s.att[r].evidence \in {"none", "awaiting_submission", "cancelled"}

(* One call at most is saving, after every request's Candidates are in. *)
SaveOps == {"save", "save written"}
SaveSound ==
  /\ \A c \in Callers :
       /\ calls[c].op \in SaveOps => s.save \in {"claim_in_progress", "retained_uncertain"}
       /\ calls[c].op = "save" => saves = 0
       /\ calls[c].op = "save written" => saves = 1
  /\ \A c, d \in Callers : calls[c].op \in SaveOps /\ calls[d].op \in SaveOps => c = d
  /\ s.save = "not_started" => saves = 0
  /\ s.save = "claim_in_progress" =>
       /\ s.reason # "revoked"
       /\ \A r \in Reqs : s.job[r] = "failed" \/ r \in gallery
  /\ \A r \in Reqs : s.job[r] = "completed" => r \in gallery

IInv ==
  /\ Shape(s) /\ CallsShape /\ DOMAIN disk = Reqs
  /\ \A r \in Reqs : StageSound(r) /\ PromoSound(r)
  /\ LeaseSound /\ SaveSound

-----------------------------------------------------------------------------
(* What a step does to a request it is not about, and to the one it is     *)
(* about as far as the others' calls are concerned.                        *)

(* An entry only moves on, and uncertain is where it ends. *)
LedgerMoves(l, m) ==
  \/ m = l
  \/ l = "none" /\ m = "reserved"
  \/ l \in {"none", "reserved"} /\ m = "cancelled"
  \/ l \in {"none", "reserved", "writing", "completed"} /\ m = "uncertain"

StageKept(t, u, q) ==
  u.att[q].handoff = t.att[q].handoff /\ LedgerMoves(t.ledger[q]["stage"], u.ledger[q]["stage"])

PromoKept(t, u, q) ==
  LET p == t.att[q].promotion
      p1 == u.att[q].promotion
  IN  /\ LedgerMoves(t.ledger[q]["promo"], u.ledger[q]["promo"])
      /\ \/ p1 = p
         \/ p \in {"in_progress", "reserved"} /\ p1 = "cancellation_requested"
         \/ p = "private_committed" /\ p1 = "retained_uncertain"
      /\ <<q, "promotion">> \in u.todo =>
           <<q, "promotion">> \in t.todo \/ (p = "reserved" /\ p1 = "cancellation_requested")
      /\ <<q, "publication">> \in u.todo =>
           <<q, "publication">> \in t.todo \/ (p = "private_committed" /\ p1 = "retained_uncertain")

EvidenceKept(t, u, q) ==
  \/ u.att[q].evidence = t.att[q].evidence
  \/ t.att[q].evidence # "uncertain" /\ u.att[q].evidence = "revoked" /\ ~Bound(u)

IssueKept(t, u, q) ==
  u.att[q].issued = t.att[q].issued /\ u.att[q].submitted = t.att[q].submitted

Claims == {"acceptance", "publication", "preflight", "admission", "candidates", "submitted", "ready"}
MarksKept(t, u, q) ==
  /\ t.att[q].cancel => u.att[q].cancel
  /\ \A x \in Claims : t.att[q][x] = "retained_uncertain" => u.att[q][x] = "retained_uncertain"
  /\ u.att[q].acceptance = "accepted" /\ t.att[q].cancel => t.att[q].acceptance = "accepted"

JobKept(t, u) ==
  \A q \in Reqs : /\ u.job[q] = "completed" => t.job[q] = "completed"
                  /\ t.job[q] = "failed" => u.job[q] = "failed"
LeaseKept(t, u) ==
  /\ Bound(u) => Bound(t) /\ u.active = t.active /\ u.reason = t.reason
  /\ u.active \in {t.active, NoLease}
SaveKept(t, u) ==
  /\ u.save \in {t.save, "retained_uncertain"}
  /\ u.reason = "revoked" => t.reason = "revoked" \/ u.save # "claim_in_progress"
HostKept(t, u) == JobKept(t, u) /\ LeaseKept(t, u) /\ SaveKept(t, u)

Settles(t, u) ==
  /\ Shape(u) /\ HostKept(t, u)
  /\ \A q \in Reqs : /\ StageKept(t, u, q) /\ PromoKept(t, u, q) /\ EvidenceKept(t, u, q)
                     /\ IssueKept(t, u, q) /\ MarksKept(t, u, q)

(* Settling twice settles. *)
LEMMA SettlesAgain == ASSUME NEW t, NEW u, NEW v, Settles(t, u), Settles(u, v) PROVE Settles(t, v)
<1>1. HostKept(t, v)
  BY DEF Settles, HostKept, JobKept, LeaseKept, SaveKept
<1>2. ASSUME NEW q \in Reqs
      PROVE  /\ StageKept(t, v, q) /\ EvidenceKept(t, v, q)
             /\ IssueKept(t, v, q) /\ MarksKept(t, v, q)
  <2>1. StageKept(t, v, q)
    BY DEF Settles, StageKept, LedgerMoves
  <2>2. EvidenceKept(t, v, q)
    BY DEF Settles, EvidenceKept, HostKept, LeaseKept
  <2>3. IssueKept(t, v, q) /\ MarksKept(t, v, q)
    BY DEF Settles, IssueKept, MarksKept
  <2> QED BY <2>1, <2>2, <2>3
<1>3. ASSUME NEW q \in Reqs PROVE PromoKept(t, v, q)
  BY DEF Settles, PromoKept, LedgerMoves
<1> QED BY <1>1, <1>2, <1>3 DEF Settles

(* What does not change settles. *)
LEMMA SettlesSelf == ASSUME NEW t, Shape(t) PROVE Settles(t, t)
BY DEF Settles, HostKept, JobKept, LeaseKept, SaveKept, StageKept, PromoKept, EvidenceKept,
       IssueKept, MarksKept, LedgerMoves

(* A record that differs in nothing these look at. *)
Alike(t, u) ==
  /\ Shape(u) /\ u.att = t.att /\ u.active = t.active /\ u.state = t.state
  /\ u.reason = t.reason /\ u.save = t.save /\ u.todo \subseteq t.todo

(* A record that differs in no mark settles when its entries do. *)
LEMMA AlikeSettles ==
  ASSUME NEW t, NEW u, Shape(t), Alike(t, u), u.job = t.job,
         \A q \in Reqs, f \in Files : LedgerMoves(t.ledger[q][f], u.ledger[q][f])
  PROVE  Settles(t, u)
BY DEF Alike, Settles, HostKept, JobKept, LeaseKept, SaveKept, StageKept, PromoKept, EvidenceKept,
       IssueKept, MarksKept, Files, Bound

-----------------------------------------------------------------------------
(* The operators of StorageAttempt. *)

(* An invalid capacity owner retains what is unsettled. *)
LEMMA InvalidateLemma == ASSUME NEW t, Shape(t) PROVE Settles(t, InvalidateCapacity(t))
<1> DEFINE u == InvalidateCapacity(t)
<1>1. Alike(t, u) /\ u.job = t.job
  BY DEF Alike, Shape, Fields, InvalidateCapacity
<1>2. ASSUME NEW q \in Reqs, NEW f \in Files PROVE LedgerMoves(t.ledger[q][f], u.ledger[q][f])
  BY DEF Shape, Fields, InvalidateCapacity, LedgerMoves, Unsettled
<1> HIDE DEF u
<1> QED BY <1>1, <1>2, AlikeSettles DEF u

(* A completed write becomes uncertain. *)
LEMMA RetainCompletedLemma ==
  ASSUME NEW t, Shape(t), NEW r \in Reqs, NEW f \in Files PROVE Settles(t, RetainCompleted(t, r, f))
<1> DEFINE u == RetainCompleted(t, r, f)
<1>1. CASE t.ledger[r][f] = "completed"
  <2>1. Alike(t, u) /\ u.job = t.job
    BY <1>1 DEF Alike, Shape, Fields, RetainCompleted
  <2>2. ASSUME NEW q \in Reqs, NEW g \in Files PROVE LedgerMoves(t.ledger[q][g], u.ledger[q][g])
    BY <1>1 DEF Shape, Fields, RetainCompleted, LedgerMoves
  <2> HIDE DEF u
  <2> QED BY <2>1, <2>2, AlikeSettles DEF u
<1>2. CASE t.ledger[r][f] # "completed"
  BY <1>2, InvalidateLemma DEF RetainCompleted
<1> QED BY <1>1, <1>2

(* What a revocation does to one attempt. *)
LEMMA RevokeAttemptLemma ==
  ASSUME NEW a, DOMAIN a = Marks
  PROVE  LET b == RevokeAttempt(a)
         IN  /\ DOMAIN b = Marks /\ b.handoff = a.handoff /\ b.issued = a.issued
             /\ b.submitted = a.submitted /\ b.acceptance = a.acceptance /\ b.ready = a.ready
             /\ a.cancel => b.cancel
             /\ \A x \in {"publication", "preflight", "admission", "candidates"} :
                  a[x] = "retained_uncertain" => b[x] = "retained_uncertain"
             /\ b.evidence = a.evidence \/ (a.evidence # "uncertain" /\ b.evidence = "revoked")
             /\ \/ b.promotion = a.promotion
                \/ a.promotion \in {"in_progress", "reserved"} /\ b.promotion = "cancellation_requested"
                \/ a.promotion = "private_committed" /\ b.promotion = "retained_uncertain"
             /\ (~CrossedEverything(a) /\ a.state \in {"preparing", "reserved", "pre_admitted"}
                 /\ a.acceptance = "accepted") =>
                  /\ a.promotion = "reserved" => b.promotion = "cancellation_requested"
                  /\ a.promotion = "private_committed" => b.promotion = "retained_uncertain"
<1> DEFINE m == [a EXCEPT !.preflight = RetainClaim(@), !.admission = RetainClaim(@),
                          !.candidates = RetainClaim(@)]
<1>1. /\ DOMAIN m = Marks
      /\ \A x \in Marks \ {"preflight", "admission", "candidates"} : m[x] = a[x]
      /\ \A x \in {"preflight", "admission", "candidates"} :
           a[x] = "retained_uncertain" => m[x] = "retained_uncertain"
  BY DEF Marks, RetainClaim
<1> DEFINE open == ~CrossedEverything(a) /\ a.state \in {"preparing", "reserved", "pre_admitted"}
<1>2. CASE ~open
  <2>1. RevokeAttempt(a) = m
    BY <1>2 DEF RevokeAttempt
  <2> HIDE DEF m
  <2> QED BY <1>1, <1>2, <2>1 DEF Marks
<1>3. CASE open /\ a.acceptance = "accepted"
  <2>1. RevokeAttempt(a) =
          [m EXCEPT !.cancel = TRUE,
              !.promotion = CASE @ \in {"in_progress", "reserved"} -> "cancellation_requested"
                              [] @ = "private_committed" -> "retained_uncertain"
                              [] OTHER -> @,
              !.publication = IF a.promotion = "private_committed" THEN "retained_uncertain" ELSE @]
    BY <1>3 DEF RevokeAttempt
  <2> HIDE DEF m
  <2> QED BY <1>1, <1>3, <2>1 DEF Marks
<1>4. CASE open /\ a.acceptance # "accepted"
  <2>1. RevokeAttempt(a) =
          [m EXCEPT !.cancel = TRUE, !.state = "cancellation_requested",
              !.evidence = IF @ = "uncertain" THEN @ ELSE "revoked"]
    BY <1>4 DEF RevokeAttempt
  <2> HIDE DEF m
  <2> QED BY <1>1, <1>4, <2>1 DEF Marks
<1> QED BY <1>2, <1>3, <1>4

(* A revocation settles every request. *)
LEMMA RevokeLemma == ASSUME NEW t, Shape(t) PROVE Settles(t, Revoke(t))
<1> DEFINE u == Revoke(t)
<1>1. /\ DOMAIN u = Fields /\ DOMAIN u.att = Reqs /\ u.ledger = t.ledger /\ u.job = t.job
      /\ u.active = NoLease /\ u.todo = t.todo \cup Releases(t)
      /\ u.state # "bound" /\ \A q \in Reqs : u.att[q] = RevokeAttempt(t.att[q])
      /\ u.save = IF t.save \in {"claim_in_progress", "saving"} THEN "retained_uncertain" ELSE t.save
  BY DEF Shape, Fields, Revoke
<1>2. /\ Releases(t) \subseteq Items
      /\ \A q \in Reqs : <<q, "promotion">> \in Releases(t) =>
           /\ ~CrossedEverything(t.att[q]) /\ t.att[q].state \in {"preparing", "reserved", "pre_admitted"}
           /\ t.att[q].acceptance = "accepted" /\ t.att[q].promotion = "reserved"
      /\ \A q \in Reqs : <<q, "publication">> \in Releases(t) =>
           /\ ~CrossedEverything(t.att[q]) /\ t.att[q].state \in {"preparing", "reserved", "pre_admitted"}
           /\ t.att[q].acceptance = "accepted" /\ t.att[q].promotion = "private_committed"
  BY DEF Releases, Items
<1> HIDE DEF u
<1>3. ASSUME NEW q \in Reqs
      PROVE  /\ DOMAIN u.att[q] = Marks /\ StageKept(t, u, q) /\ PromoKept(t, u, q)
             /\ EvidenceKept(t, u, q) /\ IssueKept(t, u, q) /\ MarksKept(t, u, q)
  <2> DEFINE a == t.att[q]
             b == u.att[q]
  <2>1. DOMAIN a = Marks /\ b = RevokeAttempt(a)
    BY <1>1 DEF Shape
  <2>2. /\ DOMAIN b = Marks /\ b.handoff = a.handoff /\ b.issued = a.issued
        /\ b.submitted = a.submitted /\ b.acceptance = a.acceptance /\ b.ready = a.ready
        /\ a.cancel => b.cancel
        /\ \A x \in {"publication", "preflight", "admission", "candidates"} :
             a[x] = "retained_uncertain" => b[x] = "retained_uncertain"
        /\ b.evidence = a.evidence \/ (a.evidence # "uncertain" /\ b.evidence = "revoked")
    BY <2>1, RevokeAttemptLemma
  <2>3. StageKept(t, u, q) /\ EvidenceKept(t, u, q) /\ IssueKept(t, u, q) /\ MarksKept(t, u, q)
    BY <1>1, <2>2 DEF StageKept, EvidenceKept, IssueKept, MarksKept, LedgerMoves, Bound, Claims
  <2>4. PromoKept(t, u, q)
    BY <1>1, <1>2, <2>1, RevokeAttemptLemma DEF PromoKept, LedgerMoves
  <2> QED BY <2>2, <2>3, <2>4
<1>4. Shape(u)
  BY <1>1, <1>2, <1>3 DEF Shape, Leases
<1>5. HostKept(t, u)
  BY <1>1 DEF HostKept, JobKept, LeaseKept, SaveKept, Bound
<1> QED BY <1>3, <1>4, <1>5 DEF Settles, u

(* So does a retirement. *)
LEMMA RetireLemma == ASSUME NEW t, Shape(t) PROVE Settles(t, Retire(t))
<1> DEFINE u == [t EXCEPT !.bound = FALSE]
<1>1. Alike(t, u) /\ u.job = t.job /\ u.ledger = t.ledger
  BY DEF Alike, Shape, Fields
<1>2. Settles(t, u)
  <2> HIDE DEF u
  <2> QED BY <1>1, AlikeSettles DEF LedgerMoves
<1>3. Settles(u, Revoke(u))
  <2> HIDE DEF u
  <2> QED BY <1>1, RevokeLemma DEF Alike
<1> QED BY <1>2, <1>3, SettlesAgain DEF Retire

(* A gate entry settles. *)
LEMMA GateLemma == ASSUME Shape(s), NEW b PROVE Settles(s, Gate(b))
BY RetireLemma, SettlesSelf DEF Gate

(* Cancelling a reservation settles. *)
LEMMA CancelStagingLemma ==
  ASSUME NEW t, Shape(t), NEW r \in Reqs PROVE Settles(t, CancelStaging(t, r))
<1> DEFINE u == CancelStaging(t, r)
<1>1. /\ Shape(u) /\ u.active = t.active /\ u.state = t.state /\ u.reason = t.reason
      /\ u.save = t.save /\ u.todo = t.todo /\ u.job = t.job
      /\ \A q \in Reqs : /\ \A x \in Marks \ {"state", "cancel"} : u.att[q][x] = t.att[q][x]
                         /\ t.att[q].cancel => u.att[q].cancel
                         /\ u.ledger[q]["promo"] = t.ledger[q]["promo"]
                         /\ LedgerMoves(t.ledger[q]["stage"], u.ledger[q]["stage"])
  BY DEF Shape, Fields, Marks, Files, CancelStaging, LedgerMoves
<1> HIDE DEF u
<1>2. HostKept(t, u)
  BY <1>1 DEF HostKept, JobKept, LeaseKept, SaveKept, Bound
<1>3. ASSUME NEW q \in Reqs
      PROVE  /\ StageKept(t, u, q) /\ PromoKept(t, u, q) /\ EvidenceKept(t, u, q)
             /\ IssueKept(t, u, q) /\ MarksKept(t, u, q)
  BY <1>1 DEF StageKept, PromoKept, EvidenceKept, IssueKept, MarksKept, LedgerMoves, Marks, Claims
<1> QED BY <1>1, <1>2, <1>3 DEF Settles, u

(* Finishing a pre-admission settles. *)
LEMMA FinishPreAdmissionLemma ==
  ASSUME NEW t, Shape(t), NEW r \in Reqs, NEW x PROVE Settles(t, FinishPreAdmission(t, r, x))
<1> DEFINE u == FinishPreAdmission(t, r, x)
<1>1. /\ Shape(u) /\ u.active = t.active /\ u.state = t.state /\ u.reason = t.reason
      /\ u.save = t.save /\ u.todo = t.todo /\ u.job = t.job /\ u.ledger = t.ledger
      /\ \A q \in Reqs : \A y \in Marks \ {"state"} : u.att[q][y] = t.att[q][y]
  BY DEF Shape, Fields, Marks, FinishPreAdmission
<1> HIDE DEF u
<1>2. HostKept(t, u)
  BY <1>1 DEF HostKept, JobKept, LeaseKept, SaveKept, Bound
<1>3. ASSUME NEW q \in Reqs
      PROVE  /\ StageKept(t, u, q) /\ PromoKept(t, u, q) /\ EvidenceKept(t, u, q)
             /\ IssueKept(t, u, q) /\ MarksKept(t, u, q)
  BY <1>1 DEF StageKept, PromoKept, EvidenceKept, IssueKept, MarksKept, LedgerMoves, Marks, Claims
<1> QED BY <1>1, <1>2, <1>3 DEF Settles, u

(* An attempt of which nothing but the named marks changes. *)
OnlyMarks(t, u, r, marks) ==
  /\ Shape(u) /\ u.active = t.active /\ u.state = t.state /\ u.reason = t.reason
  /\ u.save = t.save /\ u.todo = t.todo /\ u.job = t.job
  /\ \A q \in Reqs : \A x \in Marks : q # r \/ x \notin marks => u.att[q][x] = t.att[q][x]

(* The entries of the others and the other file's. *)
OnlyEntry(t, u, r, f) ==
  \A q \in Reqs, g \in Files : q # r \/ g # f => u.ledger[q][g] = t.ledger[q][g]

(* An abandoned write is returned unused or charged for good. *)
LEMMA AbandonWriteLemma ==
  ASSUME NEW t, Shape(t), NEW r \in Reqs, NEW f \in Files, NEW created
  PROVE  LET u == AbandonWrite(t, r, f, created)
         IN  /\ OnlyMarks(t, u, r, {}) /\ OnlyEntry(t, u, r, f) /\ u.writer = t.writer
             /\ u.ledger[r][f] = IF t.ledger[r][f] # "writing" THEN t.ledger[r][f]
                                 ELSE IF ~created /\ t.live THEN "cancelled" ELSE "uncertain"
BY DEF Shape, Fields, AbandonWrite, OnlyMarks, OnlyEntry

(* Cancelling a promotion moves its own mark and entry. *)
LEMMA CancelPromotionLemma ==
  ASSUME NEW t, Shape(t), NEW r \in Reqs
  PROVE  LET u == CancelPromotion(t, r)
         IN  /\ OnlyMarks(t, u, r, {"promotion"}) /\ OnlyEntry(t, u, r, "promo")
             /\ LedgerMoves(t.ledger[r]["promo"], u.ledger[r]["promo"])
             /\ IF t.att[r].promotion \notin {"reserved", "cancellation_requested"}
                THEN u.att[r].promotion = t.att[r].promotion
                ELSE u.att[r].promotion \in {"cancelled", "retained_uncertain"}
BY DEF Shape, Fields, Marks, Files, CancelPromotion, OnlyMarks, OnlyEntry, LedgerMoves

(* A failed handoff is refused or uncertain, and never undoes a staged one. *)
LEMMA FailHandoffLemma ==
  ASSUME NEW t, Shape(t), NEW r \in Reqs, NEW uncertain
  PROVE  LET u == FailHandoff(t, r, uncertain)
         IN  /\ OnlyMarks(t, u, r, {"handoff", "evidence", "state", "cancel"}) /\ u.ledger = t.ledger
             /\ t.att[r].cancel => u.att[r].cancel
             /\ \/ u.att[r].handoff = t.att[r].handoff /\ u.att[r].evidence = t.att[r].evidence
                \/ /\ t.att[r].handoff # "staged"
                   /\ \/ u.att[r].handoff = "retained_uncertain" /\ u.att[r].evidence = "uncertain"
                      \/ /\ ~uncertain
                         /\ \/ u.att[r].handoff = "refused" /\ u.att[r].evidence = "cancelled"
                            \/ u.att[r].handoff = "refused" /\ u.att[r].evidence = t.att[r].evidence
<1> DEFINE u == FailHandoff(t, r, uncertain)
<1>1. CASE t.att[r].handoff = "staged"
  BY <1>1 DEF FailHandoff, OnlyMarks
<1>2. CASE t.att[r].handoff # "staged" /\ uncertain
  <2>1. u = [t EXCEPT !.att[r].handoff = "retained_uncertain", !.att[r].evidence = "uncertain"]
    BY <1>2 DEF FailHandoff
  <2> HIDE DEF u
  <2>2. /\ OnlyMarks(t, u, r, {"handoff", "evidence", "state", "cancel"}) /\ u.ledger = t.ledger
        /\ u.att[r].cancel = t.att[r].cancel
        /\ u.att[r].handoff = "retained_uncertain" /\ u.att[r].evidence = "uncertain"
    BY <2>1 DEF Shape, Fields, Marks, OnlyMarks
  <2> QED BY <1>2, <2>2 DEF u
<1>3. CASE t.att[r].handoff # "staged" /\ ~uncertain /\ t.ledger[r]["stage"] = "cancelled" /\ t.writer
  <2>1. u = [t EXCEPT !.att[r].state = "cancelled", !.att[r].evidence = "cancelled",
                      !.att[r].cancel = TRUE, !.att[r].handoff = "refused"]
    BY <1>3 DEF FailHandoff
  <2> HIDE DEF u
  <2>2. /\ u.ledger = t.ledger /\ u.active = t.active /\ u.state = t.state /\ u.reason = t.reason
        /\ u.save = t.save /\ u.todo = t.todo /\ u.job = t.job
        /\ DOMAIN u = Fields /\ DOMAIN u.att = Reqs
        /\ \A q \in Reqs \ {r} : u.att[q] = t.att[q]
    BY <2>1 DEF Shape, Fields
  <2>a. u.att[r] = [t.att[r] EXCEPT !.state = "cancelled", !.evidence = "cancelled",
                                    !.cancel = TRUE, !.handoff = "refused"]
    BY <2>1 DEF Shape, Fields
  <2>3. /\ DOMAIN u.att[r] = Marks
        /\ u.att[r].cancel = TRUE /\ u.att[r].handoff = "refused" /\ u.att[r].evidence = "cancelled"
        /\ \A x \in Marks \ {"handoff", "evidence", "state", "cancel"} : u.att[r][x] = t.att[r][x]
    BY <2>a DEF Shape, Marks
  <2>4. Shape(u)
    <3>1. ASSUME NEW q \in Reqs PROVE DOMAIN u.att[q] = Marks
      BY <2>2, <2>3 DEF Shape
    <3>2. /\ u.ledger = t.ledger /\ u.active = t.active /\ u.todo = t.todo /\ u.job = t.job
          /\ DOMAIN u = Fields /\ DOMAIN u.att = Reqs
      BY <2>2
    <3> QED BY <3>1, <3>2 DEF Shape
  <2>5. ASSUME NEW q \in Reqs, NEW x \in Marks, q # r \/ x \notin {"handoff", "evidence", "state", "cancel"}
        PROVE  u.att[q][x] = t.att[q][x]
    BY <2>2, <2>3, <2>5
  <2>6. OnlyMarks(t, u, r, {"handoff", "evidence", "state", "cancel"})
    BY <2>2, <2>4, <2>5 DEF OnlyMarks
  <2> QED BY <1>3, <2>2, <2>3, <2>6 DEF u
<1>4. CASE t.att[r].handoff # "staged" /\ ~uncertain /\ ~(t.ledger[r]["stage"] = "cancelled" /\ t.writer)
  <2>1. u = [t EXCEPT !.att[r].handoff = "refused"]
    BY <1>4 DEF FailHandoff
  <2> HIDE DEF u
  <2>2. /\ OnlyMarks(t, u, r, {"handoff", "evidence", "state", "cancel"}) /\ u.ledger = t.ledger
        /\ u.att[r].cancel = t.att[r].cancel
        /\ u.att[r].handoff = "refused" /\ u.att[r].evidence = t.att[r].evidence
    BY <2>1 DEF Shape, Fields, Marks, OnlyMarks
  <2> QED BY <1>4, <2>2 DEF u
<1> QED BY <1>1, <1>2, <1>3, <1>4

(* The acceptance of a write that cannot be vouched for: entry, handoff    *)
(* and evidence become uncertain together.                                 *)
LEMMA RetainAcceptanceLemma ==
  ASSUME NEW t, Shape(t), NEW r \in Reqs
  PROVE  LET u == RetainAcceptance(t, r)
         IN  \/ u = t
             \/ /\ OnlyMarks(t, u, r, {"handoff", "evidence", "acceptance"})
                /\ u.att[r].handoff = "retained_uncertain" /\ u.att[r].evidence = "uncertain"
                /\ u.att[r].acceptance = "retained_uncertain"
                /\ u.ledger[r]["stage"] # "writing"
                /\ \A q \in Reqs, f \in Files : LedgerMoves(t.ledger[q][f], u.ledger[q][f])
<1> DEFINE v == [t EXCEPT !.att[r].acceptance = "retained_uncertain",
                          !.att[r].handoff = "retained_uncertain",
                          !.att[r].evidence = "uncertain"]
           u == RetainCompleted(v, r, "stage")
<1>1. CASE t.att[r].acceptance = "accepted"
  BY <1>1 DEF RetainAcceptance
<1>2. CASE t.att[r].acceptance # "accepted"
  <2>1. RetainAcceptance(t, r) = u
    BY <1>2 DEF RetainAcceptance
  <2>2. /\ Shape(v) /\ v.ledger = t.ledger /\ v.active = t.active /\ v.state = t.state
        /\ v.reason = t.reason /\ v.save = t.save /\ v.todo = t.todo /\ v.job = t.job
        /\ \A q \in Reqs : \A x \in Marks : q # r \/ x \notin {"handoff", "evidence", "acceptance"} =>
             v.att[q][x] = t.att[q][x]
        /\ v.att[r].handoff = "retained_uncertain" /\ v.att[r].evidence = "uncertain"
        /\ v.att[r].acceptance = "retained_uncertain"
    BY DEF Shape, Fields, Marks
  <2> HIDE DEF v
  <2>3. /\ Shape(u) /\ u.att = v.att /\ u.active = v.active /\ u.state = v.state
        /\ u.reason = v.reason /\ u.save = v.save /\ u.todo = v.todo /\ u.job = v.job
        /\ u.ledger[r]["stage"] # "writing"
        /\ \A q \in Reqs, f \in Files : LedgerMoves(v.ledger[q][f], u.ledger[q][f])
    BY <2>2 DEF Shape, Fields, Files, RetainCompleted, InvalidateCapacity, LedgerMoves, Unsettled
  <2> HIDE DEF u
  <2> QED BY <2>1, <2>2, <2>3 DEF OnlyMarks
<1> QED BY <1>1, <1>2

(* A publication that cannot be vouched for settles. *)
LEMMA RetainPublicationLemma ==
  ASSUME NEW t, Shape(t), NEW r \in Reqs, t.att[r].promotion \in Done3
  PROVE  Settles(t, RetainPublication(t, r))
<1> DEFINE u == RetainPublication(t, r)
<1>1. CASE t.att[r].promotion = "promoted"
  BY <1>1, SettlesSelf DEF RetainPublication
<1>2. CASE t.att[r].promotion # "promoted"
  <2>1. /\ OnlyMarks(t, u, r, {"cancel", "promotion", "publication"}) /\ OnlyEntry(t, u, r, "promo")
        /\ LedgerMoves(t.ledger[r]["promo"], u.ledger[r]["promo"]) /\ u.att[r].cancel
        /\ u.att[r].promotion = "retained_uncertain" /\ u.att[r].publication = "retained_uncertain"
    <3>1. u = [t EXCEPT !.ledger[r]["promo"] = IF @ = "completed" THEN "uncertain" ELSE @,
                 !.live = FALSE, !.att[r].cancel = TRUE,
                 !.att[r].promotion = "retained_uncertain",
                 !.att[r].publication = "retained_uncertain"]
      BY <1>2 DEF RetainPublication
    <3> HIDE DEF u
    <3>2. /\ u.active = t.active /\ u.state = t.state /\ u.reason = t.reason
          /\ u.save = t.save /\ u.todo = t.todo /\ u.job = t.job
          /\ DOMAIN u = Fields /\ DOMAIN u.att = Reqs /\ DOMAIN u.ledger = Reqs
          /\ \A q \in Reqs \ {r} : u.att[q] = t.att[q]
          /\ u.att[r] = [t.att[r] EXCEPT !.cancel = TRUE, !.promotion = "retained_uncertain",
                                        !.publication = "retained_uncertain"]
      BY <3>1 DEF Shape, Fields
    <3>3. /\ DOMAIN u.att[r] = Marks /\ u.att[r].cancel = TRUE
          /\ u.att[r].promotion = "retained_uncertain" /\ u.att[r].publication = "retained_uncertain"
          /\ \A x \in Marks \ {"cancel", "promotion", "publication"} : u.att[r][x] = t.att[r][x]
      BY <3>2 DEF Shape, Marks
    <3>4. /\ \A q \in Reqs : DOMAIN u.ledger[q] = Files
          /\ OnlyEntry(t, u, r, "promo") /\ LedgerMoves(t.ledger[r]["promo"], u.ledger[r]["promo"])
      BY <3>1 DEF Shape, Fields, Files, OnlyEntry, LedgerMoves
    <3>5. OnlyMarks(t, u, r, {"cancel", "promotion", "publication"})
      BY <3>2, <3>3, <3>4, ZenonT(60) DEF Shape, OnlyMarks
    <3> QED BY <3>3, <3>4, <3>5
  <2> HIDE DEF u
  <2>2. HostKept(t, u)
    BY <2>1 DEF OnlyMarks, HostKept, JobKept, LeaseKept, SaveKept, Bound
  <2>3. ASSUME NEW q \in Reqs
        PROVE  /\ StageKept(t, u, q) /\ PromoKept(t, u, q) /\ EvidenceKept(t, u, q)
               /\ IssueKept(t, u, q) /\ MarksKept(t, u, q)
    BY <1>2, <2>1 DEF OnlyMarks, OnlyEntry, StageKept, PromoKept, EvidenceKept, IssueKept, MarksKept,
       LedgerMoves, Marks, Claims, Files, Done3
  <2> QED BY <2>1, <2>2, <2>3 DEF Settles, OnlyMarks, u
<1> QED BY <1>1, <1>2

-----------------------------------------------------------------------------
(* What a step may do to the properties' subjects. *)

Final(t, u) ==
  /\ \A r \in Reqs :
       /\ \A f \in Files : t.ledger[r][f] = "uncertain" => u.ledger[r][f] = "uncertain"
       /\ \A x \in Claims \cup {"handoff", "promotion"} :
            t.att[r][x] = "retained_uncertain" => u.att[r][x] = "retained_uncertain"
       /\ t.att[r].evidence = "uncertain" => u.att[r].evidence = "uncertain"
  /\ t.save = "retained_uncertain" => u.save = "retained_uncertain"

CommitsNothing(t, u, r) ==
  t.att[r].cancel =>
    /\ u.att[r].promotion \in {"private_committed", "promoted"} =>
         u.att[r].promotion = t.att[r].promotion
    /\ u.att[r].handoff = "staged" => t.att[r].handoff = "staged"
    /\ u.att[r].acceptance = "accepted" => t.att[r].acceptance = "accepted"

SavesCertainly ==
  s.save # "saved" /\ s'.save = "saved" =>
    /\ s.reason # "revoked" /\ saves = 1
    /\ \A r \in Reqs : s.job[r] = "failed" \/ r \in gallery

Sound ==
  /\ IInv' /\ Final(s, s') /\ SavesCertainly
  /\ \A r \in Reqs : CommitsNothing(s, s', r)

(* What the tracks of a request that a step is about have to show. *)
StageFinal(t, u, r) ==
  /\ t.ledger[r]["stage"] = "uncertain" => u.ledger[r]["stage"] = "uncertain"
  /\ t.att[r].handoff = "retained_uncertain" => u.att[r].handoff = "retained_uncertain"
  /\ t.att[r].evidence = "uncertain" => u.att[r].evidence = "uncertain"
  /\ t.att[r].cancel /\ u.att[r].handoff = "staged" => t.att[r].handoff = "staged"

PromoFinal(t, u, r) ==
  /\ t.ledger[r]["promo"] = "uncertain" => u.ledger[r]["promo"] = "uncertain"
  /\ t.att[r].promotion = "retained_uncertain" => u.att[r].promotion = "retained_uncertain"
  /\ t.att[r].cancel /\ u.att[r].promotion \in {"private_committed", "promoted"} =>
       u.att[r].promotion = t.att[r].promotion

(* A call another call's step leaves alone, or that is out of the track. *)
StageCallsKept(q) == \A d \in Callers :
  calls'[d] = calls[d] \/ calls'[d].r # q \/ calls'[d].op \notin StageOps \cup {"accept"}
PromoCallsKept(q) == \A d \in Callers :
  calls'[d] = calls[d] \/ calls'[d].r # q \/ calls'[d].op \notin PromoOps \cup {"publish promotion"}
SaveCallsKept == \A d \in Callers : calls'[d] = calls[d] \/ calls'[d].op \notin SaveOps

(* The stage of a request that a step only settles stays sound. *)
LEMMA StageSoundKept ==
  ASSUME NEW q \in Reqs, StageSound(q), StageKept(s, s', q), EvidenceKept(s, s', q),
         LeaseKept(s, s'), StageCallsKept(q), "stage" \in disk'[q] => "stage" \in disk[q]
  PROVE  StageSound(q)'
<1>1. ASSUME NEW c \in Callers, calls'[c].r = q
      PROVE  /\ HandoffAt(calls'[c].op, s'.att[q].handoff)
             /\ EntryAt(calls'[c].op, s'.ledger[q]["stage"])
             /\ calls'[c].op \in StageOps =>
                  /\ s'.att[q].evidence \in {"evidence_published", "revoked", "cancelled"}
                  /\ Bound(s') => s'.att[q].evidence = "evidence_published" /\ s'.active = NoLease
  <2>1. CASE calls'[c] = calls[c]
    BY <1>1, <2>1 DEF StageSound, EntryAt, StageKept, EvidenceKept, LeaseKept, LedgerMoves, Charged
  <2>2. CASE calls'[c].op \notin StageOps \cup {"accept"}
    BY <2>2 DEF StageOps, HandoffAt, EntryAt
  <2> QED BY <1>1, <2>1, <2>2 DEF StageCallsKept
<1>2. ASSUME NEW c \in Callers, NEW d \in Callers, calls'[c].r = q, calls'[d].r = q,
             calls'[c].op \in StageOps, calls'[d].op \in StageOps
      PROVE  c = d
  BY <1>2 DEF StageSound, StageCallsKept
<1>3. "stage" \in disk'[q] =>
       /\ s'.ledger[q]["stage"] \in Charged
       /\ s'.ledger[q]["stage"] = "writing" => s'.att[q].handoff = "create_boundary_crossed"
  BY DEF StageSound, StageKept, LedgerMoves, Charged
<1> QED BY <1>1, <1>2, <1>3 DEF StageSound, Bound

(* So does its promotion. *)
LEMMA PromoSoundKept ==
  ASSUME NEW q \in Reqs, PromoSound(q), PromoKept(s, s', q),
         PromoCallsKept(q), "promo" \in disk'[q] => "promo" \in disk[q]
  PROVE  PromoSound(q)'
<1>1. ASSUME NEW c \in Callers, calls'[c].r = q
      PROVE  /\ PromotionAt(calls'[c].op, s'.att[q].promotion)
             /\ calls'[c].op = "promote file" => s'.ledger[q]["promo"] \in Charged
             /\ <<q, "promotion">> \in s'.todo => calls'[c].op \notin PromoOps
  <2>1. CASE calls'[c] = calls[c]
    <3>1. /\ PromotionAt(calls[c].op, s.att[q].promotion)
          /\ calls[c].op = "promote file" => s.ledger[q]["promo"] \in Charged
          /\ <<q, "promotion">> \in s.todo => calls[c].op \notin PromoOps
      BY <1>1, <2>1 DEF PromoSound
    <3>2. PromotionAt(calls'[c].op, s'.att[q].promotion)
      BY <2>1, <3>1 DEF PromoKept, PromotionAt, Done3
    <3>3. calls'[c].op = "promote file" => s'.ledger[q]["promo"] \in Charged
      BY <2>1, <3>1 DEF PromoKept, LedgerMoves, Charged
    <3>4. <<q, "promotion">> \in s'.todo => calls'[c].op \notin PromoOps
      BY <2>1, <3>1 DEF PromoKept, PromotionAt, PromoOps
    <3> QED BY <3>2, <3>3, <3>4
  <2>2. CASE calls'[c].op \notin PromoOps \cup {"publish promotion"}
    BY <2>2 DEF PromoOps, PromotionAt
  <2> QED BY <1>1, <2>1, <2>2 DEF PromoCallsKept
<1>2. ASSUME NEW c \in Callers, NEW d \in Callers, calls'[c].r = q, calls'[d].r = q,
             calls'[c].op \in PromoOps, calls'[d].op \in PromoOps
      PROVE  c = d
  BY <1>2 DEF PromoSound, PromoCallsKept
<1>3. "promo" \in disk'[q] =>
       /\ s'.ledger[q]["promo"] \in Charged
       /\ s'.ledger[q]["promo"] = "writing" => s'.att[q].promotion = "may_have_created"
  <2>1. "promo" \in disk[q] =>
         /\ s.ledger[q]["promo"] \in Charged
         /\ s.ledger[q]["promo"] = "writing" => s.att[q].promotion = "may_have_created"
    BY DEF PromoSound
  <2>2. /\ LedgerMoves(s.ledger[q]["promo"], s'.ledger[q]["promo"])
        /\ s.att[q].promotion = "may_have_created" => s'.att[q].promotion = "may_have_created"
    BY DEF PromoKept
  <2> QED BY <2>1, <2>2 DEF LedgerMoves, Charged
<1>4. /\ <<q, "promotion">> \in s'.todo =>
            s'.att[q].promotion \in {"cancellation_requested", "cancelled", "retained_uncertain"}
      /\ <<q, "publication">> \in s'.todo => s'.att[q].promotion \in Done3
  BY DEF PromoSound, PromoKept, Done3
<1> QED BY <1>1, <1>2, <1>3, <1>4 DEF PromoSound

(* So do the leases. *)
LEMMA LeaseSoundKept ==
  ASSUME LeaseSound, Shape(s), LeaseKept(s, s'),
         \A q \in Reqs : IssueKept(s, s', q),
         \A q \in Reqs : Bound(s') /\ Fresh(q) =>
           /\ s'.att[q].handoff = s.att[q].handoff
           /\ s'.att[q].evidence \in {"none", "awaiting_submission", "cancelled"}
  PROVE  LeaseSound'
<1>1. s'.active # NoLease => s'.att[s'.active[1]].issued
  <2>1. CASE s'.active # NoLease
    <3>1. s'.active = s.active /\ s.active[1] \in Reqs
      BY <2>1 DEF Shape, Leases, LeaseKept
    <3> QED BY <2>1, <3>1 DEF LeaseSound, IssueKept
  <2> QED BY <2>1
<1>2. ASSUME Bound(s')
      PROVE  /\ s'.reason = "none"
             /\ \A r \in Reqs : Fresh(r)' =>
                  /\ s'.att[r].handoff = "not_started" /\ s'.att[r].submitted = "none"
                  /\ s'.att[r].evidence \in {"none", "awaiting_submission", "cancelled"}
  <2>1. Bound(s) /\ s'.active = s.active /\ s'.reason = s.reason
    BY <1>2 DEF LeaseKept
  <2>2. ASSUME NEW r \in Reqs, Fresh(r)' PROVE Fresh(r)
    BY <2>1, <2>2 DEF Fresh, IssueKept
  <2> QED BY <1>2, <2>1, <2>2 DEF LeaseSound, IssueKept
<1> QED BY <1>1, <1>2 DEF LeaseSound, Bound

(* So does the save. *)
LEMMA SaveSoundKept ==
  ASSUME SaveSound, JobKept(s, s'), SaveKept(s, s'), SaveCallsKept, saves' = saves,
         gallery \subseteq gallery'
  PROVE  SaveSound'
<1>1. ASSUME NEW c \in Callers
      PROVE  /\ calls'[c].op \in SaveOps => s'.save \in {"claim_in_progress", "retained_uncertain"}
             /\ calls'[c].op = "save" => saves' = 0
             /\ calls'[c].op = "save written" => saves' = 1
  BY DEF SaveSound, SaveCallsKept, SaveOps, SaveKept
<1>2. ASSUME NEW c \in Callers, NEW d \in Callers, calls'[c].op \in SaveOps, calls'[d].op \in SaveOps
      PROVE  c = d
  BY <1>2 DEF SaveSound, SaveCallsKept
<1>3. ASSUME NEW r \in Reqs
      PROVE  /\ s'.job[r] = "completed" => r \in gallery'
             /\ s.job[r] = "failed" => s'.job[r] = "failed"
  BY DEF SaveSound, JobKept
<1> QED BY <1>1, <1>2, <1>3 DEF SaveSound, SaveKept

-----------------------------------------------------------------------------
(* One step, by the track it is about. *)

(* The tracks of one file of one request excepted. *)
StageMoves(t, u, r) ==
  /\ Shape(u) /\ HostKept(t, u)
  /\ \A q \in Reqs : /\ PromoKept(t, u, q) /\ IssueKept(t, u, q) /\ MarksKept(t, u, q)
                     /\ q # r => StageKept(t, u, q) /\ EvidenceKept(t, u, q)
PromoMoves(t, u, r) ==
  /\ Shape(u) /\ HostKept(t, u)
  /\ \A q \in Reqs : /\ StageKept(t, u, q) /\ EvidenceKept(t, u, q)
                     /\ IssueKept(t, u, q) /\ MarksKept(t, u, q)
                     /\ q # r => PromoKept(t, u, q)

(* Settling is a move of either track. *)
LEMMA SettlesIsMove ==
  ASSUME NEW t, NEW u, NEW r \in Reqs, Settles(t, u)
  PROVE  StageMoves(t, u, r) /\ PromoMoves(t, u, r)
BY DEF Settles, StageMoves, PromoMoves

(* A move after a settling is a move. *)
LEMMA MoveAgain ==
  ASSUME NEW t, NEW u, NEW v, NEW r \in Reqs, Settles(t, u)
  PROVE  /\ StageMoves(u, v, r) => StageMoves(t, v, r)
         /\ PromoMoves(u, v, r) => PromoMoves(t, v, r)
<1>1. ASSUME HostKept(u, v) PROVE HostKept(t, v)
  BY <1>1 DEF Settles, HostKept, JobKept, LeaseKept, SaveKept
<1>2. ASSUME NEW q \in Reqs, LeaseKept(u, v)
      PROVE  /\ StageKept(u, v, q) => StageKept(t, v, q)
             /\ EvidenceKept(u, v, q) => EvidenceKept(t, v, q)
             /\ IssueKept(u, v, q) => IssueKept(t, v, q)
             /\ MarksKept(u, v, q) => MarksKept(t, v, q)
  <2>1. StageKept(u, v, q) => StageKept(t, v, q)
    BY DEF Settles, StageKept, LedgerMoves
  <2>2. EvidenceKept(u, v, q) => EvidenceKept(t, v, q)
    BY <1>2 DEF Settles, EvidenceKept, LeaseKept
  <2>3. (IssueKept(u, v, q) => IssueKept(t, v, q)) /\ (MarksKept(u, v, q) => MarksKept(t, v, q))
    BY DEF Settles, IssueKept, MarksKept
  <2> QED BY <2>1, <2>2, <2>3
<1>3. ASSUME NEW q \in Reqs, PromoKept(u, v, q) PROVE PromoKept(t, v, q)
  BY <1>3 DEF Settles, PromoKept, LedgerMoves
<1> QED BY <1>1, <1>2, <1>3 DEF StageMoves, PromoMoves, HostKept

(* Neither files nor Candidates nor saves, and the shape of the calls. *)
Elsewhere == CallsShape' /\ UNCHANGED <<gallery, saves>> /\ DOMAIN disk' = Reqs

(* A step that keeps the host saves nothing. *)
LEMMA HostFinal ==
  ASSUME HostKept(s, s')
  PROVE  SavesCertainly /\ (s.save = "retained_uncertain" => s'.save = "retained_uncertain")
BY DEF HostKept, SaveKept, SavesCertainly

(* A step about the staging of one request. *)
LEMMA StageStepLemma ==
  ASSUME IInv, NEW r \in Reqs, StageMoves(s, s', r), Elsewhere,
         StageSound(r)', StageFinal(s, s', r),
         Bound(s') /\ Fresh(r) =>
           /\ s'.att[r].handoff = s.att[r].handoff
           /\ s'.att[r].evidence \in {"none", "awaiting_submission", "cancelled"},
         \A q \in Reqs \ {r} : StageCallsKept(q), \A q \in Reqs : PromoCallsKept(q), SaveCallsKept,
         \A q \in Reqs : /\ "promo" \in disk'[q] => "promo" \in disk[q]
                         /\ q # r /\ "stage" \in disk'[q] => "stage" \in disk[q]
  PROVE  Sound
<1>1. ASSUME NEW q \in Reqs PROVE StageSound(q)'
  BY StageSoundKept DEF IInv, StageMoves, HostKept
<1>2. ASSUME NEW q \in Reqs PROVE PromoSound(q)'
  BY PromoSoundKept DEF IInv, StageMoves
<1>3. LeaseSound'
  <2>1. ASSUME NEW q \in Reqs, Bound(s'), Fresh(q)
        PROVE  /\ s'.att[q].handoff = s.att[q].handoff
               /\ s'.att[q].evidence \in {"none", "awaiting_submission", "cancelled"}
    BY <2>1 DEF IInv, LeaseSound, StageMoves, StageKept, EvidenceKept, HostKept, LeaseKept
  <2> QED BY <2>1, LeaseSoundKept DEF IInv, StageMoves, HostKept
<1>4. SaveSound'
  BY SaveSoundKept DEF IInv, StageMoves, HostKept, Elsewhere
<1>5. IInv'
  BY <1>1, <1>2, <1>3, <1>4 DEF IInv, StageMoves, Elsewhere
<1>6. ASSUME NEW q \in Reqs
      PROVE  /\ \A f \in Files : s.ledger[q][f] = "uncertain" => s'.ledger[q][f] = "uncertain"
             /\ \A x \in Claims \cup {"handoff", "promotion"} :
                  s.att[q][x] = "retained_uncertain" => s'.att[q][x] = "retained_uncertain"
             /\ s.att[q].evidence = "uncertain" => s'.att[q].evidence = "uncertain"
             /\ CommitsNothing(s, s', q)
  <2>1. /\ s.ledger[q]["promo"] = "uncertain" => s'.ledger[q]["promo"] = "uncertain"
        /\ s.att[q].promotion = "retained_uncertain" => s'.att[q].promotion = "retained_uncertain"
        /\ s'.att[q].promotion \in {"private_committed", "promoted"} =>
             s'.att[q].promotion = s.att[q].promotion
    BY DEF StageMoves, PromoKept, LedgerMoves
  <2>2. /\ s.ledger[q]["stage"] = "uncertain" => s'.ledger[q]["stage"] = "uncertain"
        /\ s.att[q].handoff = "retained_uncertain" => s'.att[q].handoff = "retained_uncertain"
        /\ s.att[q].evidence = "uncertain" => s'.att[q].evidence = "uncertain"
        /\ s.att[q].cancel /\ s'.att[q].handoff = "staged" => s.att[q].handoff = "staged"
    BY DEF StageMoves, StageKept, EvidenceKept, LedgerMoves, StageFinal
  <2>3. MarksKept(s, s', q)
    BY DEF StageMoves
  <2> QED BY <2>1, <2>2, <2>3 DEF MarksKept, CommitsNothing, Files
<1> QED BY <1>5, <1>6, HostFinal DEF Sound, Final, StageMoves

(* A step about the promotion of one request. *)
LEMMA PromoStepLemma ==
  ASSUME IInv, NEW r \in Reqs, PromoMoves(s, s', r), Elsewhere,
         PromoSound(r)', PromoFinal(s, s', r),
         \A q \in Reqs \ {r} : PromoCallsKept(q), \A q \in Reqs : StageCallsKept(q), SaveCallsKept,
         \A q \in Reqs : /\ "stage" \in disk'[q] => "stage" \in disk[q]
                         /\ q # r /\ "promo" \in disk'[q] => "promo" \in disk[q]
  PROVE  Sound
<1>1. ASSUME NEW q \in Reqs PROVE StageSound(q)'
  BY StageSoundKept DEF IInv, PromoMoves, HostKept
<1>2. ASSUME NEW q \in Reqs PROVE PromoSound(q)'
  BY PromoSoundKept DEF IInv, PromoMoves
<1>3. LeaseSound'
  <2>1. ASSUME NEW q \in Reqs, Bound(s'), Fresh(q)
        PROVE  /\ s'.att[q].handoff = s.att[q].handoff
               /\ s'.att[q].evidence \in {"none", "awaiting_submission", "cancelled"}
    BY <2>1 DEF IInv, LeaseSound, PromoMoves, StageKept, EvidenceKept, HostKept, LeaseKept
  <2> QED BY <2>1, LeaseSoundKept DEF IInv, PromoMoves, HostKept
<1>4. SaveSound'
  BY SaveSoundKept DEF IInv, PromoMoves, HostKept, Elsewhere
<1>5. IInv'
  BY <1>1, <1>2, <1>3, <1>4 DEF IInv, PromoMoves, Elsewhere
<1>6. ASSUME NEW q \in Reqs
      PROVE  /\ \A f \in Files : s.ledger[q][f] = "uncertain" => s'.ledger[q][f] = "uncertain"
             /\ \A x \in Claims \cup {"handoff", "promotion"} :
                  s.att[q][x] = "retained_uncertain" => s'.att[q][x] = "retained_uncertain"
             /\ s.att[q].evidence = "uncertain" => s'.att[q].evidence = "uncertain"
             /\ CommitsNothing(s, s', q)
  <2>1. /\ s.ledger[q]["promo"] = "uncertain" => s'.ledger[q]["promo"] = "uncertain"
        /\ s.att[q].promotion = "retained_uncertain" => s'.att[q].promotion = "retained_uncertain"
        /\ s.att[q].cancel /\ s'.att[q].promotion \in {"private_committed", "promoted"} =>
             s'.att[q].promotion = s.att[q].promotion
    BY DEF PromoMoves, PromoKept, LedgerMoves, PromoFinal
  <2>2. /\ s.ledger[q]["stage"] = "uncertain" => s'.ledger[q]["stage"] = "uncertain"
        /\ s'.att[q].handoff = s.att[q].handoff
        /\ s.att[q].evidence = "uncertain" => s'.att[q].evidence = "uncertain"
    BY DEF PromoMoves, StageKept, EvidenceKept, LedgerMoves
  <2>3. MarksKept(s, s', q)
    BY DEF PromoMoves
  <2> QED BY <2>1, <2>2, <2>3 DEF MarksKept, CommitsNothing, Files
<1> QED BY <1>5, <1>6, HostFinal DEF Sound, Final, PromoMoves

(* A call that goes on to a step outside the tracks, or ends. *)
QuietCalls ==
  /\ CallsShape'
  /\ \A d \in Callers : \/ calls'[d] = calls[d]
                        \/ calls'[d].op \notin StageOps \cup PromoOps \cup SaveOps
                                               \cup {"accept", "publish promotion"}

(* A step that settles, with calls that enter no track. *)
LEMMA QuietLemma == ASSUME IInv, Settles(s, s'), QuietCalls, Files0 PROVE Sound
<1>1. 1 \in Reqs
  BY RequestsAssumption DEF Reqs
<1>2. /\ \A q \in Reqs : StageCallsKept(q) /\ PromoCallsKept(q)
      /\ SaveCallsKept
  BY DEF QuietCalls, StageCallsKept, PromoCallsKept, SaveCallsKept
<1>3. StageMoves(s, s', 1) /\ Elsewhere /\ UNCHANGED disk
  BY <1>1, SettlesIsMove DEF Files0, IInv, Elsewhere, QuietCalls
<1>4. StageKept(s, s', 1) /\ EvidenceKept(s, s', 1) /\ LeaseKept(s, s')
  BY <1>1 DEF Settles, HostKept
<1>5. StageSound(1)'
  BY <1>1, <1>2, <1>3, <1>4, StageSoundKept DEF IInv
<1>6. StageFinal(s, s', 1)
  BY <1>4 DEF StageFinal, StageKept, EvidenceKept, LedgerMoves
<1>7. Bound(s') /\ Fresh(1) =>
           /\ s'.att[1].handoff = s.att[1].handoff
           /\ s'.att[1].evidence \in {"none", "awaiting_submission", "cancelled"}
  BY <1>1, <1>4 DEF IInv, LeaseSound, StageKept, EvidenceKept, LeaseKept
<1> QED BY <1>1, <1>2, <1>3, <1>5, <1>6, <1>7, StageStepLemma

(* The calls' own steps. *)
LEMMA DoneLemma == ASSUME CallsShape, NEW c \in Callers, Done(c)
  PROVE /\ CallsShape' /\ calls'[c].op = "idle" /\ \A d \in Callers \ {c} : calls'[d] = calls[d]
BY DEF CallsShape, Done, Idle

(* A call that goes on. *)
LEMMA GotoLemma == ASSUME CallsShape, NEW c \in Callers, NEW o, Goto(c, o), calls[c].op # "idle"
  PROVE /\ CallsShape' /\ calls'[c].op = o /\ calls'[c].r = calls[c].r /\ calls[c].r \in Reqs
        /\ \A d \in Callers \ {c} : calls'[d] = calls[d]
BY DEF CallsShape, Goto

(* A call that begins. *)
LEMMA BeginLemma ==
  ASSUME CallsShape, NEW c \in Callers, NEW o, NEW r \in Reqs,
         calls' = [calls EXCEPT ![c] = Call(o, r)]
  PROVE /\ CallsShape' /\ calls'[c].op = o /\ calls'[c].r = r
        /\ \A d \in Callers \ {c} : calls'[d] = calls[d]
BY DEF CallsShape, Call

-----------------------------------------------------------------------------
(* Steps that are about no track. *)

Free == {"state", "operation", "reservation", "publication", "preflight", "admission", "candidates",
         "prompt", "started", "remote", "ready"}

(* A change of marks that no track looks at settles. *)
LEMMA OnlySettles ==
  ASSUME NEW t, NEW u, NEW r \in Reqs, NEW marks \in SUBSET Free, OnlyMarks(t, u, r, marks),
         \A q \in Reqs, f \in Files : LedgerMoves(t.ledger[q][f], u.ledger[q][f]),
         \A x \in Claims : t.att[r][x] = "retained_uncertain" => u.att[r][x] = "retained_uncertain"
  PROVE  Settles(t, u)
<1>1. HostKept(t, u)
  BY DEF OnlyMarks, HostKept, JobKept, LeaseKept, SaveKept, Bound
<1>2. ASSUME NEW q \in Reqs
      PROVE  /\ StageKept(t, u, q) /\ PromoKept(t, u, q) /\ EvidenceKept(t, u, q)
             /\ IssueKept(t, u, q) /\ MarksKept(t, u, q)
  <2>1. /\ u.att[q].handoff = t.att[q].handoff /\ u.att[q].promotion = t.att[q].promotion
        /\ u.att[q].evidence = t.att[q].evidence /\ u.att[q].issued = t.att[q].issued
        /\ u.att[q].submitted = t.att[q].submitted /\ u.att[q].cancel = t.att[q].cancel
        /\ u.att[q].acceptance = t.att[q].acceptance
    BY DEF OnlyMarks, Marks, Free
  <2>2. \A x \in Claims : t.att[q][x] = "retained_uncertain" => u.att[q][x] = "retained_uncertain"
    <3>1. Claims \subseteq Marks
      BY DEF Claims, Marks
    <3> QED BY <3>1 DEF OnlyMarks
  <2>3. u.todo = t.todo
    BY DEF OnlyMarks
  <2> QED BY <2>1, <2>2, <2>3 DEF StageKept, PromoKept, EvidenceKept, IssueKept, MarksKept, Files
<1> QED BY <1>1, <1>2 DEF Settles, OnlyMarks

(* Reserving a free entry settles. *)
LEMMA ReserveLemma ==
  ASSUME NEW t, Shape(t), NEW r \in Reqs, NEW f \in Files, Reservable(t, r, f)
  PROVE  Settles(t, Reserve(t, r, f))
<1> DEFINE u == Reserve(t, r, f)
<1>1. Alike(t, u) /\ u.job = t.job
  BY DEF Alike, Shape, Fields, Reserve
<1>2. ASSUME NEW q \in Reqs, NEW g \in Files PROVE LedgerMoves(t.ledger[q][g], u.ledger[q][g])
  BY DEF Shape, Fields, Reserve, Reservable, LedgerMoves
<1> HIDE DEF u
<1> QED BY <1>1, <1>2, AlikeSettles DEF u

(* A call that ends enters no track. *)
LEMMA DoneQuiet == ASSUME IInv, NEW c \in Callers, Done(c) PROVE QuietCalls
BY DoneLemma DEF IInv, QuietCalls, StageOps, PromoOps, SaveOps

(* Nor does one that goes on outside the tracks. *)
LEMMA GotoQuiet ==
  ASSUME IInv, NEW c \in Callers, NEW o, Goto(c, o), calls[c].op # "idle",
         o \notin StageOps \cup PromoOps \cup SaveOps \cup {"accept", "publish promotion"}
  PROVE  QuietCalls /\ calls[c].r \in Reqs
BY GotoLemma DEF IInv, QuietCalls

(* Nor does one that begins outside the tracks. *)
LEMMA BeginQuiet ==
  ASSUME IInv, NEW c \in Callers, NEW o, NEW r \in Reqs, calls' = [calls EXCEPT ![c] = Call(o, r)],
         o \notin StageOps \cup PromoOps \cup SaveOps \cup {"accept", "publish promotion"}
  PROVE  QuietCalls
BY BeginLemma, ZenonT(60) DEF IInv, QuietCalls

(* Nor do calls that stay. *)
LEMMA SameQuiet == ASSUME IInv, UNCHANGED calls PROVE QuietCalls
BY DEF IInv, QuietCalls, CallsShape

(* A call at a step is about a request. *)
LEMMA InLemma == ASSUME IInv, NEW c \in Callers, NEW o, In(c, o), o # "idle"
  PROVE calls[c].r \in Reqs /\ R(c) \in Reqs /\ calls[c].op = o
BY DEF IInv, CallsShape, In, R

(* An operation that finds the capacity owner invalid. *)
LEMMA OperationOnInvalidCapacitySound == ASSUME IInv, OperationOnInvalidCapacity PROVE Sound
<1>1. Settles(s, s')
  BY RevokeLemma DEF IInv, OperationOnInvalidCapacity
<1> QED BY <1>1, QuietLemma, SameQuiet DEF OperationOnInvalidCapacity

(* A gate entry that retires the lifecycle. *)
LEMMA ReconcileSound == ASSUME IInv, Reconcile PROVE Sound
BY GateLemma, QuietLemma, SameQuiet DEF IInv, Reconcile

(* A refresh that finds a file nobody wrote. *)
LEMMA CapacityChangesSound == ASSUME IInv, CapacityChanges PROVE Sound
BY InvalidateLemma, QuietLemma, SameQuiet DEF IInv, CapacityChanges

(* The Project, the job or the route moves on. *)
LEMMA HostChangesSound == ASSUME IInv, HostChanges PROVE Sound
<1>1. Alike(s, s') /\ s'.job = s.job /\ s'.ledger = s.ledger
  BY DEF IInv, HostChanges, Alike, Shape, Fields
<1>2. Settles(s, s')
  BY <1>1, AlikeSettles DEF IInv, LedgerMoves
<1> QED BY <1>2, QuietLemma, SameQuiet DEF HostChanges

(* The runtime closes. *)
LEMMA CloseSound == ASSUME IInv, Close PROVE Sound
<1> DEFINE t == [s EXCEPT !.closed = TRUE]
<1>1. Alike(s, t) /\ t.job = s.job /\ t.ledger = s.ledger
  BY DEF IInv, Alike, Shape, Fields
<1>2. s' = IF s.bound THEN Retire(t) ELSE t
  BY DEF Close
<1> HIDE DEF t
<1>3. Settles(s, t) /\ Shape(t)
  BY <1>1, AlikeSettles DEF IInv, LedgerMoves, Alike
<1>4. Settles(s, s')
  BY <1>2, <1>3, RetireLemma, SettlesAgain
<1> QED BY <1>4, QuietLemma, SameQuiet DEF Close

(* The worker has stopped. *)
LEMMA FinishCloseSound == ASSUME IInv, FinishClose PROVE Sound
<1>1. /\ Shape(s') /\ s'.att = s.att /\ s'.active = s.active /\ s'.save = s.save /\ s'.todo = s.todo
      /\ s'.job = s.job /\ s'.ledger = s.ledger /\ s'.state # "bound"
      /\ s'.reason = "revoked" => s.reason = "revoked"
  BY DEF IInv, FinishClose, Shape, Fields
<1>2. HostKept(s, s')
  BY <1>1 DEF HostKept, JobKept, LeaseKept, SaveKept, Bound
<1>3. Settles(s, s')
  BY <1>1, <1>2 DEF Settles, StageKept, PromoKept, EvidenceKept, IssueKept, MarksKept, LedgerMoves
<1> QED BY <1>3, QuietLemma, SameQuiet DEF FinishClose

(* The job fails a request. *)
LEMMA RequestFailsSound == ASSUME IInv, NEW r \in Reqs, RequestFails(r) PROVE Sound
<1>1. Alike(s, s') /\ s'.ledger = s.ledger /\ JobKept(s, s')
  BY DEF IInv, RequestFails, Alike, Shape, Fields, JobKept
<1>2. HostKept(s, s')
  BY <1>1 DEF Alike, HostKept, LeaseKept, SaveKept, Bound
<1>3. Settles(s, s')
  BY <1>1, <1>2 DEF Alike, Settles, StageKept, PromoKept, EvidenceKept, IssueKept, MarksKept, LedgerMoves
<1> QED BY <1>3, QuietLemma, SameQuiet DEF RequestFails

(* One mark that no track looks at. *)
LEMMA MarkLemma ==
  ASSUME NEW t, NEW u, NEW r \in Reqs, NEW x \in Free,
         OnlyMarks(t, u, r, {x}), u.ledger = t.ledger,
         x \in Claims => (t.att[r][x] = "retained_uncertain" => u.att[r][x] = "retained_uncertain")
  PROVE  Settles(t, u)
<1> DEFINE marks == {x}
<1>1. marks \in SUBSET Free /\ OnlyMarks(t, u, r, marks)
  OBVIOUS
<1>3. \A q \in Reqs, f \in Files : LedgerMoves(t.ledger[q][f], u.ledger[q][f])
  BY DEF LedgerMoves
<1>2. \A y \in Claims : t.att[r][y] = "retained_uncertain" => u.att[r][y] = "retained_uncertain"
  <2>1. Claims \subseteq Marks
    BY DEF Claims, Marks
  <2> QED BY <2>1 DEF OnlyMarks
<1> HIDE DEF marks
<1> QED BY <1>1, <1>2, <1>3, OnlySettles

(* Attaching the capacity operation settles. *)
LEMMA AttachedSettles ==
  ASSUME NEW t, Shape(t), NEW r \in Reqs
  PROVE  Settles(t, [t EXCEPT !.att[r].operation = TRUE])
<1> DEFINE u == [t EXCEPT !.att[r].operation = TRUE]
<1>1. OnlyMarks(t, u, r, {"operation"}) /\ u.ledger = t.ledger /\ u.att[r].operation = TRUE
  BY DEF Shape, Fields, Marks, OnlyMarks
<1> HIDE DEF u
<1>2. Settles(t, u)
  BY <1>1, MarkLemma DEF Free, Claims
<1> QED BY <1>2 DEF u

(* Pre-admission: the capacity operation. *)
LEMMA PreAdmitOperationSound == ASSUME IInv, NEW c \in Callers, PreAdmitOperation(c) PROVE Sound
<1> DEFINE r == R(c)
           t == [s EXCEPT !.att[r].operation = TRUE]
<1>1. r \in Reqs /\ calls[c].op = "operation"
  BY InLemma DEF PreAdmitOperation
<1>2. Settles(s, t) /\ Shape(s) /\ Shape(t)
  <2>1. Settles(s, t)
    BY <1>1, AttachedSettles DEF IInv
  <2> QED BY <2>1 DEF IInv, Settles
<1>3. \/ s' = FinishPreAdmission(s, r, "refused") /\ Done(c)
      \/ s' = FinishPreAdmission(t, r, "cancelled") /\ Done(c)
      \/ s' = t /\ Goto(c, "reserve")
  BY DEF PreAdmitOperation
<1> HIDE DEF r, t
<1>4. Settles(s, s')
  BY <1>1, <1>2, <1>3, FinishPreAdmissionLemma, SettlesAgain
<1>5. QuietCalls
  BY <1>1, <1>3, DoneQuiet, GotoQuiet DEF StageOps, PromoOps, SaveOps
<1> QED BY <1>4, <1>5, QuietLemma DEF PreAdmitOperation

(* Pre-admission: the reservation. *)
LEMMA PreAdmitReserveSound == ASSUME IInv, NEW c \in Callers, PreAdmitReserve(c) PROVE Sound
<1> DEFINE r == R(c)
<1>1. r \in Reqs /\ calls[c].op = "reserve" /\ Shape(s) /\ "stage" \in Files
  BY InLemma DEF PreAdmitReserve, IInv, Files
<1>2. \/ Reservable(s, r, "stage") /\ s' = Reserve(s, r, "stage") /\ Goto(c, "attach")
      \/ s' = FinishPreAdmission(s, r, "refused") /\ Done(c)
      \/ s' = FinishPreAdmission(InvalidateCapacity(s), r, "retained_uncertain") /\ Done(c)
  BY DEF PreAdmitReserve
<1> HIDE DEF r
<1>3. Settles(s, InvalidateCapacity(s)) /\ Shape(InvalidateCapacity(s))
  <2>1. Settles(s, InvalidateCapacity(s))
    BY <1>1, InvalidateLemma
  <2> QED BY <2>1 DEF Settles
<1>4. Settles(s, s')
  BY <1>1, <1>2, <1>3, FinishPreAdmissionLemma, ReserveLemma, SettlesAgain
<1>5. QuietCalls
  BY <1>1, <1>2, DoneQuiet, GotoQuiet DEF StageOps, PromoOps, SaveOps
<1> QED BY <1>4, <1>5, QuietLemma DEF PreAdmitReserve

(* Pre-admission: the reservation is attached, or late. *)
LEMMA PreAdmitAttachSound == ASSUME IInv, NEW c \in Callers, PreAdmitAttach(c) PROVE Sound
<1> DEFINE r == R(c)
           late == s.att[r].cancel \/ s.att[r].state # "preparing"
           t == [s EXCEPT !.att[r].reservation = TRUE,
                          !.att[r].state = IF late THEN "cancellation_requested" ELSE "reserved"]
           marks == {"reservation", "state"}
<1>1. r \in Reqs /\ calls[c].op = "attach" /\ Shape(s)
  BY InLemma DEF PreAdmitAttach, IInv
<1>2. \/ s' = CancelStaging(t, r) /\ Done(c)
      \/ s' = t /\ Goto(c, "preadmitted")
  BY DEF PreAdmitAttach
<1> HIDE DEF r, late
<1>3. OnlyMarks(s, t, r, marks) /\ t.ledger = s.ledger /\ marks \in SUBSET Free
      /\ \A x \in Claims : t.att[r][x] = s.att[r][x]
  BY <1>1, ZenonT(60) DEF Shape, Fields, Marks, OnlyMarks, Free, Claims
<1> HIDE DEF t, marks
<1>4. Settles(s, t) /\ Shape(t)
  BY <1>1, <1>3, OnlySettles DEF LedgerMoves, OnlyMarks
<1>5. Settles(s, s')
  BY <1>1, <1>2, <1>4, CancelStagingLemma, SettlesAgain
<1>6. QuietCalls
  BY <1>1, <1>2, DoneQuiet, GotoQuiet DEF StageOps, PromoOps, SaveOps
<1> QED BY <1>5, <1>6, QuietLemma DEF PreAdmitAttach

(* Pre-admission: its end. *)
LEMMA PreAdmitEndSound == ASSUME IInv, NEW c \in Callers, PreAdmitEnd(c) PROVE Sound
<1> DEFINE r == R(c)
           t == [s EXCEPT !.att[r].state = "pre_admitted"]
<1>1. r \in Reqs /\ calls[c].op = "preadmitted" /\ Shape(s)
  BY InLemma DEF PreAdmitEnd, IInv
<1>2. s' = t \/ s' = CancelStaging(Gate(TRUE), r)
  BY DEF PreAdmitEnd
<1> HIDE DEF r
<1>3. OnlyMarks(s, t, r, {"state"}) /\ t.ledger = s.ledger /\ {"state"} \in SUBSET Free
      /\ \A x \in Claims : t.att[r][x] = s.att[r][x]
  BY <1>1 DEF Shape, Fields, Marks, OnlyMarks, Free, Claims
<1> HIDE DEF t
<1>4. Settles(s, t)
  BY <1>1, <1>3, OnlySettles DEF LedgerMoves
<1>5. Settles(s, Gate(TRUE)) /\ Shape(Gate(TRUE))
  <2>1. Settles(s, Gate(TRUE))
    BY <1>1, GateLemma
  <2> QED BY <2>1 DEF Settles
<1>6. Settles(s, s')
  BY <1>1, <1>2, <1>4, <1>5, CancelStagingLemma, SettlesAgain
<1> QED BY <1>6, DoneQuiet, QuietLemma DEF PreAdmitEnd

-----------------------------------------------------------------------------
(* Announcing, admitting and handing over Candidates. *)

(* What the gate leaves is a settled integration. *)
LEMMA GateIs == ASSUME IInv, NEW b PROVE Settles(s, Gate(b)) /\ Shape(Gate(b))
<1>1. Settles(s, Gate(b))
  BY GateLemma DEF IInv
<1> QED BY <1>1 DEF Settles

(* The claim of the outputs-ready event. *)
LEMMA OutputsReadyBeginSound ==
  ASSUME IInv, NEW c \in Callers, NEW r \in Reqs, OutputsReadyBegin(c, r) PROVE Sound
<1>1. OnlyMarks(s, s', r, {"ready"}) /\ s'.ledger = s.ledger /\ Shape(s) /\ Shape(s')
      /\ s.att[r].ready = "none"
  BY DEF IInv, OutputsReadyBegin, MayAnnounceOutputs, Shape, Fields, Marks, OnlyMarks
<1>2. Settles(s, s')
  BY <1>1, MarkLemma DEF Free
<1>3. QuietCalls
  BY BeginQuiet DEF OutputsReadyBegin, Claim, StageOps, PromoOps, SaveOps
<1> QED BY <1>2, <1>3, QuietLemma DEF OutputsReadyBegin

(* The claim of an admission preflight. *)
LEMMA AdmissionPreflightBeginSound ==
  ASSUME IInv, NEW c \in Callers, NEW r \in Reqs, AdmissionPreflightBegin(c, r) PROVE Sound
<1>1. OnlyMarks(s, s', r, {"preflight"}) /\ s'.ledger = s.ledger /\ Shape(s) /\ Shape(s')
      /\ s.att[r].preflight = "not_started"
  BY DEF IInv, AdmissionPreflightBegin, MayPreflightAdmission, Shape, Fields, Marks, OnlyMarks
<1>2. Settles(s, s')
  BY <1>1, MarkLemma DEF Free
<1>3. QuietCalls
  BY BeginQuiet DEF AdmissionPreflightBegin, Claim, StageOps, PromoOps, SaveOps
<1> QED BY <1>2, <1>3, QuietLemma DEF AdmissionPreflightBegin

(* The claim of an admission. *)
LEMMA AdmitBeginSound ==
  ASSUME IInv, NEW c \in Callers, NEW r \in Reqs, AdmitBegin(c, r) PROVE Sound
<1>1. OnlyMarks(s, s', r, {"admission"}) /\ s'.ledger = s.ledger /\ Shape(s) /\ Shape(s')
      /\ s.att[r].admission = "not_started"
  BY DEF IInv, AdmitBegin, MayAdmitCandidates, Shape, Fields, Marks, OnlyMarks
<1>2. Settles(s, s')
  BY <1>1, MarkLemma DEF Free
<1>3. QuietCalls
  BY BeginQuiet DEF AdmitBegin, Claim, StageOps, PromoOps, SaveOps
<1> QED BY <1>2, <1>3, QuietLemma DEF AdmitBegin

(* The claim of a publication of Candidates. *)
LEMMA CandidatesBeginSound ==
  ASSUME IInv, NEW c \in Callers, NEW r \in Reqs, CandidatesBegin(c, r) PROVE Sound
<1>1. OnlyMarks(s, s', r, {"candidates"}) /\ s'.ledger = s.ledger /\ Shape(s) /\ Shape(s')
      /\ s.att[r].candidates = "not_started"
  BY DEF IInv, CandidatesBegin, MayPublishCandidates, Shape, Fields, Marks, OnlyMarks
<1>2. Settles(s, s')
  BY <1>1, MarkLemma DEF Free
<1>3. QuietCalls
  BY BeginQuiet, SameQuiet DEF CandidatesBegin, StageOps, PromoOps, SaveOps
<1> QED BY <1>2, <1>3, QuietLemma DEF CandidatesBegin

(* The outputs-ready event, sent or retained. *)
LEMMA OutputsReadyEndSound == ASSUME IInv, NEW c \in Callers, OutputsReadyEnd(c) PROVE Sound
<1> DEFINE r == R(c)
           accepted == JobAccepts(s, r, "outputs_ready")
           t == [s EXCEPT !.att[r].ready = IF accepted THEN "events_accepted" ELSE "refused",
                          !.job[r] = IF accepted THEN "outputs_ready" ELSE @]
           u == [Gate(FALSE) EXCEPT !.att[r].ready = RetainReady(@)]
<1>1. r \in Reqs /\ Done(c) /\ Files0 /\ Shape(s)
  BY InLemma DEF OutputsReadyEnd, Publish, IInv
<1>2. (s' = t /\ s.att[r].ready = "claim_in_progress") \/ s' = u
  BY DEF OutputsReadyEnd, Publish, OutputsMatch
<1>3. accepted => s.job[r] # "failed"
  BY DEF JobAccepts, Before
<1> HIDE DEF r, accepted
<1>4. CASE s' = t /\ s.att[r].ready = "claim_in_progress"
  <2> DEFINE v == [s EXCEPT !.att[r].ready = IF accepted THEN "events_accepted" ELSE "refused"]
  <2>1. OnlyMarks(s, v, r, {"ready"}) /\ v.ledger = s.ledger /\ Shape(v)
    BY <1>1 DEF Shape, Fields, Marks, OnlyMarks
  <2>2. Settles(s, v)
    <3> HIDE DEF v
    <3> QED BY <1>1, <1>4, <2>1, MarkLemma DEF Free
  <2>3. /\ Shape(t) /\ t.att = v.att /\ t.active = v.active /\ t.state = v.state /\ t.reason = v.reason
        /\ t.save = v.save /\ t.todo = v.todo /\ t.ledger = v.ledger /\ v.job = s.job
        /\ \A q \in Reqs : t.job[q] = IF q = r /\ accepted THEN "outputs_ready" ELSE s.job[q]
    BY <1>1 DEF Shape, Fields, Marks
  <2> HIDE DEF t, v
  <2>4. HostKept(v, t)
    BY <1>3, <2>3 DEF HostKept, JobKept, LeaseKept, SaveKept, Bound
  <2>5. Settles(v, t)
    BY <2>3, <2>4 DEF Settles, StageKept, PromoKept, EvidenceKept, IssueKept, MarksKept, LedgerMoves
  <2> QED BY <1>1, <1>4, <2>2, <2>5, SettlesAgain, DoneQuiet, QuietLemma
<1>5. CASE s' = u
  <2> DEFINE g == Gate(FALSE)
  <2>1. Settles(s, g) /\ Shape(g)
    BY GateIs
  <2>2. s' = [g EXCEPT !.att[r].ready = RetainReady(@)]
    BY <1>5
  <2> HIDE DEF g, u
  <2>3. OnlyMarks(g, s', r, {"ready"}) /\ s'.ledger = g.ledger /\ Shape(s')
        /\ s'.att[r].ready = RetainReady(g.att[r].ready)
    BY <1>1, <2>1, <2>2 DEF Shape, Fields, Marks, OnlyMarks
  <2>4. Settles(g, s')
    BY <1>1, <2>1, <2>3, MarkLemma DEF RetainReady, Free
  <2> QED BY <1>1, <2>1, <2>4, SettlesAgain, DoneQuiet, QuietLemma
<1> QED BY <1>2, <1>4, <1>5

(* The admission preflight, observed or retained. *)
LEMMA AdmissionPreflightEndSound == ASSUME IInv, NEW c \in Callers, AdmissionPreflightEnd(c) PROVE Sound
<1> DEFINE r == R(c)
           g == Gate(FALSE)
           t == [s EXCEPT !.att[r].preflight = "observed"]
           u == [g EXCEPT !.att[r].preflight = RetainClaim(@)]
<1>1. r \in Reqs /\ Done(c) /\ Files0 /\ Shape(s)
  BY InLemma DEF AdmissionPreflightEnd, Publish, IInv
<1>2. (s' = t /\ s.att[r].preflight = "in_progress") \/ s' = u
  BY DEF AdmissionPreflightEnd, Publish, AdmissionPreflightMatches
<1>3. Settles(s, g) /\ Shape(g)
  BY GateIs
<1> HIDE DEF r, g
<1>4. CASE s' = t /\ s.att[r].preflight = "in_progress"
  <2>1. OnlyMarks(s, s', r, {"preflight"}) /\ s'.ledger = s.ledger
    BY <1>1, <1>4 DEF Shape, Fields, Marks, OnlyMarks
  <2>2. Settles(s, s')
    BY <1>1, <1>4, <2>1, MarkLemma DEF Free
  <2> QED BY <1>1, <2>2, DoneQuiet, QuietLemma
<1>5. CASE s' = u
  <2>1. OnlyMarks(g, s', r, {"preflight"}) /\ s'.ledger = g.ledger
        /\ s'.att[r].preflight = RetainClaim(g.att[r].preflight)
    BY <1>1, <1>3, <1>5 DEF Shape, Fields, Marks, OnlyMarks
  <2>2. Settles(g, s')
    BY <1>1, <1>3, <2>1, MarkLemma DEF Free, RetainClaim
  <2> QED BY <1>1, <1>3, <2>2, SettlesAgain, DoneQuiet, QuietLemma
<1> QED BY <1>2, <1>4, <1>5

(* The admission, observed or retained. *)
LEMMA AdmitEndSound == ASSUME IInv, NEW c \in Callers, AdmitEnd(c) PROVE Sound
<1> DEFINE r == R(c)
           g == Gate(FALSE)
           t == [s EXCEPT !.att[r].admission = "observed"]
           u == [g EXCEPT !.att[r].admission = RetainClaim(@)]
<1>1. r \in Reqs /\ Done(c) /\ Files0 /\ Shape(s)
  BY InLemma DEF AdmitEnd, Publish, IInv
<1>2. (s' = t /\ s.att[r].admission = "in_progress") \/ s' = u
  BY DEF AdmitEnd, Publish
<1>3. Settles(s, g) /\ Shape(g)
  BY GateIs
<1> HIDE DEF r, g
<1>4. CASE s' = t /\ s.att[r].admission = "in_progress"
  <2>1. OnlyMarks(s, s', r, {"admission"}) /\ s'.ledger = s.ledger
    BY <1>1, <1>4 DEF Shape, Fields, Marks, OnlyMarks
  <2>2. Settles(s, s')
    BY <1>1, <1>4, <2>1, MarkLemma DEF Free
  <2> QED BY <1>1, <2>2, DoneQuiet, QuietLemma
<1>5. CASE s' = u
  <2>1. OnlyMarks(g, s', r, {"admission"}) /\ s'.ledger = g.ledger
        /\ s'.att[r].admission = RetainClaim(g.att[r].admission)
    BY <1>1, <1>3, <1>5 DEF Shape, Fields, Marks, OnlyMarks
  <2>2. Settles(g, s')
    BY <1>1, <1>3, <2>1, MarkLemma DEF Free, RetainClaim
  <2> QED BY <1>1, <1>3, <2>2, SettlesAgain, DoneQuiet, QuietLemma
<1> QED BY <1>2, <1>4, <1>5

(* The publication of Candidates ends. *)
LEMMA CandidatesEndSound == ASSUME IInv, NEW c \in Callers, CandidatesEnd(c) PROVE Sound
<1> DEFINE r == R(c)
<1>1. r \in Reqs /\ Done(c) /\ Files0 /\ Shape(s)
  BY InLemma DEF CandidatesEnd, IInv
<1>2. s' = [s EXCEPT !.att[r].candidates = IF @ = "in_progress" THEN "observed" ELSE "retained_uncertain"]
  BY DEF CandidatesEnd
<1> HIDE DEF r
<1>3. OnlyMarks(s, s', r, {"candidates"}) /\ s'.ledger = s.ledger
      /\ s'.att[r].candidates = IF s.att[r].candidates = "in_progress" THEN "observed" ELSE "retained_uncertain"
  BY <1>1, <1>2 DEF Shape, Fields, Marks, OnlyMarks
<1>4. Settles(s, s')
  BY <1>1, <1>3, MarkLemma DEF Free
<1> QED BY <1>1, <1>4, DoneQuiet, QuietLemma

-----------------------------------------------------------------------------
(* Candidates and the save. *)

TracksKept(t, u) ==
  \A q \in Reqs : /\ StageKept(t, u, q) /\ PromoKept(t, u, q) /\ EvidenceKept(t, u, q)
                  /\ IssueKept(t, u, q) /\ MarksKept(t, u, q)

(* A step about the save or the job. *)
LEMMA HostStepLemma ==
  ASSUME IInv, Shape(s'), TracksKept(s, s'), LeaseKept(s, s'), SaveSound', SavesCertainly,
         s.save = "retained_uncertain" => s'.save = "retained_uncertain",
         CallsShape', \A q \in Reqs : StageCallsKept(q) /\ PromoCallsKept(q), UNCHANGED disk
  PROVE  Sound
<1>1. ASSUME NEW q \in Reqs PROVE StageSound(q)' /\ PromoSound(q)'
  BY StageSoundKept, PromoSoundKept DEF IInv, TracksKept
<1>2. LeaseSound'
  <2>1. ASSUME NEW q \in Reqs, Bound(s'), Fresh(q)
        PROVE  /\ s'.att[q].handoff = s.att[q].handoff
               /\ s'.att[q].evidence \in {"none", "awaiting_submission", "cancelled"}
    BY <2>1 DEF IInv, LeaseSound, TracksKept, StageKept, EvidenceKept, LeaseKept
  <2> QED BY <2>1, LeaseSoundKept DEF IInv, TracksKept
<1>3. IInv'
  BY <1>1, <1>2 DEF IInv
<1>4. ASSUME NEW q \in Reqs
      PROVE  /\ \A f \in Files : s.ledger[q][f] = "uncertain" => s'.ledger[q][f] = "uncertain"
             /\ \A x \in Claims \cup {"handoff", "promotion"} :
                  s.att[q][x] = "retained_uncertain" => s'.att[q][x] = "retained_uncertain"
             /\ s.att[q].evidence = "uncertain" => s'.att[q].evidence = "uncertain"
             /\ CommitsNothing(s, s', q)
  <2>1. /\ s.ledger[q]["promo"] = "uncertain" => s'.ledger[q]["promo"] = "uncertain"
        /\ s.att[q].promotion = "retained_uncertain" => s'.att[q].promotion = "retained_uncertain"
        /\ s'.att[q].promotion \in {"private_committed", "promoted"} =>
             s'.att[q].promotion = s.att[q].promotion
    BY DEF TracksKept, PromoKept, LedgerMoves
  <2>2. /\ s.ledger[q]["stage"] = "uncertain" => s'.ledger[q]["stage"] = "uncertain"
        /\ s'.att[q].handoff = s.att[q].handoff
        /\ s.att[q].evidence = "uncertain" => s'.att[q].evidence = "uncertain"
    BY DEF TracksKept, StageKept, EvidenceKept, LedgerMoves
  <2>3. MarksKept(s, s', q)
    BY DEF TracksKept
  <2> QED BY <2>1, <2>2, <2>3 DEF MarksKept, CommitsNothing, Files
<1> QED BY <1>3, <1>4 DEF Sound, Final

(* Quiet calls keep every track. *)
LEMMA QuietTracks == ASSUME QuietCalls, NEW q PROVE StageCallsKept(q) /\ PromoCallsKept(q) /\ SaveCallsKept
BY DEF QuietCalls, StageCallsKept, PromoCallsKept, SaveCallsKept

(* The Candidates enter the Project, and the job hears of it. *)
LEMMA CandidatesAppendSound == ASSUME IInv, NEW c \in Callers, CandidatesAppend(c) PROVE Sound
<1> DEFINE r == R(c)
           g == Gate(FALSE)
           accepted == JobAccepts(s, r, "completed")
<1>1. r \in Reqs /\ calls[c].op = "candidates append" /\ Shape(s) /\ UNCHANGED <<disk, saves>>
  BY InLemma DEF CandidatesAppend, IInv
<1>2. \/ /\ Goto(c, "candidates registered") /\ gallery' = gallery \cup {r}
         /\ s' = IF accepted THEN [s EXCEPT !.job[r] = "completed"] ELSE s
      \/ Goto(c, "candidates not registered") /\ s' = s /\ UNCHANGED gallery
      \/ /\ s' = [g EXCEPT !.att[r].candidates = "retained_uncertain"]
         /\ Done(c) /\ UNCHANGED gallery
  BY DEF CandidatesAppend
<1>3. Settles(s, g) /\ Shape(g)
  BY GateIs
<1>4. accepted => s.job[r] # "failed"
  BY DEF JobAccepts, Before
<1> HIDE DEF r, g, accepted
<1>5. QuietCalls
  BY <1>1, <1>2, DoneQuiet, GotoQuiet DEF StageOps, PromoOps, SaveOps
<1>6. CASE /\ gallery' = gallery \cup {r}
           /\ s' = IF accepted THEN [s EXCEPT !.job[r] = "completed"] ELSE s
  <2>1. Alike(s, s') /\ s'.ledger = s.ledger
        /\ \A q \in Reqs : s'.job[q] = IF q = r /\ accepted THEN "completed" ELSE s.job[q]
    BY <1>1, <1>6 DEF Alike, Shape, Fields
  <2>2. TracksKept(s, s') /\ LeaseKept(s, s') /\ Shape(s') /\ SaveKept(s, s')
    BY <2>1 DEF Alike, TracksKept, StageKept, PromoKept, EvidenceKept, IssueKept, MarksKept,
                LedgerMoves, LeaseKept, SaveKept, Bound
  <2>3. SaveSound'
    <3>1. ASSUME NEW d \in Callers
          PROVE  /\ calls'[d].op \in SaveOps => s'.save \in {"claim_in_progress", "retained_uncertain"}
                 /\ calls'[d].op = "save" => saves' = 0
                 /\ calls'[d].op = "save written" => saves' = 1
      BY <1>1, <1>5, <2>1, QuietTracks DEF IInv, SaveSound, SaveCallsKept, SaveOps, Alike
    <3>2. ASSUME NEW d \in Callers, NEW e \in Callers, calls'[d].op \in SaveOps, calls'[e].op \in SaveOps
          PROVE  d = e
      BY <1>5, <3>2, QuietTracks DEF IInv, SaveSound, SaveCallsKept
    <3>3. ASSUME NEW q \in Reqs
          PROVE  /\ s'.job[q] = "completed" => q \in gallery'
                 /\ s.job[q] = "failed" => s'.job[q] = "failed"
      BY <1>4, <1>6, <2>1 DEF IInv, SaveSound
    <3> QED BY <1>1, <1>6, <2>1, <3>1, <3>2, <3>3 DEF IInv, SaveSound, Alike
  <2>4. SavesCertainly /\ (s.save = "retained_uncertain" => s'.save = "retained_uncertain")
    BY <2>1 DEF Alike, SavesCertainly
  <2> QED BY <1>1, <1>5, <2>2, <2>3, <2>4, HostStepLemma, QuietTracks DEF QuietCalls
<1>7. CASE s' = s /\ UNCHANGED gallery
  BY <1>1, <1>5, <1>7, SettlesSelf, QuietLemma DEF Files0
<1>8. CASE s' = [g EXCEPT !.att[r].candidates = "retained_uncertain"] /\ UNCHANGED gallery
  <2>1. OnlyMarks(g, s', r, {"candidates"}) /\ s'.ledger = g.ledger
        /\ s'.att[r].candidates = "retained_uncertain"
    BY <1>1, <1>3, <1>8 DEF Shape, Fields, Marks, OnlyMarks
  <2>2. Settles(g, s')
    BY <1>1, <1>3, <2>1, MarkLemma DEF Free
  <2> QED BY <1>1, <1>3, <1>5, <1>8, <2>2, SettlesAgain, QuietLemma DEF Files0
<1> QED BY <1>2, <1>6, <1>7, <1>8

(* Only the save changes. *)
LEMMA SaveTracks ==
  ASSUME IInv, NEW u, NEW x, u = [s EXCEPT !.save = x]
  PROVE  /\ Shape(u) /\ TracksKept(s, u) /\ LeaseKept(s, u) /\ u.save = x /\ u.reason = s.reason
         /\ u.job = s.job /\ u.state = s.state
<1>1. /\ Shape(u) /\ u.att = s.att /\ u.ledger = s.ledger /\ u.active = s.active /\ u.state = s.state
      /\ u.reason = s.reason /\ u.save = x /\ u.todo = s.todo /\ u.job = s.job
  BY DEF IInv, Shape, Fields
<1> QED BY <1>1 DEF TracksKept, StageKept, PromoKept, EvidenceKept, IssueKept, MarksKept,
                LedgerMoves, LeaseKept, Bound

(* The claim of the save. *)
LEMMA SaveBeginSound == ASSUME IInv, NEW c \in Callers, NEW r \in Reqs, SaveBegin(c, r) PROVE Sound
<1>1. /\ MaySave(s, r) /\ calls' = [calls EXCEPT ![c] = Call("save", r)] /\ Files0
      /\ s' = [s EXCEPT !.save = "claim_in_progress"]
  BY DEF SaveBegin, Claim
<1>2. /\ Shape(s') /\ TracksKept(s, s') /\ LeaseKept(s, s') /\ s'.save = "claim_in_progress"
      /\ s'.reason = s.reason /\ s'.job = s.job
  BY <1>1, SaveTracks
<1>3. /\ CallsShape' /\ calls'[c].op = "save" /\ calls'[c].r = r
      /\ \A d \in Callers \ {c} : calls'[d] = calls[d]
  BY <1>1, BeginLemma DEF IInv
<1>4. /\ s.save = "not_started" /\ saves = 0 /\ s.reason = "none"
      /\ \A d \in Callers : calls[d].op \notin SaveOps
      /\ \A q \in Reqs : s.job[q] = "failed" \/ q \in gallery
  BY <1>1 DEF MaySave, IInv, SaveSound, LeaseSound
<1>5. SaveSound'
  <2>1. ASSUME NEW d \in Callers
        PROVE  /\ calls'[d].op = "save written" => saves' = 1
               /\ calls'[d].op = "save" => saves' = 0
               /\ calls'[d].op \in SaveOps => d = c
    BY <1>1, <1>3, <1>4 DEF SaveOps, Files0
  <2>2. \A q \in Reqs : s'.job[q] = "completed" => q \in gallery'
    BY <1>1, <1>2 DEF IInv, SaveSound, Files0
  <2> QED BY <1>1, <1>2, <1>4, <2>1, <2>2 DEF SaveSound, Files0
<1>6. \A q \in Reqs : StageCallsKept(q) /\ PromoCallsKept(q)
  BY <1>3 DEF StageCallsKept, PromoCallsKept, StageOps, PromoOps
<1>7. SavesCertainly /\ (s.save = "retained_uncertain" => s'.save = "retained_uncertain")
  BY <1>2, <1>4 DEF SavesCertainly
<1> QED BY <1>1, <1>2, <1>3, <1>5, <1>6, <1>7, HostStepLemma DEF Files0

(* The last look before the save callback. *)
LEMMA SavePrewriteSound == ASSUME IInv, NEW c \in Callers, SavePrewrite(c) PROVE Sound
<1> DEFINE g == Gate(FALSE)
           x == IF g.save = "claim_in_progress" THEN "not_started" ELSE "retained_uncertain"
<1>1. calls[c].op = "save" /\ R(c) \in Reqs /\ UNCHANGED <<disk, gallery>> /\ calls[c].r \in Reqs
  BY InLemma DEF SavePrewrite
<1>2. \/ s' = s /\ saves' = saves + 1 /\ Goto(c, "save written")
      \/ s' = [g EXCEPT !.save = x] /\ Done(c) /\ UNCHANGED saves
  BY DEF SavePrewrite
<1>3. Settles(s, g) /\ Shape(g)
  BY GateIs
<1> HIDE DEF g
<1>4. /\ saves = 0 /\ s.save \in {"claim_in_progress", "retained_uncertain"}
      /\ \A d \in Callers \ {c} : calls[d].op \notin SaveOps
  BY <1>1 DEF IInv, SaveSound, SaveOps
<1>5. CASE s' = s /\ saves' = saves + 1 /\ Goto(c, "save written")
  <2>1. /\ CallsShape' /\ calls'[c].op = "save written"
        /\ \A d \in Callers \ {c} : calls'[d] = calls[d]
    BY <1>1, <1>5, GotoLemma DEF IInv
  <2>2. SaveSound'
    <3>1. ASSUME NEW d \in Callers PROVE calls'[d].op \in SaveOps => d = c
      BY <1>4, <2>1
    <3>2. saves' = 1
      <4>1. saves = 0 /\ saves' = saves + 1
        BY <1>4, <1>5
      <4> QED BY <4>1
    <3>3. ASSUME NEW d \in Callers
          PROVE  /\ calls'[d].op \in SaveOps => s'.save \in {"claim_in_progress", "retained_uncertain"}
                 /\ calls'[d].op = "save" => saves' = 0
                 /\ calls'[d].op = "save written" => saves' = 1
      BY <1>4, <1>5, <2>1, <3>1, <3>2 DEF SaveOps
    <3>4. /\ s.save = "claim_in_progress" =>
              s.reason # "revoked" /\ \A r \in Reqs : s.job[r] = "failed" \/ r \in gallery
          /\ \A r \in Reqs : s.job[r] = "completed" => r \in gallery
      BY DEF IInv, SaveSound
    <3> QED BY <1>1, <1>4, <1>5, <3>1, <3>3, <3>4 DEF SaveSound
  <2>3. \A q \in Reqs : StageCallsKept(q) /\ PromoCallsKept(q)
    BY <2>1 DEF StageCallsKept, PromoCallsKept, StageOps, PromoOps
  <2>4. TracksKept(s, s') /\ LeaseKept(s, s') /\ Shape(s') /\ SavesCertainly
    BY <1>5, SettlesSelf DEF IInv, Settles, TracksKept, HostKept, SavesCertainly
  <2> QED BY <1>1, <1>5, <2>1, <2>2, <2>3, <2>4, HostStepLemma
<1>6. CASE s' = [g EXCEPT !.save = x] /\ Done(c) /\ UNCHANGED saves
  <2>0. s' = [g EXCEPT !.save = x]
    BY <1>6
  <2>1. /\ s'.att = g.att /\ s'.ledger = g.ledger /\ s'.active = g.active /\ s'.state = g.state
        /\ s'.reason = g.reason /\ s'.save = x /\ s'.todo = g.todo /\ s'.job = g.job /\ DOMAIN s' = Fields
    BY <1>3, <2>0 DEF Shape, Fields
  <2>2. Shape(s')
    BY <1>3, <2>1 DEF Shape
  <2>3. TracksKept(s, s') /\ LeaseKept(s, s') /\ JobKept(s, s')
    BY <1>3, <2>1 DEF Settles, HostKept, TracksKept, StageKept, PromoKept, EvidenceKept, IssueKept,
                      MarksKept, LeaseKept, JobKept, Bound
  <2>4. /\ CallsShape' /\ calls'[c].op = "idle"
        /\ \A d \in Callers \ {c} : calls'[d] = calls[d]
    BY <1>6, DoneLemma DEF IInv
  <2>5. \A d \in Callers : calls'[d].op \notin SaveOps
    BY <1>4, <2>4 DEF SaveOps
  <2>6. SaveSound'
    <3>1. \A q \in Reqs : s'.job[q] = "completed" => q \in gallery'
      BY <1>1, <2>3 DEF IInv, SaveSound, JobKept
    <3>2. s'.save # "claim_in_progress" /\ saves' = 0
      BY <1>4, <1>6, <2>1
    <3> QED BY <2>5, <3>1, <3>2 DEF SaveSound, SaveOps
  <2>7. \A q \in Reqs : StageCallsKept(q) /\ PromoCallsKept(q)
    BY <2>4 DEF StageCallsKept, PromoCallsKept, StageOps, PromoOps
  <2>8. SavesCertainly /\ (s.save = "retained_uncertain" => s'.save = "retained_uncertain")
    BY <1>3, <2>1 DEF SavesCertainly, Settles, HostKept, SaveKept
  <2> QED BY <1>1, <2>2, <2>3, <2>4, <2>6, <2>7, <2>8, HostStepLemma
<1> QED BY <1>2, <1>5, <1>6

(* The save callback has returned. *)
LEMMA SaveEndSound == ASSUME IInv, NEW c \in Callers, SaveEnd(c) PROVE Sound
<1>1. calls[c].op = "save written" /\ Done(c) /\ Files0
  BY InLemma DEF SaveEnd
<1>2. PICK outcome \in {"saved", "save_failed", "retained_uncertain"} :
        s' = [s EXCEPT !.save = IF s.save = "claim_in_progress" THEN outcome ELSE "retained_uncertain"]
  BY DEF SaveEnd
<1>3. /\ Shape(s') /\ TracksKept(s, s') /\ LeaseKept(s, s')
      /\ s'.save = IF s.save = "claim_in_progress" THEN outcome ELSE "retained_uncertain"
      /\ s'.reason = s.reason /\ s'.job = s.job
  BY <1>2, SaveTracks
<1>4. /\ saves = 1 /\ s.save \in {"claim_in_progress", "retained_uncertain"}
      /\ \A d \in Callers \ {c} : calls[d].op \notin SaveOps
      /\ s.save = "claim_in_progress" => s.reason # "revoked"
                                         /\ \A r \in Reqs : s.job[r] = "failed" \/ r \in gallery
  BY <1>1 DEF IInv, SaveSound, SaveOps
<1>5. /\ CallsShape' /\ calls'[c].op = "idle"
      /\ \A d \in Callers \ {c} : calls'[d] = calls[d]
  BY <1>1, DoneLemma DEF IInv
<1>6. \A d \in Callers : calls'[d].op \notin SaveOps
  BY <1>4, <1>5 DEF SaveOps
<1>7. SaveSound'
  <2>1. \A q \in Reqs : s'.job[q] = "completed" => q \in gallery'
    BY <1>1, <1>3 DEF IInv, SaveSound, Files0
  <2>2. s'.save # "claim_in_progress" /\ s'.save # "not_started"
    BY <1>3
  <2> QED BY <1>6, <2>1, <2>2 DEF SaveSound, SaveOps
<1>8. \A q \in Reqs : StageCallsKept(q) /\ PromoCallsKept(q)
  BY <1>5 DEF StageCallsKept, PromoCallsKept, StageOps, PromoOps
<1>9. SavesCertainly /\ (s.save = "retained_uncertain" => s'.save = "retained_uncertain")
  BY <1>3, <1>4 DEF SavesCertainly
<1> QED BY <1>1, <1>3, <1>5, <1>7, <1>8, <1>9, HostStepLemma DEF Files0

-----------------------------------------------------------------------------
(* Evidence. *)

(* A step about the evidence of one request. *)
LEMMA EvidenceStepLemma ==
  ASSUME IInv, NEW r \in Reqs, StageMoves(s, s', r), StageKept(s, s', r), QuietCalls, Files0,
         \/ EvidenceKept(s, s', r)
         \/ /\ s.att[r].evidence # "uncertain"
            /\ \/ s.att[r].evidence \notin {"evidence_published", "revoked", "cancelled"}
               \/ /\ s.att[r].evidence # "evidence_published"
                  /\ Bound(s) \/ s'.att[r].evidence \in {"revoked", "cancelled"}
            /\ Bound(s') /\ Fresh(r) =>
                 s'.att[r].evidence \in {"none", "awaiting_submission", "cancelled"}
  PROVE  Sound
<1>1. /\ \A q \in Reqs : StageCallsKept(q) /\ PromoCallsKept(q)
      /\ SaveCallsKept
  BY QuietTracks
<1>2. Elsewhere /\ UNCHANGED disk /\ LeaseKept(s, s')
  BY DEF Files0, IInv, Elsewhere, QuietCalls, StageMoves, HostKept
<1>3. CASE EvidenceKept(s, s', r)
  <2>1. StageSound(r)'
    BY <1>1, <1>2, <1>3, StageSoundKept DEF IInv
  <2>2. StageFinal(s, s', r)
    BY <1>3 DEF StageFinal, StageKept, EvidenceKept, LedgerMoves
  <2>3. Bound(s') /\ Fresh(r) =>
           /\ s'.att[r].handoff = s.att[r].handoff
           /\ s'.att[r].evidence \in {"none", "awaiting_submission", "cancelled"}
    BY <1>2, <1>3 DEF IInv, LeaseSound, StageKept, EvidenceKept, LeaseKept
  <2> QED BY <1>1, <1>2, <2>1, <2>2, <2>3, StageStepLemma
<1>4. CASE /\ s.att[r].evidence # "uncertain"
           /\ \/ s.att[r].evidence \notin {"evidence_published", "revoked", "cancelled"}
              \/ /\ s.att[r].evidence # "evidence_published"
                 /\ Bound(s) \/ s'.att[r].evidence \in {"revoked", "cancelled"}
           /\ Bound(s') /\ Fresh(r) =>
                s'.att[r].evidence \in {"none", "awaiting_submission", "cancelled"}
  <2>0. StageSound(r)
    BY DEF IInv
  <2>1. ASSUME NEW c \in Callers, calls'[c].r = r
        PROVE  /\ HandoffAt(calls'[c].op, s'.att[r].handoff)
               /\ EntryAt(calls'[c].op, s'.ledger[r]["stage"])
               /\ calls'[c].op \in StageOps =>
                    /\ s'.att[r].evidence \in {"evidence_published", "revoked", "cancelled"}
                    /\ Bound(s') => s'.att[r].evidence = "evidence_published" /\ s'.active = NoLease
    <3>1. CASE calls'[c] = calls[c]
      <4>1. /\ HandoffAt(calls'[c].op, s'.att[r].handoff)
            /\ EntryAt(calls'[c].op, s'.ledger[r]["stage"])
        BY <2>0, <2>1, <3>1 DEF StageSound, EntryAt, StageKept, LedgerMoves, Charged
      <4>2. ASSUME calls'[c].op \in StageOps
            PROVE  s'.att[r].evidence \in {"revoked", "cancelled"} /\ ~Bound(s')
        <5>1. /\ s.att[r].evidence \in {"evidence_published", "revoked", "cancelled"}
              /\ Bound(s) => s.att[r].evidence = "evidence_published"
          BY <2>0, <2>1, <3>1, <4>2 DEF StageSound
        <5> QED BY <1>2, <1>4, <5>1 DEF LeaseKept
      <4> QED BY <4>1, <4>2
    <3>2. CASE calls'[c].op \notin StageOps \cup {"accept"}
      BY <3>2 DEF StageOps, HandoffAt, EntryAt
    <3> QED BY <1>1, <2>1, <3>1, <3>2 DEF StageCallsKept
  <2>2. ASSUME NEW c \in Callers, NEW d \in Callers, calls'[c].r = r, calls'[d].r = r,
               calls'[c].op \in StageOps, calls'[d].op \in StageOps
        PROVE  c = d
    BY <1>1, <2>0, <2>2 DEF StageSound, StageCallsKept
  <2>3. "stage" \in disk'[r] =>
         /\ s'.ledger[r]["stage"] \in Charged
         /\ s'.ledger[r]["stage"] = "writing" => s'.att[r].handoff = "create_boundary_crossed"
    BY <1>2, <2>0 DEF StageSound, StageKept, LedgerMoves, Charged
  <2>4. StageSound(r)'
    BY <2>1, <2>2, <2>3 DEF StageSound, Bound
  <2>5. StageFinal(s, s', r)
    BY <1>4 DEF StageFinal, StageKept, LedgerMoves
  <2>6. Bound(s') /\ Fresh(r) =>
           /\ s'.att[r].handoff = s.att[r].handoff
           /\ s'.att[r].evidence \in {"none", "awaiting_submission", "cancelled"}
    BY <1>4 DEF StageKept
  <2> QED BY <1>1, <1>2, <2>4, <2>5, <2>6, StageStepLemma
<1> QED BY <1>3, <1>4

(* A record that differs in the evidence, and in marks no track looks at. *)
LEMMA OnlyEvidence ==
  ASSUME NEW t, NEW u, NEW r \in Reqs, OnlyMarks(t, u, r, {"evidence", "state"}), u.ledger = t.ledger
  PROVE  StageMoves(t, u, r) /\ StageKept(t, u, r)
<1>1. HostKept(t, u)
  BY DEF OnlyMarks, HostKept, JobKept, LeaseKept, SaveKept, Bound
<1>2. ASSUME NEW q \in Reqs
      PROVE  /\ StageKept(t, u, q) /\ PromoKept(t, u, q) /\ IssueKept(t, u, q) /\ MarksKept(t, u, q)
             /\ q # r => EvidenceKept(t, u, q)
  <2>1. \A x \in Marks \ {"evidence", "state"} : u.att[q][x] = t.att[q][x]
    BY DEF OnlyMarks
  <2>2. q # r => u.att[q].evidence = t.att[q].evidence
    BY DEF OnlyMarks, Marks
  <2>3. u.todo = t.todo
    BY DEF OnlyMarks
  <2> QED BY <2>1, <2>2, <2>3 DEF StageKept, PromoKept, EvidenceKept, IssueKept, MarksKept, LedgerMoves,
                              Marks, Claims
<1> QED BY <1>1, <1>2 DEF StageMoves, OnlyMarks

(* A settling after a move is a move. *)
LEMMA MoveThenSettle ==
  ASSUME NEW t, NEW u, NEW v, NEW r \in Reqs, StageMoves(t, u, r), StageKept(t, u, r), Settles(u, v)
  PROVE  StageMoves(t, v, r) /\ StageKept(t, v, r)
<1>1. HostKept(t, v)
  BY DEF Settles, StageMoves, HostKept, JobKept, LeaseKept, SaveKept
<1>2. ASSUME NEW q \in Reqs, StageKept(t, u, q) PROVE StageKept(t, v, q)
  BY <1>2 DEF Settles, StageKept, LedgerMoves
<1>3. ASSUME NEW q \in Reqs PROVE PromoKept(t, v, q)
  BY DEF Settles, StageMoves, PromoKept, LedgerMoves
<1>4. ASSUME NEW q \in Reqs PROVE IssueKept(t, v, q) /\ MarksKept(t, v, q)
  BY DEF Settles, StageMoves, IssueKept, MarksKept
<1>5. ASSUME NEW q \in Reqs, q # r PROVE StageKept(t, v, q) /\ EvidenceKept(t, v, q)
  <2>1. EvidenceKept(t, v, q)
    BY <1>5 DEF Settles, StageMoves, EvidenceKept, HostKept, LeaseKept
  <2> QED BY <1>2, <1>5, <2>1 DEF StageMoves
<1> QED BY <1>1, <1>2, <1>3, <1>4, <1>5 DEF StageMoves, Settles

(* The claim of a pre-admission. *)
LEMMA PreAdmitBeginSound == ASSUME IInv, NEW c \in Callers, NEW r \in Reqs, PreAdmitBegin(c, r) PROVE Sound
<1>1. /\ s' = [s EXCEPT !.att[r].state = "preparing", !.att[r].evidence = "awaiting_submission"]
      /\ Bound(s) /\ s.active = <<r, "submission">> /\ Files0 /\ Shape(s)
      /\ calls' = [calls EXCEPT ![c] = Call("operation", r)]
  BY DEF PreAdmitBegin, MayPreAdmit, Claim, IInv
<1>2. OnlyMarks(s, s', r, {"evidence", "state"}) /\ s'.ledger = s.ledger
      /\ s'.att[r].evidence = "awaiting_submission"
  BY <1>1 DEF Shape, Fields, Marks, OnlyMarks
<1>3. s.att[r].evidence \in {"none", "awaiting_submission", "cancelled"}
  BY <1>1 DEF IInv, LeaseSound, Fresh
<1>4. QuietCalls
  BY <1>1, BeginQuiet DEF StageOps, PromoOps, SaveOps
<1> QED BY <1>1, <1>2, <1>3, <1>4, OnlyEvidence, EvidenceStepLemma

(* The human withdraws a pre-admission. *)
LEMMA CancelPreAdmissionSound == ASSUME IInv, NEW r \in Reqs, CancelPreAdmission(r) PROVE Sound
<1> DEFINE t == [s EXCEPT !.att[r].evidence = "cancelled"]
<1>1. /\ s' = CancelStaging(t, r) /\ Files0 /\ Shape(s) /\ UNCHANGED calls
      /\ s.att[r].evidence \notin {"uncertain", "evidence_published"}
  BY DEF CancelPreAdmission, IInv
<1>2. OnlyMarks(s, t, r, {"evidence", "state"}) /\ t.ledger = s.ledger /\ Shape(t)
      /\ t.att[r].evidence = "cancelled"
  BY <1>1 DEF Shape, Fields, Marks, OnlyMarks
<1> HIDE DEF t
<1>3. Settles(t, s')
  BY <1>1, <1>2, CancelStagingLemma
<1>4. StageMoves(s, s', r) /\ StageKept(s, s', r)
  BY <1>2, <1>3, OnlyEvidence, MoveThenSettle
<1>5. s'.att[r].evidence = "cancelled" \/ (s'.att[r].evidence = "revoked" /\ ~Bound(s'))
  BY <1>2, <1>3 DEF Settles, EvidenceKept
<1> QED BY <1>1, <1>4, <1>5, SameQuiet, EvidenceStepLemma

(* The claim of a validation. *)
LEMMA EvidenceBeginSound == ASSUME IInv, NEW c \in Callers, NEW r \in Reqs, EvidenceBegin(c, r) PROVE Sound
<1>1. /\ s' = [s EXCEPT !.att[r].evidence = "validating"]
      /\ Bound(s) /\ Files0 /\ Shape(s) /\ s.att[r].evidence = "history_observed"
      /\ calls' = [calls EXCEPT ![c] = Call("validate", r)]
  BY DEF EvidenceBegin, MayValidate, Claim, IInv
<1>2. OnlyMarks(s, s', r, {"evidence", "state"}) /\ s'.ledger = s.ledger
  BY <1>1 DEF Shape, Fields, Marks, OnlyMarks
<1>3. ~Fresh(r)
  BY <1>1 DEF IInv, LeaseSound
<1>4. QuietCalls
  BY <1>1, BeginQuiet DEF StageOps, PromoOps, SaveOps
<1> QED BY <1>1, <1>2, <1>3, <1>4, OnlyEvidence, EvidenceStepLemma

(* A validation that fails. *)
LEMMA FailEvidenceLemma ==
  ASSUME NEW t, Shape(t), NEW r \in Reqs, NEW x \in {"refused", "uncertain", "revoked"}
  PROVE  LET v == FailEvidence(t, r, x)
         IN  /\ StageMoves(t, v, r) /\ StageKept(t, v, r)
             /\ t.att[r].evidence = "validating" \/ EvidenceKept(t, v, r)
<1> DEFINE u == [t EXCEPT !.att[r].evidence = IF @ = "validating" THEN x ELSE @]
           v == FailEvidence(t, r, x)
<1>1. v = u \/ v = CancelStaging(u, r)
  BY DEF FailEvidence
<1>2. OnlyMarks(t, u, r, {"evidence", "state"}) /\ u.ledger = t.ledger /\ Shape(u)
      /\ u.att[r].evidence = IF t.att[r].evidence = "validating" THEN x ELSE t.att[r].evidence
  BY DEF Shape, Fields, Marks, OnlyMarks
<1> HIDE DEF u, v
<1>3. Settles(u, v)
  BY <1>1, <1>2, SettlesSelf, CancelStagingLemma
<1>4. StageMoves(t, v, r) /\ StageKept(t, v, r)
  BY <1>2, <1>3, OnlyEvidence, MoveThenSettle
<1>5. t.att[r].evidence = "validating" \/ EvidenceKept(t, v, r)
  BY <1>2, <1>3 DEF Settles, EvidenceKept
<1> QED BY <1>4, <1>5 DEF v

(* Evidence under validation belongs to an answered submission. *)
LEMMA NotValidatingFresh ==
  ASSUME IInv, NEW r \in Reqs, s.att[r].evidence = "validating", LeaseKept(s, s'), Bound(s')
  PROVE  ~Fresh(r)
BY DEF IInv, LeaseSound, LeaseKept

(* A validation that fails. *)
LEMMA FailEvidenceSound ==
  ASSUME IInv, NEW r \in Reqs, NEW t, Settles(s, t), NEW x \in {"refused", "uncertain", "revoked"},
         s' = FailEvidence(t, r, x), QuietCalls, Files0
  PROVE  Sound
<1>1. /\ StageMoves(t, s', r) /\ StageKept(t, s', r) /\ Shape(t)
      /\ t.att[r].evidence = "validating" \/ EvidenceKept(t, s', r)
  BY FailEvidenceLemma DEF Settles
<1>2. StageMoves(s, s', r) /\ LeaseKept(s, s')
  BY <1>1, MoveAgain DEF StageMoves, HostKept
<1>3. StageKept(s, s', r)
  BY <1>1 DEF Settles, StageKept, LedgerMoves
<1>4. CASE t.att[r].evidence = "validating"
  <2>1. s.att[r].evidence = "validating"
    BY <1>4 DEF Settles, EvidenceKept
  <2> QED BY <1>2, <1>3, <2>1, NotValidatingFresh, EvidenceStepLemma
<1>5. CASE EvidenceKept(t, s', r)
  <2>1. EvidenceKept(s, s', r)
    BY <1>1, <1>5 DEF Settles, EvidenceKept, StageMoves, HostKept, LeaseKept
  <2> QED BY <1>2, <1>3, <2>1, EvidenceStepLemma
<1> QED BY <1>1, <1>4, <1>5

(* The validation of the remote evidence. *)
LEMMA EvidenceValidateSound == ASSUME IInv, NEW c \in Callers, EvidenceValidate(c) PROVE Sound
<1>1. calls[c].op = "validate" /\ R(c) \in Reqs /\ Files0 /\ Settles(s, s)
  BY InLemma, SettlesSelf DEF EvidenceValidate, IInv
<1>2. \/ s' = s /\ Goto(c, "validated")
      \/ s' = FailEvidence(s, R(c), "refused") /\ Done(c)
      \/ s' = FailEvidence(s, R(c), "uncertain") /\ Done(c)
  BY DEF EvidenceValidate
<1>3. QuietCalls
  BY <1>1, <1>2, DoneQuiet, GotoQuiet DEF StageOps, PromoOps, SaveOps
<1> QED BY <1>1, <1>2, <1>3, QuietLemma, FailEvidenceSound

(* The evidence is published, or not. *)
LEMMA EvidenceEndSound == ASSUME IInv, NEW c \in Callers, EvidenceEnd(c) PROVE Sound
<1> DEFINE r == R(c)
           t == [s EXCEPT !.att[r].evidence = "evidence_published"]
           u == RemoteReady(t, r)
<1>1. r \in Reqs /\ Done(c) /\ Files0 /\ Shape(s) /\ Settles(s, Gate(TRUE))
  BY InLemma, GateIs DEF EvidenceEnd, IInv
<1>2. \/ s.att[r].evidence = "validating" /\ s' = u
      \/ s.att[r].evidence = "validating" /\ s' = [s EXCEPT !.att[r].evidence = "uncertain"]
      \/ s' = FailEvidence(Gate(TRUE), r, "revoked")
  BY DEF EvidenceEnd
<1> HIDE DEF r
<1>3. QuietCalls
  BY <1>1, DoneQuiet
<1>4. CASE s.att[r].evidence = "validating" /\ s' = u
  <2>1. OnlyMarks(s, t, r, {"evidence", "state"}) /\ t.ledger = s.ledger /\ Shape(t)
    BY <1>1 DEF Shape, Fields, Marks, OnlyMarks
  <2> HIDE DEF t
  <2>2. /\ Shape(u) /\ u.active = t.active /\ u.state = t.state /\ u.reason = t.reason
        /\ u.save = t.save /\ u.todo = t.todo /\ u.ledger = t.ledger
        /\ \A q \in Reqs : \A x \in Marks \ {"remote"} : u.att[q][x] = t.att[q][x]
        /\ \A q \in Reqs : u.job[q] = t.job[q] \/ (u.job[q] = "remote_outputs_ready" /\ t.job[q] = "submitted")
    BY <1>1, <2>1 DEF Shape, Fields, Marks, RemoteReady, JobAccepts, Before
  <2> HIDE DEF u
  <2>3. HostKept(t, u)
    BY <2>2 DEF HostKept, JobKept, LeaseKept, SaveKept, Bound
  <2>4. Settles(t, u)
    BY <2>2, <2>3 DEF Settles, StageKept, PromoKept, EvidenceKept, IssueKept, MarksKept, LedgerMoves,
                      Marks, Claims
  <2>5. StageMoves(s, s', r) /\ StageKept(s, s', r)
    BY <1>1, <1>4, <2>1, <2>4, OnlyEvidence, MoveThenSettle
  <2>6. LeaseKept(s, s')
    BY <2>5 DEF StageMoves, HostKept
  <2> QED BY <1>1, <1>3, <1>4, <2>5, <2>6, NotValidatingFresh, EvidenceStepLemma
<1>5. CASE s.att[r].evidence = "validating" /\ s' = [s EXCEPT !.att[r].evidence = "uncertain"]
  <2>1. OnlyMarks(s, s', r, {"evidence", "state"}) /\ s'.ledger = s.ledger
    BY <1>1, <1>5 DEF Shape, Fields, Marks, OnlyMarks
  <2>2. StageMoves(s, s', r) /\ StageKept(s, s', r)
    BY <1>1, <2>1, OnlyEvidence
  <2>3. LeaseKept(s, s')
    BY <2>2 DEF StageMoves, HostKept
  <2> QED BY <1>1, <1>3, <1>5, <2>2, <2>3, NotValidatingFresh, EvidenceStepLemma
<1>6. CASE s' = FailEvidence(Gate(TRUE), r, "revoked")
  BY <1>1, <1>3, <1>6, FailEvidenceSound
<1> QED BY <1>2, <1>4, <1>5, <1>6

-----------------------------------------------------------------------------
(* Leases. *)

(* While an operation may begin, or is in flight, nothing is being staged. *)
LEMMA NothingStaged ==
  ASSUME IInv, Bound(s),
         s.active # NoLease \/ \E r \in Reqs, k \in {"submission", "history"} : MayBeginOperation(s, r, k)
  PROVE  \A c \in Callers : calls[c].op \notin StageOps
<1> SUFFICES ASSUME NEW c \in Callers, calls[c].op \in StageOps PROVE FALSE
  OBVIOUS
<1> DEFINE q == calls[c].r
<1>1. q \in Reqs
  BY DEF IInv, CallsShape, StageOps
<1>2. StageSound(q)
  BY <1>1 DEF IInv
<1>3. /\ s.att[q].evidence = "evidence_published" /\ s.active = NoLease
      /\ HandoffAt(calls[c].op, s.att[q].handoff)
  BY <1>2 DEF StageSound
<1>4. s.att[q].handoff # "staged"
  BY <1>3 DEF HandoffAt, StageOps
<1>5. PICK r \in Reqs, k \in {"submission", "history"} : MayBeginOperation(s, r, k)
  BY <1>3
<1> QED BY <1>1, <1>3, <1>4, <1>5 DEF MayBeginOperation

(* A step about the lease, while nothing is being staged. *)
LEMMA LeaseStepLemma ==
  ASSUME IInv, Shape(s'), UNCHANGED calls, Files0, JobKept(s, s'), SaveKept(s, s'),
         \A c \in Callers : calls[c].op \notin StageOps,
         \A q \in Reqs : StageKept(s, s', q) /\ PromoKept(s, s', q),
         LeaseSound',
         \A q \in Reqs : /\ s.att[q].cancel => s'.att[q].cancel
                         /\ \A x \in Claims : s.att[q][x] = "retained_uncertain" =>
                                                s'.att[q][x] = "retained_uncertain"
                         /\ s'.att[q].acceptance = "accepted" /\ s.att[q].cancel => s.att[q].acceptance = "accepted"
                         /\ s.att[q].evidence = "uncertain" => s'.att[q].evidence = "uncertain"
  PROVE  Sound
<1>1. QuietCalls
  BY SameQuiet
<1>2. ASSUME NEW q \in Reqs PROVE StageSound(q)'
  <2>0. StageSound(q)
    BY DEF IInv
  <2>1. ASSUME NEW c \in Callers, calls'[c].r = q
        PROVE  HandoffAt(calls'[c].op, s'.att[q].handoff)
    BY <2>0, <2>1 DEF StageSound, StageKept
  <2>2. \A c \in Callers : calls'[c].op \notin StageOps
    OBVIOUS
  <2>3. "stage" \in disk'[q] =>
         /\ s'.ledger[q]["stage"] \in Charged
         /\ s'.ledger[q]["stage"] = "writing" => s'.att[q].handoff = "create_boundary_crossed"
    BY <2>0 DEF StageSound, StageKept, LedgerMoves, Charged, Files0
  <2> QED BY <2>1, <2>2, <2>3 DEF StageSound, StageOps, EntryAt
<1>3. ASSUME NEW q \in Reqs PROVE PromoSound(q)'
  BY <1>1, QuietTracks, PromoSoundKept DEF IInv, Files0
<1>4. SaveSound'
  BY <1>1, QuietTracks, SaveSoundKept DEF IInv, Files0
<1>5. IInv'
  BY <1>1, <1>2, <1>3, <1>4 DEF IInv, QuietCalls, Files0
<1>6. SavesCertainly /\ (s.save = "retained_uncertain" => s'.save = "retained_uncertain")
  BY DEF SaveKept, SavesCertainly
<1>7. ASSUME NEW q \in Reqs
      PROVE  /\ \A f \in Files : s.ledger[q][f] = "uncertain" => s'.ledger[q][f] = "uncertain"
             /\ \A x \in Claims \cup {"handoff", "promotion"} :
                  s.att[q][x] = "retained_uncertain" => s'.att[q][x] = "retained_uncertain"
             /\ CommitsNothing(s, s', q)
  <2>1. /\ s.ledger[q]["promo"] = "uncertain" => s'.ledger[q]["promo"] = "uncertain"
        /\ s.att[q].promotion = "retained_uncertain" => s'.att[q].promotion = "retained_uncertain"
        /\ s'.att[q].promotion \in {"private_committed", "promoted"} =>
             s'.att[q].promotion = s.att[q].promotion
    BY DEF PromoKept, LedgerMoves
  <2>2. /\ s.ledger[q]["stage"] = "uncertain" => s'.ledger[q]["stage"] = "uncertain"
        /\ s'.att[q].handoff = s.att[q].handoff
    BY DEF StageKept, LedgerMoves
  <2> QED BY <2>1, <2>2 DEF CommitsNothing, Files
<1> QED BY <1>5, <1>6, <1>7 DEF Sound, Final

(* An operation that begins, and what may become of it at once. *)
LEMMA BeginsLemma ==
  ASSUME IInv, NEW r \in Reqs, NEW k \in {"submission", "history"}, MayBeginOperation(s, r, k),
         UNCHANGED calls, Files0, NEW t, Settles(t, s'),
         Shape(t), JobKept(s, t), t.ledger = s.ledger, t.save = s.save, t.reason = s.reason,
         t.state = s.state, t.todo = s.todo, t.active = <<r, k>>,
         \A q \in Reqs : \A x \in Marks : (q # r \/ x \notin {"issued", "started"}) => t.att[q][x] = s.att[q][x],
         t.att[r].issued
  PROVE  Sound
<1>1. \A c \in Callers : calls[c].op \notin StageOps
  BY NothingStaged DEF MayBeginOperation
<1>2. JobKept(s, s') /\ SaveKept(s, s')
  BY DEF Settles, HostKept, JobKept, SaveKept
<1>3. ASSUME NEW q \in Reqs
      PROVE  /\ \A x \in Marks \ {"issued", "started"} : t.att[q][x] = s.att[q][x]
             /\ q # r => t.att[q].issued = s.att[q].issued
  BY DEF Marks
<1>4. ASSUME NEW q \in Reqs
      PROVE  /\ StageKept(s, s', q) /\ PromoKept(s, s', q)
             /\ s'.att[q].submitted = s.att[q].submitted
             /\ Bound(s') => s'.att[q].evidence = s.att[q].evidence
             /\ q # r => s'.att[q].issued = s.att[q].issued
             /\ s'.att[r].issued
             /\ s.att[q].evidence = "uncertain" => s'.att[q].evidence = "uncertain"
             /\ MarksKept(s, s', q)
  <2>0. StageKept(t, s', q) /\ PromoKept(t, s', q) /\ IssueKept(t, s', q) /\ IssueKept(t, s', r)
        /\ EvidenceKept(t, s', q) /\ MarksKept(t, s', q)
    BY DEF Settles
  <2>a. /\ t.att[q].handoff = s.att[q].handoff /\ t.att[q].promotion = s.att[q].promotion
        /\ t.att[q].evidence = s.att[q].evidence /\ t.att[q].submitted = s.att[q].submitted
        /\ t.att[q].cancel = s.att[q].cancel /\ t.att[q].acceptance = s.att[q].acceptance
        /\ \A x \in Claims : t.att[q][x] = s.att[q][x]
    BY <1>3 DEF Marks, Claims
  <2>1. StageKept(s, s', q)
    BY <2>0, <2>a DEF StageKept
  <2>2. PromoKept(s, s', q)
    BY <2>0, <2>a DEF PromoKept
  <2>3. MarksKept(s, s', q)
    BY <2>0, <2>a DEF MarksKept
  <2> QED BY <1>3, <2>0, <2>1, <2>2, <2>3, <2>a DEF IssueKept, EvidenceKept
<1>5. LeaseKept(t, s')
  BY DEF Settles, HostKept
<1>6. LeaseSound'
  <2>1. s'.active # NoLease => s'.att[s'.active[1]].issued
    BY <1>4, <1>5 DEF LeaseKept
  <2>2. ASSUME Bound(s')
        PROVE  /\ s'.reason = "none"
               /\ \A q \in Reqs : Fresh(q)' =>
                    /\ s'.att[q].handoff = "not_started" /\ s'.att[q].submitted = "none"
                    /\ s'.att[q].evidence \in {"none", "awaiting_submission", "cancelled"}
    <3>1. Bound(s) /\ s'.active = <<r, k>> /\ s'.reason = s.reason
      BY <1>5, <2>2 DEF LeaseKept, Bound
    <3>2. ASSUME NEW q \in Reqs, Fresh(q)' PROVE Fresh(q)
      <4>1. CASE q = r
        <5>1. k = "submission"
          BY <1>4, <3>1, <3>2, <4>1 DEF Fresh
        <5> QED BY <4>1, <5>1 DEF MayBeginOperation, Fresh
      <4>2. CASE q # r
        BY <1>4, <3>1, <3>2, <4>2 DEF Fresh
      <4> QED BY <4>1, <4>2
    <3> QED BY <1>4, <2>2, <3>1, <3>2 DEF IInv, LeaseSound, StageKept
  <2> QED BY <2>1, <2>2 DEF LeaseSound, Bound
<1> QED BY <1>1, <1>2, <1>4, <1>6, LeaseStepLemma DEF Settles, MarksKept

(* A submission begins with its event. *)
LEMMA SubmitWithEventSound == ASSUME IInv, NEW r \in Reqs, SubmitWithEvent(r) PROVE Sound
<1> DEFINE issued == [s EXCEPT !.att[r].issued = TRUE, !.active = <<r, "submission">>]
           noted == [issued EXCEPT !.job[r] = "submission_started"]
           started == [noted EXCEPT !.att[r].started = TRUE]
<1>1. /\ MayBeginOperation(s, r, "submission") /\ s.job[r] = "unsent" /\ Files0 /\ UNCHANGED calls
      /\ s' = Revoke(issued) \/ s' = started \/ s' = Revoke(noted)
      /\ Shape(s)
  BY DEF SubmitWithEvent, IInv
<1>a. <<r, "submission">> \in Leases
  BY DEF Leases
<1>2. /\ Shape(issued) /\ issued.ledger = s.ledger /\ issued.save = s.save /\ issued.reason = s.reason
      /\ issued.state = s.state /\ issued.todo = s.todo /\ issued.active = <<r, "submission">>
      /\ issued.job = s.job /\ issued.att[r].issued = TRUE
      /\ \A q \in Reqs : \A x \in Marks : (q # r \/ x # "issued") => issued.att[q][x] = s.att[q][x]
  BY <1>1, <1>a DEF Shape, Fields, Marks
<1> HIDE DEF issued
<1>3. /\ Shape(noted) /\ noted.ledger = s.ledger /\ noted.save = s.save /\ noted.reason = s.reason
      /\ noted.state = s.state /\ noted.todo = s.todo /\ noted.active = <<r, "submission">>
      /\ \A q \in Reqs : noted.job[q] = IF q = r THEN "submission_started" ELSE s.job[q]
      /\ noted.att = issued.att
  BY <1>2 DEF Shape, Fields
<1> HIDE DEF noted
<1>4. /\ Shape(started) /\ started.ledger = s.ledger /\ started.save = s.save /\ started.reason = s.reason
      /\ started.state = s.state /\ started.todo = s.todo /\ started.active = <<r, "submission">>
      /\ started.job = noted.job /\ started.att[r].issued = noted.att[r].issued
      /\ \A q \in Reqs : \A x \in Marks : (q # r \/ x # "started") => started.att[q][x] = noted.att[q][x]
  BY <1>3 DEF Shape, Fields, Marks
<1> HIDE DEF started
<1>5. JobKept(s, issued) /\ JobKept(s, noted) /\ JobKept(s, started)
  BY <1>1, <1>2, <1>3, <1>4 DEF JobKept
<1>6. CASE s' = Revoke(issued)
  BY <1>1, <1>2, <1>5, <1>6, RevokeLemma, BeginsLemma
<1>7. CASE s' = Revoke(noted)
  BY <1>1, <1>2, <1>3, <1>5, <1>7, RevokeLemma, BeginsLemma
<1>8. CASE s' = started
  <2>1. \A q \in Reqs : \A x \in Marks : (q # r \/ x \notin {"issued", "started"}) =>
          started.att[q][x] = s.att[q][x]
    BY <1>2, <1>3, <1>4
  <2> QED BY <1>1, <1>2, <1>3, <1>4, <1>5, <1>8, <2>1, SettlesSelf, BeginsLemma
<1> QED BY <1>1, <1>6, <1>7, <1>8

(* An HTTP operation begins. *)
LEMMA BeginOperationSound ==
  ASSUME IInv, NEW r \in Reqs, NEW k \in {"submission", "history"}, BeginOperation(r, k) PROVE Sound
<1>1. /\ MayBeginOperation(s, r, k) /\ Files0 /\ UNCHANGED calls /\ Shape(s)
      /\ s' = [s EXCEPT !.active = <<r, k>>, !.att[r].issued = TRUE]
  BY DEF BeginOperation, IInv
<1>a. <<r, k>> \in Leases
  BY DEF Leases
<1>2. /\ Shape(s') /\ s'.ledger = s.ledger /\ s'.save = s.save /\ s'.reason = s.reason
      /\ s'.state = s.state /\ s'.todo = s.todo /\ s'.active = <<r, k>>
      /\ s'.job = s.job /\ s'.att[r].issued = TRUE
      /\ \A q \in Reqs : \A x \in Marks : (q # r \/ x # "issued") => s'.att[q][x] = s.att[q][x]
  BY <1>1, <1>a DEF Shape, Fields, Marks
<1>3. JobKept(s, s')
  BY <1>2 DEF JobKept
<1>4. \A q \in Reqs : \A x \in Marks : (q # r \/ x \notin {"issued", "started"}) =>
        s'.att[q][x] = s.att[q][x]
  BY <1>2
<1>5. Settles(s', s') /\ s'.att[r].issued
  BY <1>2, SettlesSelf
<1> DEFINE t == s'
<1>6. /\ Settles(t, s') /\ Shape(t) /\ JobKept(s, t) /\ t.ledger = s.ledger /\ t.save = s.save
      /\ t.reason = s.reason /\ t.state = s.state /\ t.todo = s.todo /\ t.active = <<r, k>>
      /\ t.att[r].issued
      /\ \A q \in Reqs : \A x \in Marks : (q # r \/ x \notin {"issued", "started"}) => t.att[q][x] = s.att[q][x]
  BY <1>2, <1>3, <1>4, <1>5
<1> HIDE DEF t
<1> QED BY <1>1, <1>6, BeginsLemma

(* What an answer may change. *)
Observed(t, u, r) ==
  /\ Shape(u) /\ u.ledger = t.ledger /\ u.todo = t.todo /\ u.save = t.save /\ JobKept(t, u)
  /\ \A q \in Reqs : \A x \in Marks : (q # r \/ x \notin {"evidence", "submitted", "prompt"}) =>
       u.att[q][x] = t.att[q][x]
  /\ u.active \in {t.active, NoLease}
  /\ Bound(u) => Bound(t) /\ u.reason = t.reason
  /\ u.reason = "revoked" => t.reason = "revoked"

(* Observing twice observes. *)
LEMMA ObservedAgain ==
  ASSUME NEW t, NEW u, NEW v, NEW r \in Reqs, Observed(t, u, r), Observed(u, v, r)
  PROVE  Observed(t, v, r)
<1>1. JobKept(t, v)
  BY DEF Observed, JobKept
<1>2. ASSUME NEW q \in Reqs, NEW x \in Marks, q # r \/ x \notin {"evidence", "submitted", "prompt"}
      PROVE  v.att[q][x] = t.att[q][x]
  BY <1>2 DEF Observed
<1> QED BY <1>1, <1>2 DEF Observed

(* An observed result is sound. *)
LEMMA ObserveLemma ==
  ASSUME IInv, Bound(s), NEW r \in Reqs, NEW k \in {"submission", "history"}, s.active = <<r, k>>,
         UNCHANGED calls, Files0, Observed(s, s', r), Bound(s') => s'.active = NoLease,
         k = "history" =>
           /\ s.att[r].evidence = "uncertain" => s'.att[r].evidence = "uncertain"
           /\ s'.att[r].submitted = s.att[r].submitted
  PROVE  Sound
<1>1. \A c \in Callers : calls[c].op \notin StageOps
  BY NothingStaged DEF NoLease
<1>2. s.att[r].issued
  <2>1. s.active # NoLease /\ s.active[1] = r
    BY DEF NoLease
  <2> QED BY <2>1 DEF IInv, LeaseSound
<1>3. k = "submission" => s.att[r].evidence # "uncertain" /\ s.att[r].submitted = "none"
  BY DEF IInv, LeaseSound, Fresh
<1>4. ASSUME NEW q \in Reqs
      PROVE  /\ \A x \in Marks \ {"evidence", "submitted", "prompt"} : s'.att[q][x] = s.att[q][x]
             /\ q # r => \A x \in Marks : s'.att[q][x] = s.att[q][x]
  BY DEF Observed
<1>5. ASSUME NEW q \in Reqs
      PROVE  /\ s'.att[q].handoff = s.att[q].handoff /\ s'.att[q].promotion = s.att[q].promotion
             /\ s'.att[q].issued = s.att[q].issued /\ s'.att[q].cancel = s.att[q].cancel
             /\ s'.att[q].acceptance = s.att[q].acceptance
             /\ \A x \in Claims \ {"submitted"} : s'.att[q][x] = s.att[q][x]
             /\ q # r => s'.att[q].evidence = s.att[q].evidence /\ s'.att[q].submitted = s.att[q].submitted
  BY <1>4 DEF Marks, Claims
<1>6. ASSUME NEW q \in Reqs PROVE StageKept(s, s', q) /\ PromoKept(s, s', q)
  BY <1>5 DEF Observed, StageKept, PromoKept, LedgerMoves
<1>7. ASSUME NEW q \in Reqs
      PROVE  /\ s.att[q].cancel => s'.att[q].cancel
             /\ \A x \in Claims : s.att[q][x] = "retained_uncertain" => s'.att[q][x] = "retained_uncertain"
             /\ s'.att[q].acceptance = "accepted" => s.att[q].acceptance = "accepted"
             /\ s.att[q].evidence = "uncertain" => s'.att[q].evidence = "uncertain"
  <2>1. s.att[q].submitted = "retained_uncertain" => s'.att[q].submitted = "retained_uncertain"
    BY <1>3, <1>5
  <2>2. s.att[q].evidence = "uncertain" => s'.att[q].evidence = "uncertain"
    BY <1>3, <1>5
  <2> QED BY <1>5, <2>1, <2>2
<1>8. LeaseSound'
  <2>1. s'.active # NoLease => s'.att[s'.active[1]].issued
    <3>1. s'.active # NoLease => s'.active[1] = r
      BY DEF Observed
    <3> QED BY <1>2, <1>5, <3>1
  <2>2. ASSUME Bound(s')
        PROVE  /\ s'.reason = "none"
               /\ \A q \in Reqs : Fresh(q)' =>
                    /\ s'.att[q].handoff = "not_started" /\ s'.att[q].submitted = "none"
                    /\ s'.att[q].evidence \in {"none", "awaiting_submission", "cancelled"}
    <3>1. Bound(s) /\ s'.active = NoLease /\ s'.reason = s.reason
      BY <2>2 DEF Observed
    <3>2. ASSUME NEW q \in Reqs, Fresh(q)' PROVE Fresh(q) /\ q # r
      BY <1>2, <1>5, <3>1, <3>2 DEF Fresh, NoLease
    <3> QED BY <1>5, <3>1, <3>2 DEF IInv, LeaseSound
  <2> QED BY <2>1, <2>2 DEF LeaseSound, Bound
<1>9. JobKept(s, s') /\ SaveKept(s, s') /\ Shape(s')
  BY DEF Observed, SaveKept
<1> QED BY <1>1, <1>6, <1>7, <1>8, <1>9, LeaseStepLemma

(* A lease with an unknown outcome. *)
LEMMA LeaseUncertainLemma ==
  ASSUME NEW t, Shape(t), NEW r \in Reqs
  PROVE  LET u == LeaseUncertain(t, r)
         IN  /\ Observed(t, u, r) /\ ~Bound(u) /\ u.att[r].submitted = t.att[r].submitted
             /\ u.att[r].evidence \in {t.att[r].evidence, "uncertain"}
<1> DEFINE u == LeaseUncertain(t, r)
<1>1. /\ Shape(u) /\ u.ledger = t.ledger /\ u.todo = t.todo /\ u.save = t.save /\ u.job = t.job
      /\ u.active = t.active /\ u.state = "uncertain"
      /\ u.reason = IF t.reason = "none" THEN "uncertain" ELSE t.reason
      /\ u.att[r].evidence \in {t.att[r].evidence, "uncertain"}
  BY DEF Shape, Fields, Marks, LeaseUncertain
<1>2. \A q \in Reqs : \A x \in Marks : q # r \/ x # "evidence" => u.att[q][x] = t.att[q][x]
  BY DEF Shape, Fields, Marks, LeaseUncertain
<1> HIDE DEF u
<1>3. "submitted" \in Marks
  BY DEF Marks
<1> QED BY <1>1, <1>2, <1>3 DEF Observed, JobKept, Bound, u

(* A submission event with an unknown outcome. *)
LEMMA SubmittedUncertainLemma ==
  ASSUME NEW t, Shape(t), NEW r \in Reqs
  PROVE  LET u == SubmittedUncertain(t, r)
         IN  /\ Observed(t, u, r) /\ u.active = t.active /\ u.att[r].evidence = t.att[r].evidence
             /\ Bound(u) => Bound(t)
<1> DEFINE u == SubmittedUncertain(t, r)
<1>1. CASE ~t.att[r].started
  <2>1. u = t
    BY <1>1 DEF SubmittedUncertain
  <2> QED BY <2>1 DEF Observed, JobKept
<1>2. CASE t.att[r].started
  <2>1. u = [t EXCEPT !.att[r].submitted = "retained_uncertain", !.leases = @ \cup {<<r, "submission">>},
                 !.state = IF @ = "bound" THEN "uncertain" ELSE @,
                 !.reason = IF @ = "none" THEN "uncertain" ELSE @]
    BY <1>2 DEF SubmittedUncertain
  <2> HIDE DEF u
  <2>2. /\ Shape(u) /\ u.ledger = t.ledger /\ u.todo = t.todo /\ u.save = t.save /\ u.job = t.job
        /\ u.active = t.active /\ u.state # "bound"
        /\ u.reason = IF t.reason = "none" THEN "uncertain" ELSE t.reason
    BY <2>1 DEF Shape, Fields, Marks
  <2>3. \A q \in Reqs : \A x \in Marks : q # r \/ x # "submitted" => u.att[q][x] = t.att[q][x]
    BY <2>1 DEF Shape, Fields, Marks
  <2>4. "evidence" \in Marks
    BY DEF Marks
  <2> QED BY <2>2, <2>3, <2>4 DEF Observed, JobKept, Bound, u
<1> QED BY <1>1, <1>2

(* The answer to a submission. *)
LEMMA SubmissionLemma ==
  ASSUME IInv, Bound(s), NEW r \in Reqs, s.active = <<r, "submission">>, UNCHANGED calls, Files0,
         NEW t, Observed(s, t, r), t.active = NoLease \/ ~Bound(t),
         s' = t \/ s' = SubmittedUncertain(t, r)
  PROVE  Sound
<1>1. Shape(t)
  BY DEF Observed
<1>2. Observed(s, s', r) /\ (Bound(s') => s'.active = NoLease)
  BY <1>1, SubmittedUncertainLemma, ObservedAgain
<1> QED BY <1>2, ObserveLemma

(* An accepted submission. *)
LEMMA SubmissionAcceptedSound ==
  ASSUME IInv, Bound(s), NEW r \in Reqs, s.active = <<r, "submission">>, UNCHANGED calls, Files0,
         s' = SubmissionAccepted(r)
  PROVE  Sound
<1> DEFINE a == s.att[r]
           t == [s EXCEPT !.active = NoLease, !.att[r].prompt = TRUE,
                          !.att[r].evidence = IF a.state = "none" THEN @ ELSE "submission_accepted"]
           v == [s EXCEPT !.att[r].prompt = TRUE]
           w == [t EXCEPT !.att[r].submitted = "events_accepted", !.job[r] = "submitted"]
<1>1. \/ s' = SubmittedUncertain(LeaseUncertain(v, r), r)
      \/ s' = t \/ s' = SubmittedUncertain(t, r)
      \/ s' = w /\ s.job[r] = "submission_started"
  BY DEF SubmissionAccepted, JobAccepts, Before
<1>0. Shape(s) /\ NoLease \in Leases
  BY DEF IInv, Leases
<1>2. Observed(s, t, r) /\ t.active = NoLease /\ t.job = s.job
  <2>1. /\ Shape(t) /\ t.ledger = s.ledger /\ t.todo = s.todo /\ t.save = s.save /\ t.job = s.job
        /\ t.active = NoLease /\ t.state = s.state /\ t.reason = s.reason
    BY <1>0 DEF Shape, Fields, Marks
  <2>2. \A q \in Reqs : \A x \in Marks : (q # r \/ x \notin {"evidence", "prompt"}) => t.att[q][x] = s.att[q][x]
    BY <1>0 DEF Shape, Fields, Marks
  <2> HIDE DEF t
  <2> QED BY <2>1, <2>2 DEF Observed, JobKept, Bound
<1>3. Observed(s, v, r) /\ Shape(v)
  <2>1. /\ Shape(v) /\ v.ledger = s.ledger /\ v.todo = s.todo /\ v.save = s.save /\ v.job = s.job
        /\ v.active = s.active /\ v.state = s.state /\ v.reason = s.reason
    BY <1>0 DEF Shape, Fields, Marks
  <2>2. \A q \in Reqs : \A x \in Marks : q # r \/ x # "prompt" => v.att[q][x] = s.att[q][x]
    BY <1>0 DEF Shape, Fields, Marks
  <2> HIDE DEF v
  <2> QED BY <2>1, <2>2 DEF Observed, JobKept, Bound
<1> HIDE DEF t, v
<1>4. CASE s' = SubmittedUncertain(LeaseUncertain(v, r), r)
  <2>1. Observed(s, LeaseUncertain(v, r), r) /\ ~Bound(LeaseUncertain(v, r))
    BY <1>3, LeaseUncertainLemma, ObservedAgain
  <2> QED BY <1>4, <2>1, SubmissionLemma
<1>5. CASE s' = t \/ s' = SubmittedUncertain(t, r)
  BY <1>2, <1>5, SubmissionLemma
<1>6. CASE s' = w /\ s.job[r] = "submission_started"
  <2>0. Shape(t)
    BY <1>2 DEF Observed
  <2>1. /\ Shape(w) /\ w.ledger = t.ledger /\ w.todo = t.todo /\ w.save = t.save
        /\ w.active = NoLease /\ w.state = t.state /\ w.reason = t.reason
        /\ \A q \in Reqs : w.job[q] = IF q = r THEN "submitted" ELSE s.job[q]
    BY <1>2, <2>0 DEF Shape, Fields, Marks
  <2>2. \A q \in Reqs : \A x \in Marks : q # r \/ x # "submitted" => w.att[q][x] = t.att[q][x]
    BY <2>0 DEF Shape, Fields, Marks
  <2> HIDE DEF w
  <2>3. Observed(t, w, r)
    BY <1>2, <1>6, <2>1, <2>2 DEF Observed, JobKept, Bound
  <2> QED BY <1>2, <1>6, <2>1, <2>3, ObservedAgain, SubmissionLemma
<1> QED BY <1>1, <1>4, <1>5, <1>6

(* The result of an HTTP operation. *)
LEMMA ObserveResultSound == ASSUME IInv, ObserveResult PROVE Sound
<1> DEFINE r == s.active[1]
           submission == s.active[2] = "submission"
           rejected == [s EXCEPT !.active = NoLease,
                             !.att[r].evidence = IF s.att[r].state = "none" THEN @
                                                 ELSE "submission_rejected",
                             !.att[r].submitted = IF s.att[r].started THEN "submission_rejected" ELSE @]
           cleared == [s EXCEPT !.active = NoLease]
           late == [LeaseUncertain(s, r) EXCEPT !.att[r].evidence = "uncertain"]
           ready == [s EXCEPT !.active = NoLease, !.att[r].evidence = "history_observed"]
<1>1. UNCHANGED calls /\ Files0 /\ s.active # NoLease /\ Shape(s) /\ NoLease \in Leases
  BY DEF ObserveResult, IInv, Leases
<1>2. /\ r \in Reqs
      /\ s.active = <<r, "submission">> \/ s.active = <<r, "history">>
      /\ submission <=> s.active = <<r, "submission">>
  BY <1>1 DEF Shape, Leases
<1>3. \/ s' = Gate(TRUE) \/ s' = Revoke(s)
      \/ /\ Bound(s)
         /\ \/ submission /\ s' = SubmissionAccepted(r)
            \/ submission /\ s' = rejected
            \/ submission /\ s' = SubmittedUncertain(LeaseUncertain(s, r), r)
            \/ ~submission /\ s' = HistoryReady(r)
            \/ ~submission /\ s' = cleared
            \/ ~submission /\ s' = LeaseUncertain(s, r)
  BY DEF ObserveResult
<1>4. CASE s' = Gate(TRUE) \/ s' = Revoke(s)
  BY <1>1, <1>4, GateLemma, RevokeLemma, QuietLemma, SameQuiet
<1>5. CASE Bound(s) /\ submission /\ s' = SubmissionAccepted(r)
  BY <1>1, <1>2, <1>5, SubmissionAcceptedSound
<1>6. CASE Bound(s) /\ submission /\ s' = rejected
  <2>0. s.active = <<r, "submission">>
    BY <1>2, <1>6
  <2>1. s' = rejected
    BY <1>6
  <2> HIDE DEF r, submission
  <2>2. /\ Shape(s') /\ s'.ledger = s.ledger /\ s'.todo = s.todo /\ s'.save = s.save /\ s'.job = s.job
        /\ s'.active = NoLease /\ s'.state = s.state /\ s'.reason = s.reason
    BY <1>1, <1>2, <2>1 DEF Shape, Fields, Marks
  <2>3. \A q \in Reqs : \A x \in Marks : (q # r \/ x \notin {"evidence", "submitted"}) =>
          s'.att[q][x] = s.att[q][x]
    BY <1>1, <1>2, <2>1 DEF Shape, Fields, Marks
  <2>4. Observed(s, s', r)
    <3> HIDE DEF rejected
    <3> QED BY <2>2, <2>3 DEF Observed, JobKept, Bound
  <2> QED BY <1>1, <1>2, <1>6, <2>0, <2>2, <2>4, ObserveLemma
<1>7. CASE Bound(s) /\ submission /\ s' = SubmittedUncertain(LeaseUncertain(s, r), r)
  BY <1>1, <1>2, <1>7, LeaseUncertainLemma, SubmissionLemma
<1>c. /\ Observed(s, cleared, r) /\ cleared.active = NoLease /\ cleared.att = s.att
  <2> HIDE DEF r, submission
  <2>1. /\ Shape(cleared) /\ cleared.ledger = s.ledger /\ cleared.todo = s.todo /\ cleared.save = s.save
        /\ cleared.job = s.job /\ cleared.active = NoLease /\ cleared.state = s.state
        /\ cleared.reason = s.reason /\ cleared.att = s.att
    BY <1>1 DEF Shape, Fields
  <2> HIDE DEF cleared
  <2> QED BY <2>1 DEF Observed, JobKept, Bound
<1>8. CASE Bound(s) /\ ~submission /\ s' = cleared
  <2> HIDE DEF cleared
  <2> QED BY <1>1, <1>2, <1>8, <1>c, ObserveLemma
<1>9. CASE Bound(s) /\ ~submission /\ s' = LeaseUncertain(s, r)
  <2>1. /\ Observed(s, s', r) /\ ~Bound(s') /\ s'.att[r].submitted = s.att[r].submitted
        /\ s'.att[r].evidence \in {s.att[r].evidence, "uncertain"}
    BY <1>1, <1>2, <1>9, LeaseUncertainLemma
  <2> QED BY <1>1, <1>2, <1>9, <2>1, ObserveLemma
<1>10. CASE Bound(s) /\ ~submission /\ s' = HistoryReady(r)
  <2>1. \/ s' = cleared
        \/ s' = late
        \/ s' = ready /\ s.att[r].evidence = "submission_accepted"
    BY <1>10 DEF HistoryReady
  <2>2. CASE s' = cleared
    BY <1>8, <1>10, <2>2
  <2>3. CASE s' = late
    <3> DEFINE u == LeaseUncertain(s, r)
    <3>1. Observed(s, u, r) /\ ~Bound(u) /\ u.att[r].submitted = s.att[r].submitted /\ Shape(u)
      <4>1. Observed(s, u, r) /\ ~Bound(u) /\ u.att[r].submitted = s.att[r].submitted
        BY <1>1, <1>2, LeaseUncertainLemma
      <4> QED BY <4>1 DEF Observed
    <3>2. s' = [u EXCEPT !.att[r].evidence = "uncertain"]
      BY <2>3
    <3> HIDE DEF u, r, submission
    <3>3. /\ Shape(s') /\ s'.ledger = u.ledger /\ s'.todo = u.todo /\ s'.save = u.save /\ s'.job = u.job
          /\ s'.active = u.active /\ s'.state = u.state /\ s'.reason = u.reason
          /\ s'.att[r].evidence = "uncertain"
      BY <1>2, <3>1, <3>2 DEF Shape, Fields, Marks
    <3>4. \A q \in Reqs : \A x \in Marks : q # r \/ x # "evidence" => s'.att[q][x] = u.att[q][x]
      BY <1>2, <3>1, <3>2 DEF Shape, Fields, Marks
    <3>5. Observed(u, s', r) /\ ~Bound(s') /\ s'.att[r].submitted = u.att[r].submitted
      <4>1. "submitted" \in Marks
        BY DEF Marks
      <4> QED BY <1>2, <3>1, <3>3, <3>4, <4>1 DEF Observed, JobKept, Bound
    <3> QED BY <1>1, <1>2, <1>10, <3>1, <3>3, <3>5, ObservedAgain, ObserveLemma
  <2>4. CASE s' = ready /\ s.att[r].evidence = "submission_accepted"
    <3>0. s' = ready
      BY <2>4
    <3> HIDE DEF r, submission
    <3>1. /\ Shape(s') /\ s'.ledger = s.ledger /\ s'.todo = s.todo /\ s'.save = s.save /\ s'.job = s.job
          /\ s'.active = NoLease /\ s'.state = s.state /\ s'.reason = s.reason
      BY <1>1, <1>2, <3>0 DEF Shape, Fields, Marks
    <3>2. \A q \in Reqs : \A x \in Marks : q # r \/ x # "evidence" => s'.att[q][x] = s.att[q][x]
      BY <1>1, <1>2, <3>0 DEF Shape, Fields, Marks
    <3> HIDE DEF ready
    <3>3. Observed(s, s', r) /\ s'.att[r].submitted = s.att[r].submitted
      <4>1. "submitted" \in Marks
        BY DEF Marks
      <4> QED BY <1>2, <3>1, <3>2, <4>1 DEF Observed, JobKept, Bound
    <3> QED BY <1>1, <1>2, <1>10, <2>4, <3>1, <3>3, ObserveLemma
  <2> QED BY <2>1, <2>2, <2>3, <2>4
<1> QED BY <1>3, <1>4, <1>5, <1>6, <1>7, <1>8, <1>9, <1>10

-----------------------------------------------------------------------------
(* Promotion. *)

(* A record that differs in one request's promotion and its file's entry. *)
LEMMA OnlyPromotion ==
  ASSUME NEW t, NEW u, NEW r \in Reqs, OnlyMarks(t, u, r, {"promotion"}), OnlyEntry(t, u, r, "promo")
  PROVE  PromoMoves(t, u, r)
<1>1. HostKept(t, u)
  BY DEF OnlyMarks, HostKept, JobKept, LeaseKept, SaveKept, Bound
<1>2. ASSUME NEW q \in Reqs
      PROVE  /\ StageKept(t, u, q) /\ EvidenceKept(t, u, q) /\ IssueKept(t, u, q) /\ MarksKept(t, u, q)
             /\ q # r => PromoKept(t, u, q)
  <2>1. \A x \in Marks \ {"promotion"} : u.att[q][x] = t.att[q][x]
    BY DEF OnlyMarks
  <2>2. q # r => u.att[q].promotion = t.att[q].promotion
    BY DEF OnlyMarks, Marks
  <2>3. u.todo = t.todo
    BY DEF OnlyMarks
  <2>4. u.ledger[q]["stage"] = t.ledger[q]["stage"] /\ (q # r => u.ledger[q]["promo"] = t.ledger[q]["promo"])
    BY DEF OnlyEntry, Files
  <2> QED BY <2>1, <2>2, <2>3, <2>4 DEF StageKept, PromoKept, EvidenceKept, IssueKept, MarksKept,
                                        LedgerMoves, Marks, Claims
<1> QED BY <1>1, <1>2 DEF PromoMoves, OnlyMarks

(* A reservation given back while no call is about it. *)
LEMMA PromoReturned ==
  ASSUME IInv, NEW r \in Reqs, PromoMoves(s, s', r), UNCHANGED calls, Files0,
         \A c \in Callers : calls[c].r = r => calls[c].op \notin PromoOps,
         s.att[r].promotion \in {"reserved", "cancellation_requested", "cancelled", "retained_uncertain"},
         IF s.att[r].promotion \in {"reserved", "cancellation_requested"}
         THEN s'.att[r].promotion \in {"cancelled", "retained_uncertain"}
         ELSE s'.att[r].promotion = s.att[r].promotion,
         LedgerMoves(s.ledger[r]["promo"], s'.ledger[r]["promo"]), s'.todo \subseteq s.todo
  PROVE  Sound
<1>1. PromoSound(r)
  BY DEF IInv
<1>2. ASSUME NEW c \in Callers, calls'[c].r = r
      PROVE  /\ PromotionAt(calls'[c].op, s'.att[r].promotion)
             /\ calls'[c].op \notin PromoOps
  <2>1. calls[c].op = "publish promotion" => s.att[r].promotion = "retained_uncertain"
    BY <1>1, <1>2 DEF PromoSound, PromotionAt, Done3
  <2> QED BY <1>2, <2>1 DEF PromotionAt, PromoOps, Done3
<1>3. "promo" \in disk'[r] =>
       /\ s'.ledger[r]["promo"] \in Charged
       /\ s'.ledger[r]["promo"] = "writing" => s'.att[r].promotion = "may_have_created"
  BY <1>1 DEF PromoSound, LedgerMoves, Charged, Files0
<1>4. /\ <<r, "promotion">> \in s'.todo =>
            s'.att[r].promotion \in {"cancellation_requested", "cancelled", "retained_uncertain"}
      /\ <<r, "publication">> \in s'.todo => s'.att[r].promotion \in Done3
  BY <1>1 DEF PromoSound, Done3
<1>5. PromoSound(r)'
  BY <1>2, <1>3, <1>4 DEF PromoSound, PromoOps
<1>6. PromoFinal(s, s', r)
  BY DEF PromoFinal, LedgerMoves
<1>7. Elsewhere /\ UNCHANGED disk
  BY SameQuiet DEF Files0, IInv, Elsewhere, QuietCalls
<1> QED BY <1>5, <1>6, <1>7, SameQuiet, QuietTracks, PromoStepLemma

(* The human withdraws a promotion. *)
LEMMA CancelPromotionPreflightSound ==
  ASSUME IInv, NEW r \in Reqs, CancelPromotionPreflight(r) PROVE Sound
<1> DEFINE t == [s EXCEPT !.att[r].promotion = "cancellation_requested"]
<1>1. /\ s.att[r].promotion = "reserved" /\ s' = CancelPromotion(t, r) /\ Shape(s)
      /\ UNCHANGED calls /\ Files0
  BY DEF CancelPromotionPreflight, IInv
<1>2. /\ OnlyMarks(s, t, r, {"promotion"}) /\ t.ledger = s.ledger /\ Shape(t)
      /\ t.att[r].promotion = "cancellation_requested"
  BY <1>1 DEF Shape, Fields, Marks, OnlyMarks
<1> HIDE DEF t
<1>3. /\ OnlyMarks(t, s', r, {"promotion"}) /\ OnlyEntry(t, s', r, "promo")
      /\ LedgerMoves(t.ledger[r]["promo"], s'.ledger[r]["promo"])
      /\ s'.att[r].promotion \in {"cancelled", "retained_uncertain"}
  BY <1>1, <1>2, CancelPromotionLemma
<1>4. OnlyMarks(s, s', r, {"promotion"}) /\ OnlyEntry(s, s', r, "promo") /\ s'.todo = s.todo
  BY <1>2, <1>3 DEF OnlyMarks, OnlyEntry
<1>5. \A c \in Callers : calls[c].r = r => calls[c].op \notin PromoOps
  BY <1>1 DEF IInv, PromoSound, PromotionAt, PromoOps
<1> QED BY <1>1, <1>2, <1>3, <1>4, <1>5, OnlyPromotion, PromoReturned

(* A revocation releases what it let go of. *)
LEMMA ReleaseRevokedSound == ASSUME IInv, ReleaseRevoked PROVE Sound
<1>1. PICK item \in s.todo : s' = Release(s, item) /\ UNCHANGED calls /\ Files0
  BY DEF ReleaseRevoked
<1> DEFINE r == item[1]
           t == [s EXCEPT !.todo = @ \ {item}]
<1>2. /\ Shape(s) /\ r \in Reqs
      /\ \/ item = <<r, "staging">> \/ item = <<r, "promotion">> \/ item = <<r, "publication">>
  <2>1. Shape(s)
    BY DEF IInv
  <2>2. item \in Reqs \X {"staging", "promotion", "publication"}
    BY <2>1 DEF Shape, Items
  <2> QED BY <2>1, <2>2
<1>3. /\ Alike(s, t) /\ t.job = s.job /\ t.ledger = s.ledger /\ Shape(t)
      /\ t.att = s.att /\ t.todo \subseteq s.todo
  BY <1>2 DEF Alike, Shape, Fields
<1>4. /\ item[2] = "staging" => s' = CancelStaging(t, r)
      /\ item[2] = "promotion" => s' = CancelPromotion(t, r)
      /\ item[2] = "publication" => s' = RetainPublication(t, r)
  BY <1>1 DEF Release
<1> HIDE DEF r, t
<1>5. Settles(s, t)
  BY <1>2, <1>3, AlikeSettles DEF LedgerMoves
<1>6. CASE item = <<r, "staging">>
  BY <1>1, <1>2, <1>3, <1>4, <1>5, <1>6, CancelStagingLemma, SettlesAgain, SameQuiet, QuietLemma
<1>7. CASE item = <<r, "publication">>
  <2>1. s.att[r].promotion \in Done3
    BY <1>1, <1>2, <1>7 DEF IInv, PromoSound
  <2>2. Settles(t, s')
    BY <1>2, <1>3, <1>4, <1>7, <2>1, RetainPublicationLemma
  <2> QED BY <1>1, <1>5, <2>2, SettlesAgain, SameQuiet, QuietLemma
<1>8. CASE item = <<r, "promotion">>
  <2>1. /\ s.att[r].promotion \in {"cancellation_requested", "cancelled", "retained_uncertain"}
        /\ \A c \in Callers : calls[c].r = r => calls[c].op \notin PromoOps
    BY <1>1, <1>2, <1>8 DEF IInv, PromoSound
  <2>2. /\ OnlyMarks(t, s', r, {"promotion"}) /\ OnlyEntry(t, s', r, "promo")
        /\ LedgerMoves(t.ledger[r]["promo"], s'.ledger[r]["promo"])
        /\ IF t.att[r].promotion \notin {"reserved", "cancellation_requested"}
           THEN s'.att[r].promotion = t.att[r].promotion
           ELSE s'.att[r].promotion \in {"cancelled", "retained_uncertain"}
    BY <1>2, <1>3, <1>4, <1>8, CancelPromotionLemma
  <2>3. PromoMoves(s, s', r) /\ s'.todo \subseteq s.todo
    BY <1>2, <1>3, <1>5, <2>2, OnlyPromotion, MoveAgain DEF OnlyMarks
  <2> QED BY <1>1, <1>2, <1>3, <2>1, <2>2, <2>3, PromoReturned
<1> QED BY <1>2, <1>6, <1>7, <1>8

(* What the call that is promoting a request knows. *)
LEMMA OwnPromo ==
  ASSUME IInv, NEW c \in Callers, calls[c].op \in PromoOps, NEW r, r = calls[c].r
  PROVE  /\ r \in Reqs /\ PromotionAt(calls[c].op, s.att[r].promotion)
         /\ s.att[r].promotion \in {"in_progress", "cancellation_requested", "claiming", "admitting",
                                    "admitted", "may_have_created"}
         /\ calls[c].op = "promote file" => s.ledger[r]["promo"] \in Charged
         /\ <<r, "promotion">> \notin s.todo /\ <<r, "publication">> \notin s.todo
         /\ \A d \in Callers \ {c} : calls[d].r = r => calls[d].op \notin PromoOps \cup {"publish promotion"}
         /\ "promo" \in disk[r] =>
              /\ s.ledger[r]["promo"] \in Charged
              /\ s.ledger[r]["promo"] = "writing" => s.att[r].promotion = "may_have_created"
<1>1. r \in Reqs
  BY DEF IInv, CallsShape, PromoOps
<1>2. PromoSound(r)
  BY <1>1 DEF IInv
<1>3. /\ PromotionAt(calls[c].op, s.att[r].promotion) /\ <<r, "promotion">> \notin s.todo
      /\ calls[c].op = "promote file" => s.ledger[r]["promo"] \in Charged
      /\ "promo" \in disk[r] =>
              /\ s.ledger[r]["promo"] \in Charged
              /\ s.ledger[r]["promo"] = "writing" => s.att[r].promotion = "may_have_created"
  BY <1>2 DEF PromoSound
<1>4. s.att[r].promotion \in {"in_progress", "cancellation_requested", "claiming", "admitting",
                              "admitted", "may_have_created"}
  BY <1>3 DEF PromotionAt, PromoOps
<1>5. <<r, "publication">> \notin s.todo
  BY <1>2, <1>4 DEF PromoSound, Done3
<1>6. ASSUME NEW d \in Callers \ {c}, calls[d].r = r
      PROVE  calls[d].op \notin PromoOps \cup {"publish promotion"}
  <2>1. calls[d].op \notin PromoOps
    BY <1>2, <1>6 DEF PromoSound
  <2>2. PromotionAt(calls[d].op, s.att[r].promotion)
    BY <1>2, <1>6 DEF PromoSound
  <2> QED BY <1>4, <2>1, <2>2 DEF PromotionAt, Done3
<1> QED BY <1>1, <1>3, <1>4, <1>5, <1>6

(* A step of that call, after whatever the gate did first. *)
LEMMA PromoOwnStep ==
  ASSUME IInv, NEW c \in Callers, calls[c].op \in PromoOps, NEW r, r = calls[c].r,
         NEW t, Settles(s, t), OnlyMarks(t, s', r, {"promotion"}), OnlyEntry(t, s', r, "promo"),
         CallsShape', \A d \in Callers \ {c} : calls'[d] = calls[d],
         \/ calls'[c].op = "idle"
         \/ /\ calls'[c].op \in PromoOps /\ calls'[c].r = r
            /\ PromotionAt(calls'[c].op, s'.att[r].promotion)
            /\ calls'[c].op = "promote file" => s'.ledger[r]["promo"] \in Charged,
         UNCHANGED <<gallery, saves>>, DOMAIN disk' = Reqs,
         \A q \in Reqs : /\ "stage" \in disk'[q] => "stage" \in disk[q]
                         /\ q # r /\ "promo" \in disk'[q] => "promo" \in disk[q],
         "promo" \in disk'[r] =>
           /\ s'.ledger[r]["promo"] \in Charged
           /\ s'.ledger[r]["promo"] = "writing" => s'.att[r].promotion = "may_have_created",
         t.ledger[r]["promo"] = "uncertain" => s'.ledger[r]["promo"] = "uncertain",
         s'.att[r].promotion # "promoted",
         s'.att[r].promotion = "private_committed" => ~s.att[r].cancel
  PROVE  Sound
<1>1. /\ r \in Reqs
      /\ s.att[r].promotion \in {"in_progress", "cancellation_requested", "claiming", "admitting",
                                 "admitted", "may_have_created"}
      /\ <<r, "promotion">> \notin s.todo /\ <<r, "publication">> \notin s.todo
      /\ \A d \in Callers \ {c} : calls[d].r = r => calls[d].op \notin PromoOps \cup {"publish promotion"}
  BY OwnPromo
<1>2. PromoMoves(s, s', r)
  BY <1>1, OnlyPromotion, MoveAgain
<1>3. <<r, "promotion">> \notin s'.todo /\ <<r, "publication">> \notin s'.todo
  BY <1>1 DEF Settles, PromoKept, OnlyMarks
<1>4. PromoSound(r)'
  <2>1. ASSUME NEW d \in Callers, calls'[d].r = r
        PROVE  /\ PromotionAt(calls'[d].op, s'.att[r].promotion)
               /\ calls'[d].op = "promote file" => s'.ledger[r]["promo"] \in Charged
               /\ d # c => calls'[d].op \notin PromoOps
    <3>1. CASE d = c
      BY <3>1 DEF PromotionAt
    <3>2. CASE d # c
      <4>1. calls'[d].op \notin PromoOps \cup {"publish promotion"}
        BY <1>1, <2>1, <3>2
      <4> QED BY <4>1 DEF PromoOps, PromotionAt
    <3> QED BY <3>1, <3>2
  <2> QED BY <1>3, <2>1 DEF PromoSound
<1>5. PromoFinal(s, s', r)
  <2>1. s.ledger[r]["promo"] = "uncertain" => t.ledger[r]["promo"] = "uncertain"
    BY <1>1 DEF Settles, PromoKept, LedgerMoves
  <2> QED BY <1>1, <2>1 DEF PromoFinal
<1>6. /\ \A q \in Reqs \ {r} : PromoCallsKept(q)
      /\ \A q \in Reqs : StageCallsKept(q)
      /\ SaveCallsKept
  BY DEF PromoCallsKept, StageCallsKept, SaveCallsKept, StageOps, PromoOps, SaveOps
<1>7. Elsewhere
  BY DEF Elsewhere
<1> QED BY <1>1, <1>2, <1>4, <1>5, <1>6, <1>7, PromoStepLemma

(* A promotion that goes on: nothing is created. *)
LEMMA PromoGoes ==
  ASSUME IInv, NEW c \in Callers, calls[c].op \in PromoOps, NEW r, r = calls[c].r, Files0,
         OnlyMarks(s, s', r, {"promotion"}), OnlyEntry(s, s', r, "promo"),
         NEW o \in PromoOps, Goto(c, o), PromotionAt(o, s'.att[r].promotion),
         o = "promote file" => s'.ledger[r]["promo"] \in Charged,
         \/ s'.ledger[r]["promo"] = s.ledger[r]["promo"]
         \/ s.ledger[r]["promo"] \in {"none", "reserved"},
         s.att[r].promotion = "may_have_created" => s'.att[r].promotion = "may_have_created"
  PROVE  Sound
<1>1. /\ CallsShape' /\ calls'[c].op = o /\ calls'[c].r = r /\ r \in Reqs
      /\ \A d \in Callers \ {c} : calls'[d] = calls[d]
  BY GotoLemma DEF IInv, PromoOps
<1>2. Settles(s, s)
  BY SettlesSelf DEF IInv
<1>3. s'.att[r].promotion \notin {"promoted", "private_committed"}
  BY DEF PromotionAt, PromoOps
<1>4. "promo" \in disk'[r] =>
           /\ s'.ledger[r]["promo"] \in Charged
           /\ s'.ledger[r]["promo"] = "writing" => s'.att[r].promotion = "may_have_created"
  BY OwnPromo DEF Charged, Files0
<1>5. s.ledger[r]["promo"] = "uncertain" => s'.ledger[r]["promo"] = "uncertain"
  OBVIOUS
<1>6. UNCHANGED <<gallery, saves, disk>> /\ DOMAIN disk' = Reqs
  BY DEF Files0, IInv
<1> QED BY <1>1, <1>2, <1>3, <1>4, <1>5, <1>6, PromoOwnStep

(* A promotion that ends. *)
LEMMA PromoEnds ==
  ASSUME IInv, NEW c \in Callers, calls[c].op \in PromoOps, NEW r, r = calls[c].r, Done(c),
         NEW t, Settles(s, t), OnlyMarks(t, s', r, {"promotion"}), OnlyEntry(t, s', r, "promo"),
         UNCHANGED <<gallery, saves>>, DOMAIN disk' = Reqs,
         \A q \in Reqs : /\ "stage" \in disk'[q] => "stage" \in disk[q]
                         /\ q # r /\ "promo" \in disk'[q] => "promo" \in disk[q],
         "promo" \in disk'[r] => "promo" \in disk[r] \/ calls[c].op = "promote file",
         s'.ledger[r]["promo"] # "writing",
         t.ledger[r]["promo"] \in {"completed", "uncertain"} => s'.ledger[r]["promo"] \in {"completed", "uncertain"},
         (t.ledger[r]["promo"] = "writing" /\ t.att[r].promotion = "may_have_created") =>
           s'.ledger[r]["promo"] \in {"completed", "uncertain"},
         t.ledger[r]["promo"] = "uncertain" => s'.ledger[r]["promo"] = "uncertain",
         s'.att[r].promotion # "promoted",
         s'.att[r].promotion = "private_committed" => ~s.att[r].cancel
  PROVE  Sound
<1>1. CallsShape' /\ calls'[c].op = "idle" /\ \A d \in Callers \ {c} : calls'[d] = calls[d]
  BY DoneLemma DEF IInv
<1>2. /\ r \in Reqs
      /\ "promo" \in disk'[r] =>
              /\ s.ledger[r]["promo"] \in Charged
              /\ s.ledger[r]["promo"] = "writing" => s.att[r].promotion = "may_have_created"
  BY OwnPromo DEF PromotionAt
<1>3. /\ LedgerMoves(s.ledger[r]["promo"], t.ledger[r]["promo"])
      /\ s.att[r].promotion = "may_have_created" => t.att[r].promotion = "may_have_created"
  BY <1>2 DEF Settles, PromoKept
<1>4. "promo" \in disk'[r] =>
           /\ s'.ledger[r]["promo"] \in Charged
           /\ s'.ledger[r]["promo"] = "writing" => s'.att[r].promotion = "may_have_created"
  BY <1>2, <1>3 DEF LedgerMoves, Charged
<1>5. \A q \in Reqs : /\ "stage" \in disk'[q] => "stage" \in disk[q]
                    /\ q # r /\ "promo" \in disk'[q] => "promo" \in disk[q]
  OBVIOUS
<1>6. \/ calls'[c].op = "idle"
      \/ /\ calls'[c].op \in PromoOps /\ calls'[c].r = r
         /\ PromotionAt(calls'[c].op, s'.att[r].promotion)
         /\ calls'[c].op = "promote file" => s'.ledger[r]["promo"] \in Charged
  BY <1>1
<1>7. CallsShape' /\ \A d \in Callers \ {c} : calls'[d] = calls[d]
  BY <1>1
<1> QED BY <1>4, <1>5, <1>6, <1>7, PromoOwnStep, ZenonT(60)

(* settle_failure: the entry is no longer being written, and stays charged *)
(* when a file may exist.                                                  *)
LEMMA PromoteFailedLemma ==
  ASSUME NEW t, Shape(t), NEW r \in Reqs
  PROVE  LET u == PromoteFailed(t, r)
             l == t.ledger[r]["promo"]
             m == u.ledger[r]["promo"]
         IN  /\ OnlyMarks(t, u, r, {"promotion"}) /\ OnlyEntry(t, u, r, "promo")
             /\ u.att[r].promotion \in {"cancelled", "retained_uncertain"}
             /\ m # "writing"
             /\ l \in {"completed", "uncertain"} => m = l
             /\ l = "writing" /\ t.att[r].promotion = "may_have_created" => m = "uncertain"
<1> DEFINE l == t.ledger[r]["promo"]
           creating == Creating(t, r)
           returned == [t EXCEPT !.ledger[r]["promo"] = "cancelled"]
           u == IF l = "reserved" /\ t.live /\ ~creating THEN returned
                ELSE AbandonWrite(t, r, "promo", creating)
           x == IF creating \/ u.ledger[r]["promo"] # "cancelled" THEN "retained_uncertain" ELSE "cancelled"
           v == [u EXCEPT !.att[r].promotion = x]
<1>1. PromoteFailed(t, r) = v
  BY DEF PromoteFailed
<1>2. /\ OnlyMarks(t, u, r, {}) /\ OnlyEntry(t, u, r, "promo")
      /\ u.ledger[r]["promo"] # "writing"
      /\ l \in {"completed", "uncertain"} => u.ledger[r]["promo"] = l
      /\ l = "writing" /\ creating => u.ledger[r]["promo"] = "uncertain"
  <2>1. CASE l = "reserved" /\ t.live /\ ~creating
    <3>1. OnlyMarks(t, returned, r, {}) /\ OnlyEntry(t, returned, r, "promo")
          /\ returned.ledger[r]["promo"] = "cancelled"
      BY DEF Shape, Fields, Files, OnlyMarks, OnlyEntry
    <3>2. u = returned
      BY <2>1
    <3> HIDE DEF returned, u
    <3> QED BY <2>1, <3>1, <3>2
  <2>2. CASE ~(l = "reserved" /\ t.live /\ ~creating)
    <3>1. u = AbandonWrite(t, r, "promo", creating) /\ "promo" \in Files
      BY <2>2 DEF Files
    <3> HIDE DEF u, creating
    <3> QED BY <2>2, <3>1, AbandonWriteLemma
  <2> QED BY <2>1, <2>2
<1>3. x \in {"cancelled", "retained_uncertain"} /\ (creating <=> t.att[r].promotion = "may_have_created")
  BY DEF Creating
<1>4. Shape(u)
  BY <1>2 DEF OnlyMarks
<1> HIDE DEF l, u, x, creating
<1>5. OnlyMarks(u, v, r, {"promotion"}) /\ v.ledger = u.ledger /\ v.att[r].promotion = x
  BY <1>4 DEF Shape, Fields, Marks, OnlyMarks
<1> HIDE DEF v
<1>6. OnlyMarks(t, v, r, {"promotion"}) /\ OnlyEntry(t, v, r, "promo")
  BY <1>2, <1>5 DEF OnlyMarks, OnlyEntry
<1> QED BY <1>1, <1>2, <1>3, <1>5, <1>6 DEF l

(* A promotion that fails. *)
LEMMA PromoteFailedSound ==
  ASSUME IInv, NEW c \in Callers, calls[c].op \in PromoOps, NEW r, r = calls[c].r, Done(c),
         NEW t, Settles(s, t), s' = PromoteFailed(t, r),
         UNCHANGED <<gallery, saves>>, DOMAIN disk' = Reqs,
         \A q \in Reqs : /\ "stage" \in disk'[q] => "stage" \in disk[q]
                         /\ q # r /\ "promo" \in disk'[q] => "promo" \in disk[q],
         "promo" \in disk'[r] => "promo" \in disk[r] \/ calls[c].op = "promote file"
  PROVE  Sound
<1>1. r \in Reqs /\ Shape(t)
  BY OwnPromo DEF Settles
<1>2. /\ OnlyMarks(t, s', r, {"promotion"}) /\ OnlyEntry(t, s', r, "promo")
      /\ s'.att[r].promotion \in {"cancelled", "retained_uncertain"}
      /\ s'.ledger[r]["promo"] # "writing"
      /\ t.ledger[r]["promo"] \in {"completed", "uncertain"} => s'.ledger[r]["promo"] = t.ledger[r]["promo"]
      /\ t.ledger[r]["promo"] = "writing" /\ t.att[r].promotion = "may_have_created" =>
           s'.ledger[r]["promo"] = "uncertain"
  BY <1>1, PromoteFailedLemma
<1>3. /\ t.ledger[r]["promo"] \in {"completed", "uncertain"} => s'.ledger[r]["promo"] \in {"completed", "uncertain"}
      /\ (t.ledger[r]["promo"] = "writing" /\ t.att[r].promotion = "may_have_created") =>
           s'.ledger[r]["promo"] \in {"completed", "uncertain"}
      /\ t.ledger[r]["promo"] = "uncertain" => s'.ledger[r]["promo"] = "uncertain"
      /\ s'.att[r].promotion # "promoted" /\ s'.att[r].promotion # "private_committed"
  BY <1>2
<1> QED BY <1>2, <1>3, PromoEnds, ZenonT(60)

(* The claim that starts a promotion's call. *)
LEMMA PromoBegins ==
  ASSUME IInv, NEW c \in Callers, NEW r \in Reqs, NEW o \in PromoOps,
         calls' = [calls EXCEPT ![c] = Call(o, r)], Files0,
         OnlyMarks(s, s', r, {"promotion"}), s'.ledger = s.ledger,
         s.att[r].promotion \in {"not_started", "reserved"}, PromotionAt(o, s'.att[r].promotion),
         o # "promote file"
  PROVE  Sound
<1>0. PromoSound(r)
  BY DEF IInv
<1>1. /\ CallsShape' /\ calls'[c].op = o /\ calls'[c].r = r
      /\ \A d \in Callers \ {c} : calls'[d] = calls[d]
  BY BeginLemma DEF IInv
<1>2. ASSUME NEW d \in Callers, calls[d].r = r PROVE calls[d].op \notin PromoOps \cup {"publish promotion"}
  <2>1. PromotionAt(calls[d].op, s.att[r].promotion)
    BY <1>0, <1>2 DEF PromoSound
  <2> QED BY <2>1 DEF PromotionAt, PromoOps, Done3
<1>3. <<r, "promotion">> \notin s'.todo /\ <<r, "publication">> \notin s'.todo
  BY <1>0 DEF PromoSound, Done3, OnlyMarks
<1>4. ASSUME NEW d \in Callers, calls'[d].r = r
      PROVE  /\ PromotionAt(calls'[d].op, s'.att[r].promotion)
             /\ calls'[d].op # "promote file"
             /\ d # c => calls'[d].op \notin PromoOps
  <2>1. CASE d = c
    BY <1>1, <2>1
  <2>2. CASE d # c
    <3>1. calls'[d].op \notin PromoOps \cup {"publish promotion"}
      BY <1>1, <1>2, <1>4, <2>2
    <3> QED BY <3>1 DEF PromoOps, PromotionAt
  <2> QED BY <2>1, <2>2
<1>5. "promo" \in disk'[r] => s'.ledger[r]["promo"] \in Charged /\ s'.ledger[r]["promo"] # "writing"
  BY <1>0 DEF PromoSound, Files0
<1>6. PromoSound(r)'
  BY <1>3, <1>4, <1>5 DEF PromoSound
<1>7. PromoMoves(s, s', r)
  BY OnlyPromotion DEF OnlyEntry
<1>8. s'.att[r].promotion \notin {"private_committed", "promoted"}
  BY DEF PromotionAt, PromoOps
<1>9. PromoFinal(s, s', r)
  BY <1>8 DEF PromoFinal
<1>10. /\ \A q \in Reqs \ {r} : PromoCallsKept(q)
       /\ \A q \in Reqs : StageCallsKept(q)
       /\ SaveCallsKept
  BY <1>1 DEF PromoCallsKept, StageCallsKept, SaveCallsKept, StageOps, PromoOps, SaveOps
<1>11. Elsewhere /\ UNCHANGED disk
  BY <1>1 DEF Elsewhere, Files0, IInv
<1> QED BY <1>6, <1>7, <1>9, <1>10, <1>11, PromoStepLemma

(* The claim of a promotion preflight. *)
LEMMA PromotionPreflightBeginSound ==
  ASSUME IInv, NEW c \in Callers, NEW r \in Reqs, PromotionPreflightBegin(c, r) PROVE Sound
<1>1. /\ s' = [s EXCEPT !.att[r].promotion = "in_progress"] /\ Files0 /\ Shape(s)
      /\ s.att[r].promotion = "not_started" /\ calls' = [calls EXCEPT ![c] = Call("promotion reserve", r)]
  BY DEF PromotionPreflightBegin, MayPreflightPromotion, Claim, IInv
<1>2. OnlyMarks(s, s', r, {"promotion"}) /\ s'.ledger = s.ledger /\ s'.att[r].promotion = "in_progress"
  BY <1>1 DEF Shape, Fields, Marks, OnlyMarks
<1> QED BY <1>1, <1>2, PromoBegins DEF PromoOps, PromotionAt

(* The claim of a promotion. *)
LEMMA PromoteBeginSound ==
  ASSUME IInv, NEW c \in Callers, NEW r \in Reqs, PromoteBegin(c, r) PROVE Sound
<1>1. /\ s' = [s EXCEPT !.att[r].promotion = "claiming"] /\ Files0 /\ Shape(s)
      /\ s.att[r].promotion = "reserved" /\ calls' = [calls EXCEPT ![c] = Call("promote admitting", r)]
  BY DEF PromoteBegin, PromotionMatches, Claim, IInv
<1>2. OnlyMarks(s, s', r, {"promotion"}) /\ s'.ledger = s.ledger /\ s'.att[r].promotion = "claiming"
  BY <1>1 DEF Shape, Fields, Marks, OnlyMarks
<1> QED BY <1>1, <1>2, PromoBegins DEF PromoOps, PromotionAt

(* The reservation of the promoted file. *)
LEMMA PromotionPreflightReserveSound ==
  ASSUME IInv, NEW c \in Callers, PromotionPreflightReserve(c) PROVE Sound
<1> DEFINE r == R(c)
<1>1. /\ r = calls[c].r /\ calls[c].op = "promotion reserve" /\ Shape(s) /\ Files0
      /\ UNCHANGED <<gallery, saves, disk>> /\ DOMAIN disk' = Reqs
  BY InLemma DEF PromotionPreflightReserve, IInv, R, Files0
<1>2. \/ /\ s.ledger[r]["promo"] = "none" /\ s' = Reserve(s, r, "promo") /\ Goto(c, "promotion preflight")
      \/ /\ s' = [s EXCEPT !.att[r].promotion =
                   IF @ \in {"in_progress", "cancellation_requested"} THEN "refused" ELSE @]
         /\ Done(c)
  BY DEF PromotionPreflightReserve, Reservable
<1> HIDE DEF r
<1>3. /\ r \in Reqs /\ PromotionAt(calls[c].op, s.att[r].promotion)
      /\ "promo" \in disk[r] => s.ledger[r]["promo"] \in {"completed", "uncertain"}
  BY <1>1, OwnPromo DEF PromoOps, PromotionAt, Charged
<1>4. s.att[r].promotion \in {"in_progress", "cancellation_requested"}
  BY <1>1, <1>3 DEF PromotionAt
<1>5. CASE /\ s.ledger[r]["promo"] = "none" /\ s' = Reserve(s, r, "promo")
           /\ Goto(c, "promotion preflight")
  <2>1. /\ OnlyMarks(s, s', r, {"promotion"}) /\ OnlyEntry(s, s', r, "promo")
        /\ s'.att[r].promotion = s.att[r].promotion
    BY <1>1, <1>3, <1>5 DEF Reserve, Shape, Fields, Files, Marks, OnlyMarks, OnlyEntry
  <2> QED BY <1>1, <1>4, <1>5, <2>1, PromoGoes DEF PromoOps, PromotionAt
<1>6. CASE /\ s' = [s EXCEPT !.att[r].promotion =
                   IF @ \in {"in_progress", "cancellation_requested"} THEN "refused" ELSE @]
           /\ Done(c)
  <2>1. s' = [s EXCEPT !.att[r].promotion =
                   IF @ \in {"in_progress", "cancellation_requested"} THEN "refused" ELSE @]
    BY <1>6
  <2>2. /\ OnlyMarks(s, s', r, {"promotion"}) /\ s'.ledger = s.ledger
        /\ s'.att[r].promotion = "refused"
    BY <1>1, <1>3, <1>4, <2>1, ZenonT(60) DEF Shape, Fields, Marks, OnlyMarks
  <2>3. OnlyEntry(s, s', r, "promo") /\ Settles(s, s)
    BY <1>1, <2>2, SettlesSelf DEF OnlyEntry
  <2>4. CallsShape' /\ calls'[c].op = "idle" /\ \A d \in Callers \ {c} : calls'[d] = calls[d]
    BY <1>6, DoneLemma DEF IInv
  <2> QED BY <1>1, <1>3, <2>2, <2>3, <2>4, PromoOwnStep DEF PromoOps, Charged
<1> QED BY <1>2, <1>5, <1>6

(* The promotion preflight ends. *)
LEMMA PromotionPreflightEndSound ==
  ASSUME IInv, NEW c \in Callers, PromotionPreflightEnd(c) PROVE Sound
<1> DEFINE r == R(c)
           g == Gate(FALSE)
<1>1. /\ r = calls[c].r /\ calls[c].op = "promotion preflight" /\ Shape(s) /\ Files0 /\ Done(c)
      /\ UNCHANGED <<gallery, saves, disk>> /\ DOMAIN disk' = Reqs
  BY InLemma DEF PromotionPreflightEnd, Publish, IInv, R, Files0
<1>2. \/ s' = [s EXCEPT !.att[r].promotion = "reserved"]
      \/ s' = PreflightCancelled(g, r)
  BY DEF PromotionPreflightEnd, Publish
<1>3. Settles(s, g) /\ Shape(g) /\ Settles(s, s)
  BY <1>1, GateIs, SettlesSelf
<1> HIDE DEF r, g
<1>4. /\ r \in Reqs
      /\ "promo" \in disk[r] => s.ledger[r]["promo"] \in {"completed", "uncertain"}
  BY <1>1, OwnPromo DEF PromoOps, PromotionAt, Charged
<1>5. CallsShape' /\ calls'[c].op = "idle" /\ \A d \in Callers \ {c} : calls'[d] = calls[d]
  BY <1>1, DoneLemma DEF IInv
<1>6. CASE s' = [s EXCEPT !.att[r].promotion = "reserved"]
  <2>1. /\ OnlyMarks(s, s', r, {"promotion"}) /\ s'.ledger = s.ledger
        /\ s'.att[r].promotion = "reserved"
    BY <1>1, <1>4, <1>6 DEF Shape, Fields, Marks, OnlyMarks
  <2>2. OnlyEntry(s, s', r, "promo")
    BY <2>1 DEF OnlyEntry
  <2> QED BY <1>1, <1>3, <1>4, <1>5, <2>1, <2>2, PromoOwnStep DEF PromoOps, Charged
<1>7. CASE s' = PreflightCancelled(g, r)
  <2>0. s' = IF g.live /\ g.ledger[r]["promo"] = "reserved"
             THEN [g EXCEPT !.ledger[r]["promo"] = "cancelled",
                     !.att[r].promotion = IF @ = "cancellation_requested" THEN "cancelled" ELSE "refused"]
             ELSE [g EXCEPT !.att[r].promotion = "retained_uncertain"]
    BY <1>7 DEF PreflightCancelled
  <2>1. /\ OnlyMarks(g, s', r, {"promotion"}) /\ OnlyEntry(g, s', r, "promo")
        /\ s'.att[r].promotion \in {"cancelled", "refused", "retained_uncertain"}
        /\ g.ledger[r]["promo"] # "reserved" => s'.ledger[r]["promo"] = g.ledger[r]["promo"]
    BY <1>3, <1>4, <2>0 DEF Shape, Fields, Files, Marks, OnlyMarks, OnlyEntry
  <2>2. LedgerMoves(s.ledger[r]["promo"], g.ledger[r]["promo"])
    BY <1>3, <1>4 DEF Settles, PromoKept
  <2>3. "promo" \in disk[r] => s'.ledger[r]["promo"] \in {"completed", "uncertain"}
    BY <1>4, <2>1, <2>2 DEF LedgerMoves
  <2> QED BY <1>1, <1>3, <1>4, <1>5, <2>1, <2>3, PromoOwnStep DEF PromoOps, Charged
<1> QED BY <1>2, <1>6, <1>7

(* A step of a promotion. *)
LEMMA PromoteStepSound ==
  ASSUME IInv, NEW c \in Callers, NEW from \in PromoOps, NEW to \in PromoOps, NEW ok, NEW t,
         PromoteStep(c, from, to, ok, t),
         ok => /\ OnlyMarks(s, t, R(c), {"promotion"}) /\ OnlyEntry(s, t, R(c), "promo")
               /\ PromotionAt(to, t.att[R(c)].promotion)
               /\ to = "promote file" => t.ledger[R(c)]["promo"] \in Charged
               /\ \/ t.ledger[R(c)]["promo"] = s.ledger[R(c)]["promo"]
                  \/ s.ledger[R(c)]["promo"] \in {"none", "reserved"}
               /\ s.att[R(c)].promotion = "may_have_created" => t.att[R(c)].promotion = "may_have_created"
  PROVE  Sound
<1>1. /\ R(c) = calls[c].r /\ calls[c].op = from /\ Files0
      /\ UNCHANGED <<gallery, saves, disk>> /\ DOMAIN disk' = Reqs
  BY DEF PromoteStep, IInv, R, Files0, In
<1>2. \/ ok /\ s' = t /\ Goto(c, to)
      \/ s' = PromoteFailed(Gate(FALSE), R(c)) /\ Done(c)
  BY DEF PromoteStep
<1>3. CASE ok /\ s' = t /\ Goto(c, to)
  BY <1>1, <1>3, PromoGoes
<1>4. CASE s' = PromoteFailed(Gate(FALSE), R(c)) /\ Done(c)
  <2>1. Settles(s, Gate(FALSE))
    BY GateIs
  <2> QED BY <1>1, <1>4, <2>1, PromoteFailedSound
<1> QED BY <1>2, <1>3, <1>4

(* The record with another promotion mark. *)
LEMMA PromotionIs ==
  ASSUME Shape(s), NEW r \in Reqs, NEW x, NEW t, t = [s EXCEPT !.att[r].promotion = x]
  PROVE  /\ OnlyMarks(s, t, r, {"promotion"}) /\ OnlyEntry(s, t, r, "promo")
         /\ t.ledger = s.ledger /\ t.att[r].promotion = x
<1>1. OnlyMarks(s, t, r, {"promotion"}) /\ t.ledger = s.ledger /\ t.att[r].promotion = x
  BY DEF Shape, Fields, Marks, OnlyMarks
<1> QED BY <1>1 DEF OnlyEntry

(* The record with another entry of the promoted file. *)
LEMMA PromoEntryIs ==
  ASSUME Shape(s), NEW r \in Reqs, NEW x, NEW t, t = [s EXCEPT !.ledger[r]["promo"] = x]
  PROVE  /\ OnlyMarks(s, t, r, {}) /\ OnlyEntry(s, t, r, "promo") /\ t.att = s.att
         /\ t.ledger[r]["promo"] = x
<1>1. /\ Shape(t) /\ t.active = s.active /\ t.state = s.state /\ t.reason = s.reason
      /\ t.save = s.save /\ t.todo = s.todo /\ t.job = s.job /\ t.att = s.att
  BY DEF Shape, Fields
<1>2. OnlyEntry(s, t, r, "promo") /\ t.ledger[r]["promo"] = x
  BY DEF Shape, Fields, Files, OnlyEntry
<1> QED BY <1>1, <1>2 DEF OnlyMarks

(* What a call knows while it promotes. *)
LEMMA PromotingLemma ==
  ASSUME IInv, NEW c \in Callers, NEW o \in PromoOps, In(c, o)
  PROVE  /\ R(c) \in Reqs /\ Shape(s) /\ PromotionAt(o, s.att[R(c)].promotion)
         /\ o = "promote file" => s.ledger[R(c)]["promo"] \in Charged
BY OwnPromo DEF In, R, IInv

(* The promotion is about to be admitted. *)
LEMMA PromoteAdmittingSound == ASSUME IInv, NEW c \in Callers, PromoteAdmitting(c) PROVE Sound
<1> DEFINE t == [s EXCEPT !.att[R(c)].promotion = "admitting"]
<1>1. "promote admitting" \in PromoOps /\ "promote admit" \in PromoOps
  BY DEF PromoOps
<1>2. R(c) \in Reqs /\ Shape(s) /\ PromotionAt("promote admitting", s.att[R(c)].promotion)
  BY <1>1, PromotingLemma DEF PromoteAdmitting, PromoteStep
<1>3. /\ OnlyMarks(s, t, R(c), {"promotion"}) /\ OnlyEntry(s, t, R(c), "promo")
      /\ t.ledger = s.ledger /\ t.att[R(c)].promotion = "admitting"
  BY <1>2, PromotionIs
<1>4. PromotionAt("promote admit", t.att[R(c)].promotion)
      /\ s.att[R(c)].promotion # "may_have_created"
  BY <1>2, <1>3 DEF PromotionAt
<1>5. PromoteStep(c, "promote admitting", "promote admit",
              /\ HostCurrent /\ s.live /\ s.ledger[R(c)]["promo"] = "reserved"
              /\ s.att[R(c)].promotion = "claiming" /\ ~s.att[R(c)].cancel, t)
  BY DEF PromoteAdmitting
<1> HIDE DEF t
<1> QED BY <1>1, <1>3, <1>4, <1>5, PromoteStepSound

(* The ledger turns to writing. *)
LEMMA PromoteAdmitSound == ASSUME IInv, NEW c \in Callers, PromoteAdmit(c) PROVE Sound
<1> DEFINE t == [s EXCEPT !.ledger[R(c)]["promo"] = "writing"]
<1>1. "promote admit" \in PromoOps /\ "promote owner" \in PromoOps /\ "promo" \in Files
  BY DEF PromoOps, Files
<1>2. R(c) \in Reqs /\ Shape(s) /\ PromotionAt("promote admit", s.att[R(c)].promotion)
  BY <1>1, PromotingLemma DEF PromoteAdmit, PromoteStep
<1>3. /\ OnlyMarks(s, t, R(c), {}) /\ OnlyEntry(s, t, R(c), "promo") /\ t.att = s.att
  <2> DEFINE r == R(c)
  <2>1. r \in Reqs /\ Shape(s) /\ t = [s EXCEPT !.ledger[r]["promo"] = "writing"]
    BY <1>2
  <2> HIDE DEF r, t
  <2>2. OnlyMarks(s, t, r, {}) /\ OnlyEntry(s, t, r, "promo") /\ t.att = s.att
    BY <2>1, PromoEntryIs
  <2> QED BY <2>2 DEF r
<1>4. /\ PromotionAt("promote owner", t.att[R(c)].promotion)
      /\ OnlyMarks(s, t, R(c), {"promotion"})
  BY <1>2, <1>3 DEF PromotionAt, OnlyMarks
<1>5. PromoteStep(c, "promote admit", "promote owner", s.live /\ s.ledger[R(c)]["promo"] = "reserved", t)
  BY DEF PromoteAdmit
<1> HIDE DEF t
<1> QED BY <1>1, <1>3, <1>4, <1>5, PromoteStepSound

(* The owner is admitted. *)
LEMMA PromoteOwnerSound == ASSUME IInv, NEW c \in Callers, PromoteOwner(c) PROVE Sound
<1> DEFINE t == [s EXCEPT !.att[R(c)].promotion = "admitted"]
<1>1. "promote owner" \in PromoOps /\ "promote create" \in PromoOps
  BY DEF PromoOps
<1>2. R(c) \in Reqs /\ Shape(s) /\ PromotionAt("promote owner", s.att[R(c)].promotion)
  BY <1>1, PromotingLemma DEF PromoteOwner, PromoteStep
<1>3. /\ OnlyMarks(s, t, R(c), {"promotion"}) /\ OnlyEntry(s, t, R(c), "promo")
      /\ t.ledger = s.ledger /\ t.att[R(c)].promotion = "admitted"
  BY <1>2, PromotionIs
<1>4. PromotionAt("promote create", t.att[R(c)].promotion)
      /\ s.att[R(c)].promotion # "may_have_created"
  BY <1>2, <1>3 DEF PromotionAt
<1>5. PromoteStep(c, "promote owner", "promote create",
              /\ HostCurrent /\ s.att[R(c)].promotion = "admitting" /\ ~s.att[R(c)].cancel
              /\ s.att[R(c)].acceptance = "accepted", t)
  BY DEF PromoteOwner
<1> HIDE DEF t
<1> QED BY <1>1, <1>3, <1>4, <1>5, PromoteStepSound

(* The promotion crosses the create boundary. *)
LEMMA PromoteCreateSound == ASSUME IInv, NEW c \in Callers, PromoteCreate(c) PROVE Sound
<1> DEFINE t == [s EXCEPT !.att[R(c)].promotion = "may_have_created"]
<1>1. "promote create" \in PromoOps /\ "promote file" \in PromoOps
  BY DEF PromoOps
<1>2. R(c) \in Reqs /\ Shape(s)
  BY <1>1, PromotingLemma DEF PromoteCreate, PromoteStep
<1>3. /\ OnlyMarks(s, t, R(c), {"promotion"}) /\ OnlyEntry(s, t, R(c), "promo")
      /\ t.ledger = s.ledger /\ t.att[R(c)].promotion = "may_have_created"
  BY <1>2, PromotionIs
<1>4. PromotionAt("promote file", t.att[R(c)].promotion)
  BY <1>3 DEF PromotionAt
<1>5. PromoteStep(c, "promote create", "promote file",
              /\ HostCurrent /\ Writing(R(c), "promo")
              /\ PromotionMatches(s, R(c), {"admitted", "may_have_created"}), t)
  BY DEF PromoteCreate
<1>6. Writing(R(c), "promo") => s.ledger[R(c)]["promo"] \in Charged
  BY DEF Writing, Charged
<1> HIDE DEF t
<1> QED BY <1>1, <1>3, <1>4, <1>5, <1>6, PromoteStepSound

(* A file that comes into being, and the disk it comes to. *)
LEMMA FileLemma ==
  ASSUME IInv, NEW c \in Callers, NEW f, NEW again, NEW next, NEW failed,
         FileCreated(c, f, again, next, failed), calls[c].op # "idle"
  PROVE  /\ UNCHANGED <<gallery, saves>> /\ DOMAIN disk' = Reqs
         /\ \A q \in Reqs : \A g : g # f \/ q # R(c) => (g \in disk'[q] => g \in disk[q])
         /\ \/ /\ s' = s /\ CallsShape' /\ calls'[c].op \in {again, next} /\ calls'[c].r = calls[c].r
               /\ \A d \in Callers \ {c} : calls'[d] = calls[d]
            \/ s' = failed /\ Done(c)
<1> DEFINE r == R(c)
           made == [disk EXCEPT ![r] = @ \cup {f}]
<1>1. /\ DOMAIN disk = Reqs /\ CallsShape /\ UNCHANGED <<gallery, saves>>
      /\ r = calls[c].r /\ r \in Reqs
  BY DEF IInv, FileCreated, R, CallsShape
<1>2. \/ /\ disk' = made /\ s' = s
         /\ calls' = [calls EXCEPT ![c].left = @ - 1,
                                   ![c].op = IF calls[c].left > 1 THEN again ELSE next]
      \/ disk' \in {disk, made} /\ s' = failed /\ Done(c)
  BY DEF FileCreated
<1>3. disk' = disk \/ disk' = made
  BY <1>2
<1>4. /\ DOMAIN disk' = Reqs
      /\ \A q \in Reqs : \A g : g # f \/ q # r => (g \in disk'[q] => g \in disk[q])
  BY <1>1, <1>3
<1>5. CASE /\ disk' = made /\ s' = s
           /\ calls' = [calls EXCEPT ![c].left = @ - 1,
                                     ![c].op = IF calls[c].left > 1 THEN again ELSE next]
  <2>1. calls' = [calls EXCEPT ![c].left = @ - 1,
                               ![c].op = IF calls[c].left > 1 THEN again ELSE next]
    BY <1>5
  <2> HIDE DEF made, r
  <2>2. /\ DOMAIN calls' = Callers /\ DOMAIN calls'[c] = {"op", "r", "left"}
        /\ calls'[c].op \in {again, next} /\ calls'[c].r = calls[c].r
        /\ \A d \in Callers \ {c} : calls'[d] = calls[d]
    BY <1>1, <2>1 DEF CallsShape
  <2>3. CallsShape'
    BY <1>1, <2>2 DEF CallsShape
  <2> QED BY <1>1, <1>4, <1>5, <2>2, <2>3 DEF r
<1> QED BY <1>1, <1>2, <1>4, <1>5

(* A promoted file comes into being. *)
LEMMA PromoteFileSound == ASSUME IInv, NEW c \in Callers, PromoteFile(c) PROVE Sound
<1> DEFINE r == R(c)
<1>1. "promote file" \in PromoOps /\ calls[c].op = "promote file" /\ r = calls[c].r
  BY DEF PromoOps, PromoteFile, In, R
<1>2. /\ r \in Reqs /\ Shape(s) /\ PromotionAt("promote file", s.att[r].promotion)
      /\ s.ledger[r]["promo"] \in Charged
  BY <1>1, PromotingLemma DEF PromoteFile
<1>3. s.att[r].promotion = "may_have_created"
  BY <1>2 DEF PromotionAt
<1>4. /\ UNCHANGED <<gallery, saves>> /\ DOMAIN disk' = Reqs
      /\ \A q \in Reqs : \A g : g # "promo" \/ q # r => (g \in disk'[q] => g \in disk[q])
      /\ \/ /\ s' = s /\ CallsShape' /\ calls'[c].op \in {"promote create", "promote complete"}
            /\ calls'[c].r = calls[c].r /\ \A d \in Callers \ {c} : calls'[d] = calls[d]
         \/ s' = PromoteFailed(s, r) /\ Done(c)
  BY <1>1, FileLemma DEF PromoteFile
<1> HIDE DEF r
<1>5. Settles(s, s) /\ \A q \in Reqs : /\ "stage" \in disk'[q] => "stage" \in disk[q]
                                       /\ q # r /\ "promo" \in disk'[q] => "promo" \in disk[q]
  BY <1>2, <1>4, SettlesSelf
<1>6. CASE s' = PromoteFailed(s, r) /\ Done(c)
  BY <1>1, <1>4, <1>5, <1>6, PromoteFailedSound
<1>7. CASE /\ s' = s /\ CallsShape' /\ calls'[c].op \in {"promote create", "promote complete"}
           /\ calls'[c].r = calls[c].r /\ \A d \in Callers \ {c} : calls'[d] = calls[d]
  <2>1. OnlyMarks(s, s', r, {"promotion"}) /\ OnlyEntry(s, s', r, "promo")
    BY <1>2, <1>7 DEF OnlyMarks, OnlyEntry
  <2>2. /\ calls'[c].op \in PromoOps /\ calls'[c].r = r /\ calls'[c].op # "promote file"
        /\ PromotionAt(calls'[c].op, s'.att[r].promotion)
    BY <1>1, <1>3, <1>7 DEF PromoOps, PromotionAt
  <2>3. "promo" \in disk'[r] =>
           /\ s'.ledger[r]["promo"] \in Charged
           /\ s'.ledger[r]["promo"] = "writing" => s'.att[r].promotion = "may_have_created"
    BY <1>2, <1>3, <1>7
  <2>4. s'.att[r].promotion = "may_have_created"
    BY <1>3, <1>7
  <2> QED BY <1>1, <1>4, <1>5, <1>7, <2>1, <2>2, <2>3, <2>4, PromoOwnStep
<1> QED BY <1>4, <1>6, <1>7

(* The private commit. *)
LEMMA PromoteCompleteSound == ASSUME IInv, NEW c \in Callers, PromoteComplete(c) PROVE Sound
<1> DEFINE r == R(c)
           t == [s EXCEPT !.ledger[r]["promo"] = "completed"]
           u == RetainCompleted(t, r, "promo")
<1>1. /\ "promote complete" \in PromoOps /\ calls[c].op = "promote complete" /\ r = calls[c].r
      /\ Done(c) /\ UNCHANGED <<gallery, saves, disk>> /\ DOMAIN disk' = Reqs
  BY DEF PromoOps, PromoteComplete, In, R, Files0, IInv
<1>2. r \in Reqs /\ Shape(s) /\ PromotionAt("promote complete", s.att[r].promotion)
  BY <1>1, PromotingLemma DEF PromoteComplete
<1>3. s.att[r].promotion = "may_have_created" /\ Settles(s, s)
  BY <1>2, SettlesSelf DEF PromotionAt
<1>4. \/ /\ s.ledger[r]["promo"] = "writing" /\ ~s.att[r].cancel
         /\ s' = [t EXCEPT !.att[r].promotion = "private_committed"]
      \/ /\ s.ledger[r]["promo"] = "writing"
         /\ s' = [u EXCEPT !.att[r].promotion = "retained_uncertain"]
      \/ s' = PromoteFailed(s, r)
  BY DEF PromoteComplete, Writing
<1> HIDE DEF r
<1>5. /\ OnlyMarks(s, t, r, {}) /\ OnlyEntry(s, t, r, "promo") /\ t.att = s.att
      /\ t.ledger[r]["promo"] = "completed" /\ Shape(t)
  <2>1. /\ OnlyMarks(s, t, r, {}) /\ OnlyEntry(s, t, r, "promo") /\ t.att = s.att
        /\ t.ledger[r]["promo"] = "completed"
    BY <1>2, PromoEntryIs
  <2> QED BY <2>1 DEF OnlyMarks
<1>6. /\ OnlyMarks(s, u, r, {}) /\ OnlyEntry(s, u, r, "promo")
      /\ u.ledger[r]["promo"] = "uncertain" /\ Shape(u)
  <2>1. u = [t EXCEPT !.ledger[r]["promo"] = "uncertain", !.live = FALSE]
    BY <1>5 DEF RetainCompleted
  <2> HIDE DEF t, u
  <2>2. /\ Shape(u) /\ u.active = t.active /\ u.state = t.state /\ u.reason = t.reason
        /\ u.save = t.save /\ u.todo = t.todo /\ u.job = t.job /\ u.att = t.att
        /\ OnlyEntry(t, u, r, "promo") /\ u.ledger[r]["promo"] = "uncertain"
    BY <1>2, <1>5, <2>1 DEF Shape, Fields, Files, OnlyEntry
  <2> QED BY <1>5, <2>2 DEF OnlyMarks, OnlyEntry
<1> HIDE DEF t, u
<1>7. ASSUME NEW v, Shape(v), OnlyMarks(s, v, r, {}), OnlyEntry(s, v, r, "promo"), NEW x,
             s' = [v EXCEPT !.att[r].promotion = x], s.ledger[r]["promo"] = "writing",
             v.ledger[r]["promo"] \in {"completed", "uncertain"},
             x \in {"private_committed", "retained_uncertain"}, x = "private_committed" => ~s.att[r].cancel
      PROVE  Sound
  <2>0. s' = [v EXCEPT !.att[r].promotion = x] /\ Shape(v)
    BY <1>7
  <2>1. OnlyMarks(v, s', r, {"promotion"}) /\ s'.ledger = v.ledger /\ s'.att[r].promotion = x
    BY <1>2, <2>0, ZenonT(60) DEF Shape, Fields, Marks, OnlyMarks
  <2>2. OnlyMarks(s, s', r, {"promotion"}) /\ OnlyEntry(s, s', r, "promo")
    BY <1>7, <2>1 DEF OnlyMarks, OnlyEntry
  <2>3. s'.ledger[r]["promo"] \in {"completed", "uncertain"} /\ s.ledger[r]["promo"] # "uncertain"
        /\ s'.ledger[r]["promo"] # "writing" /\ s'.att[r].promotion # "promoted"
        /\ (s'.att[r].promotion = "private_committed" => ~s.att[r].cancel)
    BY <1>7, <2>1
  <2> QED BY <1>1, <1>3, <2>2, <2>3, PromoEnds
<1>8. CASE /\ s.ledger[r]["promo"] = "writing" /\ ~s.att[r].cancel
           /\ s' = [t EXCEPT !.att[r].promotion = "private_committed"]
  BY <1>5, <1>7, <1>8
<1>9. CASE /\ s.ledger[r]["promo"] = "writing"
           /\ s' = [u EXCEPT !.att[r].promotion = "retained_uncertain"]
  BY <1>6, <1>7, <1>9
<1>10. CASE s' = PromoteFailed(s, r)
  BY <1>1, <1>3, <1>10, PromoteFailedSound
<1> QED BY <1>4, <1>8, <1>9, <1>10

-----------------------------------------------------------------------------
(* Taking a promoted file over. *)

(* A call that may take over keeps its mark. *)
LEMMA TakeOverLemma ==
  ASSUME IInv, NEW c \in Callers, NEW r \in Reqs, UNCHANGED <<gallery, saves, disk>>,
         OnlyMarks(s, s', r, {"promotion", "publication"}), s'.ledger = s.ledger,
         s.att[r].promotion = "private_committed",
         s'.att[r].promotion \in {"private_committed", "promoted"},
         s'.att[r].promotion # "private_committed" => ~s.att[r].cancel,
         s.att[r].publication # "retained_uncertain",
         CallsShape', \A d \in Callers \ {c} : calls'[d] = calls[d],
         calls'[c].op \in {"idle", "publish promotion"}, calls'[c].op = "publish promotion" => calls'[c].r = r
  PROVE  Sound
<1>0. PromoSound(r)
  BY DEF IInv
<1>1. ASSUME NEW d \in Callers, calls'[d].r = r
      PROVE  /\ PromotionAt(calls'[d].op, s'.att[r].promotion)
             /\ calls'[d].op \notin PromoOps
  <2>1. d # c => PromotionAt(calls'[d].op, s.att[r].promotion)
    BY <1>0, <1>1 DEF PromoSound
  <2> QED BY <2>1 DEF PromotionAt, PromoOps, Done3
<1>2. /\ <<r, "promotion">> \notin s'.todo
      /\ s'.att[r].promotion \in Done3
      /\ "promo" \in disk'[r] => s'.ledger[r]["promo"] \in Charged /\ s'.ledger[r]["promo"] # "writing"
  BY <1>0 DEF PromoSound, OnlyMarks, Done3
<1>3. PromoSound(r)'
  BY <1>1, <1>2 DEF PromoSound, PromoOps
<1>4. PromoFinal(s, s', r)
  BY DEF PromoFinal
<1>5. HostKept(s, s')
  BY DEF OnlyMarks, HostKept, JobKept, LeaseKept, SaveKept, Bound
<1>6. ASSUME NEW q \in Reqs
      PROVE  /\ StageKept(s, s', q) /\ EvidenceKept(s, s', q) /\ IssueKept(s, s', q) /\ MarksKept(s, s', q)
             /\ q # r => PromoKept(s, s', q)
  <2>1. \A x \in Marks \ {"promotion", "publication"} : s'.att[q][x] = s.att[q][x]
    BY DEF OnlyMarks
  <2>2. q # r => s'.att[q].promotion = s.att[q].promotion /\ s'.att[q].publication = s.att[q].publication
    BY DEF OnlyMarks, Marks
  <2>3. s'.todo = s.todo
    BY DEF OnlyMarks
  <2> QED BY <2>1, <2>2, <2>3 DEF StageKept, PromoKept, EvidenceKept, IssueKept, MarksKept,
                                  LedgerMoves, Marks, Claims
<1>7. PromoMoves(s, s', r)
  BY <1>5, <1>6 DEF PromoMoves, OnlyMarks
<1>8. /\ \A q \in Reqs \ {r} : PromoCallsKept(q)
      /\ \A q \in Reqs : StageCallsKept(q)
      /\ SaveCallsKept
  BY DEF PromoCallsKept, StageCallsKept, SaveCallsKept, StageOps, PromoOps, SaveOps
<1>9. Elsewhere
  BY DEF Elsewhere, IInv
<1> QED BY <1>3, <1>4, <1>7, <1>8, <1>9, PromoStepLemma

(* The claim of a promotion's publication. *)
LEMMA PublishPromotionBeginSound ==
  ASSUME IInv, NEW c \in Callers, NEW r \in Reqs, PublishPromotionBegin(c, r) PROVE Sound
<1>1. /\ s' = [s EXCEPT !.att[r].publication = "in_progress"] /\ UNCHANGED <<gallery, saves, disk>>
      /\ s.att[r].promotion = "private_committed" /\ s.att[r].publication = "not_started"
      /\ calls' = [calls EXCEPT ![c] = Call("publish promotion", r)] /\ Shape(s)
  BY DEF PublishPromotionBegin, MayPublishPromotion, PromotionMatches, Claim, IInv, Files0
<1>2. /\ OnlyMarks(s, s', r, {"promotion", "publication"}) /\ s'.ledger = s.ledger
      /\ s'.att[r].promotion = s.att[r].promotion
  BY <1>1 DEF Shape, Fields, Marks, OnlyMarks
<1>3. /\ CallsShape' /\ calls'[c].op = "publish promotion" /\ calls'[c].r = r
      /\ \A d \in Callers \ {c} : calls'[d] = calls[d]
  BY <1>1, BeginLemma DEF IInv
<1> QED BY <1>1, <1>2, <1>3, TakeOverLemma

(* The promotion is published, or retained. *)
LEMMA PublishPromotionEndSound == ASSUME IInv, NEW c \in Callers, PublishPromotionEnd(c) PROVE Sound
<1> DEFINE r == R(c)
           g == Gate(FALSE)
<1>1. /\ r = calls[c].r /\ r \in Reqs /\ calls[c].op = "publish promotion" /\ Shape(s) /\ Done(c) /\ Files0
      /\ UNCHANGED <<gallery, saves, disk>>
  BY InLemma DEF PublishPromotionEnd, Publish, IInv, R, Files0
<1>2. \/ /\ s.att[r].promotion = "private_committed" /\ ~s.att[r].cancel
         /\ s.att[r].publication = "in_progress"
         /\ s' = [s EXCEPT !.att[r].publication = "published", !.att[r].promotion = "promoted"]
      \/ s' = RetainPublication(g, r)
  BY DEF PublishPromotionEnd, Publish, PromotionMatches, HandoffMatches
<1>3. Settles(s, g) /\ Shape(g)
  BY GateIs
<1> HIDE DEF r, g
<1>4. CASE /\ s.att[r].promotion = "private_committed" /\ ~s.att[r].cancel
           /\ s.att[r].publication = "in_progress"
           /\ s' = [s EXCEPT !.att[r].publication = "published", !.att[r].promotion = "promoted"]
  <2>1. s' = [s EXCEPT !.att[r].publication = "published", !.att[r].promotion = "promoted"]
    BY <1>4
  <2>2. /\ OnlyMarks(s, s', r, {"promotion", "publication"}) /\ s'.ledger = s.ledger
        /\ s'.att[r].promotion = "promoted"
    BY <1>1, <2>1, ZenonT(60) DEF Shape, Fields, Marks, OnlyMarks
  <2>3. CallsShape' /\ calls'[c].op = "idle" /\ \A d \in Callers \ {c} : calls'[d] = calls[d]
    BY <1>1, DoneLemma DEF IInv
  <2> QED BY <1>1, <1>4, <2>2, <2>3, TakeOverLemma
<1>5. CASE s' = RetainPublication(g, r)
  <2>1. s.att[r].promotion \in Done3
    BY <1>1 DEF IInv, PromoSound, PromotionAt
  <2>2. g.att[r].promotion \in Done3
    BY <1>1, <1>3, <2>1 DEF Settles, PromoKept, Done3
  <2>3. Settles(s, s')
    BY <1>1, <1>3, <1>5, <2>2, RetainPublicationLemma, SettlesAgain
  <2> QED BY <1>1, <2>3, DoneQuiet, QuietLemma
<1> QED BY <1>2, <1>4, <1>5

-----------------------------------------------------------------------------
(* Staging. *)

HandoffMarks == {"handoff", "evidence", "state", "cancel"}

(* A record that differs in one request's handoff and its file's entry. *)
LEMMA OnlyHandoff ==
  ASSUME NEW t, NEW u, NEW r \in Reqs, OnlyMarks(t, u, r, HandoffMarks), OnlyEntry(t, u, r, "stage"),
         t.att[r].cancel => u.att[r].cancel
  PROVE  StageMoves(t, u, r)
<1>1. HostKept(t, u)
  BY DEF OnlyMarks, HostKept, JobKept, LeaseKept, SaveKept, Bound
<1>2. ASSUME NEW q \in Reqs
      PROVE  /\ PromoKept(t, u, q) /\ IssueKept(t, u, q) /\ MarksKept(t, u, q)
             /\ q # r => StageKept(t, u, q) /\ EvidenceKept(t, u, q)
  <2>1. \A x \in Marks \ HandoffMarks : u.att[q][x] = t.att[q][x]
    BY DEF OnlyMarks
  <2>2. q # r => /\ u.att[q].handoff = t.att[q].handoff /\ u.att[q].evidence = t.att[q].evidence
                 /\ u.att[q].cancel = t.att[q].cancel
    BY DEF OnlyMarks, Marks
  <2>3. u.todo = t.todo
    BY DEF OnlyMarks
  <2>4. u.ledger[q]["promo"] = t.ledger[q]["promo"] /\ (q # r => u.ledger[q]["stage"] = t.ledger[q]["stage"])
    BY DEF OnlyEntry, Files
  <2> QED BY <2>1, <2>2, <2>3, <2>4 DEF StageKept, PromoKept, EvidenceKept, IssueKept, MarksKept,
                                        LedgerMoves, Marks, Claims, HandoffMarks
<1> QED BY <1>1, <1>2 DEF StageMoves, OnlyMarks

(* What the call that is staging a request knows. *)
LEMMA OwnStage ==
  ASSUME IInv, NEW c \in Callers, calls[c].op \in StageOps, NEW r, r = calls[c].r
  PROVE  /\ r \in Reqs /\ HandoffAt(calls[c].op, s.att[r].handoff)
         /\ s.att[r].handoff \in {"in_progress", "write_admitted", "create_boundary_crossed"}
         /\ s.att[r].evidence \in {"evidence_published", "revoked", "cancelled"}
         /\ Bound(s) => s.att[r].evidence = "evidence_published" /\ s.active = NoLease /\ ~Fresh(r)
         /\ EntryAt(calls[c].op, s.ledger[r]["stage"])
         /\ \A d \in Callers \ {c} : calls[d].r = r => calls[d].op \notin StageOps \cup {"accept"}
         /\ "stage" \in disk[r] =>
              /\ s.ledger[r]["stage"] \in Charged
              /\ s.ledger[r]["stage"] = "writing" => s.att[r].handoff = "create_boundary_crossed"
<1>1. r \in Reqs
  BY DEF IInv, CallsShape, StageOps
<1>2. StageSound(r)
  BY <1>1 DEF IInv
<1>3. /\ HandoffAt(calls[c].op, s.att[r].handoff)
      /\ s.att[r].evidence \in {"evidence_published", "revoked", "cancelled"}
      /\ Bound(s) => s.att[r].evidence = "evidence_published" /\ s.active = NoLease
      /\ EntryAt(calls[c].op, s.ledger[r]["stage"])
      /\ "stage" \in disk[r] =>
              /\ s.ledger[r]["stage"] \in Charged
              /\ s.ledger[r]["stage"] = "writing" => s.att[r].handoff = "create_boundary_crossed"
  BY <1>2 DEF StageSound
<1>4. s.att[r].handoff \in {"in_progress", "write_admitted", "create_boundary_crossed"}
  BY <1>3 DEF HandoffAt, StageOps
<1>5. Bound(s) => ~Fresh(r)
  BY <1>1, <1>3 DEF IInv, LeaseSound
<1>6. ASSUME NEW d \in Callers \ {c}, calls[d].r = r
      PROVE  calls[d].op \notin StageOps \cup {"accept"}
  <2>1. calls[d].op \notin StageOps
    BY <1>2, <1>6 DEF StageSound
  <2>2. HandoffAt(calls[d].op, s.att[r].handoff)
    BY <1>2, <1>6 DEF StageSound
  <2> QED BY <1>4, <2>1, <2>2 DEF HandoffAt
<1> QED BY <1>1, <1>3, <1>4, <1>5, <1>6

(* A step of that call, after whatever the gate did first: it ends or is   *)
(* at its next step.                                                       *)
StagedOn(c, r) ==
  \/ calls'[c].op = "idle"
  \/ /\ calls'[c].op \in StageOps /\ calls'[c].r = r
     /\ HandoffAt(calls'[c].op, s'.att[r].handoff)
     /\ s'.att[r].evidence = s.att[r].evidence
     /\ EntryAt(calls'[c].op, s'.ledger[r]["stage"])

(* The step of the call that is staging is sound. *)
LEMMA StageOwnStep ==
  ASSUME IInv, NEW c \in Callers, calls[c].op \in StageOps, NEW r, r = calls[c].r,
         NEW t, Settles(s, t), OnlyMarks(t, s', r, HandoffMarks), OnlyEntry(t, s', r, "stage"),
         t.att[r].cancel => s'.att[r].cancel,
         CallsShape', \A d \in Callers \ {c} : calls'[d] = calls[d],
         StagedOn(c, r),
         UNCHANGED <<gallery, saves>>, DOMAIN disk' = Reqs,
         \A q \in Reqs : /\ "promo" \in disk'[q] => "promo" \in disk[q]
                         /\ q # r /\ "stage" \in disk'[q] => "stage" \in disk[q],
         "stage" \in disk'[r] =>
           /\ s'.ledger[r]["stage"] \in Charged
           /\ s'.ledger[r]["stage"] = "writing" => s'.att[r].handoff = "create_boundary_crossed",
         t.ledger[r]["stage"] = "uncertain" => s'.ledger[r]["stage"] = "uncertain",
         s'.att[r].handoff = "staged" => ~s.att[r].cancel
  PROVE  Sound
<1>1. /\ r \in Reqs
      /\ s.att[r].handoff \in {"in_progress", "write_admitted", "create_boundary_crossed"}
      /\ s.att[r].evidence \in {"evidence_published", "revoked", "cancelled"}
      /\ Bound(s) => s.att[r].evidence = "evidence_published" /\ s.active = NoLease /\ ~Fresh(r)
      /\ \A d \in Callers \ {c} : calls[d].r = r => calls[d].op \notin StageOps \cup {"accept"}
  BY OwnStage
<1>2. StageMoves(s, s', r)
  BY <1>1, OnlyHandoff, MoveAgain
<1>3. LeaseKept(s, s')
  BY <1>2 DEF StageMoves, HostKept
<1>4. StageSound(r)'
  <2>1. ASSUME NEW d \in Callers, calls'[d].r = r
        PROVE  /\ HandoffAt(calls'[d].op, s'.att[r].handoff)
               /\ EntryAt(calls'[d].op, s'.ledger[r]["stage"])
               /\ calls'[d].op \in StageOps =>
                    /\ s'.att[r].evidence \in {"evidence_published", "revoked", "cancelled"}
                    /\ Bound(s') => s'.att[r].evidence = "evidence_published" /\ s'.active = NoLease
               /\ d # c => calls'[d].op \notin StageOps
    <3>1. CASE d = c
      BY <1>1, <1>3, <3>1 DEF StagedOn, HandoffAt, EntryAt, LeaseKept, StageOps
    <3>2. CASE d # c
      <4>1. calls'[d].op \notin StageOps \cup {"accept"}
        BY <1>1, <2>1, <3>2
      <4> QED BY <3>2, <4>1 DEF StageOps, HandoffAt, EntryAt
    <3> QED BY <3>1, <3>2
  <2> QED BY <2>1 DEF StageSound, Bound
<1>5. StageFinal(s, s', r)
  <2>1. s.ledger[r]["stage"] = "uncertain" => t.ledger[r]["stage"] = "uncertain"
    BY <1>1 DEF Settles, StageKept, LedgerMoves
  <2> QED BY <1>1, <2>1 DEF StageFinal
<1>6. /\ \A q \in Reqs \ {r} : StageCallsKept(q)
      /\ \A q \in Reqs : PromoCallsKept(q)
      /\ SaveCallsKept
  BY DEF StagedOn, PromoCallsKept, StageCallsKept, SaveCallsKept, StageOps, PromoOps, SaveOps
<1>7. Elsewhere
  BY DEF Elsewhere
<1>8. ~(Bound(s') /\ Fresh(r))
  BY <1>1, <1>3 DEF LeaseKept
<1> QED BY <1>1, <1>2, <1>4, <1>5, <1>6, <1>7, <1>8, StageStepLemma

(* A staging that goes on: nothing is created. *)
LEMMA StageGoes ==
  ASSUME IInv, NEW c \in Callers, calls[c].op \in StageOps, NEW r, r = calls[c].r, Files0,
         OnlyMarks(s, s', r, {"handoff"}), OnlyEntry(s, s', r, "stage"),
         NEW o \in StageOps, Goto(c, o), HandoffAt(o, s'.att[r].handoff),
         EntryAt(o, s'.ledger[r]["stage"]),
         \/ s'.ledger[r]["stage"] = s.ledger[r]["stage"]
         \/ s.ledger[r]["stage"] = "reserved"
         \/ s.ledger[r]["stage"] = "writing" /\ s'.ledger[r]["stage"] = "completed",
         s.att[r].handoff = "create_boundary_crossed" => s'.att[r].handoff = "create_boundary_crossed"
  PROVE  Sound
<1>1. /\ CallsShape' /\ calls'[c].op = o /\ calls'[c].r = r /\ r \in Reqs
      /\ \A d \in Callers \ {c} : calls'[d] = calls[d]
  BY GotoLemma DEF IInv, StageOps
<1>2. Settles(s, s)
  BY SettlesSelf DEF IInv
<1>3. s'.att[r].handoff # "staged"
  BY DEF HandoffAt, StageOps
<1>4. "stage" \in disk'[r] =>
           /\ s'.ledger[r]["stage"] \in Charged
           /\ s'.ledger[r]["stage"] = "writing" => s'.att[r].handoff = "create_boundary_crossed"
  BY OwnStage DEF Charged, Files0
<1>5. s.ledger[r]["stage"] = "uncertain" => s'.ledger[r]["stage"] = "uncertain"
  OBVIOUS
<1>6. UNCHANGED <<gallery, saves, disk>> /\ DOMAIN disk' = Reqs
  BY DEF Files0, IInv
<1>7. /\ OnlyMarks(s, s', r, HandoffMarks) /\ s'.att[r].evidence = s.att[r].evidence
      /\ s'.att[r].cancel = s.att[r].cancel
  BY <1>1 DEF OnlyMarks, HandoffMarks, Marks
<1>8. StagedOn(c, r)
  BY <1>1, <1>7 DEF StagedOn
<1> QED BY <1>1, <1>2, <1>3, <1>4, <1>5, <1>6, <1>7, <1>8, StageOwnStep

(* A staging that ends. *)
LEMMA StageEnds ==
  ASSUME IInv, NEW c \in Callers, calls[c].op \in StageOps, NEW r, r = calls[c].r, Done(c),
         NEW t, Settles(s, t), OnlyMarks(t, s', r, HandoffMarks), OnlyEntry(t, s', r, "stage"),
         t.att[r].cancel => s'.att[r].cancel,
         UNCHANGED <<gallery, saves>>, DOMAIN disk' = Reqs,
         \A q \in Reqs : /\ "promo" \in disk'[q] => "promo" \in disk[q]
                         /\ q # r /\ "stage" \in disk'[q] => "stage" \in disk[q],
         "stage" \in disk'[r] => "stage" \in disk[r] \/ calls[c].op = "stage file",
         t.ledger[r]["stage"] \in {"completed", "uncertain"} => s'.ledger[r]["stage"] \in {"completed", "uncertain"},
         ("stage" \in disk'[r] /\ t.ledger[r]["stage"] = "writing"
            /\ t.att[r].handoff = "create_boundary_crossed") =>
           s'.ledger[r]["stage"] \in {"completed", "uncertain"},
         t.ledger[r]["stage"] = "uncertain" => s'.ledger[r]["stage"] = "uncertain",
         s'.att[r].handoff = "staged" => ~s.att[r].cancel
  PROVE  Sound
<1>1. CallsShape' /\ calls'[c].op = "idle" /\ \A d \in Callers \ {c} : calls'[d] = calls[d]
  BY DoneLemma DEF IInv
<1>2. /\ r \in Reqs
      /\ "stage" \in disk'[r] =>
              /\ s.ledger[r]["stage"] \in Charged
              /\ s.ledger[r]["stage"] = "writing" => s.att[r].handoff = "create_boundary_crossed"
  BY OwnStage DEF HandoffAt, EntryAt
<1>3. /\ LedgerMoves(s.ledger[r]["stage"], t.ledger[r]["stage"])
      /\ t.att[r].handoff = s.att[r].handoff
  BY <1>2 DEF Settles, StageKept
<1>4. "stage" \in disk'[r] => s'.ledger[r]["stage"] \in {"completed", "uncertain"}
  BY <1>2, <1>3 DEF LedgerMoves, Charged
<1>5. "stage" \in disk'[r] =>
           /\ s'.ledger[r]["stage"] \in Charged
           /\ s'.ledger[r]["stage"] = "writing" => s'.att[r].handoff = "create_boundary_crossed"
  BY <1>4 DEF Charged
<1>6. \A q \in Reqs : /\ "promo" \in disk'[q] => "promo" \in disk[q]
                    /\ q # r /\ "stage" \in disk'[q] => "stage" \in disk[q]
  OBVIOUS
<1>7. StagedOn(c, r)
  BY <1>1 DEF StagedOn
<1>8. CallsShape' /\ \A d \in Callers \ {c} : calls'[d] = calls[d]
  BY <1>1
<1> QED BY <1>5, <1>6, <1>7, <1>8, StageOwnStep, ZenonT(60)

(* What cancelling a reservation may change. *)
LEMMA CancelStagingMarks ==
  ASSUME NEW t, Shape(t), NEW r \in Reqs
  PROVE  LET u == CancelStaging(t, r)
         IN  /\ OnlyMarks(t, u, r, HandoffMarks) /\ OnlyEntry(t, u, r, "stage")
             /\ t.att[r].cancel => u.att[r].cancel
             /\ u.att[r].handoff = t.att[r].handoff /\ u.att[r].evidence = t.att[r].evidence
             /\ LedgerMoves(t.ledger[r]["stage"], u.ledger[r]["stage"])
<1> DEFINE u == CancelStaging(t, r)
<1>1. /\ Shape(u) /\ u.active = t.active /\ u.state = t.state /\ u.reason = t.reason
      /\ u.save = t.save /\ u.todo = t.todo /\ u.job = t.job
      /\ t.att[r].cancel => u.att[r].cancel
      /\ OnlyEntry(t, u, r, "stage") /\ LedgerMoves(t.ledger[r]["stage"], u.ledger[r]["stage"])
  BY DEF Shape, Fields, Marks, Files, CancelStaging, LedgerMoves, OnlyEntry
<1>2. \A q \in Reqs : \A x \in Marks : q # r \/ x \notin {"state", "cancel"} => u.att[q][x] = t.att[q][x]
  BY DEF Shape, Fields, Marks, CancelStaging
<1> HIDE DEF u
<1> QED BY <1>1, <1>2 DEF OnlyMarks, HandoffMarks, Marks, u

(* A staging that fails: a file that may exist stays charged. *)
LEMMA StageFailedLemma ==
  ASSUME NEW t, Shape(t), NEW r \in Reqs, NEW created \in BOOLEAN, NEW z, z = StageFailed(t, r, created)
  PROVE  /\ OnlyMarks(t, z, r, HandoffMarks) /\ OnlyEntry(t, z, r, "stage")
         /\ t.att[r].cancel => z.att[r].cancel
         /\ t.att[r].handoff # "staged" => z.att[r].handoff # "staged"
         /\ t.ledger[r]["stage"] \in {"completed", "uncertain"} =>
              z.ledger[r]["stage"] \in {"completed", "uncertain"}
         /\ t.ledger[r]["stage"] = "writing" /\ created = TRUE =>
              z.ledger[r]["stage"] \in {"completed", "uncertain"}
         /\ t.ledger[r]["stage"] = "uncertain" => z.ledger[r]["stage"] = "uncertain"
<1> DEFINE a == AbandonWrite(t, r, "stage", created)
           u == [a EXCEPT !.writer = @ /\ ~created]
           l == u.ledger[r]["stage"]
           unsure == ~u.writer \/ l \in {"uncertain", "completed"}
           v == IF l = "cancelled" \/ (~unsure /\ l \in Unsettled) THEN CancelStaging(u, r) ELSE u
           w == IF unsure /\ l = "completed" THEN RetainCompleted(v, r, "stage") ELSE v
           late == unsure \/ (l \in Unsettled /\ v.ledger[r]["stage"] # "cancelled")
           x == FailHandoff(w, r, late)
<1>1. z = x
  BY DEF StageFailed
<1>2. /\ OnlyMarks(t, a, r, {}) /\ OnlyEntry(t, a, r, "stage")
      /\ a.ledger[r]["stage"] = IF t.ledger[r]["stage"] # "writing" THEN t.ledger[r]["stage"]
                                ELSE IF created = FALSE /\ t.live THEN "cancelled" ELSE "uncertain"
  <2>1. "stage" \in Files
    BY DEF Files
  <2> QED BY <2>1, AbandonWriteLemma
<1> HIDE DEF a
<1>4. /\ OnlyMarks(t, u, r, {}) /\ OnlyEntry(t, u, r, "stage") /\ u.ledger = a.ledger
      /\ Shape(u) /\ u.att = a.att
  <2>1. Shape(a)
    BY <1>2 DEF OnlyMarks
  <2>2. /\ Shape(u) /\ u.active = a.active /\ u.state = a.state /\ u.reason = a.reason
        /\ u.save = a.save /\ u.todo = a.todo /\ u.job = a.job /\ u.att = a.att /\ u.ledger = a.ledger
    BY <2>1 DEF Shape, Fields
  <2> HIDE DEF u
  <2> QED BY <1>2, <2>2 DEF OnlyMarks, OnlyEntry
<1> HIDE DEF u
<1>5. /\ OnlyMarks(u, v, r, HandoffMarks) /\ OnlyEntry(u, v, r, "stage")
      /\ u.att[r].cancel => v.att[r].cancel
      /\ v.att[r].handoff = u.att[r].handoff
      /\ LedgerMoves(l, v.ledger[r]["stage"]) /\ Shape(v)
      /\ l = "completed" => v.ledger[r]["stage"] = "completed"
  <2>1. CASE v = u
    BY <1>4, <2>1 DEF OnlyMarks, OnlyEntry, LedgerMoves
  <2>2. CASE v = CancelStaging(u, r) /\ l # "completed"
    <3>1. /\ OnlyMarks(u, v, r, HandoffMarks) /\ OnlyEntry(u, v, r, "stage")
          /\ u.att[r].cancel => v.att[r].cancel
          /\ v.att[r].handoff = u.att[r].handoff
          /\ LedgerMoves(u.ledger[r]["stage"], v.ledger[r]["stage"])
      <4> HIDE DEF v
      <4> QED BY <1>4, <2>2, CancelStagingMarks
    <3> QED BY <2>2, <3>1 DEF OnlyMarks
  <2>3. v = u \/ (v = CancelStaging(u, r) /\ l # "completed")
    BY DEF Unsettled
  <2> HIDE DEF v
  <2> QED BY <2>1, <2>2, <2>3
<1> HIDE DEF unsure, v
<1>6. /\ OnlyMarks(v, w, r, {}) /\ OnlyEntry(v, w, r, "stage") /\ w.att = v.att /\ Shape(w)
      /\ w.ledger[r]["stage"] = v.ledger[r]["stage"] \/ w.ledger[r]["stage"] = "uncertain"
  <2>1. CASE unsure /\ l = "completed"
    <3>1. w = [v EXCEPT !.ledger[r]["stage"] = "uncertain", !.live = FALSE]
      BY <1>5, <2>1 DEF RetainCompleted
    <3> HIDE DEF w
    <3>2. /\ Shape(w) /\ w.active = v.active /\ w.state = v.state /\ w.reason = v.reason
          /\ w.save = v.save /\ w.todo = v.todo /\ w.job = v.job /\ w.att = v.att
          /\ OnlyEntry(v, w, r, "stage") /\ w.ledger[r]["stage"] = "uncertain"
      BY <1>5, <3>1 DEF Shape, Fields, Files, OnlyEntry
    <3> QED BY <3>2 DEF OnlyMarks
  <2>2. CASE ~(unsure /\ l = "completed")
    <3>1. w = v
      BY <2>2
    <3> QED BY <1>5, <3>1 DEF OnlyMarks, OnlyEntry
  <2> QED BY <2>1, <2>2
<1> HIDE DEF w, late
<1>7. /\ OnlyMarks(w, x, r, HandoffMarks) /\ x.ledger = w.ledger
      /\ w.att[r].cancel => x.att[r].cancel
      /\ w.att[r].handoff # "staged" => x.att[r].handoff # "staged"
  <2>1. \/ x.att[r].handoff = w.att[r].handoff
        \/ x.att[r].handoff \in {"retained_uncertain", "refused"}
    BY <1>6, FailHandoffLemma
  <2>2. /\ OnlyMarks(w, x, r, HandoffMarks) /\ x.ledger = w.ledger
        /\ w.att[r].cancel => x.att[r].cancel
    BY <1>6, FailHandoffLemma DEF HandoffMarks
  <2> QED BY <2>1, <2>2
<1> HIDE DEF x
<1>8. OnlyMarks(t, x, r, HandoffMarks)
  BY <1>4, <1>5, <1>6, <1>7 DEF OnlyMarks
<1>9. OnlyEntry(t, x, r, "stage")
  BY <1>4, <1>5, <1>6, <1>7 DEF OnlyEntry
<1>10. t.att[r].handoff = u.att[r].handoff /\ t.att[r].cancel = u.att[r].cancel
  BY <1>4 DEF OnlyMarks, Marks
<1>11. LedgerMoves(l, x.ledger[r]["stage"]) \/ x.ledger[r]["stage"] = "uncertain"
  BY <1>5, <1>6, <1>7
<1>12. l = IF t.ledger[r]["stage"] # "writing" THEN t.ledger[r]["stage"]
           ELSE IF created = FALSE /\ t.live THEN "cancelled" ELSE "uncertain"
  BY <1>2, <1>4
<1> HIDE DEF l
<1>13. /\ t.ledger[r]["stage"] \in {"completed", "uncertain"} => x.ledger[r]["stage"] \in {"completed", "uncertain"}
       /\ t.ledger[r]["stage"] = "writing" /\ created = TRUE =>
            x.ledger[r]["stage"] \in {"completed", "uncertain"}
       /\ t.ledger[r]["stage"] = "uncertain" => x.ledger[r]["stage"] = "uncertain"
  BY <1>11, <1>12 DEF LedgerMoves
<1>14. /\ t.att[r].cancel => x.att[r].cancel
       /\ t.att[r].handoff # "staged" => x.att[r].handoff # "staged"
  BY <1>5, <1>6, <1>7, <1>10
<1> QED BY <1>1, <1>8, <1>9, <1>13, <1>14

(* The same of a step. *)
LEMMA StageFailedStep ==
  ASSUME NEW t, Shape(t), NEW r \in Reqs, NEW created \in BOOLEAN, s' = StageFailed(t, r, created)
  PROVE  /\ OnlyMarks(t, s', r, HandoffMarks) /\ OnlyEntry(t, s', r, "stage")
         /\ t.att[r].cancel => s'.att[r].cancel
         /\ t.att[r].handoff # "staged" => s'.att[r].handoff # "staged"
         /\ t.ledger[r]["stage"] \in {"completed", "uncertain"} =>
              s'.ledger[r]["stage"] \in {"completed", "uncertain"}
         /\ t.ledger[r]["stage"] = "writing" /\ created = TRUE =>
              s'.ledger[r]["stage"] \in {"completed", "uncertain"}
         /\ t.ledger[r]["stage"] = "uncertain" => s'.ledger[r]["stage"] = "uncertain"
<1>1. OnlyMarks(t, s', r, HandoffMarks) /\ OnlyEntry(t, s', r, "stage")
  BY StageFailedLemma, Zenon
<1>2. t.att[r].cancel => s'.att[r].cancel
  BY StageFailedLemma, Zenon
<1>3. t.att[r].handoff # "staged" => s'.att[r].handoff # "staged"
  BY StageFailedLemma, Zenon
<1>4. t.ledger[r]["stage"] \in {"completed", "uncertain"} =>
        s'.ledger[r]["stage"] \in {"completed", "uncertain"}
  BY StageFailedLemma, Zenon
<1>5. t.ledger[r]["stage"] = "writing" /\ created = TRUE =>
        s'.ledger[r]["stage"] \in {"completed", "uncertain"}
  BY StageFailedLemma, Zenon
<1>6. t.ledger[r]["stage"] = "uncertain" => s'.ledger[r]["stage"] = "uncertain"
  BY StageFailedLemma, Zenon
<1> QED BY <1>1, <1>2, <1>3, <1>4, <1>5, <1>6

(* A staging that fails. *)
LEMMA StageFailedSound ==
  ASSUME IInv, NEW c \in Callers, calls[c].op \in StageOps, NEW r, r = calls[c].r, Done(c),
         NEW t, Settles(s, t), NEW created \in BOOLEAN, s' = StageFailed(t, r, created),
         UNCHANGED <<gallery, saves>>, DOMAIN disk' = Reqs,
         \A q \in Reqs : /\ "promo" \in disk'[q] => "promo" \in disk[q]
                         /\ q # r /\ "stage" \in disk'[q] => "stage" \in disk[q],
         "stage" \in disk'[r] => "stage" \in disk[r] \/ calls[c].op = "stage file",
         "stage" \in disk'[r] /\ s.att[r].handoff = "create_boundary_crossed" => created = TRUE
  PROVE  Sound
<1>1. r \in Reqs /\ Shape(t) /\ s.att[r].handoff # "staged"
  BY OwnStage DEF Settles
<1>2. t.att[r].handoff # "staged" /\ t.att[r].handoff = s.att[r].handoff
  BY <1>1 DEF Settles, StageKept
<1>3. /\ OnlyMarks(t, s', r, HandoffMarks) /\ OnlyEntry(t, s', r, "stage")
      /\ t.att[r].cancel => s'.att[r].cancel
      /\ s'.att[r].handoff # "staged"
      /\ t.ledger[r]["stage"] \in {"completed", "uncertain"} => s'.ledger[r]["stage"] \in {"completed", "uncertain"}
      /\ t.ledger[r]["stage"] = "writing" /\ created = TRUE =>
           s'.ledger[r]["stage"] \in {"completed", "uncertain"}
      /\ t.ledger[r]["stage"] = "uncertain" => s'.ledger[r]["stage"] = "uncertain"
  BY <1>1, <1>2, StageFailedStep
<1>4. ("stage" \in disk'[r] /\ t.ledger[r]["stage"] = "writing"
         /\ t.att[r].handoff = "create_boundary_crossed") =>
        s'.ledger[r]["stage"] \in {"completed", "uncertain"}
  BY <1>2, <1>3
<1> QED BY <1>3, <1>4, StageEnds, ZenonT(60)

(* A step of the writer. *)
LEMMA StageStepSound ==
  ASSUME IInv, NEW c \in Callers, NEW from \in StageOps, NEW to \in StageOps, NEW ok, NEW t,
         StageStep(c, from, to, ok, t),
         ok => /\ OnlyMarks(s, t, R(c), {"handoff"}) /\ OnlyEntry(s, t, R(c), "stage")
               /\ HandoffAt(to, t.att[R(c)].handoff)
               /\ EntryAt(to, t.ledger[R(c)]["stage"])
               /\ \/ t.ledger[R(c)]["stage"] = s.ledger[R(c)]["stage"]
                  \/ s.ledger[R(c)]["stage"] = "reserved"
                  \/ s.ledger[R(c)]["stage"] = "writing" /\ t.ledger[R(c)]["stage"] = "completed"
               /\ s.att[R(c)].handoff = "create_boundary_crossed" =>
                    t.att[R(c)].handoff = "create_boundary_crossed"
  PROVE  Sound
<1>1. /\ R(c) = calls[c].r /\ calls[c].op = from /\ Files0
      /\ UNCHANGED <<gallery, saves, disk>> /\ DOMAIN disk' = Reqs
  BY DEF StageStep, IInv, R, Files0, In
<1>2. \/ ok /\ s' = t /\ Goto(c, to)
      \/ s' = StageFailed(Gate(FALSE), R(c), Crossed(s, R(c))) /\ Done(c)
  BY DEF StageStep
<1>3. CASE ok /\ s' = t /\ Goto(c, to)
  BY <1>1, <1>3, StageGoes
<1>4. CASE s' = StageFailed(Gate(FALSE), R(c), Crossed(s, R(c))) /\ Done(c)
  <2>1. Settles(s, Gate(FALSE))
    BY GateIs
  <2>2. Crossed(s, R(c)) \in BOOLEAN /\ (s.att[R(c)].handoff = "create_boundary_crossed" => Crossed(s, R(c)))
    BY DEF Crossed
  <2> QED BY <1>1, <1>4, <2>1, <2>2, StageFailedSound
<1> QED BY <1>2, <1>3, <1>4

(* The record with another handoff mark. *)
LEMMA HandoffIs ==
  ASSUME Shape(s), NEW r \in Reqs, NEW x, NEW t, t = [s EXCEPT !.att[r].handoff = x]
  PROVE  /\ OnlyMarks(s, t, r, {"handoff"}) /\ OnlyEntry(s, t, r, "stage")
         /\ t.ledger = s.ledger /\ t.att[r].handoff = x
<1>1. OnlyMarks(s, t, r, {"handoff"}) /\ t.ledger = s.ledger /\ t.att[r].handoff = x
  BY DEF Shape, Fields, Marks, OnlyMarks
<1> QED BY <1>1 DEF OnlyEntry

(* The record with another entry of the staged file. *)
LEMMA StageEntryIs ==
  ASSUME Shape(s), NEW r \in Reqs, NEW x, NEW t, t = [s EXCEPT !.ledger[r]["stage"] = x]
  PROVE  /\ OnlyMarks(s, t, r, {"handoff"}) /\ OnlyEntry(s, t, r, "stage")
         /\ t.ledger[r]["stage"] = x /\ t.att = s.att
<1>1. /\ Shape(t) /\ t.active = s.active /\ t.state = s.state /\ t.reason = s.reason
      /\ t.save = s.save /\ t.todo = s.todo /\ t.job = s.job /\ t.att = s.att
  BY DEF Shape, Fields
<1>2. OnlyEntry(s, t, r, "stage") /\ t.ledger[r]["stage"] = x
  BY DEF Shape, Fields, Files, OnlyEntry
<1> QED BY <1>1, <1>2 DEF OnlyMarks

(* What a call knows while it stages. *)
LEMMA StagingLemma ==
  ASSUME IInv, NEW c \in Callers, NEW o \in StageOps, In(c, o)
  PROVE  /\ R(c) \in Reqs /\ Shape(s) /\ HandoffAt(o, s.att[R(c)].handoff)
         /\ EntryAt(o, s.ledger[R(c)]["stage"])
BY OwnStage DEF In, R, IInv

(* The reservation becomes a write. *)
LEMMA StageAdmitSound == ASSUME IInv, NEW c \in Callers, StageAdmit(c) PROVE Sound
<1> DEFINE r == R(c)
           t == [s EXCEPT !.ledger[r]["stage"] = "writing"]
<1>1. "stage admit" \in StageOps /\ "stage record" \in StageOps
  BY DEF StageOps
<1>2. r \in Reqs /\ Shape(s) /\ HandoffAt("stage admit", s.att[r].handoff)
  BY <1>1, StagingLemma DEF StageAdmit, StageStep
<1>3. /\ OnlyMarks(s, t, r, {"handoff"}) /\ OnlyEntry(s, t, r, "stage") /\ t.att = s.att
  <2>1. r \in Reqs /\ Shape(s) /\ t = [s EXCEPT !.ledger[r]["stage"] = "writing"]
    BY <1>2
  <2> HIDE DEF r, t
  <2>2. OnlyMarks(s, t, r, {"handoff"}) /\ OnlyEntry(s, t, r, "stage") /\ t.att = s.att
    BY <2>1, StageEntryIs
  <2> QED BY <2>2
<1>4. HandoffAt("stage record", t.att[r].handoff) /\ EntryAt("stage record", t.ledger[r]["stage"])
  BY <1>2, <1>3 DEF HandoffAt, EntryAt
<1>5. StageStep(c, "stage admit", "stage record", s.live /\ s.ledger[r]["stage"] = "reserved", t)
  BY DEF StageAdmit
<1> HIDE DEF t
<1> QED BY <1>1, <1>3, <1>4, <1>5, StageStepSound

(* The write is recorded. *)
LEMMA StageRecordSound == ASSUME IInv, NEW c \in Callers, StageRecord(c) PROVE Sound
<1> DEFINE t == [s EXCEPT !.att[R(c)].handoff = "write_admitted"]
<1>1. "stage record" \in StageOps /\ "stage create" \in StageOps
  BY DEF StageOps
<1>2. R(c) \in Reqs /\ Shape(s) /\ HandoffAt("stage record", s.att[R(c)].handoff)
  BY <1>1, StagingLemma DEF StageRecord, StageStep
<1>3. /\ OnlyMarks(s, t, R(c), {"handoff"}) /\ OnlyEntry(s, t, R(c), "stage")
      /\ t.ledger = s.ledger /\ t.att[R(c)].handoff = "write_admitted"
  BY <1>2, HandoffIs
<1>4. HandoffAt("stage create", t.att[R(c)].handoff) /\ EntryAt("stage create", t.ledger[R(c)]["stage"])
      /\ s.att[R(c)].handoff # "create_boundary_crossed"
  BY <1>2, <1>3 DEF HandoffAt, EntryAt
<1>5. StageStep(c, "stage record", "stage create",
            HostCurrent /\ HandoffMatches(s, R(c), {"in_progress"}) /\ Writing(R(c), "stage"), t)
  BY DEF StageRecord
<1> HIDE DEF t
<1> QED BY <1>1, <1>3, <1>4, <1>5, StageStepSound

(* The writer crosses the create boundary. *)
LEMMA StageCreateSound == ASSUME IInv, NEW c \in Callers, StageCreate(c) PROVE Sound
<1> DEFINE t == [s EXCEPT !.att[R(c)].handoff = "create_boundary_crossed"]
<1>1. "stage create" \in StageOps /\ "stage file" \in StageOps
  BY DEF StageOps
<1>2. R(c) \in Reqs /\ Shape(s)
  BY <1>1, StagingLemma DEF StageCreate, StageStep
<1>3. /\ OnlyMarks(s, t, R(c), {"handoff"}) /\ OnlyEntry(s, t, R(c), "stage")
      /\ t.ledger = s.ledger /\ t.att[R(c)].handoff = "create_boundary_crossed"
  BY <1>2, HandoffIs
<1>4. HandoffAt("stage file", t.att[R(c)].handoff)
  BY <1>3 DEF HandoffAt
<1>5. StageStep(c, "stage create", "stage file",
            /\ HostCurrent /\ Writing(R(c), "stage")
            /\ HandoffMatches(s, R(c), {"write_admitted", "create_boundary_crossed"}), t)
  BY DEF StageCreate
<1>6. Writing(R(c), "stage") => EntryAt("stage file", t.ledger[R(c)]["stage"])
  BY <1>3 DEF Writing, Charged, EntryAt
<1> HIDE DEF t
<1> QED BY <1>1, <1>3, <1>4, <1>5, <1>6, StageStepSound

(* The entry is completed. *)
LEMMA StageCompleteSound == ASSUME IInv, NEW c \in Callers, StageComplete(c) PROVE Sound
<1> DEFINE r == R(c)
           t == [s EXCEPT !.ledger[r]["stage"] = "completed"]
<1>1. "stage complete" \in StageOps /\ "stage end" \in StageOps
  BY DEF StageOps
<1>2. r \in Reqs /\ Shape(s) /\ HandoffAt("stage complete", s.att[r].handoff)
  BY <1>1, StagingLemma DEF StageComplete, StageStep
<1>3. /\ OnlyMarks(s, t, r, {"handoff"}) /\ OnlyEntry(s, t, r, "stage") /\ t.att = s.att
      /\ t.ledger[r]["stage"] = "completed"
  <2>1. r \in Reqs /\ Shape(s) /\ t = [s EXCEPT !.ledger[r]["stage"] = "completed"]
    BY <1>2
  <2> HIDE DEF r, t
  <2>2. OnlyMarks(s, t, r, {"handoff"}) /\ OnlyEntry(s, t, r, "stage") /\ t.att = s.att
    BY <2>1, StageEntryIs
  <2>3. t.ledger[r]["stage"] = "completed"
    BY <2>1 DEF Shape, Fields, Files
  <2> QED BY <2>2, <2>3
<1>4. HandoffAt("stage end", t.att[r].handoff) /\ EntryAt("stage end", t.ledger[r]["stage"])
  BY <1>2, <1>3 DEF HandoffAt, EntryAt
<1>5. StageStep(c, "stage complete", "stage end", Writing(r, "stage"), t)
  BY DEF StageComplete
<1>6. Writing(r, "stage") => s.ledger[r]["stage"] = "writing"
  BY DEF Writing
<1> HIDE DEF t
<1> QED BY <1>1, <1>3, <1>4, <1>5, <1>6, StageStepSound

(* A staged file comes into being. *)
LEMMA StageFileSound == ASSUME IInv, NEW c \in Callers, StageFile(c) PROVE Sound
<1> DEFINE r == R(c)
<1>1. "stage file" \in StageOps /\ calls[c].op = "stage file" /\ r = calls[c].r
  BY DEF StageOps, StageFile, In, R
<1>2. /\ r \in Reqs /\ Shape(s) /\ HandoffAt("stage file", s.att[r].handoff)
      /\ s.ledger[r]["stage"] \in Charged
  BY <1>1, StagingLemma DEF StageFile, EntryAt
<1>3. s.att[r].handoff = "create_boundary_crossed"
  BY <1>2 DEF HandoffAt
<1>4. /\ UNCHANGED <<gallery, saves>> /\ DOMAIN disk' = Reqs
      /\ \A q \in Reqs : \A g : g # "stage" \/ q # r => (g \in disk'[q] => g \in disk[q])
      /\ \/ /\ s' = s /\ CallsShape' /\ calls'[c].op \in {"stage create", "stage complete"}
            /\ calls'[c].r = calls[c].r /\ \A d \in Callers \ {c} : calls'[d] = calls[d]
         \/ s' = StageFailed(s, r, TRUE) /\ Done(c)
         \/ s' = StageFailed(s, r, FALSE) /\ Done(c) /\ disk' = disk /\ "stage" \notin disk[r]
  <2>1. CASE FileCreated(c, "stage", "stage create", "stage complete", StageFailed(s, r, TRUE))
    BY <1>1, <2>1, FileLemma
  <2>2. CASE Files0 /\ "stage" \notin disk[r] /\ Done(c) /\ s' = StageFailed(s, r, FALSE)
    BY <2>2 DEF Files0, IInv
  <2> QED BY <2>1, <2>2 DEF StageFile
<1> HIDE DEF r
<1>5. Settles(s, s) /\ \A q \in Reqs : /\ "promo" \in disk'[q] => "promo" \in disk[q]
                                       /\ q # r /\ "stage" \in disk'[q] => "stage" \in disk[q]
  BY <1>2, <1>4, SettlesSelf
<1>6. CASE s' = StageFailed(s, r, TRUE) /\ Done(c)
  BY <1>1, <1>4, <1>5, <1>6, StageFailedSound
<1>8. CASE s' = StageFailed(s, r, FALSE) /\ Done(c) /\ disk' = disk /\ "stage" \notin disk[r]
  BY <1>1, <1>4, <1>5, <1>8, StageFailedSound
<1>7. CASE /\ s' = s /\ CallsShape' /\ calls'[c].op \in {"stage create", "stage complete"}
           /\ calls'[c].r = calls[c].r /\ \A d \in Callers \ {c} : calls'[d] = calls[d]
  <2>1. OnlyMarks(s, s', r, HandoffMarks) /\ OnlyEntry(s, s', r, "stage")
    BY <1>2, <1>7 DEF OnlyMarks, OnlyEntry
  <2>2. StagedOn(c, r)
    BY <1>1, <1>3, <1>7 DEF StageOps, HandoffAt, EntryAt, Charged, StagedOn
  <2>3. "stage" \in disk'[r] =>
           /\ s'.ledger[r]["stage"] \in Charged
           /\ s'.ledger[r]["stage"] = "writing" => s'.att[r].handoff = "create_boundary_crossed"
    BY <1>2, <1>3, <1>7
  <2>4. s'.att[r].handoff = "create_boundary_crossed" /\ (s.att[r].cancel => s'.att[r].cancel)
        /\ (s.ledger[r]["stage"] = "uncertain" => s'.ledger[r]["stage"] = "uncertain")
    BY <1>3, <1>7
  <2> QED BY <1>1, <1>4, <1>5, <1>7, <2>1, <2>2, <2>3, <2>4, StageOwnStep
<1> QED BY <1>4, <1>6, <1>7, <1>8

(* A claim of the handoff, or its refusal at once. *)
LEMMA StageBeginsLemma ==
  ASSUME IInv, NEW c \in Callers, NEW r \in Reqs, MayHandOff(s, r),
         OnlyMarks(s, s', r, HandoffMarks), OnlyEntry(s, s', r, "stage"),
         s.att[r].cancel => s'.att[r].cancel, s'.att[r].evidence = s.att[r].evidence, Files0,
         LedgerMoves(s.ledger[r]["stage"], s'.ledger[r]["stage"]),
         s'.att[r].handoff \in {"in_progress", "refused"},
         CallsShape', \A d \in Callers \ {c} : calls'[d] = calls[d],
         \/ calls'[c] = calls[c] /\ calls[c].op = "idle"
         \/ calls'[c].op = "stage check" /\ calls'[c].r = r /\ s'.att[r].handoff = "in_progress"
  PROVE  Sound
<1>1. /\ Bound(s) /\ s.att[r].evidence = "evidence_published" /\ s.att[r].handoff = "not_started"
      /\ s.active = NoLease /\ s.ledger[r]["stage"] = "reserved"
  BY DEF MayHandOff, Evidenced
<1>2. StageMoves(s, s', r) /\ s'.active = s.active
  BY OnlyHandoff DEF OnlyMarks
<1>3. StageSound(r) /\ ~Fresh(r)
  BY <1>1 DEF IInv, LeaseSound
<1>4. ASSUME NEW d \in Callers \ {c}, calls[d].r = r PROVE calls[d].op \notin StageOps \cup {"accept"}
  BY <1>1, <1>3, <1>4 DEF StageSound, HandoffAt, StageOps
<1>5. StageSound(r)'
  <2>1. ASSUME NEW d \in Callers, calls'[d].r = r
        PROVE  /\ HandoffAt(calls'[d].op, s'.att[r].handoff)
               /\ EntryAt(calls'[d].op, s'.ledger[r]["stage"])
               /\ calls'[d].op \in StageOps => s'.att[r].evidence = "evidence_published" /\ s'.active = NoLease
               /\ d # c => calls'[d].op \notin StageOps
    <3>1. CASE d = c
      BY <1>1, <1>2, <3>1 DEF HandoffAt, EntryAt, StageOps
    <3>2. CASE d # c
      BY <1>4, <2>1, <3>2 DEF HandoffAt, EntryAt, StageOps
    <3> QED BY <3>1, <3>2
  <2>2. "stage" \notin disk'[r]
    BY <1>1, <1>3 DEF StageSound, Charged, Files0
  <2> QED BY <2>1, <2>2 DEF StageSound
<1>6. StageFinal(s, s', r)
  BY <1>1 DEF StageFinal
<1>7. /\ \A q \in Reqs \ {r} : StageCallsKept(q)
      /\ \A q \in Reqs : PromoCallsKept(q)
      /\ SaveCallsKept
  BY DEF PromoCallsKept, StageCallsKept, SaveCallsKept, StageOps, PromoOps, SaveOps
<1>8. Elsewhere /\ UNCHANGED disk
  BY DEF Elsewhere, Files0, IInv
<1>9. ~(Bound(s') /\ Fresh(r))
  BY <1>3
<1> QED BY <1>2, <1>5, <1>6, <1>7, <1>8, <1>9, StageStepLemma

(* The claim of a handoff. *)
LEMMA StageBeginSound == ASSUME IInv, NEW c \in Callers, NEW r \in Reqs, StageBegin(c, r) PROVE Sound
<1> DEFINE t == [s EXCEPT !.att[r].handoff = "refused"]
<1>1. /\ MayHandOff(s, r) /\ Files0 /\ Shape(s) /\ CallsShape /\ calls[c].op = "idle"
      /\ \/ /\ s' = [s EXCEPT !.att[r].handoff = "in_progress"]
            /\ calls' = [calls EXCEPT ![c] = Call("stage check", r)]
         \/ s' = CancelStaging(t, r) /\ UNCHANGED calls
  BY DEF StageBegin, IInv, In
<1>2. CASE /\ s' = [s EXCEPT !.att[r].handoff = "in_progress"]
           /\ calls' = [calls EXCEPT ![c] = Call("stage check", r)]
  <2> DEFINE u == s'
  <2>1. u = [s EXCEPT !.att[r].handoff = "in_progress"] /\ Shape(s) /\ r \in Reqs
    BY <1>1, <1>2
  <2> HIDE DEF u, t
  <2>a. OnlyMarks(s, u, r, {"handoff"}) /\ OnlyEntry(s, u, r, "stage") /\ u.ledger = s.ledger
    BY <2>1, HandoffIs
  <2>b. u.att[r].handoff = "in_progress"
    BY <2>1 DEF Shape, Fields, Marks
  <2>2. /\ OnlyMarks(s, s', r, {"handoff"}) /\ OnlyEntry(s, s', r, "stage")
        /\ s'.ledger = s.ledger /\ s'.att[r].handoff = "in_progress"
    BY <2>a, <2>b DEF u
  <2>3. /\ OnlyMarks(s, s', r, HandoffMarks) /\ s'.att[r].evidence = s.att[r].evidence
        /\ s'.att[r].cancel = s.att[r].cancel
        /\ LedgerMoves(s.ledger[r]["stage"], s'.ledger[r]["stage"])
    BY <2>2 DEF OnlyMarks, HandoffMarks, Marks, LedgerMoves
  <2>4. /\ CallsShape' /\ calls'[c].op = "stage check" /\ calls'[c].r = r
        /\ \A d \in Callers \ {c} : calls'[d] = calls[d]
    BY <1>1, <1>2, BeginLemma
  <2> QED BY <1>1, <2>2, <2>3, <2>4, StageBeginsLemma
<1>3. CASE s' = CancelStaging(t, r) /\ UNCHANGED calls
  <2>1. /\ OnlyMarks(s, t, r, {"handoff"}) /\ OnlyEntry(s, t, r, "stage")
        /\ t.ledger = s.ledger /\ t.att[r].handoff = "refused"
    BY <1>1, HandoffIs
  <2> HIDE DEF t
  <2>2. Shape(t) /\ t.att[r].cancel = s.att[r].cancel /\ t.att[r].evidence = s.att[r].evidence
    BY <2>1 DEF OnlyMarks, Marks
  <2>3. /\ OnlyMarks(t, s', r, HandoffMarks) /\ OnlyEntry(t, s', r, "stage")
        /\ t.att[r].cancel => s'.att[r].cancel
        /\ s'.att[r].handoff = t.att[r].handoff /\ s'.att[r].evidence = t.att[r].evidence
        /\ LedgerMoves(t.ledger[r]["stage"], s'.ledger[r]["stage"])
    BY <1>3, <2>2, CancelStagingMarks
  <2>5. OnlyMarks(s, s', r, HandoffMarks) /\ OnlyEntry(s, s', r, "stage")
    BY <2>1, <2>3 DEF OnlyMarks, OnlyEntry, HandoffMarks
  <2>6. CallsShape' /\ \A d \in Callers : calls'[d] = calls[d]
    BY <1>1, <1>3 DEF CallsShape
  <2> QED BY <1>1, <2>1, <2>2, <2>3, <2>5, <2>6, StageBeginsLemma
<1> QED BY <1>1, <1>2, <1>3

(* What a failed handoff may change. *)
LEMMA FailHandoffMarks ==
  ASSUME NEW t, Shape(t), NEW r \in Reqs, NEW b, NEW x, x = FailHandoff(t, r, b)
  PROVE  /\ OnlyMarks(t, x, r, HandoffMarks) /\ x.ledger = t.ledger
         /\ t.att[r].cancel => x.att[r].cancel
         /\ x.att[r].handoff = t.att[r].handoff \/ x.att[r].handoff \in {"retained_uncertain", "refused"}
BY FailHandoffLemma DEF HandoffMarks

(* A check that fails ends the staging before any file. *)
LEMMA StageCheckFails ==
  ASSUME IInv, NEW c \in Callers, calls[c].op = "stage check", NEW r, r = calls[c].r, Done(c), Files0,
         NEW t, Settles(s, t), NEW b, s' = FailHandoff(t, r, b)
  PROVE  Sound
<1>1. "stage check" \in StageOps /\ DOMAIN disk' = Reqs /\ UNCHANGED <<gallery, saves, disk>>
  BY DEF StageOps, IInv, Files0
<1>2. r \in Reqs /\ HandoffAt("stage check", s.att[r].handoff)
  BY <1>1, OwnStage
<1>3. s.att[r].handoff = "in_progress"
  BY <1>2 DEF HandoffAt
<1>4. Shape(t) /\ t.att[r].handoff = "in_progress"
  BY <1>2, <1>3 DEF Settles, StageKept
<1>5. /\ OnlyMarks(t, s', r, HandoffMarks) /\ s'.ledger = t.ledger
      /\ t.att[r].cancel => s'.att[r].cancel
      /\ s'.att[r].handoff = t.att[r].handoff \/ s'.att[r].handoff \in {"retained_uncertain", "refused"}
  BY <1>2, <1>4, FailHandoffMarks
<1>6. OnlyEntry(t, s', r, "stage")
  BY <1>5 DEF OnlyEntry
<1>7. \A q \in Reqs : /\ "promo" \in disk'[q] => "promo" \in disk[q]
                      /\ q # r /\ "stage" \in disk'[q] => "stage" \in disk[q]
  BY <1>1
<1>8. /\ s'.att[r].handoff # "staged" /\ t.att[r].handoff # "create_boundary_crossed"
      /\ s'.ledger[r]["stage"] = t.ledger[r]["stage"]
  BY <1>4, <1>5
<1> QED BY <1>1, <1>5, <1>6, <1>7, <1>8, StageEnds

(* The check after the claim. *)
LEMMA StageCheckSound == ASSUME IInv, NEW c \in Callers, StageCheck(c) PROVE Sound
<1> DEFINE g == Gate(FALSE)
<1>0. PICK r : r = R(c)
  OBVIOUS
<1>1. /\ r = calls[c].r /\ calls[c].op = "stage check" /\ "stage check" \in StageOps /\ Files0
      /\ UNCHANGED <<gallery, saves, disk>> /\ DOMAIN disk' = Reqs /\ Shape(s)
      /\ "stage admit" \in StageOps
  BY <1>0 DEF StageCheck, In, R, IInv, Files0, StageOps
<1>2. \/ s' = s /\ Goto(c, "stage admit")
      \/ s' = FailHandoff(CancelStaging(g, r), r, FALSE) /\ Done(c)
  BY <1>0 DEF StageCheck
<1>3. r \in Reqs /\ HandoffAt("stage check", s.att[r].handoff)
  BY <1>1, OwnStage
<1>4. s.att[r].handoff = "in_progress"
  BY <1>3 DEF HandoffAt
<1>5. CASE s' = s /\ Goto(c, "stage admit")
  <2>1. /\ OnlyMarks(s, s', r, {"handoff"}) /\ OnlyEntry(s, s', r, "stage")
        /\ HandoffAt("stage admit", s'.att[r].handoff) /\ EntryAt("stage admit", s'.ledger[r]["stage"])
        /\ s'.ledger[r]["stage"] = s.ledger[r]["stage"]
    BY <1>1, <1>4, <1>5 DEF OnlyMarks, OnlyEntry, HandoffAt, EntryAt
  <2>2. s.att[r].handoff # "create_boundary_crossed"
    BY <1>4
  <2> QED BY <1>1, <1>5, <2>1, <2>2, StageGoes
<1>6. CASE s' = FailHandoff(CancelStaging(g, r), r, FALSE) /\ Done(c)
  <2>1. Settles(s, g) /\ Shape(g)
    BY GateIs
  <2> HIDE DEF g
  <2>2. Settles(s, CancelStaging(g, r))
    BY <1>3, <2>1, CancelStagingLemma, SettlesAgain
  <2> QED BY <1>1, <1>6, <2>2, StageCheckFails
<1> QED BY <1>2, <1>5, <1>6

(* The handoff is staged, or uncertain. *)
LEMMA StageEndSound == ASSUME IInv, NEW c \in Callers, StageEnd(c) PROVE Sound
<1> DEFINE r == R(c)
           g == Gate(FALSE)
           t == IF g.ledger[r]["stage"] = "completed" THEN RetainCompleted(g, r, "stage") ELSE g
<1>1. /\ r = calls[c].r /\ calls[c].op = "stage end" /\ "stage end" \in StageOps /\ Files0 /\ Done(c)
      /\ UNCHANGED <<gallery, saves, disk>> /\ DOMAIN disk' = Reqs /\ Shape(s)
  BY DEF StageEnd, In, R, IInv, Files0, StageOps
<1>2. \/ /\ s' = [s EXCEPT !.att[r].handoff = "staged"] /\ ~s.att[r].cancel
         /\ s.ledger[r]["stage"] = "completed"
      \/ s' = FailHandoff(t, r, TRUE)
  BY DEF StageEnd, HandoffMatches
<1>3. /\ r \in Reqs /\ s.att[r].handoff = "create_boundary_crossed"
      /\ s.ledger[r]["stage"] \in {"completed", "uncertain"}
  BY <1>1, OwnStage DEF HandoffAt, EntryAt
<1>4. \A q \in Reqs : /\ "promo" \in disk'[q] => "promo" \in disk[q]
                      /\ q # r /\ "stage" \in disk'[q] => "stage" \in disk[q]
  BY <1>1
<1>5. Settles(s, s) /\ Settles(s, g) /\ Shape(g)
  BY <1>1, SettlesSelf, GateIs
<1> HIDE DEF r, g
<1>6. CASE /\ s' = [s EXCEPT !.att[r].handoff = "staged"] /\ ~s.att[r].cancel
           /\ s.ledger[r]["stage"] = "completed"
  <2> DEFINE u == s'
  <2>1. u = [s EXCEPT !.att[r].handoff = "staged"] /\ Shape(s)
    BY <1>1, <1>6
  <2> HIDE DEF u
  <2>2. OnlyMarks(s, u, r, {"handoff"}) /\ OnlyEntry(s, u, r, "stage") /\ u.ledger = s.ledger
    BY <1>3, <2>1, HandoffIs
  <2>3. /\ OnlyMarks(s, s', r, HandoffMarks) /\ OnlyEntry(s, s', r, "stage")
        /\ s'.ledger[r]["stage"] = s.ledger[r]["stage"]
    BY <2>2 DEF u, OnlyMarks, HandoffMarks
  <2>4. ~s.att[r].cancel /\ s.ledger[r]["stage"] = "completed"
    BY <1>6
  <2> QED BY <1>1, <1>4, <1>5, <2>3, <2>4, StageEnds
<1>7. CASE s' = FailHandoff(t, r, TRUE)
  <2>1. /\ Settles(g, t) /\ Shape(t) /\ "stage" \in Files
    BY <1>3, <1>5, RetainCompletedLemma, SettlesSelf DEF Settles, Files
  <2>2. Settles(s, t)
    BY <1>5, <2>1, SettlesAgain
  <2>3. t.ledger[r]["stage"] \in {"completed", "uncertain"} /\ t.att[r].handoff # "staged"
    BY <1>3, <2>2 DEF Settles, StageKept, LedgerMoves
  <2> HIDE DEF t
  <2>4. /\ OnlyMarks(t, s', r, HandoffMarks) /\ s'.ledger = t.ledger
        /\ t.att[r].cancel => s'.att[r].cancel
        /\ s'.att[r].handoff = t.att[r].handoff \/ s'.att[r].handoff \in {"retained_uncertain", "refused"}
    BY <1>3, <1>7, <2>1, FailHandoffLemma DEF HandoffMarks
  <2>5. OnlyEntry(t, s', r, "stage")
    BY <2>4 DEF OnlyEntry
  <2>6. /\ s'.att[r].handoff # "staged" /\ t.ledger[r]["stage"] # "writing"
        /\ s'.ledger[r]["stage"] = t.ledger[r]["stage"]
    BY <2>3, <2>4
  <2> QED BY <1>1, <1>4, <2>2, <2>4, <2>5, <2>6, StageEnds
<1> QED BY <1>2, <1>6, <1>7

-----------------------------------------------------------------------------
(* Acceptance. *)

(* The claim of an acceptance. *)
LEMMA AcceptBeginSound == ASSUME IInv, NEW c \in Callers, NEW r \in Reqs, AcceptBegin(c, r) PROVE Sound
<1>1. /\ MayAccept(s, r) /\ Files0 /\ Shape(s) /\ CallsShape
      /\ s' = [s EXCEPT !.att[r].acceptance = "in_progress"]
      /\ calls' = [calls EXCEPT ![c] = Call("accept", r)]
  BY DEF AcceptBegin, Claim, IInv
<1>2. /\ s.att[r].handoff = "staged" /\ s.att[r].acceptance = "not_started"
      /\ s.active = NoLease /\ s.att[r].evidence = "evidence_published" /\ Bound(s)
  BY <1>1 DEF MayAccept, Evidenced
<1>3. /\ Shape(s') /\ s'.active = s.active /\ s'.state = s.state /\ s'.reason = s.reason
      /\ s'.save = s.save /\ s'.todo = s.todo /\ s'.job = s.job /\ s'.ledger = s.ledger
      /\ s'.att[r].acceptance = "in_progress"
      /\ \A q \in Reqs : \A x \in Marks : q # r \/ x # "acceptance" => s'.att[q][x] = s.att[q][x]
  BY <1>1 DEF Shape, Fields, Marks
<1>4. HostKept(s, s')
  BY <1>3 DEF HostKept, JobKept, LeaseKept, SaveKept, Bound
<1>5. ASSUME NEW q \in Reqs
      PROVE  /\ StageKept(s, s', q) /\ PromoKept(s, s', q) /\ EvidenceKept(s, s', q)
             /\ IssueKept(s, s', q) /\ MarksKept(s, s', q)
  <2>1. \A x \in Marks \ {"acceptance"} : s'.att[q][x] = s.att[q][x]
    BY <1>3
  <2>2. /\ s.att[q].acceptance = "retained_uncertain" => s'.att[q].acceptance = "retained_uncertain"
        /\ s'.att[q].acceptance = "accepted" => s.att[q].acceptance = "accepted"
    BY <1>2, <1>3 DEF Marks
  <2>3. \A x \in Claims : s.att[q][x] = "retained_uncertain" => s'.att[q][x] = "retained_uncertain"
    BY <2>1, <2>2 DEF Marks, Claims
  <2> QED BY <1>3, <2>1, <2>2, <2>3 DEF StageKept, PromoKept, EvidenceKept, IssueKept, MarksKept,
                                        LedgerMoves, Marks
<1>6. StageMoves(s, s', r)
  BY <1>3, <1>4, <1>5 DEF StageMoves
<1>7. /\ CallsShape' /\ calls'[c].op = "accept" /\ calls'[c].r = r
      /\ \A d \in Callers \ {c} : calls'[d] = calls[d]
  BY <1>1, BeginLemma
<1>8. StageSound(r) /\ s'.att[r].handoff = "staged" /\ s'.ledger[r]["stage"] = s.ledger[r]["stage"]
  BY <1>2, <1>3 DEF IInv, Marks
<1>9. StageSound(r)'
  <2>1. ASSUME NEW d \in Callers, calls'[d].r = r
        PROVE  /\ HandoffAt(calls'[d].op, s'.att[r].handoff)
               /\ EntryAt(calls'[d].op, s'.ledger[r]["stage"])
               /\ calls'[d].op \notin StageOps
    <3>1. CASE d = c
      BY <1>7, <1>8, <3>1 DEF HandoffAt, EntryAt, StageOps
    <3>2. CASE d # c
      BY <1>2, <1>7, <1>8, <2>1, <3>2 DEF StageSound, HandoffAt, StageOps
    <3> QED BY <3>1, <3>2
  <2>2. "stage" \in disk'[r] =>
         s'.ledger[r]["stage"] \in Charged /\ s'.ledger[r]["stage"] # "writing"
    BY <1>1, <1>2, <1>8 DEF StageSound, Files0
  <2> QED BY <2>1, <2>2 DEF StageSound
<1>10. /\ \A q \in Reqs \ {r} : StageCallsKept(q)
       /\ \A q \in Reqs : PromoCallsKept(q)
       /\ SaveCallsKept
  BY <1>7 DEF PromoCallsKept, StageCallsKept, SaveCallsKept, PromoOps, SaveOps
<1>11. Elsewhere /\ UNCHANGED disk /\ StageFinal(s, s', r)
  BY <1>1, <1>5, <1>7, <1>8 DEF Elsewhere, Files0, IInv, StageFinal, EvidenceKept
<1>12. ~(Bound(s') /\ Fresh(r))
  BY <1>2 DEF IInv, LeaseSound
<1> QED BY <1>6, <1>9, <1>10, <1>11, <1>12, StageStepLemma

(* The staged file is accepted, or retained. *)
LEMMA AcceptEndSound == ASSUME IInv, NEW c \in Callers, AcceptEnd(c) PROVE Sound
<1> DEFINE g == Gate(FALSE)
<1>0. PICK r \in Reqs : r = R(c)
  BY InLemma DEF AcceptEnd, Publish
<1>1. /\ r = calls[c].r /\ calls[c].op = "accept" /\ Files0 /\ Done(c) /\ Shape(s) /\ r \in Reqs
  BY <1>0, InLemma DEF AcceptEnd, Publish, IInv, R
<1>2. \/ s' = [s EXCEPT !.att[r].acceptance = "accepted"] /\ ~s.att[r].cancel
         /\ s.att[r].acceptance = "in_progress"
      \/ s' = RetainAcceptance(g, r)
  BY <1>0 DEF AcceptEnd, Publish, AcceptanceMatches, HandoffMatches
<1>3. Settles(s, g) /\ Shape(g)
  BY GateIs
<1> HIDE DEF g
<1>4. QuietCalls
  BY <1>1, DoneQuiet
<1>5. CASE s' = [s EXCEPT !.att[r].acceptance = "accepted"] /\ ~s.att[r].cancel
           /\ s.att[r].acceptance = "in_progress"
  <2>1. s' = [s EXCEPT !.att[r].acceptance = "accepted"]
    BY <1>5
  <2>2. /\ Shape(s') /\ s'.active = s.active /\ s'.state = s.state /\ s'.reason = s.reason
        /\ s'.save = s.save /\ s'.todo = s.todo /\ s'.job = s.job /\ s'.ledger = s.ledger
        /\ \A q \in Reqs : \A x \in Marks : q # r \/ x # "acceptance" => s'.att[q][x] = s.att[q][x]
    BY <1>1, <2>1 DEF Shape, Fields, Marks
  <2>3. HostKept(s, s')
    BY <2>2 DEF HostKept, JobKept, LeaseKept, SaveKept, Bound
  <2>4. ASSUME NEW q \in Reqs
        PROVE  /\ StageKept(s, s', q) /\ PromoKept(s, s', q) /\ EvidenceKept(s, s', q)
               /\ IssueKept(s, s', q) /\ MarksKept(s, s', q)
    <3>1. \A x \in Marks \ {"acceptance"} : s'.att[q][x] = s.att[q][x]
      BY <2>2
    <3>2. q # r => s'.att[q].acceptance = s.att[q].acceptance
      BY <2>2 DEF Marks
    <3>3. MarksKept(s, s', q)
      BY <1>5, <3>1, <3>2 DEF MarksKept, Marks, Claims
    <3> QED BY <2>2, <3>1, <3>3 DEF StageKept, PromoKept, EvidenceKept, IssueKept, LedgerMoves, Marks
  <2>5. Settles(s, s')
    BY <2>2, <2>3, <2>4 DEF Settles
  <2> QED BY <1>1, <1>4, <2>5, QuietLemma
<1>6. CASE s' = g
  BY <1>1, <1>3, <1>4, <1>6, QuietLemma
<1>7. CASE /\ OnlyMarks(g, s', r, {"handoff", "evidence", "acceptance"})
           /\ s'.att[r].handoff = "retained_uncertain" /\ s'.att[r].evidence = "uncertain"
           /\ s'.att[r].acceptance = "retained_uncertain" /\ s'.ledger[r]["stage"] # "writing"
           /\ \A q \in Reqs, f \in Files : LedgerMoves(g.ledger[q][f], s'.ledger[q][f])
  <2>1. /\ Shape(s') /\ s'.active = g.active /\ s'.state = g.state /\ s'.reason = g.reason
        /\ s'.save = g.save /\ s'.todo = g.todo /\ s'.job = g.job
        /\ \A q \in Reqs : \A x \in Marks \ {"handoff", "evidence", "acceptance"} : s'.att[q][x] = g.att[q][x]
        /\ \A q \in Reqs \ {r} : \A x \in Marks : s'.att[q][x] = g.att[q][x]
    BY <1>7 DEF OnlyMarks
  <2>2. HostKept(g, s')
    BY <2>1 DEF HostKept, JobKept, LeaseKept, SaveKept, Bound
  <2>3. ASSUME NEW q \in Reqs
        PROVE  /\ PromoKept(g, s', q) /\ IssueKept(g, s', q) /\ MarksKept(g, s', q)
               /\ q # r => StageKept(g, s', q) /\ EvidenceKept(g, s', q)
    <3>1. /\ LedgerMoves(g.ledger[q]["stage"], s'.ledger[q]["stage"])
          /\ LedgerMoves(g.ledger[q]["promo"], s'.ledger[q]["promo"])
      BY <1>7 DEF Files
    <3>2. q # r => /\ s'.att[q].handoff = g.att[q].handoff /\ s'.att[q].evidence = g.att[q].evidence
                   /\ s'.att[q].acceptance = g.att[q].acceptance
      BY <2>1 DEF Marks
    <3>3. /\ \A x \in Claims \ {"acceptance"} : s'.att[q][x] = g.att[q][x]
          /\ s'.att[q].cancel = g.att[q].cancel /\ s'.att[q].issued = g.att[q].issued
          /\ s'.att[q].promotion = g.att[q].promotion /\ s'.att[q].submitted = g.att[q].submitted
      BY <2>1 DEF Marks, Claims
    <3>4. MarksKept(g, s', q)
      BY <1>7, <3>2, <3>3 DEF MarksKept, Claims
    <3>5. PromoKept(g, s', q)
      BY <2>1, <3>1, <3>3 DEF PromoKept
    <3> QED BY <3>1, <3>2, <3>3, <3>4, <3>5 DEF StageKept, EvidenceKept, IssueKept
  <2>4. StageMoves(g, s', r)
    BY <2>1, <2>2, <2>3 DEF StageMoves
  <2>5. StageMoves(s, s', r)
    BY <1>1, <1>3, <2>4, MoveAgain
  <2>6. /\ StageSound(r) /\ HandoffAt("accept", s.att[r].handoff)
        /\ LedgerMoves(g.ledger[r]["stage"], s'.ledger[r]["stage"])
        /\ LedgerMoves(s.ledger[r]["stage"], g.ledger[r]["stage"])
    <3>1. StageSound(r)
      BY <1>1 DEF IInv
    <3>2. HandoffAt("accept", s.att[r].handoff)
      BY <1>1, <3>1 DEF StageSound
    <3>3. LedgerMoves(g.ledger[r]["stage"], s'.ledger[r]["stage"])
      BY <1>1, <1>7 DEF Files
    <3> QED BY <1>1, <1>3, <3>1, <3>2, <3>3 DEF Settles, StageKept
  <2>7. s.att[r].handoff \in {"staged", "retained_uncertain"}
    BY <2>6 DEF HandoffAt
  <2>8. CallsShape' /\ calls'[c].op = "idle" /\ \A d \in Callers \ {c} : calls'[d] = calls[d]
    BY <1>1, DoneLemma DEF IInv
  <2>9. ASSUME NEW d \in Callers, calls'[d].r = r
        PROVE  /\ HandoffAt(calls'[d].op, s'.att[r].handoff) /\ calls'[d].op \notin StageOps
               /\ EntryAt(calls'[d].op, s'.ledger[r]["stage"])
    <3>1. CASE d = c
      BY <2>8, <3>1 DEF HandoffAt, EntryAt, StageOps
    <3>2. CASE d # c
      <4>1. HandoffAt(calls'[d].op, s.att[r].handoff)
        BY <2>6, <2>8, <2>9, <3>2 DEF StageSound
      <4> QED BY <1>7, <2>7, <4>1 DEF HandoffAt, EntryAt, StageOps
    <3> QED BY <3>1, <3>2
  <2>10. "stage" \in disk'[r] =>
          s'.ledger[r]["stage"] \in Charged /\ s'.ledger[r]["stage"] # "writing"
    BY <1>1, <1>7, <2>6, ZenonT(60) DEF StageSound, LedgerMoves, Charged, Files0
  <2>11. StageSound(r)'
    BY <2>9, <2>10 DEF StageSound
  <2>12. StageFinal(s, s', r)
    BY <1>7, <2>6 DEF StageFinal, LedgerMoves
  <2>13. /\ \A q \in Reqs \ {r} : StageCallsKept(q)
         /\ \A q \in Reqs : PromoCallsKept(q)
         /\ SaveCallsKept
    BY <1>4, QuietTracks
  <2>14. /\ Elsewhere /\ r \in Reqs
         /\ \A q \in Reqs : /\ "promo" \in disk'[q] => "promo" \in disk[q]
                            /\ q # r /\ "stage" \in disk'[q] => "stage" \in disk[q]
    BY <1>1, <2>8 DEF Elsewhere, Files0, IInv
  <2>15. ~(Bound(s') /\ Fresh(r))
    BY <1>1, <2>5, <2>7 DEF IInv, LeaseSound, StageMoves, HostKept, LeaseKept
  <2>16. IInv /\ StageSound(r)' /\ StageFinal(s, s', r) /\ StageMoves(s, s', r) /\ r \in Reqs
    BY <1>1, <2>5, <2>11, <2>12
  <2>17. Bound(s') /\ Fresh(r) =>
           /\ s'.att[r].handoff = s.att[r].handoff
           /\ s'.att[r].evidence \in {"none", "awaiting_submission", "cancelled"}
    BY <2>15
  <2> QED BY <2>13, <2>14, <2>16, <2>17, StageStepLemma
<1>8. CASE s' = RetainAcceptance(g, r)
  <2>1. \/ s' = g
        \/ /\ OnlyMarks(g, s', r, {"handoff", "evidence", "acceptance"})
           /\ s'.att[r].handoff = "retained_uncertain" /\ s'.att[r].evidence = "uncertain"
           /\ s'.att[r].acceptance = "retained_uncertain" /\ s'.ledger[r]["stage"] # "writing"
           /\ \A q \in Reqs, f \in Files : LedgerMoves(g.ledger[q][f], s'.ledger[q][f])
    BY <1>1, <1>3, <1>8, RetainAcceptanceLemma
  <2> QED BY <1>6, <1>7, <2>1
<1> QED BY <1>2, <1>5, <1>8

-----------------------------------------------------------------------------
(* All the steps. *)

(* The invariant holds at first. *)
LEMMA InitIInv == ASSUME Init PROVE IInv
<1>1. Shape(s)
  <2>1. /\ DOMAIN s = Fields /\ DOMAIN s.att = Reqs /\ DOMAIN s.ledger = Reqs /\ DOMAIN s.job = Reqs
        /\ s.todo = {} /\ s.active = NoLease
        /\ \A q \in Reqs : s.att[q] = NewAttempt /\ DOMAIN s.ledger[q] = Files
    BY DEF Init, InitIntegration, Fields
  <2>2. DOMAIN NewAttempt = Marks
    BY DEF NewAttempt, Marks
  <2> QED BY <2>1, <2>2 DEF Shape, Leases
<1>2. /\ \A c \in Callers : calls[c].op = "idle" /\ DOMAIN calls[c] = {"op", "r", "left"}
      /\ DOMAIN calls = Callers /\ DOMAIN disk = Reqs /\ \A r \in Reqs : disk[r] = {}
      /\ saves = 0
  BY DEF Init, Idle
<1>3. /\ s.todo = {} /\ s.active = NoLease /\ s.reason = "none" /\ s.save = "not_started"
      /\ \A r \in Reqs : /\ s.job[r] = "unsent" /\ s.att[r].handoff = "not_started"
                         /\ s.att[r].submitted = "none" /\ s.att[r].evidence = "none"
  BY DEF Init, InitIntegration, NewAttempt
<1>4. CallsShape
  BY <1>2 DEF CallsShape
<1>5. ASSUME NEW r \in Reqs PROVE StageSound(r)
  BY <1>2 DEF StageSound, HandoffAt, EntryAt, StageOps
<1>6. ASSUME NEW r \in Reqs PROVE PromoSound(r)
  BY <1>2, <1>3 DEF PromoSound, PromotionAt, PromoOps
<1>7. LeaseSound
  BY <1>3 DEF LeaseSound
<1>8. SaveSound
  BY <1>2, <1>3 DEF SaveSound, SaveOps
<1> QED BY <1>1, <1>2, <1>4, <1>5, <1>6, <1>7, <1>8 DEF IInv

(* Every call that begins is sound. *)
LEMMA BeginsSound == ASSUME IInv, NEW c \in Callers, NEW r \in Reqs, Begins(c, r) PROVE Sound
<1>1. CASE PreAdmitBegin(c, r) \/ EvidenceBegin(c, r) \/ StageBegin(c, r) \/ AcceptBegin(c, r)
  BY <1>1, PreAdmitBeginSound, EvidenceBeginSound, StageBeginSound, AcceptBeginSound
<1>2. CASE \/ PromotionPreflightBegin(c, r) \/ PromoteBegin(c, r) \/ PublishPromotionBegin(c, r)
           \/ OutputsReadyBegin(c, r)
  BY <1>2, PromotionPreflightBeginSound, PromoteBeginSound, PublishPromotionBeginSound,
     OutputsReadyBeginSound
<1>3. CASE \/ AdmissionPreflightBegin(c, r) \/ AdmitBegin(c, r) \/ CandidatesBegin(c, r)
           \/ SaveBegin(c, r)
  BY <1>3, AdmissionPreflightBeginSound, AdmitBeginSound, CandidatesBeginSound, SaveBeginSound
<1> QED BY <1>1, <1>2, <1>3 DEF Begins

(* Every step of a call is sound. *)
LEMMA StepsSound == ASSUME IInv, NEW c \in Callers, Steps(c) PROVE Sound
<1>1. CASE \/ PreAdmitOperation(c) \/ PreAdmitReserve(c) \/ PreAdmitAttach(c) \/ PreAdmitEnd(c)
           \/ EvidenceValidate(c) \/ EvidenceEnd(c)
  BY <1>1, PreAdmitOperationSound, PreAdmitReserveSound, PreAdmitAttachSound, PreAdmitEndSound,
     EvidenceValidateSound, EvidenceEndSound
<1>2. CASE \/ StageCheck(c) \/ StageAdmit(c) \/ StageRecord(c) \/ StageCreate(c) \/ StageFile(c)
           \/ StageComplete(c) \/ StageEnd(c)
  BY <1>2, StageCheckSound, StageAdmitSound, StageRecordSound, StageCreateSound, StageFileSound,
     StageCompleteSound, StageEndSound
<1>3. CASE \/ AcceptEnd(c) \/ PromotionPreflightReserve(c) \/ PromotionPreflightEnd(c)
           \/ PromoteAdmitting(c) \/ PromoteAdmit(c) \/ PromoteOwner(c)
  BY <1>3, AcceptEndSound, PromotionPreflightReserveSound, PromotionPreflightEndSound,
     PromoteAdmittingSound, PromoteAdmitSound, PromoteOwnerSound
<1>4. CASE \/ PromoteCreate(c) \/ PromoteFile(c) \/ PromoteComplete(c) \/ PublishPromotionEnd(c)
           \/ OutputsReadyEnd(c) \/ AdmissionPreflightEnd(c)
  BY <1>4, PromoteCreateSound, PromoteFileSound, PromoteCompleteSound, PublishPromotionEndSound,
     OutputsReadyEndSound, AdmissionPreflightEndSound
<1>5. CASE \/ AdmitEnd(c) \/ CandidatesAppend(c) \/ CandidatesEnd(c) \/ SavePrewrite(c) \/ SaveEnd(c)
  BY <1>5, AdmitEndSound, CandidatesAppendSound, CandidatesEndSound, SavePrewriteSound, SaveEndSound
<1> QED BY <1>1, <1>2, <1>3, <1>4, <1>5 DEF Steps

(* Every step is sound. *)
LEMMA NextSound == ASSUME IInv, Next PROVE Sound
<1>1. ASSUME NEW r \in Reqs, \/ SubmitWithEvent(r) \/ CancelPreAdmission(r)
                             \/ CancelPromotionPreflight(r) \/ RequestFails(r)
      PROVE  Sound
  BY <1>1, SubmitWithEventSound, CancelPreAdmissionSound, CancelPromotionPreflightSound,
     RequestFailsSound
<1>2. ASSUME NEW r \in Reqs, NEW kind \in {"submission", "history"}, BeginOperation(r, kind)
      PROVE  Sound
  BY <1>2, BeginOperationSound
<1>3. CASE ObserveResult \/ OperationOnInvalidCapacity \/ HostChanges \/ Reconcile
  BY <1>3, ObserveResultSound, OperationOnInvalidCapacitySound, HostChangesSound, ReconcileSound
<1>4. CASE Close \/ ReleaseRevoked \/ FinishClose \/ CapacityChanges
  BY <1>4, CloseSound, ReleaseRevokedSound, FinishCloseSound, CapacityChangesSound
<1> QED BY <1>1, <1>2, <1>3, <1>4, BeginsSound, StepsSound DEF Next

(* And while nothing happens. *)
LEMMA StutterIInv == ASSUME IInv, UNCHANGED vars PROVE IInv'
<1>1. s' = s /\ calls' = calls /\ disk' = disk /\ gallery' = gallery /\ saves' = saves
  BY DEF vars
<1>2. Shape(s') /\ CallsShape' /\ DOMAIN disk' = Reqs
  BY <1>1 DEF IInv, CallsShape
<1>3. ASSUME NEW r \in Reqs PROVE StageSound(r)' /\ PromoSound(r)'
  BY <1>1 DEF IInv, StageSound, PromoSound, Bound
<1>4. LeaseSound'
  BY <1>1 DEF IInv, LeaseSound, Bound, Fresh
<1>5. SaveSound'
  BY <1>1 DEF IInv, SaveSound
<1> QED BY <1>2, <1>3, <1>4, <1>5 DEF IInv

(* Only the two files of a request are ever created. *)
FilesKnown == DOMAIN disk = Reqs /\ \A r \in Reqs : disk[r] \subseteq Files

(* A step creates at most one file, of a kind the ledger knows. *)
LEMMA DiskStep ==
  ASSUME Next
  PROVE  \/ disk' = disk
         \/ \E c \in Callers, f \in Files : disk' = [disk EXCEPT ![R(c)] = @ \cup {f}]
<1>1. ASSUME NEW c \in Callers, NEW r \in Reqs, Begins(c, r) PROVE disk' = disk
  BY <1>1 DEF Begins, PreAdmitBegin, EvidenceBegin, StageBegin, AcceptBegin, PromotionPreflightBegin,
              PromoteBegin, PublishPromotionBegin, OutputsReadyBegin, AdmissionPreflightBegin, AdmitBegin,
              CandidatesBegin, SaveBegin, Files0
<1>2. ASSUME NEW c \in Callers, StageFile(c) \/ PromoteFile(c)
      PROVE  \/ disk' = disk
             \/ \E f \in Files : disk' = [disk EXCEPT ![R(c)] = @ \cup {f}]
  <2>1. "stage" \in Files /\ "promo" \in Files
    BY DEF Files
  <2>2. CASE disk' = disk
    BY <2>2
  <2>3. CASE \E f \in {"stage", "promo"} : disk' = [disk EXCEPT ![R(c)] = @ \cup {f}]
    BY <2>1, <2>3
  <2> QED BY <1>2, <2>2, <2>3 DEF StageFile, PromoteFile, FileCreated, Files0
<1>3. ASSUME NEW c \in Callers, Steps(c), ~StageFile(c), ~PromoteFile(c) PROVE disk' = disk
  <2>1. CASE \/ PreAdmitOperation(c) \/ PreAdmitReserve(c) \/ PreAdmitAttach(c) \/ PreAdmitEnd(c)
             \/ EvidenceValidate(c) \/ EvidenceEnd(c)
    BY <2>1 DEF PreAdmitOperation, PreAdmitReserve, PreAdmitAttach, PreAdmitEnd, EvidenceValidate,
                EvidenceEnd, Files0
  <2>2. CASE \/ StageCheck(c) \/ StageAdmit(c) \/ StageRecord(c) \/ StageCreate(c) \/ StageComplete(c)
             \/ StageEnd(c) \/ AcceptEnd(c)
    BY <2>2 DEF StageCheck, StageAdmit, StageRecord, StageCreate, StageComplete, StageEnd, AcceptEnd,
                StageStep, Publish, Files0
  <2>3. CASE \/ PromotionPreflightReserve(c) \/ PromotionPreflightEnd(c) \/ PromoteAdmitting(c)
             \/ PromoteAdmit(c) \/ PromoteOwner(c) \/ PromoteCreate(c) \/ PromoteComplete(c)
    BY <2>3 DEF PromotionPreflightReserve, PromotionPreflightEnd, PromoteAdmitting, PromoteAdmit,
                PromoteOwner, PromoteCreate, PromoteComplete, PromoteStep, Publish, Files0
  <2>4. CASE \/ PublishPromotionEnd(c) \/ OutputsReadyEnd(c) \/ AdmissionPreflightEnd(c) \/ AdmitEnd(c)
             \/ CandidatesAppend(c) \/ CandidatesEnd(c) \/ SavePrewrite(c) \/ SaveEnd(c)
    BY <2>4 DEF PublishPromotionEnd, OutputsReadyEnd, AdmissionPreflightEnd, AdmitEnd, CandidatesAppend,
                CandidatesEnd, SavePrewrite, SaveEnd, Publish, Files0
  <2> QED BY <1>3, <2>1, <2>2, <2>3, <2>4 DEF Steps
<1>4. ASSUME NEW r \in Reqs, \/ SubmitWithEvent(r) \/ CancelPreAdmission(r)
                             \/ CancelPromotionPreflight(r) \/ RequestFails(r)
      PROVE  disk' = disk
  BY <1>4 DEF SubmitWithEvent, CancelPreAdmission, CancelPromotionPreflight, RequestFails, Files0
<1>5. ASSUME NEW r \in Reqs, NEW kind \in {"submission", "history"}, BeginOperation(r, kind)
      PROVE  disk' = disk
  BY <1>5 DEF BeginOperation, Files0
<1>6. CASE \/ ObserveResult \/ OperationOnInvalidCapacity \/ HostChanges \/ Reconcile \/ Close
           \/ ReleaseRevoked \/ FinishClose \/ CapacityChanges
  BY <1>6 DEF ObserveResult, OperationOnInvalidCapacity, HostChanges, Reconcile, Close, ReleaseRevoked,
              FinishClose, CapacityChanges, Files0
<1> QED BY <1>1, <1>2, <1>3, <1>4, <1>5, <1>6 DEF Next

(* No other file is ever created. *)
LEMMA KnownInvariant == Spec => []FilesKnown
<1>1. Init => FilesKnown
  BY DEF Init, FilesKnown
<1>2. FilesKnown /\ [Next]_vars => FilesKnown'
  <2> SUFFICES ASSUME FilesKnown, [Next]_vars PROVE FilesKnown'
    OBVIOUS
  <2>1. \/ disk' = disk
        \/ \E c \in Callers, f \in Files : disk' = [disk EXCEPT ![R(c)] = @ \cup {f}]
    BY DiskStep DEF vars
  <2> QED BY <2>1 DEF FilesKnown
<1> QED BY <1>1, <1>2, PTL DEF Spec

(* IInv is an inductive invariant, for every number of requests, callers   *)
(* and images.                                                             *)
THEOREM Invariance == Spec => []IInv
<1>1. Init => IInv
  BY InitIInv
<1>2. IInv /\ [Next]_vars => IInv'
  BY NextSound, StutterIInv DEF Sound
<1> QED BY <1>1, <1>2, PTL DEF Spec

(* A file that may exist is charged. *)
THEOREM FilesAreAccounted == Spec => []FilesAccounted
<1>1. IInv /\ FilesKnown => FilesAccounted
  <2> SUFFICES ASSUME IInv, FilesKnown, NEW r \in Reqs, NEW f \in disk[r]
               PROVE  s.ledger[r][f] \in {"writing", "completed", "uncertain"}
    BY DEF FilesAccounted
  <2>1. f \in Files /\ StageSound(r) /\ PromoSound(r)
    BY DEF IInv, FilesKnown
  <2> QED BY <2>1 DEF StageSound, PromoSound, Charged, Files
<1> QED BY <1>1, Invariance, KnownInvariant, PTL

(* A cancelled attempt commits nothing more. *)
THEOREM NothingCommittedAfterCancel == Spec => NoCommitAfterCancel
<1>1. IInv /\ [Next]_vars =>
        [\A r \in Reqs : s.att[r].cancel =>
           /\ s'.att[r].promotion \in {"private_committed", "promoted"} =>
                s'.att[r].promotion = s.att[r].promotion
           /\ s'.att[r].handoff = "staged" => s.att[r].handoff = "staged"
           /\ s'.att[r].acceptance = "accepted" => s.att[r].acceptance = "accepted"]_vars
  BY NextSound DEF Sound, CommitsNothing
<1> QED BY <1>1, Invariance, PTL DEF Spec, NoCommitAfterCancel

(* What is uncertain stays uncertain. *)
THEOREM UncertaintyIsFinal == Spec => UncertainIsFinal
<1>1. IInv /\ [Next]_vars =>
        [\A r \in Reqs :
           /\ \A f \in Files : s.ledger[r][f] = "uncertain" => s'.ledger[r][f] = "uncertain"
           /\ \A x \in {"handoff", "acceptance", "promotion", "publication", "preflight", "admission",
                        "candidates", "submitted", "ready"} :
                s.att[r][x] = "retained_uncertain" => s'.att[r][x] = "retained_uncertain"
           /\ s.att[r].evidence = "uncertain" => s'.att[r].evidence = "uncertain"
           /\ s.save = "retained_uncertain" => s'.save = "retained_uncertain"]_vars
  <2> SUFFICES ASSUME IInv, Next
               PROVE  /\ Final(s, s')
                      /\ {"handoff", "acceptance", "promotion", "publication", "preflight", "admission",
                          "candidates", "submitted", "ready"} \subseteq Claims \cup {"handoff", "promotion"}
    BY DEF Final
  <2> QED BY NextSound DEF Sound, Claims
<1> QED BY <1>1, Invariance, PTL DEF Spec, UncertainIsFinal

(* A save that is reported as done was made once, under an integration     *)
(* that was not revoked, with every Candidate in the Project.              *)
THEOREM SavesAreCertain == Spec => SavedIsCertain
<1>1. IInv /\ [Next]_vars =>
        [s.save # "saved" /\ s'.save = "saved" =>
           /\ s.reason # "revoked" /\ saves = 1
           /\ \A r \in Reqs : s.job[r] = "failed" \/ r \in gallery]_vars
  BY NextSound DEF Sound, SavesCertainly
<1> QED BY <1>1, Invariance, PTL DEF Spec, SavedIsCertain
=============================================================================
