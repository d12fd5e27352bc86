-------------------------- MODULE StorageAdmission --------------------------
(***************************************************************************)
(* The capacity owner of the protected roots                               *)
(* (core/generation_storage_admission.py): a ledger of reservations and    *)
(* writes, refreshes that compare it with the files, publication and save  *)
(* tokens, invalidation and close.                                         *)
(*                                                                         *)
(* One thread per operation.  A ledger call is one step under the owner's  *)
(* lock; a refresh is a claim of the refresh slot, a scan outside the lock *)
(* and an observation under it.  Bytes stand for bytes and entries; a file *)
(* is <<operation, size>>.                                                 *)
(***************************************************************************)
EXTENDS Naturals, FiniteSets, FiniteSetsExt

CONSTANTS
  Threads,   \* one operation each
  MaxSize,   \* largest estimate
  Limit,     \* bytes per purpose
  Shared,    \* bytes of both asset purposes
  Free,      \* free bytes of the volume
  Retained,  \* bytes found at start
  Revisions, \* replacements of a journal
  Worlds     \* the surroundings an owner may meet

Nobody == "nobody"

ASSUME CapacityAssumption ==
  /\ IsFiniteSet(Threads) /\ Nobody \notin Threads
  /\ Worlds # {}
  /\ Worlds \subseteq [journals : SUBSET Threads, foreign : BOOLEAN, faults : BOOLEAN]
  /\ {MaxSize, Limit, Shared, Free, Retained, Revisions} \subseteq Nat
  /\ 2 * Retained <= Shared /\ Retained <= Limit

Assets == {"temporary", "promoted"}
Purposes == Assets \cup {"journal"}
Sizes == 1 .. MaxSize
Stranger == <<"stranger", 1>>

VARIABLES
  led,     \* the ledger
  own,     \* the owner and its surroundings, settled before it starts
  disk,    \* the files of each purpose
  slot,    \* who refreshes
  tokens,  \* threads holding a publication or a save
  th       \* where each thread is

vars == <<led, own, disk, slot, tokens, th>>

Journals == own.world.journals \* the threads that replace a journal file
Foreign == own.world.foreign   \* files change under the owner
Faults == own.world.faults     \* scans fail and writers break their promises

Nothing == [p \in Purposes |-> {}]
NewEntry == [state |-> "none", purpose |-> "temporary", est |-> 0, old |-> {}]

Init ==
  /\ led = [closed |-> FALSE, invalid |-> FALSE, active |-> Nobody,
            entry |-> [t \in Threads |-> NewEntry], files |-> [p \in Purposes |-> {}],
            reserved |-> [p \in Purposes |-> 0], observed |-> [p \in Purposes |-> 0],
            uncertain |-> [p \in Purposes |-> IF p = "journal" THEN 0 ELSE Retained]]
  /\ own \in [invalid : {FALSE}, closed : {FALSE}, revoking : {FALSE},
              revoked : {{}}, lease : {"held"}, world : Worlds]
  /\ disk = [p \in Purposes |-> {}] /\ slot = Nobody
  /\ tokens = [k \in {"publication", "save"} |-> {}]
  /\ th = [t \in Threads |-> [at |-> "idle", why |-> "none", seen |-> Nothing, revisions |-> 0]]

-----------------------------------------------------------------------------
(* The ledger. *)

Size(files) == SumFunction([f \in files |-> f[2]])
Total(l, p) == l.reserved[p] + l.observed[p] + l.uncertain[p]
Estimated(l, threads) == SumFunctionOnSet([t \in Threads |-> l.entry[t].est], threads)
LedgerLive(l) == ~l.closed /\ ~l.invalid

Fits(l, p, n) ==
  /\ Total(l, p) + n <= Limit
  /\ p \in Assets => SumFunction([q \in Assets |-> Total(l, q)]) + n <= Shared
  /\ SumFunction(l.reserved) + SumFunction(l.uncertain) + n <= Free

Reserved(l, t, p, n) ==
  [l EXCEPT !.entry[t].state = "reserved", !.entry[t].purpose = p, !.entry[t].est = n,
            !.reserved[p] = @ + n]

Released(l, t) == [l EXCEPT !.reserved[l.entry[t].purpose] = @ - l.entry[t].est]

(* Faulty variant: the estimate stays reserved as well. *)
RetainTwice(l, t) ==
  IF l.entry[t].state \notin {"reserved", "writing"} THEN l
  ELSE [l EXCEPT !.entry[t].state = "uncertain", !.uncertain[l.entry[t].purpose] = @ + l.entry[t].est]

(* _retain_locked *)
Retain(l, t) ==
  IF l.entry[t].state \notin {"reserved", "writing"} THEN l
  ELSE [Released(l, t) EXCEPT
          !.entry[t].state = "uncertain", !.uncertain[l.entry[t].purpose] = @ + l.entry[t].est,
          !.active = IF @ = t THEN Nobody ELSE @]

RetainInvalid(l, t) == [Retain(l, t) EXCEPT !.invalid = TRUE]

(* close: what is unsettled is retained. *)
CloseLedger(l) ==
  IF l.closed THEN l
  ELSE LET open == {t \in Threads : l.entry[t].state \in {"reserved", "writing"}}
       IN  [l EXCEPT
              !.closed = TRUE, !.active = Nobody,
              !.entry = [t \in Threads |->
                           [l.entry[t] EXCEPT !.state = IF t \in open THEN "uncertain" ELSE @]],
              !.reserved = [p \in Purposes |-> 0],
              !.uncertain = [p \in Purposes |->
                               @[p] + Estimated(l, {t \in open : l.entry[t].purpose = p})]]

(* The additions since the last inventory; FALSE when something else       *)
(* changed.                                                                *)
Additions(l, seen, p) == seen[p] \ l.files[p]
OnlyAdditions(l, seen) == \A p \in Purposes : l.files[p] \subseteq seen[p]

(* complete_write: exactly additions, some, within the estimate. *)
CompleteWrite(l, t, seen) ==
  LET e == l.entry[t]
      others == UNION {Additions(l, seen, p) : p \in Purposes \ {e.purpose}}
      n == Size(Additions(l, seen, e.purpose))
  IN  IF OnlyAdditions(l, seen) /\ others = {} /\ n \in 1 .. e.est
      THEN [Released(l, t) EXCEPT !.entry[t].state = "completed", !.active = Nobody,
              !.files = seen, !.observed[e.purpose] = @ + n]
      ELSE RetainInvalid(l, t)

(* complete_journal_replacement: one row replaced, the rest as before.     *)
CompleteJournal(l, t, seen) ==
  LET old == l.entry[t].old
      new == seen["journal"] \ (l.files["journal"] \ old)
  IN  IF /\ \A p \in Assets : seen[p] = l.files[p]
         /\ l.files["journal"] \ old \subseteq seen["journal"]
         /\ Cardinality(new) = 1 /\ \A f \in new : f[1] = t /\ f[2] <= l.entry[t].est
      THEN [Released(l, t) EXCEPT !.entry[t].state = "completed", !.active = Nobody, !.files = seen,
              !.entry[t].old = new, !.observed["journal"] = @ - Size(old) + Size(new)]
      ELSE RetainInvalid(l, t)

(* retain_completed_write_as_uncertain, and the same of a journal's        *)
(* replacement: the estimate replaces what was observed, and what stood    *)
(* there before it is counted again.                                       *)
RetainCompleted(l, t, prior) ==
  LET p == l.entry[t].purpose
      mine == {f \in l.files[p] : f[1] = t}
  IN  [l EXCEPT !.entry[t].state = "uncertain", !.observed[p] = @ - Size(mine) + prior,
                !.uncertain[p] = @ + l.entry[t].est, !.invalid = TRUE]

-----------------------------------------------------------------------------
(* The owner. *)

Live == ~own.closed /\ ~own.invalid
OwnerLive == Live /\ LedgerLive(led)

At(t, a) == th[t].at = a
Goto(t, a) ==
  th' = [th EXCEPT ![t].at = a, ![t].seen = Nothing,
                   ![t].why = IF a = "act" THEN @ ELSE "none"]
Frees(t) == slot' = IF slot = t THEN Nobody ELSE slot

(* _mark_invalid_locked *)
MarkInvalid == own' = [own EXCEPT !.invalid = TRUE, !.revoking = TRUE] /\ led' = CloseLedger(led)

(* A failed refresh drains the tokens of an owner it found invalid; an     *)
(* admission leaves that to the next refresh.                              *)
AfterFailure(t, why) == Goto(t, IF why = "admit" \/ ~own'.invalid THEN "idle" ELSE "drain_publication")

(* The calls that refresh first, and what each needs of its operation. *)
Refreshing == {"begin", "reserve", "admit", "readiness"}
Wants(t, why) ==
  CASE why = "begin" -> led.entry[t].state = "none"
    [] why = "reserve" -> led.entry[t].state = "open" /\ t \notin Journals
    [] why = "admit" -> \/ led.entry[t].state = "reserved"
                        \/ t \in Journals /\ led.entry[t].state \in {"open", "completed"}
                           /\ th[t].revisions < Revisions
    [] why = "readiness" -> TRUE

MayRefresh(t, why) == t \notin tokens["publication"] /\ (t \in tokens["save"] => why = "readiness")

(* Faulty variant: a write is admitted without the refresh slot. *)
ClaimUnslotted(t, why) ==
  /\ At(t, "idle") /\ Wants(t, why) /\ (why = "admit" \/ slot = Nobody)
  /\ th' = [th EXCEPT ![t].why = why, ![t].at = IF OwnerLive /\ led.active = Nobody THEN
                                                   IF why = "admit" THEN "act" ELSE "scan" ELSE "idle"]
  /\ slot' = IF why = "admit" \/ ~(OwnerLive /\ led.active = Nobody) THEN slot ELSE t
  /\ UNCHANGED <<led, own, disk, tokens>>

(* A Project save looks at the owner while it holds its token, a           *)
(* publication does not.  The slot, then a look at the ledger: a write in  *)
(* progress is no reason to invalidate.                                    *)
Claim(t, why) ==
  /\ At(t, "idle") /\ slot = Nobody /\ Wants(t, why) /\ MayRefresh(t, why)
  /\ IF OwnerLive /\ led.active = Nobody
     THEN slot' = t /\ th' = [th EXCEPT ![t].why = why, ![t].at = "scan"] /\ UNCHANGED <<led, own>>
     ELSE /\ IF OwnerLive THEN UNCHANGED <<led, own>> ELSE MarkInvalid
          /\ UNCHANGED slot /\ AfterFailure(t, why)
  /\ UNCHANGED <<disk, tokens>>

Scan(t) ==
  /\ At(t, "scan") /\ UNCHANGED <<disk, tokens>>
  /\ \/ th' = [th EXCEPT ![t].at = "observe", ![t].seen = disk] /\ UNCHANGED <<led, own, slot>>
     \/ Faults /\ MarkInvalid /\ AfterFailure(t, th[t].why) /\ Frees(t)

(* observe_inventory.  A begin or a reserve lets go of the slot before its *)
(* ledger call, an admission after it.                                     *)
Observe(t) ==
  /\ At(t, "observe") /\ UNCHANGED <<disk, tokens>>
  /\ IF OwnerLive /\ th[t].seen = led.files
     THEN /\ UNCHANGED <<led, own>> /\ slot' = IF th[t].why = "admit" THEN slot ELSE Nobody
          /\ Goto(t, IF th[t].why = "readiness" THEN "idle" ELSE "act")
     ELSE /\ Frees(t)
          /\ IF Live THEN MarkInvalid ELSE UNCHANGED <<led, own>>
          /\ AfterFailure(t, th[t].why)

(* Faulty variant: a refresh waits for tokens of its own. *)
DrainWaits(t) ==
  /\ At(t, "drain_publication") \/ At(t, "drain_save")
  /\ \A k \in DOMAIN tokens : tokens[k] = {}
  /\ Goto(t, "idle") /\ UNCHANGED <<led, own, disk, slot, tokens>>

(* _drain_invalidated_publications: each boundary in turn, not waiting for *)
(* itself.                                                                 *)
Drain(t) ==
  /\ \/ /\ At(t, "drain_publication") /\ own' = [own EXCEPT !.revoked = @ \cup {"publication"}]
        /\ tokens["publication"] = {} \/ t \in tokens["publication"]
        /\ Goto(t, "drain_save")
     \/ /\ At(t, "drain_save") /\ own' = [own EXCEPT !.revoked = @ \cup {"save"}]
        /\ tokens["save"] = {} \/ t \in tokens["save"]
        /\ Goto(t, "idle")
  /\ UNCHANGED <<led, disk, slot, tokens>>

Begin(t) ==
  /\ At(t, "act") /\ th[t].why = "begin" /\ Goto(t, "idle")
  /\ led' = IF OwnerLive THEN [led EXCEPT !.entry[t].state = "open"] ELSE led
  /\ UNCHANGED <<own, disk, slot, tokens>>

Reserve(t) ==
  /\ At(t, "act") /\ th[t].why = "reserve" /\ Goto(t, "idle")
  /\ \E p \in Assets, n \in Sizes :
       led' = IF OwnerLive /\ Fits(led, p, n) THEN Reserved(led, t, p, n) ELSE led
  /\ UNCHANGED <<own, disk, slot, tokens>>

(* admit_write, and admit_journal_replacement: the estimate of a journal   *)
(* is reserved as it is admitted.                                          *)
Admit(t) ==
  /\ At(t, "act") /\ th[t].why = "admit" /\ Frees(t) /\ UNCHANGED <<own, disk, tokens>>
  /\ LET journal == t \in Journals
         l == IF journal THEN [Reserved(led, t, "journal", MaxSize) EXCEPT
                                 !.entry[t].old = {f \in led.files["journal"] : f[1] = t}]
              ELSE led
     IN  IF /\ OwnerLive /\ led.active = Nobody
            /\ IF journal THEN Fits(led, "journal", MaxSize) ELSE led.entry[t].state = "reserved"
         THEN /\ led' = [l EXCEPT !.entry[t].state = "writing", !.active = t]
              /\ th' = [th EXCEPT ![t].at = "write", ![t].why = "none",
                                   ![t].revisions = IF journal THEN @ + 1 ELSE @]
         ELSE UNCHANGED led /\ Goto(t, "idle")

CancelBeforeWrite(t) ==
  /\ At(t, "idle") /\ OwnerLive /\ led.entry[t].state = "reserved"
  /\ led' = [Released(led, t) EXCEPT !.entry[t].state = "cancelled"]
  /\ UNCHANGED <<own, disk, slot, tokens, th>>

(* The writer creates its file: one, of a size within the estimate. *)
Create(t) ==
  /\ At(t, "write") /\ Goto(t, "complete")
  /\ LET e == led.entry[t]
         sizes == IF Faults THEN Sizes ELSE 1 .. e.est
     IN  \E n \in sizes : disk' = [disk EXCEPT ![e.purpose] = (@ \ e.old) \cup {<<t, n>>}]
  /\ UNCHANGED <<led, own, slot, tokens>>

(* cancel_write_before_create: only without a file. *)
CancelWrite(t) ==
  /\ At(t, "write") /\ t \notin Journals /\ OwnerLive /\ led.active = t /\ Goto(t, "idle")
  /\ led' = [Released(led, t) EXCEPT !.entry[t].state = "cancelled", !.active = Nobody]
  /\ UNCHANGED <<own, disk, slot, tokens>>

(* retain_uncertain: the writer cannot tell. *)
RetainWrite(t) ==
  /\ Faults /\ (At(t, "write") \/ At(t, "complete")) /\ Goto(t, "idle")
  /\ IF led.active = t THEN led' = RetainInvalid(led, t) /\ own' = [own EXCEPT !.invalid = TRUE]
     ELSE UNCHANGED <<led, own>>
  /\ UNCHANGED <<disk, slot, tokens>>

CompleteScan(t) ==
  /\ At(t, "complete") /\ UNCHANGED <<disk, slot, tokens>>
  /\ \/ th' = [th EXCEPT ![t].at = "commit", ![t].seen = disk] /\ UNCHANGED <<led, own>>
     \/ /\ Faults /\ Goto(t, "idle") /\ own' = [own EXCEPT !.invalid = TRUE]
        /\ led' = IF led.active = t THEN RetainInvalid(led, t) ELSE led

Complete(t) ==
  /\ At(t, "commit") /\ Goto(t, "idle") /\ UNCHANGED <<disk, slot, tokens>>
  /\ IF OwnerLive /\ led.active = t
     THEN /\ led' = IF t \in Journals THEN CompleteJournal(led, t, th[t].seen)
                    ELSE CompleteWrite(led, t, th[t].seen)
          /\ own' = own
     ELSE UNCHANGED <<led, own>>

(* The size of what a journal's replacement has replaced. *)
Priors(t) == IF t \in Journals /\ th[t].revisions > 1 THEN Sizes ELSE {0}

(* A completed write whose caller could not publish it. *)
RetainCompletedWrite(t) ==
  /\ Faults /\ At(t, "idle") /\ led.entry[t].state = "completed" /\ led.active = Nobody
  /\ \E prior \in Priors(t) : led' = RetainCompleted(led, t, prior)
  /\ own' = [own EXCEPT !.invalid = TRUE]
  /\ UNCHANGED <<disk, slot, tokens, th>>

-----------------------------------------------------------------------------
(* Tokens, close, and the world. *)

BeginToken(t, k) ==
  /\ At(t, "idle") /\ \A q \in DOMAIN tokens : t \notin tokens[q]
  /\ Live /\ ~own.revoking /\ k \notin own.revoked
  /\ tokens' = [tokens EXCEPT ![k] = @ \cup {t}] /\ UNCHANGED <<led, own, disk, slot, th>>

FinishToken(t, k) ==
  /\ At(t, "idle") /\ t \in tokens[k]
  /\ tokens' = [tokens EXCEPT ![k] = @ \ {t}] /\ UNCHANGED <<led, own, disk, slot, th>>

CloseAt == [publication |-> "close_publication", save |-> "close_save"]

(* close: refused to a holder, revoking before anything else. *)
CloseBegin(t) ==
  /\ At(t, "idle") /\ ~own.closed /\ \A k \in DOMAIN tokens : t \notin tokens[k]
  /\ own' = [own EXCEPT !.revoking = TRUE] /\ Goto(t, "close_publication")
  /\ UNCHANGED <<led, disk, slot, tokens>>

CloseWait(t, k) ==
  /\ At(t, CloseAt[k]) /\ tokens[k] = {}
  /\ own' = [own EXCEPT !.revoked = @ \cup {k}]
  /\ Goto(t, IF k = "publication" THEN "close_save" ELSE "close_ledger")
  /\ UNCHANGED <<led, disk, slot, tokens>>

Settled ==
  /\ \A p \in Purposes : led.uncertain[p] = 0
  /\ led.active = Nobody /\ ~own.invalid
  /\ \A t \in Threads : led.entry[t].state \notin {"reserved", "writing", "uncertain"}

CloseLedgerStep(t) ==
  /\ At(t, "close_ledger") /\ Goto(t, "close_lease") /\ UNCHANGED <<disk, slot, tokens>>
  /\ IF own.closed THEN UNCHANGED <<led, own>>
     ELSE led' = CloseLedger(led) /\ own' = [own EXCEPT !.closed = TRUE]

(* release_scope_writer_lease_if_settled *)
CloseLease(t) ==
  /\ At(t, "close_lease") /\ Goto(t, "idle")
  /\ own' = [own EXCEPT !.lease = IF @ # "held" THEN @ ELSE IF Settled THEN "released" ELSE "uncertain"]
  /\ UNCHANGED <<led, disk, slot, tokens>>

StrangerWrites ==
  /\ Foreign /\ \E p \in Purposes : disk' = [disk EXCEPT ![p] = @ \cup {Stranger}] /\ disk[p] = disk'[p] \ {Stranger}
  /\ UNCHANGED <<led, own, slot, tokens, th>>

Step(t) ==
  \/ Scan(t) \/ Observe(t) \/ Drain(t) \/ Begin(t) \/ Reserve(t) \/ Admit(t) \/ Create(t)
  \/ CompleteScan(t) \/ Complete(t) \/ CloseLedgerStep(t) \/ CloseLease(t)
  \/ \E k \in DOMAIN tokens : FinishToken(t, k) \/ CloseWait(t, k)

Next ==
  \/ \E t \in Threads :
       \/ Step(t) \/ CancelBeforeWrite(t) \/ CancelWrite(t) \/ RetainWrite(t)
       \/ RetainCompletedWrite(t) \/ CloseBegin(t)
       \/ \E why \in Refreshing : Claim(t, why)
       \/ \E k \in DOMAIN tokens : BeginToken(t, k)
  \/ StrangerWrites

Spec == Init /\ [][Next]_vars

(* A call that has begun goes on.  A holder makes a fixed number of calls  *)
(* between its token and the finally that returns it.                      *)
FairSpec ==
  /\ Spec
  /\ \A t \in Threads : WF_vars(Step(t)) /\ SF_vars(\E k \in DOMAIN tokens : FinishToken(t, k))

-----------------------------------------------------------------------------
(* Properties. *)

(* The ledger and the owner keep their shape. *)
TypeOK ==
  /\ led.active \in Threads \cup {Nobody} /\ slot \in Threads \cup {Nobody}
  /\ \A t \in Threads : led.entry[t].state \in
       {"none", "open", "reserved", "writing", "completed", "cancelled", "uncertain"}
  /\ \A p \in Purposes : {led.reserved[p], led.observed[p], led.uncertain[p]} \subseteq Nat
  /\ own.lease \in {"held", "released", "uncertain"}

Estimates(p, states) ==
  Estimated(led, {t \in Threads : led.entry[t].purpose = p /\ led.entry[t].state \in states})

(* The running totals are what the entries and the files say: nothing is   *)
(* released twice, nothing is both reserved and retained.                  *)
CountersMatch ==
  \A p \in Purposes :
    /\ led.reserved[p] = Estimates(p, {"reserved", "writing"})
    /\ p \in Assets => led.uncertain[p] = Retained + Estimates(p, {"uncertain"})
    /\ LedgerLive(led) => led.observed[p] = Size(led.files[p])

(* While the owner is live no purpose is promised more than its limit, the *)
(* asset purposes not more than they share.                                *)
WithinLimits ==
  LedgerLive(led) =>
    /\ \A p \in Purposes : Total(led, p) <= Limit
    /\ SumFunction([p \in Assets |-> Total(led, p)]) <= Shared

(* The books of the capacity owner hold: they match and keep to the limits,*)
(* whatever a write turns out to have done.                                *)
BooksHold == CountersMatch /\ WithinLimits

(* Without strangers and broken promises the owner stays valid until it is *)
(* closed: no refresh takes a write in progress for a foreign change.      *)
OwnWritesAreNotForeign == ~Foreign /\ ~Faults /\ own.invalid => own.closed

(* The writer lease is given up only with every write settled and every    *)
(* file the ledger knows completed.                                        *)
LeaseReleasedSettled ==
  [][own.lease = "held" /\ own'.lease = "released" =>
       /\ own.closed /\ tokens = [k \in DOMAIN tokens |-> {}]
       /\ \A p \in Purposes : \A f \in disk[p] \ {Stranger} : f \in led.files[p]]_vars

(* A close that has begun ends, and so does the drain of a refresh, even   *)
(* when the refreshing thread holds a token itself.                        *)
CloseReturns == \A t \in Threads : []<>(th[t].at = "idle")
=============================================================================
