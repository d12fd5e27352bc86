---------------------------- MODULE RequestSlot ----------------------------
(***************************************************************************)
(* What the session mailbox promises its two sides: one slot, each request *)
(* accepted into the free slot, started at most once, answered and         *)
(* collected once.  A change of target takes away, in the same step, the   *)
(* answer or the chance of one: what is not started or already completed   *)
(* is refused, what is being executed is revoked and can no longer         *)
(* complete.                                                               *)
(***************************************************************************)
EXTENDS Naturals

VARIABLES
  phase,     \* what the slot holds
  owner,     \* the request in the slot, 0 if it is free or closed
  accepted,  \* how many requests were accepted
  epoch,     \* the current target, 0 before the first one
  revoked    \* the started request lost its target

vars == <<phase, owner, accepted, epoch, revoked>>

Init ==
  /\ phase = "free" /\ owner = 0 /\ accepted = 0 /\ epoch = 0 /\ revoked = FALSE

Accept ==
  /\ phase = "free" /\ epoch # 0
  /\ phase' = "accepted"
  /\ accepted' = accepted + 1
  /\ owner' = accepted'
  /\ revoked' = FALSE
  /\ UNCHANGED epoch

Start ==
  /\ phase = "accepted"
  /\ phase' = "started"
  /\ UNCHANGED <<owner, accepted, epoch, revoked>>

Complete ==
  /\ phase = "started" /\ ~revoked
  /\ phase' = "completed"
  /\ UNCHANGED <<owner, accepted, epoch, revoked>>

Refuse ==
  /\ phase \in {"accepted", "started", "completed"}
  /\ phase' = "refused"
  /\ revoked' = FALSE
  /\ UNCHANGED <<owner, accepted, epoch>>

Retarget ==
  /\ phase # "closed"
  /\ epoch' # epoch
  /\ phase' = IF phase \in {"accepted", "completed"} THEN "refused" ELSE phase
  /\ revoked' = (phase = "started")
  /\ UNCHANGED <<owner, accepted>>

Collect ==
  /\ phase \in {"completed", "refused"}
  /\ phase' = "free"
  /\ owner' = 0
  /\ revoked' = FALSE
  /\ UNCHANGED <<accepted, epoch>>

Close ==
  /\ phase # "closed"
  /\ phase' = "closed" /\ owner' = 0 /\ epoch' = 0 /\ revoked' = FALSE
  /\ UNCHANGED accepted

Next == Accept \/ Start \/ Complete \/ Refuse \/ Retarget \/ Collect \/ Close

Spec == Init /\ [][Next]_vars
=============================================================================
