-------------------------- MODULE MCReviewSession --------------------------
(* ReviewSession for TLC: small request sets. *)
EXTENDS ReviewSession, TLC

(* One request id with two intents. *)
TwoPayloads == {1, 2}
TwoIds == 1 :> 1 @@ 2 :> 1
TwoKinds == [q \in TwoPayloads |-> "swap"]
TwoIntents == 1 :> 1 @@ 2 :> 2

(* One request for each custodian. *)
BothPayloads == {1, 2}
BothIds == 1 :> 1 @@ 2 :> 2
BothKinds == 1 :> "swap" @@ 2 :> "generation"
BothIntents == 1 :> 1 @@ 2 :> 1

(* Projects are only compared.  None is no Project. *)
Exchangeable == Permutations(Projects \ {None})
=============================================================================
