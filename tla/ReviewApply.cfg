SPECIFICATION Spec
CONSTANTS
  MaxWakeRetry = 2
  ProposalTTL = 1
  PreparedLifetime = 1
  MaxTombstones = 1
  Kinds = {"swap"}
  Payloads <- TwoPayloads
  IdOf <- TwoIds
  KindOf <- TwoKinds
  IntentOf <- TwoIntents
  Projects = {0, p1, p2}
  p1 = p1
  p2 = p2
  Contents = {1, 2}
  Timeout = 1
  MaxHistory = 1
  MayInterrupt = TRUE
  MaxTime = 1
  MaxEpochs = 2
  MaxProposals = 2
  MaxClaims = 2
  MaxPairings = 2
  MaxCancelled = 0
INVARIANTS OneProposalPerRequest OutcomeIsTrue
PROPERTIES AcknowledgedInCustody PairedCommit ReplacesItsSource
SYMMETRY Exchangeable
CHECK_DEADLOCK FALSE
