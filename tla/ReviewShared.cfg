SPECIFICATION FairSpec
CONSTANTS
  MaxWakeRetry = 2
  ProposalTTL = 1
  PreparedLifetime = 1
  MaxTombstones = 1
  Kinds = {"swap", "generation"}
  Payloads <- BothPayloads
  IdOf <- BothIds
  KindOf <- BothKinds
  IntentOf <- BothIntents
  Projects = {0, 1, 2}
  Contents = {1}
  Timeout = 1
  MaxHistory = 1
  MayInterrupt = FALSE
  MaxTime = 1
  MaxEpochs = 2
  MaxProposals = 1
  MaxClaims = 2
  MaxPairings = 1
  MaxCancelled = 0
PROPERTIES ProposalsEnd
CHECK_DEADLOCK FALSE
