SPECIFICATION FairSpec
CONSTANTS
  MaxJobs = 1
  ActiveTTL = 1
  TerminalTTL = 1
  ReservationTTL = 1
  Requests = 2
  MaxOutputs = 1
  Projects = {1, 2}
  Contents = {1, 2}
  MaxEvents = 4
  MaxEpochs = 2
  MaxPairings = 1
  MaxProposals = 1
  MaxJobsMade = 2
  MaxReviews = 1
  MaxReservations = 1
INVARIANTS OneJobPerProposal OfferedAsReviewed ReportsAreTrue
PROPERTIES EveryJobEnds
CHECK_DEADLOCK FALSE
