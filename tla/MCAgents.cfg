SPECIFICATION AgentsSpec
CONSTANTS
  Parts = {"requests", "content"}
  Clients = {c}
  Apps = {memos}
  MaxGens = 2
  Calls = {p, q}
  NoCall = NoCall
  MaxIds = 2
  Overlap = 1
  MaxRows = 1
  MaxActive = 1
  MaxPerClient = 1
  MaxVersion = 1
  MaxProposals = 1
  MaxConnected = 2
  MaxOpen = 1
INVARIANTS ExactlyApproved RowsTellTheTruth GrantsFitConnections
PROPERTIES ApprovedOnce WrittenOnce UnwantedWorkEnds
CHECK_DEADLOCK FALSE
