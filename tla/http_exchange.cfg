SPECIFICATION FairSpec
CONSTANTS
  MaxHeaders = 2
  PortLists <- MCPortLists
  Taken <- MCTaken
  BufSize = 18
  Cap = 2
  MemSize = 3
  Body <- MCBody
  Clients <- MCClients
  ResultText <- MCResultText
  MayStop = TRUE
INVARIANTS TypeOK BodyArrivesExactly NoStaleBytes ResultArrivesWhole CleanUri AllPortsOrNone
PROPERTIES DiscardStaysInBuffer AnsweredBeforeClose ConnectionEnds
CHECK_DEADLOCK FALSE
