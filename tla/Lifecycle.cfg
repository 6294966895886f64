SPECIFICATION Spec
CONSTANTS
  h1 = h1  h2 = h2  a1 = a1  a2 = a2
  good = good  bad = bad  none = none
  default = default  custom = custom  noReason = noReason
  Handlers <- MCHandlers
  ApiTasks <- MCApiTasks
  ApiRequests <- MCRequests
  Tokens <- MCTokens
  NoToken <- none
  ConfigToken <- good
  Reasons <- MCReasons
  NoReason <- noReason
  DisconnectMsg <- default
INVARIANTS
  TypeOK
  NoMissedShutdown
  NoHandlerSpins
  FinalRecvReturns
  DrainedBeforeExit
  OnlyAuthorizedStop
  ReasonIsGenuine
  FailsOnlyOnTwoOrders
PROPERTIES
  NoAcceptAfterStop
  ShutdownCompletes
  DrainsGracefully
\* The process exits, and a server nobody stops waits for ever.
CHECK_DEADLOCK FALSE
