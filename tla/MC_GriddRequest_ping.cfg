CONSTANTS
  Conns = {c1}
  AppRequests <- MCAppRequests
  TimeoutValues = {0, 1}
  AppReplyCodes <- MCAppReplyCodes
  AppErrorCodes <- MCAppErrorCodes
  MaxRunTime = 2
  MaxQueueDelay = 1
  IoWindow = 2
  MaxTime = 3
  MaxRequests = 2
  MaxHandlerSteps = 2
  RequestNames <- MCPingOnly

SPECIFICATION Spec
INVARIANT PingAnsweredDuringIoErrors
