SPECIFICATION FairSpec
CONSTANTS
  Routers = {"chi", "gin"}
INVARIANTS
  AnswerKept
  GatewayTimeoutIffDeadline
  HandlerNeedsClaim
  LoggedAsSent
PROPERTIES
  TimeoutBoundsRequest
