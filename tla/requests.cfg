SPECIFICATION MCFairSpec
CONSTANTS
  Caller = {c1, c2}
  c1 = c1
  c2 = c2
  MaxCalls = 2
  ReadCalls = {1}
  READ_ATTEMPTS = 2
  REQUEST_LIMIT = 1
  WRITER_QUEUE = 1
  MaxEmits = 1
  ClientFaults = {"overload", "break", "abandon"}
INVARIANTS
  ClientTypeOK
  NothingLeaks
  AnswerIsOwn
  NotificationsFirst
PROPERTIES
  NobodyForgotten
  ImplementsRemoteCall
  TornDown
  EveryCallEnds
CHECK_DEADLOCK FALSE
