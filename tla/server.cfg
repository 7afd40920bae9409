\* The life of a process under six environments, two requests on a pool of
\* one connection.
SPECIFICATION FairSpec
\* A process that was told to stop stays down.
CHECK_DEADLOCK FALSE
CONSTANTS
  Null = Null
  r1 = r1  r2 = r2
  Requests = {r1, r2}
  MaxConns = 1
  Defaults <- ConfigDefaults
  RequestTimeout <- RouterTimeout
  NewGrace = 1
  GracePeriod = 6
  Environments <- SixEnvironments
INVARIANTS TypeOK ExitCodeIsTrue ExitsInTime
PROPERTIES   SignalEnds ComesUp
