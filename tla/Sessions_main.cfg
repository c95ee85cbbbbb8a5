\* Two sessions, each with two retries; then one of them with three sockets,
\* three listen tasks, two recovery tasks and three upsets.
SPECIFICATION SessionsSpec
CONSTANTS
  Sessions = {"A", "B"}
  Retries = 2
  Sockets = {"s1", "s2", "s3"}
  Listeners = {"l1", "l2", "l3"}
  Recoveries = {"r1", "r2"}
  MaxAttempts = 2
  MaxUpsets = 3
  None = "none"
INVARIANT OneRecoveryWorks
PROPERTIES
  LossIsHandled
  ConnectSettles
CHECK_DEADLOCK FALSE
