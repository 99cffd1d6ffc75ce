SPECIFICATION FairSpec
CONSTANTS
  MaxPuts = 3
  MaxConns = 3
INVARIANTS TypeOK Bookkeeping PopsPending ForgottenIsDispatched InOrder
PROPERTIES SentIsAcknowledged ImplementsOutbox
CHECK_DEADLOCK FALSE
