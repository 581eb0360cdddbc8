SPECIFICATION FairSpec
CONSTANTS
  Requests = {r1, r2, r3}
  Respelt = {r3}
  Rows = {x, y}
  Nobody = Nobody
  PoolSize = 2
INVARIANTS TypeOK ChainIntact LedgerExplainsData AcknowledgedIsRecorded AlterationDetected
PROPERTIES ImplementsLog EveryRequestAnswered
CHECK_DEADLOCK FALSE
