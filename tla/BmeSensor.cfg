\* The gas refresh task and a coap_process: three calls, two polls each.
CONSTANTS
  t1 = t1
  t2 = t2
  NoTask = NoTask
  Uninitialized = Uninitialized
  Tasks = {t1, t2}
  TRIES = 2
  MaxCalls = 3
SPECIFICATION FairSpec
INVARIANTS TypeOK WholeReading
PROPERTIES ReadingsInOrder RetrieveReturns
CHECK_DEADLOCK FALSE
