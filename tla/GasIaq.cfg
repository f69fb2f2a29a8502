\* Two tasks in bme68x_get_iaq, preempted at every load and store.
CONSTANTS
  t1 = t1
  t2 = t2
  NaN = NaN
  NoTask = NoTask
  Tasks <- Pair
  Gas <- AllGas
  BURN_IN = 2
  RESET_LIMIT = 1
SPECIFICATION FairSpec
INVARIANTS TypeOK ScoreRange NoEarlyScore
PROPERTIES NaNOnlyByReset CeilReanchored BurnInEnds
