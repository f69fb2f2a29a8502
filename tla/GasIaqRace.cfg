\* Two tasks and good readings: the check of the ceiling is not under the mutex.
CONSTANTS
  t1 = t1
  t2 = t2
  NaN = NaN
  NoTask = NoTask
  Tasks <- Pair
  Gas <- GoodGas
  BURN_IN = 1
  RESET_LIMIT = 3
SPECIFICATION Spec
PROPERTY RisesUntilReset
