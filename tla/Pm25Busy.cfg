\* The smallest case: two tasks that take one reading each.
CONSTANTS
  t1 = t1
  t2 = t2
  t3 = t3
  NoTask = NoTask
  Tasks = {t1, t2}
  Volts = {1}
  PM25_ADC_READINGS = 1
  MAX_ITEMS = 2
SPECIFICATION Spec
INVARIANT ThreadSafeRead
