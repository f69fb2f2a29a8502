\* One caller, a line that drops the end of a frame.
CONSTANTS
  t1 = t1
  t2 = t2
  NoTask = NoTask
  Tasks = {t1}
  Ppm = {5, 6}
  Byte = 4
  MaxOwed = 2
  LINE_LOSS = TRUE
  STALE_STACK = TRUE
SPECIFICATION Spec
INVARIANT ShortReadIsError
