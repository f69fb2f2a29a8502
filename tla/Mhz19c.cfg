\* Two callers of the one UART, a sensor that answers late, cut by a flush, or not at all.
CONSTANTS
  t1 = t1
  t2 = t2
  NoTask = NoTask
  Tasks <- Callers
  Ppm = {5, 6}
  Byte = 4
  MaxOwed = 2
  LINE_LOSS = FALSE
  STALE_STACK = FALSE
SPECIFICATION Spec
SYMMETRY Symmetry
INVARIANTS TypeOK ResyncsAfterLateAnswer
