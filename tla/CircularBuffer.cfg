\* Three tasks that call the buffer for ever, a window of three samples.
CONSTANTS
  t1 = t1
  t2 = t2
  t3 = t3
  NoTask = NoTask
  Tasks = {t1, t2, t3}
  Items = {1, 2}
  MAX_ITEMS = 3
SPECIFICATION FairSpec
INVARIANTS TypeOK LoopInv
PROPERTIES ImplementsWindow CallsReturn
