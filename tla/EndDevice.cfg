\* The command line, a second poster, lwIP's task, a queue of two, heap for two lines;
\* any step of the boot failing, any number of restarts; no ten second timeout.
CONSTANTS
  Cli = Cli
  p2 = p2
  u1 = u1
  Main = Main
  NoTask = NoTask
  Posters = {Cli, p2}
  Users = {u1}
  QUEUE_SIZE = 2
  HEAP_LINES = 2
  MaxWorkers = 1
SPECIFICATION DeviceFairSpec
CHECK_DEADLOCK FALSE
INVARIANTS TypeOK NoSleepOnWork LinesAccounted
INVARIANTS DeviceTypeOK LoopEquipped EnoughEventfds MainLoopAlone SignalsLand
PROPERTIES CliAnswered
