\* Two receive buffers and the stub; any frames, answers, aborts and calls.
CONSTANTS
  RX_BUFFER_SIZE = 2
SPECIFICATION FairSpec
INVARIANTS TypeOK  ReceivesIntoFree QueueConsistent BuffersAccounted
 
