\* A coap_process, lwIP's task and the main loop on three message buffers; two packets can wait.
CONSTANTS
  w1 = w1
  m1 = m1
  m2 = m2
  m3 = m3
  NoMsg = NoMsg
  Roles = {"disabled", "detached", "child", "router"}
  Workers <- MCWorkers
  Msgs <- MCMsgs
  NETIF_QUEUE = 2
SPECIFICATION GlueFairSpec
INVARIANTS TypeOK GlueTypeOK MessagesAccounted NoSleepOnPackets JoinedHasWorker
PROPERTY PacketsLeave
