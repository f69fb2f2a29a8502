\* The main loop holds the OpenThread lock; coap_process never takes it.
CONSTANTS
  w1 = w1
  w2 = w2
  m1 = m1
  m2 = m2
  m3 = m3
  NoMsg = NoMsg
  Roles = {"disabled", "detached", "child", "router", "leader"}
  Workers <- MCWorkers
  Msgs <- MCMsgs
SPECIFICATION Spec
SYMMETRY Symmetry
INVARIANT OneInOpenThread
