--------------------------- MODULE NetifGlueProofs ---------------------------
(***************************************************************************)
(* The pool of message buffers that the CoAP client, lwIP's task and the   *)
(* main loop share, for any buffers, senders and length of the packet      *)
(* queue.                                                                  *)
(***************************************************************************)
EXTENDS NetifGlue, SequenceTheorems, TLAPS

(* MessagesAccounted, buffer by buffer.                                    *)

Somewhere ==
  \A m \in Msgs : \/ m \in free \/ m \in queued \/ m = message
                  \/ \E w \in Workers : msg[w] = m
                  \/ \E i \in 1..Len(packets) : packets[i] = m

(* No buffer is in two places.                                             *)
Apart ==
  /\ \A m \in free : m \notin queued
  /\ message \notin free /\ message \notin queued
  /\ \A w \in Workers : /\ msg[w] \notin free /\ msg[w] \notin queued
                        /\ msg[w] # NoMsg => msg[w] # message
  /\ \A i \in 1..Len(packets) : /\ packets[i] \notin free /\ packets[i] \notin queued
                                /\ packets[i] # message
                                /\ \A w \in Workers : packets[i] # msg[w]

(* No place is taken twice.                                                *)
Single ==
  /\ \A v, w \in Workers : msg[v] = msg[w] /\ msg[v] # NoMsg => v = w
  /\ \A i, j \in 1..Len(packets) : packets[i] = packets[j] => i = j

(* The part of MessagesAccounted that is about the pool.                   *)
PoolInOrder == /\ PoolAccounted(Queued \cup ({message} \ {NoMsg}))
               /\ message \notin Queued
               /\ \A i, j \in 1..Len(packets) : packets[i] = packets[j] => i = j

LEMMA BufferByBuffer ==
  ASSUME TypeOK, GlueTypeOK
  PROVE  /\ PoolInOrder => Somewhere /\ Apart /\ Single
         /\ Somewhere /\ Apart /\ Single => PoolInOrder
  <1>t. /\ free \subseteq Msgs /\ queued \subseteq Msgs
        /\ \A w \in Workers : msg[w] \in Msgs \cup {NoMsg}
        /\ \A i \in 1..Len(packets) : packets[i] \in Msgs
        /\ message \in Msgs \cup {NoMsg}
    BY DEF TypeOK, GlueTypeOK
  <1>h. \A m : m \in Held <=> m # NoMsg /\ \E w \in Workers : msg[w] = m
    BY DEF Held
  <1>q. \A m : m \in Queued <=> \E i \in 1..Len(packets) : packets[i] = m
    BY DEF Queued
  <1>1. ASSUME PoolInOrder PROVE Somewhere /\ Apart /\ Single
    <2>1. Somewhere
      BY <1>1, <1>t, <1>h, <1>q, MsgsAssumption DEF PoolInOrder, PoolAccounted, Somewhere
    <2>2. Apart
      BY <1>1, <1>t, <1>h, <1>q, MsgsAssumption DEF PoolInOrder, PoolAccounted, Apart
    <2>3. Single
      BY <1>1 DEF PoolInOrder, PoolAccounted, Single
    <2> QED
      BY <2>1, <2>2, <2>3
  <1>2. ASSUME Somewhere, Apart, Single PROVE PoolInOrder
    <2> DEFINE others == Queued \cup ({message} \ {NoMsg})
    <2>1. free \cup queued \cup Held \cup others = Msgs
      BY <1>2, <1>t, <1>h, <1>q, MsgsAssumption DEF Somewhere
    <2>2. free \cap queued = {} /\ free \cap Held = {} /\ queued \cap Held = {}
      BY <1>2, <1>h DEF Apart
    <2>3. others \cap (free \cup queued \cup Held) = {}
      BY <1>2, <1>h, <1>q DEF Apart
    <2>4. message \notin Queued
      BY <1>2, <1>q DEF Apart
    <2> QED
      BY <1>2, <2>1, <2>2, <2>3, <2>4 DEF Single, PoolInOrder, PoolAccounted
  <1> QED
    BY <1>1, <1>2

Parts == Somewhere /\ Apart /\ Single /\ InHand

(* The variables that say where buffers are.                               *)
places == <<free, queued, msg, packets, message>>

----------------------------------------------------------------------------
(* Types *)

LEMMA InitGlueIInv == GlueInit => GlueIInv
  <1> SUFFICES ASSUME GlueInit PROVE GlueIInv
    OBVIOUS
  <1> USE DEF GlueInit, Init
  <1>1. TypeOK
    BY RolesAssumption DEF TypeOK, Steps
  <1>0. GlueTypeOK
    <2>1. packets \in Seq(Msgs) /\ Len(packets) <= NETIF_QUEUE
      BY NetifQueueAssumption
    <2>2. netif_event \in BOOLEAN /\ isset \in BOOLEAN
      OBVIOUS
    <2> QED
      BY <2>1, <2>2 DEF GlueTypeOK, GlueSteps, TcpipSteps
  <1>2. Somewhere /\ Apart /\ Single /\ InHand
    BY MsgsAssumption DEF Somewhere, Apart, Single, InHand, TaskInHand
  <1>3. PacketsSignalled /\ JoinedHasWorker
    BY DEF PacketsSignalled, JoinedHasWorker, Joined
  <1> QED
    BY <1>0, <1>1, <1>2, <1>3, BufferByBuffer DEF GlueIInv, MessagesAccounted, PoolInOrder

(* A step of the CoAP client keeps its types; the message it gives away is *)
(* no NULL.                                                                *)
LEMMA CoapTypes ==
  ASSUME TypeOK, InHand, CoapStep \/ Fault
  PROVE  TypeOK'
  <1> USE DEF TypeOK, client, sender, world, pool, PoolUpdate
  <1>1. CASE RoleChange \/ coapClientStartCallback
    BY <1>1 DEF RoleChange, coapClientStartCallback
  <1>2. ASSUME NEW w \in Workers, Sense(w) \/ EnterApi(w) PROVE TypeOK'
    BY <1>2 DEF Sense, EnterApi, Steps
  <1>3. ASSUME NEW w \in Workers,
               \/ otCoapNewMessage(w, Locked) \/ AppendParts(w)
               \/ otCoapSendRequest(w, Locked) \/ otMessageFree(w, Locked)
               \/ otCliOutputFormat(w)
        PROVE  TypeOK'
    <2>1. Second(w, Locked) \in BOOLEAN
      BY DEF Second, Locked
    <2> QED
      BY <1>3, <2>1 DEF otCoapNewMessage, AppendParts, otCoapSendRequest, otMessageFree,
                        otCliOutputFormat, LeaveApi, Steps, InHand, TaskInHand
  <1>4. ASSUME NEW w \in Workers, NullMessage(w) PROVE TypeOK'
    BY <1>4, RolesAssumption DEF NullMessage, Steps
  <1> QED
    BY <1>1, <1>2, <1>3, <1>4 DEF CoapStep, Fault

(* So does a step of the glue.                                             *)
Glue == \/ Select \/ Enter \/ Inside \/ Arrive \/ process_thread_receive
        \/ TcpipAcquire \/ Tcpip

LEMMA GlueTypes ==
  ASSUME TypeOK, GlueTypeOK, InHand, Glue
  PROVE  TypeOK' /\ GlueTypeOK'
  <1> USE NetifQueueAssumption
      DEF gvars, lwip, stack, tasks, pool, world, client, sender, vars, PoolUpdate
  <1>1. CASE Select \/ Enter \/ NothingSet \/ ReadEvent \/ QueueEmpty \/ CheckLeft \/ Leave
    BY <1>1 DEF Select, Enter, NothingSet, ReadEvent, QueueEmpty, CheckLeft, Leave,
                MainEnter, MainLeave, TypeOK, GlueTypeOK, GlueSteps
  <1>2. CASE otIp6Send
    <2>1. packets \in Seq(Msgs) /\ packets # <<>>
      BY <1>2 DEF otIp6Send, GlueTypeOK
    <2>2. /\ Head(packets) \in Msgs /\ Tail(packets) \in Seq(Msgs)
          /\ Len(Tail(packets)) = Len(packets) - 1 /\ Len(packets) \in Nat
      BY <2>1
    <2>3. free' \subseteq Msgs /\ queued' \subseteq Msgs /\ raced' \in BOOLEAN
      BY <1>2, <2>2 DEF otIp6Send, TypeOK
    <2>4. TypeOK'
      BY <1>2, <2>3 DEF otIp6Send, TypeOK
    <2> QED
      BY <1>2, <2>2, <2>4 DEF otIp6Send, GlueTypeOK, GlueSteps
  <1>3. CASE Arrive \/ process_thread_receive
    BY <1>3 DEF Arrive, process_thread_receive, Transmit, TypeOK, GlueTypeOK
  <1>4. CASE TcpipAcquire \/ TcpipRelease \/ otMessageAppend \/ notify_packets_pending
    BY <1>4 DEF TcpipAcquire, TcpipRelease, otMessageAppend, notify_packets_pending,
                TcpipStep, TypeOK, GlueTypeOK, TcpipSteps
  <1>5. CASE otIp6NewMessage \/ FreeMessage
    BY <1>5 DEF otIp6NewMessage, FreeMessage, TcpipStep, TypeOK, GlueTypeOK, TcpipSteps, InHand,
                TaskInHand
  <1>6. CASE QueuePacket
    <2>1. packets \in Seq(Msgs) /\ Len(packets) \in Nat /\ message \in Msgs
      BY <1>6 DEF QueuePacket, TcpipStep, GlueTypeOK, InHand
    <2>2. /\ Append(packets, message) \in Seq(Msgs)
          /\ Len(Append(packets, message)) = Len(packets) + 1
      BY <2>1
    <2> QED
      BY <1>6, <2>1, <2>2 DEF QueuePacket, TcpipStep, TypeOK, GlueTypeOK, TcpipSteps
  <1> QED
    BY <1>1, <1>2, <1>3, <1>4, <1>5, <1>6 DEF Glue, Inside, Tcpip

(* Every variable keeps its type over any step.                            *)
LEMMA NextTypes ==
  ASSUME TypeOK, GlueTypeOK, InHand, [GlueNext]_<<vars, gvars>>
  PROVE  TypeOK' /\ GlueTypeOK'
  <1>1. CASE UNCHANGED <<vars, gvars>>
    BY <1>1 DEF vars, gvars, TypeOK, GlueTypeOK
  <1>2. CASE Glue
    BY <1>2, GlueTypes
  <1>3. CASE CoapStep
    <2>1. UNCHANGED gvars
      BY <1>3 DEF CoapStep
    <2> QED
      BY <1>3, <2>1, CoapTypes DEF GlueTypeOK, gvars
  <1>4. CASE Fault
    <2>1. GlueReset
      BY <1>4 DEF Fault
    <2> QED
      <3> USE <2>1 DEF GlueReset
      <3>1. packets' \in Seq(Msgs) /\ Len(packets') <= NETIF_QUEUE
        BY NetifQueueAssumption
      <3>2. netif_event' \in BOOLEAN /\ isset' \in BOOLEAN
        OBVIOUS
      <3> QED
        BY <1>4, <3>1, <3>2, CoapTypes DEF GlueTypeOK, GlueSteps, TcpipSteps
  <1> QED
    BY <1>1, <1>2, <1>3, <1>4 DEF GlueNext, Glue

----------------------------------------------------------------------------
(* Buffers *)

(* A step that moves no buffer and leaves every task as it holds one.      *)
LEMMA NothingMoves ==
  ASSUME Parts, UNCHANGED places,
         \A w \in Workers : pc'[w] = pc[w] \/ {pc[w], pc'[w]} \subseteq {"append", "send", "free"}
                            \/ {pc[w], pc'[w]} \cap {"append", "send", "free"} = {},
         tcpip' = tcpip \/ {tcpip, tcpip'} \subseteq {"append", "queue", "free"}
                        \/ {tcpip, tcpip'} \cap {"append", "queue", "free"} = {}
  PROVE  Parts'
  <1>1. Somewhere' /\ Apart' /\ Single'
    BY DEF Parts, places, Somewhere, Apart, Single
  <1>2. InHand'
    BY DEF Parts, places, InHand, TaskInHand
  <1> QED
    BY <1>1, <1>2 DEF Parts

(* The moves of coap_process while the pool has not been raced for.        *)
LEMMA CoapMoves ==
  ASSUME TypeOK, GlueTypeOK, Parts, CoapStep, ~raced'
  PROVE  Parts'
  <1>g. UNCHANGED gvars
    BY DEF CoapStep
  <1>t. /\ pc \in [Workers -> Steps] /\ msg \in [Workers -> Msgs \cup {NoMsg}]
        /\ free \subseteq Msgs /\ queued \subseteq Msgs
        /\ message \in Msgs \cup {NoMsg}
        /\ \A i \in 1..Len(packets) : packets[i] \in Msgs
    BY DEF TypeOK, GlueTypeOK
  <1> USE <1>g DEF gvars, world, client, sender, pool, PoolUpdate
  <1>1. CASE RoleChange \/ coapClientStartCallback
    BY <1>1, NothingMoves DEF RoleChange, coapClientStartCallback, places
  <1>2. ASSUME NEW w \in Workers,
               Sense(w) \/ EnterApi(w) \/ AppendParts(w) \/ otCliOutputFormat(w)
        PROVE  Parts'
    <2>1. UNCHANGED places /\ tcpip' = tcpip
      BY <1>2 DEF Sense, EnterApi, AppendParts, otCliOutputFormat, LeaveApi, places
    <2>2. \A v \in Workers :
            \/ pc'[v] = pc[v]
            \/ {pc[v], pc'[v]} \subseteq {"append", "send", "free"}
            \/ {pc[v], pc'[v]} \cap {"append", "send", "free"} = {}
      BY <1>2, <1>t DEF Sense, EnterApi, AppendParts, otCliOutputFormat, LeaveApi
    <2> QED
      BY <2>1, <2>2, NothingMoves
  <1>3. ASSUME NEW w \in Workers, otCoapNewMessage(w, Locked) PROVE Parts'
    <2> USE <1>3, <1>t, MsgsAssumption DEF otCoapNewMessage, LeaveApi, Parts
    <2>0. PICK m \in free : msg' = [msg EXCEPT ![w] = m] /\ free' = free \ {m}
      OBVIOUS
    <2>1. msg[w] = NoMsg
      BY DEF InHand, TaskInHand
    <2>2. Somewhere'
      BY <2>0, <2>1 DEF Somewhere
    <2>3. Apart'
      BY <2>0, <2>1 DEF Apart
    <2>4. Single'
      BY <2>0, <2>1 DEF Single, Apart
    <2>5. InHand'
      BY <2>0, <2>1 DEF InHand, TaskInHand
    <2> QED
      BY <2>2, <2>3, <2>4, <2>5
  <1>4. ASSUME NEW w \in Workers, otCoapSendRequest(w, Locked) PROVE Parts'
    <2>1. CASE LeaveApi(w, "send", "free") /\ UNCHANGED <<pool, msg>>
      <3>1. UNCHANGED places /\ tcpip' = tcpip
        BY <1>4, <2>1 DEF otCoapSendRequest, places
      <3>2. \A v \in Workers : \/ pc'[v] = pc[v]
                               \/ {pc[v], pc'[v]} \subseteq {"append", "send", "free"}
        BY <2>1, <1>t DEF LeaveApi
      <3> QED
        BY <3>1, <3>2, NothingMoves
    <2>2. CASE /\ LeaveApi(w, "send", "output")
               /\ queued' = queued \cup {msg[w]} /\ msg' = [msg EXCEPT ![w] = NoMsg]
               /\ free' = free
      <3> USE <1>4, <2>2, <1>t, MsgsAssumption DEF otCoapSendRequest, LeaveApi, Parts
      <3>1. msg[w] \in Msgs
        BY DEF InHand, TaskInHand
      <3>2. Somewhere'
        BY <3>1 DEF Somewhere
      <3>3. Apart'
        BY <3>1 DEF Apart, Single
      <3>4. Single' /\ InHand'
        BY DEF Single, InHand, TaskInHand
      <3> QED
        BY <3>2, <3>3, <3>4
    <2> QED
      BY <1>4, <2>1, <2>2 DEF otCoapSendRequest
  <1>5. ASSUME NEW w \in Workers, otMessageFree(w, Locked) PROVE Parts'
    <2> USE <1>5, <1>t, MsgsAssumption DEF otMessageFree, LeaveApi, Parts
    <2>1. msg[w] \in Msgs
      BY DEF InHand, TaskInHand
    <2>2. Somewhere'
      BY <2>1 DEF Somewhere
    <2>3. Apart'
      BY <2>1 DEF Apart, Single
    <2>4. Single' /\ InHand'
      BY DEF Single, InHand, TaskInHand
    <2> QED
      BY <2>2, <2>3, <2>4
  <1> QED
    BY <1>1, <1>2, <1>3, <1>4, <1>5 DEF CoapStep

(* The restart puts everything back in the pool.                           *)
LEMMA FaultMoves ==
  ASSUME Fault PROVE Parts'
  <1>1. /\ free' = Msgs /\ queued' = {} /\ packets' = <<>> /\ message' = NoMsg
        /\ tcpip' = "idle"
        /\ \A w \in Workers : msg'[w] = NoMsg /\ pc'[w] = "sense"
    BY DEF Fault, NullMessage, GlueReset
  <1> QED
    BY <1>1, MsgsAssumption DEF Parts, Somewhere, Apart, Single, InHand, TaskInHand

(* The moves of the main loop and of lwIP's task, likewise.                *)
LEMMA GlueMoves ==
  ASSUME TypeOK, GlueTypeOK, Parts, Glue, ~raced'
  PROVE  Parts'
  <1>t. /\ pc \in [Workers -> Steps] /\ msg \in [Workers -> Msgs \cup {NoMsg}]
        /\ free \subseteq Msgs /\ queued \subseteq Msgs
        /\ message \in Msgs \cup {NoMsg}
        /\ packets \in Seq(Msgs) /\ Len(packets) \in Nat
        /\ \A i \in 1..Len(packets) : packets[i] \in Msgs
    BY DEF TypeOK, GlueTypeOK
  <1> USE DEF gvars, lwip, stack, tasks, pool, world, client, sender, vars, PoolUpdate
  <1>1. CASE \/ Select \/ Enter \/ NothingSet \/ ReadEvent \/ QueueEmpty \/ CheckLeft \/ Leave
             \/ TcpipAcquire \/ TcpipRelease \/ otMessageAppend \/ notify_packets_pending
    <2>1. UNCHANGED places /\ UNCHANGED pc
      BY <1>1 DEF Select, Enter, NothingSet, ReadEvent, QueueEmpty, CheckLeft, Leave,
                  MainEnter, MainLeave, TcpipAcquire, TcpipRelease, otMessageAppend,
                  notify_packets_pending, places
    <2>2. \/ tcpip' = tcpip
          \/ {tcpip, tcpip'} \subseteq {"append", "queue", "free"}
          \/ {tcpip, tcpip'} \cap {"append", "queue", "free"} = {}
      BY <1>1 DEF Select, Enter, NothingSet, ReadEvent, QueueEmpty, CheckLeft, Leave,
                  TcpipAcquire, TcpipRelease, otMessageAppend, notify_packets_pending,
                  TcpipStep
    <2> QED
      BY <2>1, <2>2, NothingMoves
  <1>2. CASE Arrive
    <2>0. PICK m \in free : queued' = queued \cup {m} /\ free' = free \ {m}
      BY <1>2 DEF Arrive
    <2> USE <1>2, <1>t, <2>0, MsgsAssumption DEF Arrive, Parts
    <2>1. Somewhere'
      BY DEF Somewhere
    <2>2. Apart'
      BY DEF Apart
    <2>3. Single' /\ InHand'
      BY DEF Single, InHand, TaskInHand
    <2> QED
      BY <2>1, <2>2, <2>3
  <1>3. CASE process_thread_receive
    <2>0. PICK m \in queued : queued' = queued \ {m} /\ free' = free \cup {m}
      BY <1>3 DEF process_thread_receive, Transmit
    <2> USE <1>3, <1>t, <2>0, MsgsAssumption DEF process_thread_receive, Transmit, Parts
    <2>1. Somewhere'
      BY DEF Somewhere
    <2>2. Apart'
      BY DEF Apart
    <2>3. Single' /\ InHand'
      BY DEF Single, InHand, TaskInHand
    <2> QED
      BY <2>1, <2>2, <2>3
  <1>4. CASE otIp6Send
    <2>0. /\ Len(packets) > 0 /\ Head(packets) = packets[1] /\ Head(packets) \in Msgs
          /\ Len(packets') = Len(packets) - 1
          /\ \A i \in 1..Len(packets') : packets'[i] = packets[i + 1]
      BY <1>4, <1>t DEF otIp6Send
    <2>1. \A i \in 1..Len(packets') : i + 1 \in 1..Len(packets) /\ i + 1 # 1
      BY <2>0, <1>t
    <2>2. \A j \in 1..Len(packets) : j # 1 => /\ j - 1 \in 1..Len(packets')
                                              /\ packets'[j - 1] = packets[j]
      BY <2>0, <1>t
    <2>3. /\ UNCHANGED <<msg, pc, message, tcpip>>
          /\ \/ queued' = queued \cup {packets[1]} /\ free' = free
             \/ free' = free \cup {packets[1]} /\ queued' = queued
      BY <1>4, <2>0 DEF otIp6Send
    <2> USE DEF Parts
    <2>4. Somewhere'
      <3> SUFFICES ASSUME NEW m \in Msgs
                   PROVE  \/ m \in free' \/ m \in queued' \/ m = message'
                          \/ \E w \in Workers : msg'[w] = m
                          \/ \E i \in 1..Len(packets') : packets'[i] = m
        BY DEF Somewhere
      <3>1. CASE \E j \in 1..Len(packets) : packets[j] = m
        BY <3>1, <2>2, <2>3
      <3> QED
        BY <3>1, <2>3 DEF Somewhere
    <2>5. Apart'
      <3>1. 1 \in 1..Len(packets)
        BY <2>0, <1>t
      <3>2. \A i \in 1..Len(packets') : packets'[i] # packets[1]
        BY <2>0, <2>1, <3>1 DEF Single
      <3> QED
        BY <2>0, <2>1, <2>3, <3>1, <3>2 DEF Apart
    <2>6. Single'
      <3>1. \A i, j \in 1..Len(packets') : packets'[i] = packets'[j] => i = j
        BY <2>0, <2>1, <1>t DEF Single
      <3> QED
        BY <3>1, <2>3 DEF Single
    <2>7. InHand'
      BY <2>3 DEF InHand, TaskInHand
    <2> QED
      BY <2>4, <2>5, <2>6, <2>7
  <1>5. CASE otIp6NewMessage
    <2>1. CASE TcpipStep("new", "release") /\ UNCHANGED <<message, pool>>
      BY <1>5, <2>1, NothingMoves DEF otIp6NewMessage, TcpipStep, places
    <2>2. CASE /\ TcpipStep("new", "append")
               /\ \E m \in free : message' = m /\ free' = free \ {m} /\ queued' = queued
      <3> USE <1>5, <2>2, <1>t, MsgsAssumption DEF otIp6NewMessage, TcpipStep, Parts
      <3>1. message = NoMsg
        BY DEF InHand, TaskInHand
      <3>2. Somewhere'
        BY <3>1 DEF Somewhere
      <3>3. Apart'
        BY <3>1 DEF Apart
      <3>4. Single' /\ InHand'
        BY DEF Single, InHand, TaskInHand
      <3> QED
        BY <3>2, <3>3, <3>4
    <2> QED
      BY <1>5, <2>1, <2>2 DEF otIp6NewMessage
  <1>6. CASE FreeMessage
    <2> USE <1>6, <1>t, MsgsAssumption DEF FreeMessage, TcpipStep, Parts
    <2>1. message \in Msgs
      BY DEF InHand, TaskInHand
    <2>2. Somewhere'
      BY <2>1 DEF Somewhere
    <2>3. Apart'
      BY <2>1 DEF Apart
    <2>4. Single' /\ InHand'
      BY DEF Single, InHand, TaskInHand
    <2> QED
      BY <2>2, <2>3, <2>4
  <1>7. CASE QueuePacket
    <2>1. CASE TcpipStep("queue", "free") /\ UNCHANGED <<packets, message>>
      BY <1>7, <2>1, NothingMoves DEF QueuePacket, TcpipStep, places
    <2>2. CASE /\ TcpipStep("queue", "notify")
               /\ packets' = Append(packets, message) /\ message' = NoMsg
      <3>1. /\ message \in Msgs /\ message' = NoMsg /\ UNCHANGED <<free, queued, msg, pc>>
            /\ tcpip' = "notify"
        BY <1>7, <2>2, <1>t DEF QueuePacket, TcpipStep, Parts, InHand, TaskInHand
      <3>2. /\ Len(packets') = Len(packets) + 1 /\ packets'[Len(packets')] = message
            /\ \A i \in 1..Len(packets) : i \in 1..Len(packets') /\ packets'[i] = packets[i]
            /\ \A i \in 1..Len(packets') : i \in 1..Len(packets) \/ i = Len(packets')
            /\ Len(packets') \in 1..Len(packets')
        BY <2>2, <1>t, <3>1
      <3> USE MsgsAssumption DEF Parts
      <3>3. Somewhere'
        BY <3>1, <3>2 DEF Somewhere
      <3>4. Apart'
        BY <3>1, <3>2, <1>t DEF Apart
      <3>5. Single'
        <4>1. ASSUME NEW i \in 1..Len(packets'), NEW j \in 1..Len(packets'),
                     packets'[i] = packets'[j]
              PROVE  i = j
          BY <4>1, <3>2 DEF Single, Apart
        <4> QED
          BY <4>1, <3>1 DEF Single
      <3>6. InHand'
        BY <3>1 DEF InHand, TaskInHand
      <3> QED
        BY <3>3, <3>4, <3>5, <3>6
    <2> QED
      BY <1>7, <2>1, <2>2 DEF QueuePacket
  <1> QED
    BY <1>1, <1>2, <1>3, <1>4, <1>5, <1>6, <1>7 DEF Glue, Inside, Tcpip

----------------------------------------------------------------------------
(* The invariant and what follows from it *)

LEMMA NextParts ==
  ASSUME TypeOK, GlueTypeOK, Parts, [GlueNext]_<<vars, gvars>>, ~raced'
  PROVE  Parts'
  <1>1. CASE UNCHANGED <<vars, gvars>>
    BY <1>1, NothingMoves DEF vars, gvars, places
  <1>2. CASE Glue
    BY <1>2, GlueMoves
  <1>3. CASE CoapStep
    BY <1>3, CoapMoves
  <1>4. CASE Fault
    BY <1>4, FaultMoves
  <1> QED
    BY <1>1, <1>2, <1>3, <1>4 DEF GlueNext, Glue

(* What the tasks and lwIP hold fits where they are, also in a race.       *)
LEMMA NextInHand ==
  ASSUME TypeOK, GlueTypeOK, InHand, [GlueNext]_<<vars, gvars>>
  PROVE  InHand'
  <1> USE MsgsAssumption DEF InHand, TaskInHand, world, gvars, lwip, stack, tasks, sender
  <1>1. CASE UNCHANGED <<msg, pc, tcpip, message>>
    BY <1>1
  <1>2. CASE CoapStep
    <2>t. /\ pc \in [Workers -> Steps] /\ msg \in [Workers -> Msgs \cup {NoMsg}]
          /\ free \subseteq Msgs
      BY DEF TypeOK
    <2>1. UNCHANGED <<tcpip, message>>
      BY <1>2 DEF CoapStep
    <2>2. CASE RoleChange \/ coapClientStartCallback
      BY <2>1, <2>2 DEF RoleChange, coapClientStartCallback
    <2>3. ASSUME NEW w \in Workers,
                 \/ Sense(w) \/ EnterApi(w) \/ otCoapNewMessage(w, Locked)
                 \/ AppendParts(w) \/ otCoapSendRequest(w, Locked)
                 \/ otMessageFree(w, Locked) \/ otCliOutputFormat(w)
          PROVE  InHand'
      BY <2>t, <2>1, <2>3 DEF Sense, EnterApi, otCoapNewMessage, AppendParts,
           otCoapSendRequest, otMessageFree, otCliOutputFormat, LeaveApi
    <2> QED
      BY <1>2, <2>2, <2>3 DEF CoapStep
  <1>3. CASE Fault
    BY <1>3 DEF Fault, NullMessage, GlueReset
  <1>4. CASE TcpipAcquire \/ Tcpip
    <2>1. UNCHANGED <<msg, pc>> /\ free \subseteq Msgs
      BY <1>4 DEF TcpipAcquire, Tcpip, otIp6NewMessage, otMessageAppend, QueuePacket,
                  notify_packets_pending, FreeMessage, TcpipRelease, vars, TypeOK
    <2> QED
      BY <1>4, <2>1 DEF TcpipAcquire, Tcpip, otIp6NewMessage, otMessageAppend, QueuePacket,
                  notify_packets_pending, FreeMessage, TcpipRelease, TcpipStep
  <1>5. CASE Select \/ Enter \/ Inside \/ Arrive \/ process_thread_receive
    BY <1>1, <1>5 DEF Select, Enter, Inside, NothingSet, ReadEvent, otIp6Send, QueueEmpty,
                 CheckLeft, Leave, MainEnter, MainLeave, Arrive, process_thread_receive,
                 Transmit, vars
  <1>6. CASE UNCHANGED <<vars, gvars>>
    BY <1>1, <1>6 DEF vars
  <1> QED
    BY <1>2, <1>3, <1>4, <1>5, <1>6 DEF GlueNext

(* Only a restart forgets that the pool was raced for.                     *)
LEMMA RacedStays == [GlueNext]_<<vars, gvars>> /\ raced /\ ~raced' => Fault
  <1> SUFFICES ASSUME [GlueNext]_<<vars, gvars>>, raced, ~raced' PROVE Fault
    OBVIOUS
  <1> USE DEF vars, sender, pool, PoolUpdate
  <1>1. ~(Select \/ Enter \/ Inside \/ Arrive \/ process_thread_receive)
    BY DEF Select, Enter, Inside, NothingSet, ReadEvent, otIp6Send, QueueEmpty,
           CheckLeft, Leave, MainEnter, MainLeave, Arrive, process_thread_receive, Transmit
  <1>2. ~(TcpipAcquire \/ Tcpip)
    BY DEF TcpipAcquire, Tcpip, otIp6NewMessage, otMessageAppend, QueuePacket,
           notify_packets_pending, FreeMessage, TcpipRelease
  <1>3. ~CoapStep
    BY DEF CoapStep, RoleChange, coapClientStartCallback, Sense, EnterApi,
           otCoapNewMessage, AppendParts, otCoapSendRequest, otMessageFree, otCliOutputFormat
  <1> QED
    BY <1>1, <1>2, <1>3 DEF GlueNext

LEMMA NextPacketsSignalled ==
  PacketsSignalled /\ [GlueNext]_<<vars, gvars>> => PacketsSignalled'
  <1> SUFFICES ASSUME PacketsSignalled, [GlueNext]_<<vars, gvars>> PROVE PacketsSignalled'
    OBVIOUS
  <1> USE DEF PacketsSignalled
  <1>1. CASE UNCHANGED gvars
    BY <1>1 DEF gvars
  <1>2. CASE Select \/ Enter \/ Inside
    BY <1>2 DEF Select, Enter, Inside, NothingSet, ReadEvent, otIp6Send, QueueEmpty,
                CheckLeft, Leave, lwip
  <1>3. CASE TcpipAcquire \/ Tcpip
    BY <1>3 DEF TcpipAcquire, Tcpip, otIp6NewMessage, otMessageAppend, QueuePacket,
                notify_packets_pending, FreeMessage, TcpipRelease, TcpipStep, stack
  <1>4. CASE Fault
    BY <1>4 DEF Fault, GlueReset
  <1> QED
    BY <1>1, <1>2, <1>3, <1>4 DEF GlueNext, Arrive, process_thread_receive, CoapStep, gvars

LEMMA NextJoinedHasWorker ==
  JoinedHasWorker /\ [GlueNext]_<<vars, gvars>> => JoinedHasWorker'
  <1> SUFFICES ASSUME JoinedHasWorker, [GlueNext]_<<vars, gvars>> PROVE JoinedHasWorker'
    OBVIOUS
  <1> USE DEF JoinedHasWorker, Joined
  <1>1. CASE UNCHANGED client
    BY <1>1 DEF client
  <1>2. CASE coapClientStartCallback
    <2>1. s_previous_role' = role
      BY <1>2 DEF coapClientStartCallback
    <2>2. CASE role \in Joined /\ s_previous_role # role
      BY <1>2, <2>2 DEF coapClientStartCallback
    <2>3. CASE ~(role \in Joined /\ s_previous_role # role)
      <3>1. UNCHANGED <<workers, starved>>
        BY <1>2, <2>3 DEF coapClientStartCallback
      <3> QED
        BY <2>1, <2>3, <3>1
    <2> QED
      BY <2>2, <2>3
  <1>3. CASE Fault
    BY <1>3 DEF Fault, NullMessage
  <1>4. UNCHANGED client \/ coapClientStartCallback \/ Fault
    <2> USE DEF world, vars, client
    <2>1. CASE Select \/ Enter \/ Inside \/ Arrive \/ process_thread_receive
      BY <2>1 DEF Select, Enter, Inside, NothingSet, ReadEvent, otIp6Send, QueueEmpty,
                  CheckLeft, Leave, MainEnter, MainLeave, Arrive, process_thread_receive,
                  Transmit
    <2>2. CASE TcpipAcquire \/ Tcpip
      BY <2>2 DEF TcpipAcquire, Tcpip, otIp6NewMessage, otMessageAppend, QueuePacket,
                  notify_packets_pending, FreeMessage, TcpipRelease, tasks
    <2>3. CASE CoapStep
      BY <2>3 DEF CoapStep, RoleChange, Sense, EnterApi, otCoapNewMessage, AppendParts,
                  otCoapSendRequest, otMessageFree, otCliOutputFormat
    <2> QED
      BY <2>1, <2>2, <2>3 DEF GlueNext
  <1> QED
    BY <1>1, <1>2, <1>3, <1>4

LEMMA PartsSuffice ==
  TypeOK /\ GlueTypeOK /\ InHand /\ (~raced => Parts) => MessagesAccounted
  BY BufferByBuffer DEF Parts, MessagesAccounted, PoolInOrder

LEMMA NextGlueIInv == GlueIInv /\ [GlueNext]_<<vars, gvars>> => GlueIInv'
  <1> SUFFICES ASSUME GlueIInv, [GlueNext]_<<vars, gvars>> PROVE GlueIInv'
    OBVIOUS
  <1>1. InHand /\ (~raced => Parts)
    BY BufferByBuffer DEF GlueIInv, MessagesAccounted, PoolInOrder, Parts
  <1>2. TypeOK' /\ GlueTypeOK' /\ InHand'
    BY <1>1, NextTypes, NextInHand DEF GlueIInv
  <1>3. ~raced' => Parts'
    BY <1>1, NextParts, RacedStays, FaultMoves DEF GlueIInv
  <1>5. MessagesAccounted'
    BY <1>2, <1>3, PartsSuffice, PTL
  <1> QED
    BY <1>2, <1>5, NextPacketsSignalled, NextJoinedHasWorker DEF GlueIInv

(* The shared pool keeps its inductive invariant.                          *)
THEOREM GlueSafety == GlueSpec => []GlueIInv
  <1> QED
    BY InitGlueIInv, NextGlueIInv, PTL DEF GlueSpec

(* coap_client.c, esp_openthread_netif_glue.c: over all exits of the       *)
(* functions that use the pool nobody keeps a message it gave away, and    *)
(* until a call of coap_process meets another party in OpenThread no       *)
(* buffer is lost, freed twice or used after it was handed over, for any   *)
(* number of senders and buffers.                                          *)
THEOREM NoBufferLost == GlueSpec => []MessagesAccounted
  <1>1. GlueIInv => MessagesAccounted
    BY DEF GlueIInv
  <1> QED
    BY <1>1, GlueSafety, PTL

(* esp_openthread_netif_glue.c: the main loop never sleeps on packets that *)
(* nobody has signalled or is about to signal.                             *)
THEOREM NoLostPacketWakeup == GlueSpec => []NoSleepOnPackets
  <1>1. GlueIInv => NoSleepOnPackets
    BY DEF GlueIInv, PacketsSignalled, NoSleepOnPackets
  <1> QED
    BY <1>1, GlueSafety, PTL

(* coap_client.c: when the callback has seen the device joined there is a  *)
(* sender, unless creating one has failed.                                 *)
THEOREM JoinedSends == GlueSpec => []JoinedHasWorker
  <1>1. GlueIInv => JoinedHasWorker
    BY DEF GlueIInv
  <1> QED
    BY <1>1, GlueSafety, PTL

(* coap_client.c: a task of coap_process holds a buffer of the pool or     *)
(* none, and only tasks that exist are inside OpenThread.                  *)
THEOREM TypeCorrect == GlueSpec => []TypeOK
  <1>1. GlueIInv => TypeOK
    BY DEF GlueIInv
  <1> QED
    BY <1>1, GlueSafety, PTL

(* esp_openthread_netif_glue.c: the packet queue never outgrows its size   *)
(* and no NULL gets into it.                                               *)
THEOREM GlueTypeCorrect == GlueSpec => []GlueTypeOK
  <1>1. GlueIInv => GlueTypeOK
    BY DEF GlueIInv
  <1> QED
    BY <1>1, GlueSafety, PTL
=============================================================================
