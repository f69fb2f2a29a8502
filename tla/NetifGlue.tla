----------------------------- MODULE NetifGlue -----------------------------
(***************************************************************************)
(* The glue between lwIP and OpenThread,                                   *)
(* components/openthread/src/esp_openthread_netif_glue.c, beside the CoAP  *)
(* client: lwIP's task copies a packet into an OpenThread message under    *)
(* the task switching lock, queues it and signals an eventfd; the main     *)
(* loop hands the queued packets to OpenThread.  Both draw on the pool of  *)
(* message buffers that coap_process uses without the lock, so their calls *)
(* can meet one of its calls, and race with it.                            *)
(*                                                                         *)
(* The glue is up: neither the queue nor the eventfd goes away, so a write *)
(* to the eventfd does not fail (starting and stopping are in EndDevice).  *)
(***************************************************************************)
EXTENDS CoapClient, Sequences

CONSTANTS NETIF_QUEUE   \* netif_queue_size

ASSUME NetifQueueAssumption == NETIF_QUEUE \in Nat \ {0}

VARIABLES packets,      \* s_packet_queue
          netif_event,  \* the glue's eventfd is readable
          isset,        \* FD_ISSET of that eventfd after select
          glue,         \* where the main loop is
          tcpip,        \* where lwIP's task is in openthread_netif_transmit
          message       \* its message

gvars == <<packets, netif_event, isset, glue, tcpip, message>>

GlueSteps == {"select", "woken", "process", "send", "check", "done"}

TcpipSteps == {"idle", "new", "append", "queue", "notify", "free", "release"}

GlueInit == /\ Init
            /\ packets = <<>> /\ netif_event = FALSE /\ isset = FALSE
            /\ glue = "select" /\ tcpip = "idle" /\ message = NoMsg

GlueReset == /\ packets' = <<>> /\ netif_event' = FALSE /\ isset' = FALSE
             /\ glue' = "select" /\ tcpip' = "idle" /\ message' = NoMsg

lwip == <<tcpip, message>>

----------------------------------------------------------------------------
(* The main loop *)

(* select returns, for this eventfd or for something else.                 *)
Select == /\ glue = "select"
          /\ glue' = "woken"
          /\ isset' = netif_event
          /\ UNCHANGED <<packets, netif_event, lwip, vars>>

(* esp_openthread_lock_acquire ends with the task switching lock.          *)
Enter == /\ glue = "woken" /\ tcpip = "idle"
         /\ MainEnter
         /\ glue' = "process"
         /\ UNCHANGED <<packets, netif_event, isset, lwip>>

(* esp_openthread_netif_glue_process; what else the main loop does while   *)
(* it has the lock happens before or after it.                             *)
NothingSet == /\ glue = "process" /\ ~isset
              /\ glue' = "done"
              /\ UNCHANGED <<packets, netif_event, isset, lwip, vars>>

ReadEvent == /\ glue = "process" /\ isset
             /\ glue' = "send"
             /\ isset' = FALSE /\ netif_event' = FALSE
             /\ UNCHANGED <<packets, lwip, vars>>

(* Slip: a packet that OpenThread refuses stays in the queue.              *)
KeepRefused == /\ glue = "send" /\ packets # <<>>
               /\ \/ /\ packets' = Tail(packets) /\ glue' = glue
                     /\ PoolUpdate(in_api # {}, free, queued \cup {Head(packets)})
                  \/ UNCHANGED <<packets, pool>> /\ glue' = "check"
               /\ UNCHANGED <<netif_event, isset, lwip, world, in_api, pc, msg>>

(* otIp6Send takes the message in any case: to send it, and the loop goes  *)
(* on, or to free it, refused or filtered, and the loop is left.           *)
otIp6Send == /\ glue = "send" /\ packets # <<>>
             /\ packets' = Tail(packets)
             /\ \/ /\ glue' = glue
                   /\ PoolUpdate(in_api # {}, free, queued \cup {Head(packets)})
                \/ /\ glue' = "check"
                   /\ PoolUpdate(in_api # {}, free \cup {Head(packets)}, queued)
             /\ UNCHANGED <<netif_event, isset, lwip, world, in_api, pc, msg>>

QueueEmpty == /\ glue = "send" /\ packets = <<>>
              /\ glue' = "check"
              /\ UNCHANGED <<packets, netif_event, isset, lwip, vars>>

(* Slip: what is left is not signalled again.                              *)
CheckForgotten == /\ glue = "check"
                  /\ glue' = "done"
                  /\ UNCHANGED <<packets, netif_event, isset, lwip, vars>>

(* What is left is signalled again.                                        *)
CheckLeft == /\ glue = "check"
             /\ netif_event' = (netif_event \/ packets # <<>>)
             /\ glue' = "done"
             /\ UNCHANGED <<packets, isset, lwip, vars>>

Leave == /\ glue = "done"
         /\ MainLeave
         /\ glue' = "select"
         /\ UNCHANGED <<packets, netif_event, isset, lwip>>

(* A datagram for this device: OpenThread has a message for it, which      *)
(* process_thread_receive copies to lwIP and frees, whether or not lwIP    *)
(* takes it.                                                               *)
Arrive == /\ in_main
          /\ \E m \in free : PoolUpdate(in_api # {}, free \ {m}, queued \cup {m})
          /\ UNCHANGED <<gvars, role, notified, client, in_main, in_api, pc, msg>>

process_thread_receive == Transmit /\ UNCHANGED gvars

----------------------------------------------------------------------------
(* openthread_netif_transmit, in lwIP's task *)

TcpipStep(from, to) == tcpip = from /\ tcpip' = to

stack == <<netif_event, isset, glue>>

tasks == <<world, in_api, pc, msg>>

(* esp_openthread_task_switching_lock_acquire                              *)
TcpipAcquire == /\ TcpipStep("idle", "new") /\ ~in_main
                /\ UNCHANGED <<packets, stack, message, vars>>

otIp6NewMessage ==
  /\ \/ /\ TcpipStep("new", "append")
        /\ \E m \in free : message' = m /\ PoolUpdate(in_api # {}, free \ {m}, queued)
     \/ /\ TcpipStep("new", "release") /\ Exhausted
        /\ UNCHANGED <<message, pool>>
  /\ UNCHANGED <<packets, stack, tasks>>

otMessageAppend ==
  /\ TcpipStep("append", "queue") \/ TcpipStep("append", "free")
  /\ UNCHANGED <<packets, stack, message, vars>>

(* Slip: room is not checked for.                                          *)
QueueOverfull ==
  /\ TcpipStep("queue", "notify")
  /\ packets' = Append(packets, message)
  /\ message' = NoMsg
  /\ UNCHANGED <<stack, vars>>

(* xQueueSend without waiting: a full queue is an error.                   *)
QueuePacket ==
  /\ \/ /\ TcpipStep("queue", "notify") /\ Len(packets) < NETIF_QUEUE
        /\ packets' = Append(packets, message)
        /\ message' = NoMsg
     \/ /\ TcpipStep("queue", "free") /\ Len(packets) = NETIF_QUEUE
        /\ UNCHANGED <<packets, message>>
  /\ UNCHANGED <<stack, vars>>

notify_packets_pending ==
  /\ TcpipStep("notify", "release")
  /\ netif_event' = TRUE
  /\ UNCHANGED <<packets, isset, glue, message, vars>>

(* Slip: the error exit does not free the message.                         *)
FreeNothing ==
  /\ TcpipStep("free", "release")
  /\ message' = NoMsg
  /\ UNCHANGED <<packets, stack, vars>>

(* The error exit: otMessageFree.                                          *)
FreeMessage ==
  /\ TcpipStep("free", "release")
  /\ PoolUpdate(in_api # {}, free \cup {message}, queued)
  /\ message' = NoMsg
  /\ UNCHANGED <<packets, stack, tasks>>

(* esp_openthread_task_switching_lock_release                              *)
TcpipRelease == /\ TcpipStep("release", "idle")
                /\ UNCHANGED <<packets, stack, message, vars>>

Tcpip == \/ otIp6NewMessage \/ otMessageAppend \/ QueuePacket
         \/ notify_packets_pending \/ FreeMessage \/ TcpipRelease

----------------------------------------------------------------------------

(* The main loop or lwIP's task has the task switching lock.               *)
Locked == in_main \/ tcpip # "idle"

(* The CoAP client's own steps.                                            *)
CoapStep == /\ \/ RoleChange \/ coapClientStartCallback
               \/ \E w \in Workers :
                    \/ Sense(w) \/ EnterApi(w) \/ otCoapNewMessage(w, Locked)
                    \/ AppendParts(w) \/ otCoapSendRequest(w, Locked)
                    \/ otMessageFree(w, Locked) \/ otCliOutputFormat(w)
            /\ UNCHANGED gvars

(* otCoapNewMessage had no buffer for coap_process: the chip restarts.     *)
Fault == \E w \in Workers : NullMessage(w) /\ GlueReset

Inside == \/ NothingSet \/ ReadEvent \/ otIp6Send \/ QueueEmpty \/ CheckLeft \/ Leave

GlueNext == \/ Select \/ Enter \/ Inside \/ Arrive \/ process_thread_receive
            \/ TcpipAcquire \/ Tcpip \/ CoapStep \/ Fault

GlueSpec == GlueInit /\ [][GlueNext]_<<vars, gvars>>

(* Fairness.  The main loop runs when it is ready, select returns for its  *)
(* eventfd, and lwIP's task gives the lock back and does not take it so    *)
(* often that the main loop never gets it.                                 *)
GlueFairness ==
  /\ WF_<<vars, gvars>>(Inside) /\ WF_<<vars, gvars>>(Tcpip)
  /\ WF_<<vars, gvars>>(Select /\ netif_event)
  /\ SF_<<vars, gvars>>(Enter)

GlueFairSpec == GlueSpec /\ GlueFairness

----------------------------------------------------------------------------
(* PROPERTIES *)

(* Every variable keeps its type; the packet queue never outgrows the size *)
(* it was created with, and no NULL gets into it.                          *)
GlueTypeOK == /\ packets \in Seq(Msgs) /\ Len(packets) <= NETIF_QUEUE
              /\ netif_event \in BOOLEAN /\ isset \in BOOLEAN
              /\ glue \in GlueSteps /\ tcpip \in TcpipSteps
              /\ message \in Msgs \cup {NoMsg}

Queued == {packets[i] : i \in 1..Len(packets)}

(* The tasks' and lwIP's hands are empty except between getting a message  *)
(* and giving it away.                                                     *)
InHand == /\ TaskInHand
          /\ (message # NoMsg) <=> (tcpip \in {"append", "queue", "free"})

(* coap_client.c:58-99 and esp_openthread_netif_glue.c:151-204: over all   *)
(* exits of coap_send_data, openthread_netif_transmit and                  *)
(* process_thread_transmit nobody keeps a message it gave away, and, as    *)
(* long as no call of coap_process has met another party in OpenThread, a  *)
(* buffer of the shared pool is in one place: in the pool, with            *)
(* OpenThread, with one task, or once in the packet queue; none is lost on *)
(* an error exit, freed twice, or used after it was handed over.  Once two *)
(* have met (OneInOpenThread of CoapClient is violated) nothing is said of *)
(* the pool.                                                               *)
MessagesAccounted ==
  /\ InHand
  /\ ~raced => /\ PoolAccounted(Queued \cup ({message} \ {NoMsg}))
               /\ message \notin Queued
               /\ \A i, j \in 1..Len(packets) : packets[i] = packets[j] => i = j

(* esp_openthread_netif_glue.c:149-171: the main loop never sleeps on      *)
(* packets: when it is at select with packets queued, the eventfd is       *)
(* readable or lwIP's task is about to make it so, also after a packet     *)
(* that OpenThread refused ended the last pass early.                      *)
NoSleepOnPackets ==
  glue = "select" /\ packets # <<>> => netif_event \/ tcpip = "notify"

(* esp_openthread_netif_glue.c:143-174: every packet that was accepted     *)
(* gets its turn at OpenThread, however many before it are refused.  The   *)
(* buffers are interchangeable, so one of them is watched, as long as the  *)
(* pool has not been raced for and may hand out a buffer that is queued.   *)
PacketsLeave ==
  LET m == CHOOSE m \in Msgs : TRUE IN (m \in Queued) ~> (m \notin Queued \/ raced)

(* The inductive invariant.  The eventfd is cleared only on the way to the *)
(* loop over the queue, and the end of that loop signals what is left, so  *)
(* packets are signalled everywhere else.                                  *)

PacketsSignalled ==
  glue \notin {"send", "check"} /\ packets # <<>> => netif_event \/ tcpip = "notify"

GlueIInv == /\ TypeOK /\ GlueTypeOK /\ MessagesAccounted /\ PacketsSignalled
            /\ JoinedHasWorker
=============================================================================
