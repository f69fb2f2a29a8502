----------------------------- MODULE CoapClient -----------------------------
(***************************************************************************)
(* The CoAP client of the end device,                                      *)
(* my_projects/thread_end_device/main/src/coap_client.c: a state-changed   *)
(* callback that OpenThread runs on its main loop starts a coap_process    *)
(* task whenever the device becomes a child or a router; each task builds  *)
(* and sends one message every ten seconds, for ever.                      *)
(*                                                                         *)
(* OpenThread is external and modelled from these calls: message buffers   *)
(* are taken from a pool, a message handed to otCoapSendRequest belongs to *)
(* OpenThread, which gives it back to the pool when it has been sent.  An  *)
(* API call has a beginning and an end, and a task can be preempted in     *)
(* between; the main loop holds the OpenThread lock whenever it is inside. *)
(* coap_process takes no lock and OpenThread has none of its own: once a   *)
(* call has touched the pool while another party was inside, the pool may  *)
(* hand out any buffer, or none.                                           *)
(***************************************************************************)
EXTENDS Integers, FiniteSets

CONSTANTS Roles,      \* the roles of otDeviceRole that occur
          Workers,    \* bound: the coap_process tasks that can be created
          Msgs,       \* the message buffers of the pool
          NoMsg       \* a NULL otMessage pointer

ASSUME RolesAssumption ==
  /\ {"disabled", "child", "router"} \subseteq Roles
  /\ Roles \subseteq {"disabled", "detached", "child", "router", "leader"}

ASSUME WorkersAssumption == IsFiniteSet(Workers)

ASSUME MsgsAssumption == NoMsg \notin Msgs

VARIABLES role,             \* the device role OpenThread is in
          notified,         \* TRUE: a role change the callback has not seen
          s_previous_role,  \* static of the callback
          coap_up,          \* otCoapStart has succeeded
          workers,          \* coap_process tasks that exist
          starved,          \* history: an xTaskCreate failed
          in_main,          \* the main loop is inside OpenThread, with the lock
          in_api,           \* tasks inside an OpenThread call
          pc,               \* [Workers -> Steps]
          msg,              \* [Workers -> Msgs \cup {NoMsg}]: myMessage
          free,             \* buffers in the pool
          queued,           \* messages OpenThread owns
          raced             \* history: the pool was used by two parties at once

vars == <<role, notified, s_previous_role, coap_up, workers, starved, in_main,
          in_api, pc, msg, free, queued, raced>>

Joined == {"child", "router"}

Steps == {"sense", "new", "append", "send", "free", "output"}

Init == /\ role = "disabled" /\ notified = FALSE /\ s_previous_role = "disabled"
        /\ coap_up = FALSE /\ workers = {} /\ starved = FALSE
        /\ in_main = FALSE /\ in_api = {}
        /\ pc = [w \in Workers |-> "sense"]
        /\ msg = [w \in Workers |-> NoMsg]
        /\ free = Msgs /\ queued = {} /\ raced = FALSE

pool == <<free, queued, raced>>

sender == <<in_api, pc, msg, pool>>

client == <<s_previous_role, coap_up, workers, starved>>

(* esp_openthread_launch_mainloop: lock, work, unlock.                     *)
MainEnter == /\ ~in_main
             /\ in_main' = TRUE
             /\ UNCHANGED <<role, notified, client, sender>>

MainLeave == /\ in_main
             /\ in_main' = FALSE
             /\ UNCHANGED <<role, notified, client, sender>>

(* OpenThread changes its role; the callback runs later, once for any      *)
(* number of changes.                                                      *)
RoleChange == /\ in_main
              /\ \E r \in Roles \ {role} : role' = r
              /\ notified' = TRUE
              /\ UNCHANGED <<in_main, client, sender>>

(* Slip: only a detached device is taken to join.                          *)
StartsFromDetachedOnly ==
  /\ in_main /\ notified
  /\ notified' = FALSE
  /\ s_previous_role' = role
  /\ \/ /\ s_previous_role = "detached" /\ role \in Joined
        /\ coap_up' \in {coap_up, TRUE}
        /\ \/ /\ \E w \in Workers \ workers : workers' = workers \cup {w}
              /\ starved' = starved
           \/ /\ workers' = workers
              /\ starved' = TRUE
     \/ /\ s_previous_role # "detached" \/ role \notin Joined
        /\ UNCHANGED <<coap_up, workers, starved>>
  /\ UNCHANGED <<role, in_main, sender>>

(* coapClientStartCallback with coap_init, which may fail and only logs    *)
(* it, and xTaskCreate, whose result nobody looks at.                      *)
coapClientStartCallback ==
  /\ in_main /\ notified
  /\ notified' = FALSE
  /\ s_previous_role' = role
  /\ \/ /\ s_previous_role # role /\ role \in Joined
        /\ coap_up' \in {coap_up, TRUE}
        /\ \/ /\ \E w \in Workers \ workers : workers' = workers \cup {w}
              /\ starved' = starved
           \/ /\ workers' = workers
              /\ starved' = TRUE
     \/ /\ s_previous_role = role \/ role \notin Joined
        /\ UNCHANGED <<coap_up, workers, starved>>
  /\ UNCHANGED <<role, in_main, sender>>

(* OpenThread brings its pool and its queues to f and q.  When a second    *)
(* party is inside, links of its lists may be lost or doubled: from then   *)
(* on every buffer may turn up in the pool, and in a queue.                *)
PoolUpdate(second, f, q) ==
  /\ raced' = (raced \/ second)
  /\ free' = IF raced' THEN Msgs ELSE f
  /\ queued' = IF raced' THEN Msgs ELSE q

(* No buffer is found.                                                     *)
Exhausted == free = {} \/ raced

(* Somebody else is inside while w is: another task, or whoever has the    *)
(* lock.                                                                   *)
Second(w, locked) == locked \/ in_api # {w}

(* OpenThread has sent a message and frees it.                             *)
Transmit == /\ in_main
            /\ \E m \in queued : PoolUpdate(in_api # {}, free \cup {m}, queued \ {m})
            /\ UNCHANGED <<role, notified, client, in_main, in_api, pc, msg>>

world == <<role, notified, client, in_main>>

(* coap_process has its readings and calls coap_send_data.                 *)
Sense(w) == /\ w \in workers /\ pc[w] = "sense"
            /\ pc' = [pc EXCEPT ![w] = "new"]
            /\ UNCHANGED <<world, in_api, msg, pool>>

(* A task calls into OpenThread, without the lock.                         *)
EnterApi(w) == /\ w \in workers \ in_api /\ pc[w] # "sense"
               /\ in_api' = in_api \cup {w}
               /\ UNCHANGED <<world, pc, msg, pool>>

LeaveApi(w, from, to) == /\ w \in in_api /\ pc[w] = from
                         /\ in_api' = in_api \ {w}
                         /\ pc' = [pc EXCEPT ![w] = to]

(* otCoapNewMessage, without the lock as every call of a task.             *)
otCoapNewMessage(w, locked) ==
  /\ free # {}
  /\ LeaveApi(w, "new", "append")
  /\ \E m \in free : /\ msg' = [msg EXCEPT ![w] = m]
                      /\ PoolUpdate(Second(w, locked), free \ {m}, queued)
  /\ UNCHANGED world

(* No buffer: the NULL is logged and then handed to otCoapMessageInit; the *)
(* access faults and the chip restarts.                                    *)
NullMessage(w) ==
  /\ Exhausted
  /\ w \in in_api /\ pc[w] = "new"
  /\ role' = "disabled" /\ notified' = FALSE /\ s_previous_role' = "disabled"
  /\ coap_up' = FALSE /\ workers' = {} /\ starved' = FALSE
  /\ in_main' = FALSE /\ in_api' = {}
  /\ pc' = [v \in Workers |-> "sense"]
  /\ msg' = [v \in Workers |-> NoMsg]
  /\ free' = Msgs /\ queued' = {} /\ raced' = FALSE

(* The options, the payload marker and the payload; each may fail, and     *)
(* then the loop is left for the error exit.                               *)
AppendParts(w) ==
  /\ \E to \in {"append", "send", "free"} : LeaveApi(w, "append", to)
  /\ UNCHANGED <<world, msg, pool>>

(* otCoapSendRequest: OpenThread takes the message, or refuses it.         *)
otCoapSendRequest(w, locked) ==
  /\ \/ /\ coap_up
        /\ LeaveApi(w, "send", "output")
        /\ PoolUpdate(Second(w, locked), free, queued \cup {msg[w]})
        /\ msg' = [msg EXCEPT ![w] = NoMsg]
     \/ /\ LeaveApi(w, "send", "free")
        /\ UNCHANGED <<pool, msg>>
  /\ UNCHANGED world

(* Slip: the pointer is cleared before it is freed.                        *)
FreeCleared(w, locked) ==
  /\ LeaveApi(w, "free", "sense")
  /\ msg' = [msg EXCEPT ![w] = NoMsg]
  /\ PoolUpdate(Second(w, locked), free \cup {NoMsg}, queued)
  /\ UNCHANGED world

(* The error exit frees the message; the task sleeps for ten seconds.      *)
otMessageFree(w, locked) ==
  /\ LeaveApi(w, "free", "sense")
  /\ PoolUpdate(Second(w, locked), free \cup {msg[w]}, queued)
  /\ msg' = [msg EXCEPT ![w] = NoMsg]
  /\ UNCHANGED world

(* otCliOutputFormat("CoAP data sent."); the task sleeps for ten seconds.  *)
otCliOutputFormat(w) ==
  /\ LeaveApi(w, "output", "sense")
  /\ UNCHANGED <<world, msg, pool>>

Worker(w) == \/ Sense(w) \/ EnterApi(w) \/ NullMessage(w)
             \/ otCoapNewMessage(w, in_main) \/ AppendParts(w)
             \/ otCoapSendRequest(w, in_main) \/ otMessageFree(w, in_main)
             \/ otCliOutputFormat(w)

Next == \/ MainEnter \/ MainLeave \/ RoleChange \/ coapClientStartCallback \/ Transmit
        \/ \E w \in Workers : Worker(w)

Spec == Init /\ [][Next]_vars

----------------------------------------------------------------------------
(* PROPERTIES *)

(* Every variable keeps its type: a NULL message is never put in the pool  *)
(* nor handed to OpenThread.                                               *)
TypeOK == /\ role \in Roles /\ s_previous_role \in Roles
          /\ notified \in BOOLEAN /\ coap_up \in BOOLEAN /\ starved \in BOOLEAN
          /\ in_main \in BOOLEAN /\ raced \in BOOLEAN
          /\ workers \subseteq Workers /\ in_api \subseteq workers
          /\ pc \in [Workers -> Steps]
          /\ msg \in [Workers -> Msgs \cup {NoMsg}]
          /\ free \subseteq Msgs /\ queued \subseteq Msgs

Held == {msg[w] : w \in Workers} \ {NoMsg}

(* A buffer is in the pool, with OpenThread, with exactly one task, or in  *)
(* the hands of others that share the pool.                                *)
PoolAccounted(others) ==
  /\ free \cup queued \cup Held \cup others = Msgs
  /\ free \cap queued = {} /\ free \cap Held = {} /\ queued \cap Held = {}
  /\ others \cap (free \cup queued \cup Held) = {}
  /\ \A v, w \in Workers : msg[v] = msg[w] /\ msg[v] # NoMsg => v = w

(* A task has a message between getting it and giving it away.             *)
TaskInHand ==
  \A w \in Workers : (msg[w] # NoMsg) <=> (pc[w] \in {"append", "send", "free"})

(* coap_client.c:154-160: once the callback has seen the device joined, a  *)
(* task that sends its readings exists, unless creating one has failed.    *)
JoinedHasWorker == s_previous_role \in Joined => workers # {} \/ starved

(* openthread.rst:95 "The OpenThread APIs are not thread-safe.  When       *)
(* calling OpenThread APIs from other tasks, make sure to hold the lock":  *)
(* no task is inside OpenThread while another one, or the main loop, is.   *)
OneInOpenThread ==
  /\ Cardinality(in_api) <= 1
  /\ in_main => in_api = {}
=============================================================================
