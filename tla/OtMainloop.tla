----------------------------- MODULE OtMainloop -----------------------------
(***************************************************************************)
(* How work reaches the OpenThread main loop of the end device             *)
(* (components/openthread/src: esp_openthread.cpp,                         *)
(* esp_openthread_task_queue.c, esp_openthread_cli.c).  A task puts work   *)
(* in a FreeRTOS queue and then signals an eventfd; the main loop sleeps   *)
(* in select on that eventfd, or ten seconds, and drains the queue under   *)
(* the OpenThread lock.  The command line task posts a copy of a line and  *)
(* waits for the notification its prompt gives.  Tasks that hold the lock  *)
(* (lwIP's, in openthread_netif_multicast_handler) can make OpenThread     *)
(* tasklets pending, which are signalled the same way.                     *)
(*                                                                         *)
(* The lock is s_openthread_task_mutex: lock_acquire takes a second mutex  *)
(* round it, always first and always released last, which nobody holds     *)
(* without being on the way to, or inside, this one.                       *)
(***************************************************************************)
EXTENDS Integers, Sequences

CONSTANTS Posters,      \* tasks that post to the task queue
          Cli,          \* ot_cli, one of them
          Users,        \* tasks that call OpenThread under the lock
          Main,         \* thread_process
          NoTask,
          QUEUE_SIZE,   \* task_queue_size
          HEAP_LINES    \* the copies of command lines that fit in the heap

ASSUME PostersAssumption == Cli \in Posters

ASSUME QueueAssumption == QUEUE_SIZE \in Nat \ {0}

ASSUME HeapAssumption == HEAP_LINES \in Nat

ASSUME TasksAssumption == Main \notin Users /\ NoTask \notin Users \cup {Main}

VARIABLES queue,        \* s_task_queue: who posted
          event,        \* s_task_queue_event_fd is readable
          tasklets,     \* OpenThread tasklets are pending
          lock,         \* holder of the OpenThread lock
          main,         \* where the main loop is
          isset,        \* FD_ISSET of the eventfd after select
          poll,         \* select has a zero timeout
          post,         \* [Posters -> PostSteps]
          user,         \* [Users -> UserSteps]
          running,      \* a command that prompts later is under way
          notify,       \* a task notification is pending for ot_cli
          lines,        \* copies of command lines in the heap
          leaked        \* history: copies whose post failed

vars == <<queue, event, tasklets, lock, main, isset, poll, post, user, running, notify,
          lines, leaked>>

MainSteps == {"top", "update", "select", "woken", "read", "drain", "tasklets",
              "release", "failed"}

PostSteps == {"idle", "send", "signal", "wait"}

UserSteps == {"idle", "acquire", "call", "signal", "release"}

(* Setting OpenThread up may have left tasklets behind, and signalled them. *)
Init == /\ queue = <<>> /\ tasklets \in BOOLEAN /\ event = tasklets
        /\ lock = NoTask /\ main = "top" /\ isset = FALSE /\ poll = FALSE
        /\ post = [p \in Posters |-> "idle"]
        /\ user = [u \in Users |-> "idle"]
        /\ running = FALSE /\ notify = FALSE /\ lines = 0 /\ leaked = 0

others == <<post, user, running, notify, lines, leaked>>

----------------------------------------------------------------------------
(* esp_openthread_launch_mainloop *)

MainAcquire(from, to) == /\ main = from /\ lock = NoTask
                         /\ main' = to /\ lock' = Main

(* The first critical section: the descriptors, and the timeout when       *)
(* tasklets are pending.                                                   *)
MainTop == /\ MainAcquire("top", "update")
           /\ UNCHANGED <<queue, event, tasklets, isset, poll, others>>

MainUpdate == /\ main = "update"
              /\ poll' = tasklets
              /\ lock' = NoTask
              /\ main' = "select"
              /\ UNCHANGED <<queue, event, tasklets, isset, others>>

(* select returns for the eventfd, another descriptor, or its timeout ...  *)
MainSelect == /\ main = "select"
              /\ isset' = event
              /\ main' = "woken"
              /\ UNCHANGED <<queue, event, tasklets, lock, poll, others>>

(* ... or fails, and the loop ends.                                        *)
MainFails == /\ main = "select"
             /\ main' = "failed"
             /\ UNCHANGED <<queue, event, tasklets, lock, isset, poll, others>>

(* esp_openthread_platform_process stops at the first workflow that fails, *)
(* before the task queue's or after it; the tasklets still run, the lock   *)
(* is released and the loop ends.                                          *)
MainProcessFails == /\ main = "read" \/ (main = "drain" /\ queue = <<>>)
                    /\ tasklets' = FALSE
                    /\ lock' = NoTask
                    /\ main' = "failed"
                    /\ UNCHANGED <<queue, event, isset, poll, others>>

(* The second critical section.                                            *)
MainWoken == /\ MainAcquire("woken", "read")
             /\ UNCHANGED <<queue, event, tasklets, isset, poll, others>>

(* esp_openthread_task_queue_process reads the eventfd when it was ready.  *)
MainRead == /\ main = "read"
            /\ event' = (event /\ ~isset)
            /\ isset' = FALSE
            /\ main' = "drain"
            /\ UNCHANGED <<queue, tasklets, lock, poll, others>>

(* Slip: the prompt of a command gives no notification.                    *)
MainRunSilently == /\ main = "drain" /\ queue # <<>>
                   /\ queue' = Tail(queue)
                   /\ lines' = IF Head(queue) = Cli THEN lines - 1 ELSE lines
                   /\ UNCHANGED <<event, tasklets, lock, main, isset, poll, post, user,
                                  running, notify, leaked>>

(* Slip: the copy of the line is not freed.                                *)
MainRunLeaking == /\ main = "drain" /\ queue # <<>>
                  /\ queue' = Tail(queue)
                  /\ notify' = (notify \/ Head(queue) = Cli)
                  /\ UNCHANGED <<event, tasklets, lock, main, isset, poll, post, user,
                                 running, lines, leaked>>

(* ... and runs what it receives.  A command line ends with the prompt,    *)
(* which cli_output_callback turns into a notification, or, for a command  *)
(* such as ping or scan, goes on without it; its copy is freed at once.    *)
(* What is run may make tasklets pending.                                  *)
MainRun == /\ main = "drain" /\ queue # <<>>
           /\ queue' = Tail(queue)
           /\ \/ Head(queue) # Cli /\ UNCHANGED <<running, notify, lines>>
              \/ /\ Head(queue) = Cli
                 /\ lines' = lines - 1
                 /\ \/ notify' = TRUE /\ UNCHANGED running
                    \/ running' = TRUE /\ UNCHANGED notify
           /\ tasklets' \in {tasklets, TRUE}
           /\ UNCHANGED <<event, lock, main, isset, poll, post, user, leaked>>

(* The prompt of such a command comes from a timer, from the radio's work  *)
(* or from a tasklet, all of which the loop runs under the lock.           *)
CommandEnds == /\ main \in {"read", "drain", "tasklets"} /\ running
               /\ running' = FALSE
               /\ notify' = TRUE
               /\ UNCHANGED <<queue, event, tasklets, lock, main, isset, poll, post, user,
                              lines, leaked>>

MainDrained == /\ main = "drain" /\ queue = <<>>
               /\ main' = "tasklets"
               /\ UNCHANGED <<queue, event, tasklets, lock, isset, poll, others>>

(* while (otTaskletsArePending) otTaskletsProcess: a tasklet may leave     *)
(* another one behind.                                                     *)
MainTasklets == /\ main = "tasklets" /\ tasklets
                /\ tasklets' \in BOOLEAN
                /\ UNCHANGED <<queue, event, lock, main, isset, poll, others>>

MainRelease == /\ main = "tasklets" /\ ~tasklets
               /\ lock' = NoTask
               /\ main' = "top"
               /\ UNCHANGED <<queue, event, tasklets, isset, poll, others>>

MainNext == \/ MainTop \/ MainUpdate \/ MainSelect \/ MainWoken \/ MainRead
            \/ MainRun \/ CommandEnds \/ MainDrained \/ MainTasklets \/ MainRelease

----------------------------------------------------------------------------
(* esp_openthread_task_queue_post, and ot_cli_loop around it *)

loop == <<main, isset, poll, lock, tasklets>>

(* A task has something to post.  ot_cli copies its line for it; with no   *)
(* memory left for the copy it says that OpenThread is busy and goes on.   *)
PostBegin(p) == /\ post[p] = "idle"
                /\ p = Cli => lines < HEAP_LINES
                /\ post' = [post EXCEPT ![p] = "send"]
                /\ lines' = IF p = Cli THEN lines + 1 ELSE lines
                /\ UNCHANGED <<queue, event, loop, user, running, notify, leaked>>

(* Slip: room is not checked for.                                          *)
PostOverfull(p) == /\ post[p] = "send"
                   /\ queue' = Append(queue, p)
                   /\ post' = [post EXCEPT ![p] = "signal"]
                   /\ UNCHANGED <<event, loop, user, running, notify, lines, leaked>>

PostSend(p) == /\ post[p] = "send" /\ Len(queue) < QUEUE_SIZE
               /\ queue' = Append(queue, p)
               /\ post' = [post EXCEPT ![p] = "signal"]
               /\ UNCHANGED <<event, loop, user, running, notify, lines, leaked>>

(* xQueueSend times out; ot_cli reports that OpenThread is busy, and does  *)
(* not free its copy.                                                      *)
PostFails(p) == /\ post[p] = "send" /\ Len(queue) = QUEUE_SIZE
                /\ post' = [post EXCEPT ![p] = "idle"]
                /\ leaked' = IF p = Cli THEN leaked + 1 ELSE leaked
                /\ UNCHANGED <<queue, event, loop, user, running, notify, lines>>

(* Slip: no write to the eventfd.                                          *)
PostUnsignalled(p) == /\ post[p] = "signal"
                      /\ post' = [post EXCEPT ![p] = IF p = Cli THEN "wait" ELSE "idle"]
                      /\ UNCHANGED <<queue, event, loop, user, running, notify, lines, leaked>>

PostSignal(p) == /\ post[p] = "signal"
                 /\ event' = TRUE
                 /\ post' = [post EXCEPT ![p] = IF p = Cli THEN "wait" ELSE "idle"]
                 /\ UNCHANGED <<queue, loop, user, running, notify, lines, leaked>>

(* xTaskNotifyWait                                                         *)
CliNotified == /\ post[Cli] = "wait" /\ notify
               /\ notify' = FALSE
               /\ post' = [post EXCEPT ![Cli] = "idle"]
               /\ UNCHANGED <<queue, event, loop, user, running, lines, leaked>>

Poster(p) == PostSend(p) \/ PostFails(p) \/ PostSignal(p)

----------------------------------------------------------------------------
(* A task that calls OpenThread under the lock, as lwIP's task does when   *)
(* it joins or leaves a multicast group; the call may make tasklets        *)
(* pending, and otTaskletsSignalPending signals them.                      *)

UserStep(u, from, to) == user[u] = from /\ user' = [user EXCEPT ![u] = to]

rest == <<queue, main, isset, poll, post, running, notify, lines, leaked>>

UserBegin(u) == /\ UserStep(u, "idle", "acquire")
                /\ UNCHANGED <<rest, event, tasklets, lock>>

(* Slip: the task takes the lock of another without waiting for it.        *)
UserBarges(u) == /\ UserStep(u, "acquire", "call")
                 /\ lock' = u
                 /\ UNCHANGED <<rest, event, tasklets>>

UserAcquire(u) == /\ UserStep(u, "acquire", "call")
                  /\ lock = NoTask /\ lock' = u
                  /\ UNCHANGED <<rest, event, tasklets>>

UserCall(u) == /\ \/ UserStep(u, "call", "signal") /\ tasklets' = TRUE
                  \/ UserStep(u, "call", "release") /\ tasklets' = tasklets
               /\ UNCHANGED <<rest, event, lock>>

otTaskletsSignalPending(u) == /\ UserStep(u, "signal", "release")
                              /\ event' = TRUE
                              /\ UNCHANGED <<rest, tasklets, lock>>

UserRelease(u) == /\ UserStep(u, "release", "idle")
                  /\ lock' = NoTask
                  /\ UNCHANGED <<rest, event, tasklets>>

User(u) == \/ UserCall(u) \/ otTaskletsSignalPending(u) \/ UserRelease(u)

Next == \/ MainNext \/ MainFails \/ MainProcessFails
        \/ \E p \in Posters : PostBegin(p) \/ Poster(p)
        \/ CliNotified
        \/ \E u \in Users : UserBegin(u) \/ UserAcquire(u) \/ User(u)

Spec == Init /\ [][Next]_vars

----------------------------------------------------------------------------
(* PROPERTIES *)

(* Every variable keeps its type; the queue never outgrows the size it was *)
(* created with (esp_openthread_task_queue.c, xQueueCreate).               *)
TypeOK == /\ queue \in Seq(Posters) /\ Len(queue) <= QUEUE_SIZE
          /\ event \in BOOLEAN /\ tasklets \in BOOLEAN
          /\ lock \in Users \cup {Main, NoTask}
          /\ main \in MainSteps /\ isset \in BOOLEAN /\ poll \in BOOLEAN
          /\ post \in [Posters -> PostSteps]
          /\ user \in [Users -> UserSteps]
          /\ running \in BOOLEAN /\ notify \in BOOLEAN
          /\ lines \in 0..HEAP_LINES /\ leaked \in 0..HEAP_LINES

(* No lost wakeup (esp_openthread_task_queue.c, post and process): when    *)
(* the main loop is at select and work waits for it, the eventfd is        *)
(* readable, or the task that brought the work is about to make it so, or  *)
(* select does not block.                                                  *)
NoSleepOnWork ==
  main = "select" =>
    /\ queue # <<>> => event \/ \E p \in Posters : post[p] = "signal"
    /\ tasklets => event \/ poll \/ \E u \in Users : user[u] = "signal"

(* ot_cli gets its prompt: while the main loop lives, a command line that  *)
(* was accepted is run and the waiting task is notified, at once or when   *)
(* the command ends.                                                       *)
CliAnswered == (post[Cli] \in {"signal", "wait"}) ~> (post[Cli] = "idle" \/ main = "failed")

LineQueued == \E i \in 1..Len(queue) : queue[i] = Cli

(* esp_openthread_cli.c:49-63: a copy of a command line is being posted,   *)
(* waits in the queue, or was lost to a post that failed; it is freed once *)
(* and only after it was run, whatever the main loop does meanwhile.  Only *)
(* a full queue loses copies.                                              *)
LinesAccounted ==
  lines = leaked + (IF post[Cli] = "send" \/ LineQueued THEN 1 ELSE 0)

(* The inductive invariant.  The eventfd is only cleared on the way to the *)
(* drain, so everywhere else queued work has been, or is being, signalled; *)
(* tasklets of other tasks are signalled from the moment the timeout of    *)
(* select is fixed.  The main loop and the users are inside OpenThread     *)
(* exactly while they hold the lock.                                       *)

Inside == {"update", "read", "drain", "tasklets"}

InOpenThread(u) == user[u] \in {"call", "signal", "release"}

InOpenThreadLocked == /\ main \in Inside <=> lock = Main
                      /\ \A u \in Users : InOpenThread(u) <=> lock = u

QueueSignalled ==
  main # "drain" /\ queue # <<>> => event \/ \E p \in Posters : post[p] = "signal"

TaskletsSignalled ==
  main \in {"select", "woken"} /\ tasklets =>
    event \/ poll \/ \E u \in Users : user[u] = "signal"

(* ot_cli has at most one line under way: it is queued, or running, or its *)
(* notification is pending.                                                *)
OneLine ==
  /\ \A i, j \in 1..Len(queue) : queue[i] = Cli /\ queue[j] = Cli => i = j
  /\ LineQueued \/ running \/ notify => post[Cli] \in {"signal", "wait"}
  /\ LineQueued => ~running /\ ~notify
  /\ running => ~notify

IInv == /\ TypeOK /\ InOpenThreadLocked /\ QueueSignalled /\ TaskletsSignalled
        /\ OneLine /\ LinesAccounted
=============================================================================
