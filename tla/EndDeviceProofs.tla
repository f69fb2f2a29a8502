-------------------------- MODULE EndDeviceProofs --------------------------
(***************************************************************************)
(* The OpenThread main loop, by itself and inside the device, for any      *)
(* tasks, queue and heap: no wakeup is lost, the loop is alone inside      *)
(* OpenThread, every copy of a command line is accounted for; starting up, *)
(* tearing down and restarting keep this, and the loop only ever runs on   *)
(* what it needs.                                                          *)
(***************************************************************************)
EXTENDS EndDevice, FiniteSetTheorems, SequenceTheorems, TLAPS

----------------------------------------------------------------------------
(* The main loop by itself *)

(* Nothing is queued, signalled or locked at the start.                    *)
LEMMA InitIInv == Init => IInv
  <1> SUFFICES ASSUME Init PROVE IInv
    OBVIOUS
  <1> USE DEF Init
  <1>1. TypeOK
    <2>1. queue \in Seq(Posters) /\ Len(queue) <= QUEUE_SIZE
      BY QueueAssumption
    <2>2. post \in [Posters -> PostSteps] /\ user \in [Users -> UserSteps]
      BY DEF PostSteps, UserSteps
    <2>3. main \in MainSteps /\ lock \in Users \cup {Main, NoTask}
      BY DEF MainSteps
    <2>4. /\ event \in BOOLEAN /\ tasklets \in BOOLEAN /\ isset \in BOOLEAN
          /\ poll \in BOOLEAN /\ running \in BOOLEAN /\ notify \in BOOLEAN
      OBVIOUS
    <2>5. lines \in 0..HEAP_LINES /\ leaked \in 0..HEAP_LINES
      BY HeapAssumption
    <2> QED
      BY <2>1, <2>2, <2>3, <2>4, <2>5 DEF TypeOK
  <1>2. NoTask # Main /\ \A u \in Users : NoTask # u
    BY TasksAssumption
  <1>3. InOpenThreadLocked
    BY <1>2 DEF InOpenThreadLocked, Inside, InOpenThread
  <1>4. QueueSignalled /\ TaskletsSignalled
    BY DEF QueueSignalled, TaskletsSignalled
  <1>5. OneLine /\ LinesAccounted
    BY PostersAssumption DEF OneLine, LinesAccounted, LineQueued
  <1> QED
    BY <1>1, <1>3, <1>4, <1>5 DEF IInv

(* The state but for the copies of command lines keeps its types.          *)
LoopTypeOK == /\ queue \in Seq(Posters) /\ Len(queue) <= QUEUE_SIZE
              /\ event \in BOOLEAN /\ tasklets \in BOOLEAN
              /\ lock \in Users \cup {Main, NoTask}
              /\ main \in MainSteps /\ isset \in BOOLEAN /\ poll \in BOOLEAN
              /\ post \in [Posters -> PostSteps]
              /\ user \in [Users -> UserSteps]
              /\ running \in BOOLEAN /\ notify \in BOOLEAN

LinesTypeOK == lines \in 0..HEAP_LINES /\ leaked \in 0..HEAP_LINES

(* Every step preserves the types of everything but the copies.            *)
LEMMA NextLoopTypeOK == LoopTypeOK /\ [Next]_vars => LoopTypeOK'
  <1> SUFFICES ASSUME LoopTypeOK, [Next]_vars PROVE LoopTypeOK'
    OBVIOUS
  <1> USE QueueAssumption, PostersAssumption
      DEF LoopTypeOK, MainSteps, PostSteps, UserSteps, others, loop, rest
  <1>1. CASE UNCHANGED vars
    BY <1>1 DEF vars
  <1>2. CASE MainNext \/ MainFails \/ MainProcessFails
    <2>1. CASE MainRun
      <3>1. queue' \in Seq(Posters) /\ Len(queue') <= QUEUE_SIZE
        BY <2>1 DEF MainRun
      <3> QED
        BY <2>1, <3>1 DEF MainRun
    <2> QED
      BY <1>2, <2>1 DEF MainNext, MainFails, MainProcessFails, MainTop, MainUpdate,
         MainSelect, MainWoken, MainRead, CommandEnds, MainDrained, MainTasklets,
         MainRelease, MainAcquire
  <1>3. ASSUME NEW p \in Posters, PostBegin(p) \/ Poster(p) PROVE LoopTypeOK'
    <2>1. CASE PostSend(p)
      <3>1. queue' \in Seq(Posters) /\ Len(queue') <= QUEUE_SIZE
        BY <2>1 DEF PostSend
      <3> QED
        BY <2>1, <3>1 DEF PostSend
    <2> QED
      BY <1>3, <2>1 DEF PostBegin, Poster, PostFails, PostSignal
  <1>4. CASE CliNotified
    BY <1>4 DEF CliNotified
  <1>5. ASSUME NEW u \in Users, UserBegin(u) \/ UserAcquire(u) \/ User(u) PROVE LoopTypeOK'
    BY <1>5 DEF UserBegin, UserAcquire, User, UserCall, otTaskletsSignalPending,
                UserRelease, UserStep
  <1> QED
    BY <1>1, <1>2, <1>3, <1>4, <1>5 DEF Next

(* Every step accounts for the copies of command lines.                    *)
LEMMA NextLines ==
  IInv /\ [Next]_vars => LinesTypeOK' /\ OneLine' /\ LinesAccounted'
  <1> SUFFICES ASSUME IInv, [Next]_vars PROVE LinesTypeOK' /\ OneLine' /\ LinesAccounted'
    OBVIOUS
  <1>t. LoopTypeOK /\ LinesTypeOK /\ OneLine /\ LinesAccounted
    BY DEF IInv, TypeOK, LoopTypeOK, LinesTypeOK
  <1> DEFINE same == <<queue, post, running, notify, lines, leaked>>
  <1>s. CASE UNCHANGED same
    BY <1>s, <1>t DEF LinesTypeOK, OneLine, LinesAccounted, LineQueued
  <1>1. CASE UNCHANGED vars
    BY <1>1, <1>s DEF vars
  <1>2. CASE MainNext \/ MainFails \/ MainProcessFails
    <2>1. CASE MainRun
      <3> USE DEF MainRun
      <3>1. /\ queue \in Seq(Posters) /\ queue # <<>> /\ queue' = Tail(queue)
            /\ Len(queue) \in Nat \ {0} /\ Len(queue') = Len(queue) - 1
            /\ \A i \in 1..Len(queue') : queue'[i] = queue[i + 1]
            /\ post' = post /\ leaked' = leaked /\ Head(queue) = queue[1]
        BY <2>1, <1>t DEF LoopTypeOK
      <3>2. CASE Head(queue) = Cli
        <4>1. LineQueued /\ queue[1] = Cli
          BY <3>1, <3>2 DEF LineQueued
        <4>2. ~ LineQueued'
          BY <3>1, <4>1, <1>t DEF OneLine, LineQueued
        <4>3. post[Cli] \in {"signal", "wait"} /\ lines = leaked + 1 /\ lines' = lines - 1
          BY <4>1, <3>2, <2>1, <1>t DEF OneLine, LinesAccounted
        <4>4. OneLine'
          BY <3>1, <4>1, <4>2, <4>3, <3>2, <2>1, <1>t DEF OneLine, LineQueued
        <4>5. LinesTypeOK' /\ LinesAccounted'
          BY <3>1, <4>2, <4>3, <1>t DEF LinesTypeOK, LinesAccounted
        <4> QED
          BY <4>4, <4>5
      <3>3. CASE Head(queue) # Cli
        <4>1. lines' = lines /\ notify' = notify /\ running' = running
          BY <2>1, <3>3
        <4>2. LineQueued' <=> LineQueued
          <5>1. ASSUME NEW i \in 1..Len(queue), queue[i] = Cli PROVE LineQueued'
            <6>1. i # 1 /\ i - 1 \in 1..Len(queue') /\ queue'[i - 1] = queue[i - 1 + 1]
              BY <3>1, <3>3, <5>1
            <6> QED
              BY <6>1, <5>1 DEF LineQueued
          <5> QED
            BY <5>1, <3>1 DEF LineQueued
        <4>3. \A i, j \in 1..Len(queue') : queue'[i] = Cli /\ queue'[j] = Cli => i = j
          BY <3>1, <1>t DEF OneLine
        <4>4. OneLine'
          BY <3>1, <4>1, <4>2, <4>3, <1>t DEF OneLine
        <4> QED
          BY <3>1, <4>1, <4>2, <4>4, <1>t DEF LinesTypeOK, LinesAccounted
      <3> QED
        BY <3>2, <3>3
    <2>2. CASE CommandEnds
      BY <2>2, <1>t DEF CommandEnds, LinesTypeOK, OneLine, LinesAccounted, LineQueued
    <2> QED
      BY <1>2, <1>s, <2>1, <2>2 DEF MainNext, MainFails, MainProcessFails, MainTop, MainUpdate,
         MainSelect, MainWoken, MainRead, MainDrained, MainTasklets, MainRelease,
         MainAcquire, others
  <1>3. ASSUME NEW p \in Posters, PostBegin(p) \/ Poster(p)
        PROVE LinesTypeOK' /\ OneLine' /\ LinesAccounted'
    <2> USE PostersAssumption, HeapAssumption DEF loop
    <2>1. CASE PostSend(p)
      <3>1. /\ queue \in Seq(Posters) /\ Len(queue) \in Nat
            /\ Len(queue') = Len(queue) + 1 /\ queue'[Len(queue) + 1] = p
            /\ \A i \in 1..Len(queue) : queue'[i] = queue[i]
            /\ lines' = lines /\ leaked' = leaked /\ notify' = notify /\ running' = running
            /\ post[p] = "send" /\ post' = [post EXCEPT ![p] = "signal"]
        BY <2>1, <1>t DEF PostSend, LoopTypeOK
      <3>2. LineQueued' <=> LineQueued \/ p = Cli
        BY <3>1 DEF LineQueued
      <3>3. \A i, j \in 1..Len(queue') : queue'[i] = Cli /\ queue'[j] = Cli => i = j
        <4>1. p = Cli => ~ LineQueued
          BY <3>1, <1>t DEF OneLine
        <4> QED
          BY <3>1, <4>1, <1>t DEF OneLine, LineQueued
      <3> QED
        BY <3>1, <3>2, <3>3, <1>t DEF LinesTypeOK, OneLine, LinesAccounted, LoopTypeOK
    <2>2. CASE PostBegin(p) \/ PostFails(p) \/ PostSignal(p)
      <3>1. /\ queue' = queue /\ notify' = notify /\ running' = running
            /\ (LineQueued' <=> LineQueued)
        BY <2>2 DEF PostBegin, PostFails, PostSignal, LineQueued
      <3> QED
        BY <2>2, <3>1, <1>t DEF PostBegin, PostFails, PostSignal, LinesTypeOK, OneLine,
           LinesAccounted, LoopTypeOK
    <2> QED
      BY <1>3, <2>1, <2>2 DEF Poster
  <1>4. CASE CliNotified
    BY <1>4, <1>t, PostersAssumption
    DEF CliNotified, LinesTypeOK, OneLine, LinesAccounted, LineQueued, LoopTypeOK
  <1>5. ASSUME NEW u \in Users, UserBegin(u) \/ UserAcquire(u) \/ User(u)
        PROVE UNCHANGED same
    BY <1>5 DEF UserBegin, UserAcquire, User, UserCall, otTaskletsSignalPending,
                UserRelease, rest
  <1> QED
    BY <1>s, <1>1, <1>2, <1>3, <1>4, <1>5 DEF Next

(* Every step preserves the inductive invariant.                           *)
LEMMA NextIInv == IInv /\ [Next]_vars => IInv'
  <1> SUFFICES ASSUME IInv, [Next]_vars
               PROVE InOpenThreadLocked' /\ QueueSignalled' /\ TaskletsSignalled'
    BY NextLoopTypeOK, NextLines DEF IInv, TypeOK, LoopTypeOK, LinesTypeOK
  <1>t. LoopTypeOK /\ LoopTypeOK'
    BY NextLoopTypeOK DEF IInv, TypeOK, LoopTypeOK
  <1> USE TasksAssumption DEF others, loop, rest, Inside, InOpenThread
  <1>1. CASE UNCHANGED vars
    BY <1>1 DEF vars, IInv, InOpenThreadLocked, QueueSignalled, TaskletsSignalled
  <1>2. CASE MainNext \/ MainFails \/ MainProcessFails
    <2> USE DEF MainNext, MainFails, MainProcessFails, MainTop, MainUpdate, MainSelect,
                MainWoken, MainRead, MainRun, CommandEnds, MainDrained, MainTasklets,
                MainRelease, MainAcquire
    <2>1. InOpenThreadLocked'
      BY <1>2, <1>t DEF IInv, InOpenThreadLocked, LoopTypeOK
    <2>2. QueueSignalled'
      BY <1>2, <1>t DEF IInv, QueueSignalled, LoopTypeOK
    <2>3. TaskletsSignalled'
      BY <1>2, <1>t DEF IInv, TaskletsSignalled, LoopTypeOK
    <2> QED
      BY <2>1, <2>2, <2>3
  <1>3. ASSUME NEW p \in Posters, PostBegin(p) \/ Poster(p)
        PROVE InOpenThreadLocked' /\ QueueSignalled' /\ TaskletsSignalled'
    <2> USE DEF PostBegin, Poster, PostSend, PostFails, PostSignal
    <2>1. InOpenThreadLocked' /\ TaskletsSignalled'
      BY <1>3, <1>t DEF IInv, InOpenThreadLocked, TaskletsSignalled, LoopTypeOK
    <2>2. QueueSignalled'
      BY <1>3, <1>t DEF IInv, QueueSignalled, LoopTypeOK
    <2> QED
      BY <2>1, <2>2
  <1>4. CASE CliNotified
    BY <1>4, <1>t, PostersAssumption
    DEF CliNotified, IInv, InOpenThreadLocked, QueueSignalled, TaskletsSignalled, LoopTypeOK
  <1>5. ASSUME NEW u \in Users, UserBegin(u) \/ UserAcquire(u) \/ User(u)
        PROVE InOpenThreadLocked' /\ QueueSignalled' /\ TaskletsSignalled'
    <2> USE DEF UserBegin, UserAcquire, User, UserCall, otTaskletsSignalPending,
                UserRelease, UserStep
    <2>1. InOpenThreadLocked'
      BY <1>5, <1>t DEF IInv, InOpenThreadLocked, LoopTypeOK
    <2>2. QueueSignalled'
      BY <1>5, <1>t DEF IInv, QueueSignalled, LoopTypeOK
    <2>3. TaskletsSignalled'
      BY <1>5, <1>t DEF IInv, TaskletsSignalled, LoopTypeOK
    <2> QED
      BY <2>1, <2>2, <2>3
  <1> QED
    BY <1>1, <1>2, <1>3, <1>4, <1>5 DEF Next

(* The inductive invariant holds in every reachable state of the loop.     *)
THEOREM Safety == Spec => []IInv
  BY InitIInv, NextIInv, PTL DEF Spec

(* esp_openthread_task_queue.c: no wakeup is lost.                         *)
THEOREM NoLostWakeup == Spec => []NoSleepOnWork
  <1>1. IInv => NoSleepOnWork
    BY DEF IInv, QueueSignalled, TaskletsSignalled, NoSleepOnWork
  <1> QED
    BY <1>1, Safety, PTL

(* esp_openthread_cli.c: no copy of a command line is freed twice, or lost *)
(* other than to a full queue.                                             *)
THEOREM NoLineLost == Spec => []LinesAccounted
  BY Safety, PTL DEF IInv

(* The variables of the main loop keep their types.                        *)
THEOREM TypeCorrect == Spec => []TypeOK
  BY Safety, PTL DEF IInv

----------------------------------------------------------------------------
(* The main loop in the device *)

(* Whatever is restarted is in an initial state of the main loop.          *)
LEMMA RestartIInv == Restart => IInv'
  <1>1. Restart => Init'
    BY DEF Restart, Init
  <1>2. Init' => IInv'
    BY InitIInv, PTL
  <1> QED
    BY <1>1, <1>2

(* A call into OpenThread before there is a main loop signals the tasklets *)
(* it leaves behind.                                                       *)
LEMMA CallIInv ==
  ASSUME NEW from, NEW to, IInv, CallOpenThread(from, to) PROVE IInv'
  <1>1. /\ event' \in BOOLEAN /\ tasklets' \in BOOLEAN
        /\ (event => event') /\ (tasklets' => event')
    BY DEF CallOpenThread, IInv, TypeOK
  <1>2. UNCHANGED <<queue, lock, main, isset, poll, post, user, running, notify, lines, leaked>>
    BY DEF CallOpenThread, others
  <1>3. TypeOK' /\ InOpenThreadLocked' /\ OneLine' /\ LinesAccounted'
    BY <1>1, <1>2 DEF IInv, TypeOK, InOpenThreadLocked, InOpenThread, OneLine,
       LinesAccounted, LineQueued
  <1>4. QueueSignalled' /\ TaskletsSignalled'
    BY <1>1, <1>2 DEF IInv, QueueSignalled, TaskletsSignalled
  <1> QED
    BY <1>3, <1>4 DEF IInv

(* Every step of the device preserves the invariant of the main loop.      *)
LEMMA DeviceNextIInv == IInv /\ [DeviceNext]_dvars => IInv'
  <1> SUFFICES ASSUME IInv, [DeviceNext]_dvars PROVE IInv'
    OBVIOUS
  <1>n. CASE [Next]_vars
    BY <1>n, NextIInv
  <1>1. CASE UNCHANGED dvars
    BY <1>1, <1>n DEF dvars
  <1>2. CASE AppMain
    <2>1. CASE esp_openthread_init \/ config_joiner_dataset
      BY <2>1, CallIInv DEF esp_openthread_init, config_joiner_dataset
    <2>2. CASE ErrorCheckFails
      BY <2>2, RestartIInv DEF ErrorCheckFails
    <2>3. CASE UNCHANGED vars
      BY <2>3, <1>n
    <2> QED
      BY <1>2, <2>1, <2>2, <2>3
      DEF AppMain, nvs_flash_init, esp_event_loop_create_default, esp_netif_init,
          esp_vfs_eventfd_register, esp_openthread_lock_init, esp_openthread_alarm_init,
          esp_openthread_host_interface_init, esp_openthread_task_queue_init,
          esp_openthread_radio_init, esp_openthread_netif_glue_init,
          otSetStateChangedCallback, CreateThreadProcess, adc_init,
          launch_pm25_test_task, BringUp, eventfd
  <1>3. CASE Tasks
    <2>1. CASE \/ SignalFails \/ set_event \/ openthread_netif_transmit
               \/ bme68x_data_retrieve \/ otPlatReset
      BY <2>1, RestartIInv DEF SignalFails, set_event, openthread_netif_transmit,
         bme68x_data_retrieve, otPlatReset
    <2>2. CASE Loop(MainNext) \/ Loop(MainFails) \/ Loop(MainProcessFails) \/ Outside
               \/ (\E p \in Posters : Signal(PostSignal(p)))
               \/ (\E u \in Users : Signal(otTaskletsSignalPending(u)))
      <3>1. Next
        BY <2>2 DEF Loop, Outside, Signal, Next, Poster, User
      <3> QED
        BY <3>1, <1>n
    <2>3. CASE UNCHANGED vars
      BY <2>3, <1>n
    <2> QED
      BY <1>3, <2>1, <2>2, <2>3
      DEF Tasks, esp_openthread_launch_mainloop, coapClientStartCallback, LoopReturns,
          esp_openthread_netif_glue_deinit, esp_netif_destroy, esp_vfs_eventfd_unregister
  <1> QED
    BY <1>1, <1>2, <1>3 DEF DeviceNext

(* Through starts, failures and restarts of the device the main loop keeps *)
(* its inductive invariant.                                                *)
THEOREM DeviceSafety == DeviceSpec => []IInv
  <1>1. DeviceInit => IInv
    BY InitIInv DEF DeviceInit
  <1> QED
    BY <1>1, DeviceNextIInv, PTL DEF DeviceSpec

(* esp_openthread_task_queue.c: in the device no wakeup is lost, work that *)
(* was signalled before there was a main loop included.                    *)
THEOREM DeviceNoLostWakeup == DeviceSpec => []NoSleepOnWork
  <1>1. IInv => NoSleepOnWork
    BY DEF IInv, QueueSignalled, TaskletsSignalled, NoSleepOnWork
  <1> QED
    BY <1>1, DeviceSafety, PTL

(* esp_openthread_cli.c: in the device every copy of a command line is     *)
(* accounted for, also after the main loop has failed.                     *)
THEOREM DeviceNoLineLost == DeviceSpec => []LinesAccounted
  BY DeviceSafety, PTL DEF IInv

----------------------------------------------------------------------------
(* What each step of app_main finds: until the cleanup begins, app_main's  *)
(* place tells what is there.                                              *)

NoEventfds == {"nvs", "event_loop", "netif", "eventfd"}

NoQueue == NoEventfds \cup {"lock", "alarm", "uart", "task_queue"}

Glued == {"callback", "dataset", "create", "adc", "settle", "done"}

BootInv ==
  /\ app \in AppSteps /\ thread \in ThreadSteps
  /\ thread \in {"netif", "eventfd"} => max_fds = 3
  /\ thread \in {"netif", "eventfd", "deleted"} => "task_queue" \in fds
  /\ thread # "none" => app \in {"adc", "settle", "done"}
  /\ thread \in {"none", "start", "loop", "glue"} =>
       /\ max_fds = IF app \in NoEventfds THEN 0 ELSE 3
       /\ app \in NoQueue => fds = {}
       /\ app = "radio" => fds = {"task_queue"}
       /\ app \in {"instance", "glue"} => fds = {"task_queue", "radio"}
       /\ app \in Glued => fds = {"task_queue", "radio", "glue"}
       /\ app \in NoEventfds \cup {"lock", "alarm"} => workflows = <<>>
       /\ app \in {"uart", "task_queue"} => workflows = <<"alarm">>
       /\ app = "radio" => workflows = <<"alarm", "task_queue">>
       /\ app \in {"instance", "glue"} => workflows = <<"alarm", "task_queue", "radio">>
       /\ app \in Glued => workflows = <<"alarm", "task_queue", "radio", "glue">>
       /\ app \notin NoEventfds \cup {"lock"} => "lock" \in up
       /\ app \in {"glue"} \cup Glued => "instance" \in up
       /\ app \in Glued => "glue" \in up
       /\ app \in Glued \ {"callback"} => "callback" \in up
       /\ app \in Glued \ {"callback", "dataset"} => "dataset" \in up

(* A workflow that is not in the list goes to its end.                     *)
LEMMA Registers ==
  ASSUME NEW name, workflow_register(name),
         \A i \in DOMAIN workflows : workflows[i] # name
  PROVE  workflows' = Append(workflows, name)
  BY DEF workflow_register

(* The lists that app_main's calls make, one workflow longer each time.    *)
LEMMA Lists ==
  \A a, b, c, d : /\ Append(<<a>>, b) = <<a, b>>
                  /\ Append(<<a, b>>, c) = <<a, b, c>>
                  /\ Append(<<a, b, c>>, d) = <<a, b, c, d>>
  <1> TAKE a, b, c, d
  <1>1. Append(<<a>>, b) = <<a, b>>
    <2>1. Append(<<a>>, b) \in Seq({a, b}) /\ <<a, b>> \in Seq({a, b})
      OBVIOUS
    <2>2. Len(Append(<<a>>, b)) = 2 /\ Len(<<a, b>>) = 2
      OBVIOUS
    <2>3. \A i \in 1..2 : Append(<<a>>, b)[i] = <<a, b>>[i]
      OBVIOUS
    <2> QED
      BY <2>1, <2>2, <2>3, SeqEqual
  <1>2. Append(<<a, b>>, c) = <<a, b, c>>
    <2>1. Append(<<a, b>>, c) \in Seq({a, b, c}) /\ <<a, b, c>> \in Seq({a, b, c})
      OBVIOUS
    <2>2. Len(Append(<<a, b>>, c)) = 3 /\ Len(<<a, b, c>>) = 3
      OBVIOUS
    <2>3. \A i \in 1..3 : Append(<<a, b>>, c)[i] = <<a, b, c>>[i]
      OBVIOUS
    <2> QED
      BY <2>1, <2>2, <2>3, SeqEqual
  <1>3. Append(<<a, b, c>>, d) = <<a, b, c, d>>
    <2>1. Append(<<a, b, c>>, d) \in Seq({a, b, c, d}) /\ <<a, b, c, d>> \in Seq({a, b, c, d})
      OBVIOUS
    <2>2. Len(Append(<<a, b, c>>, d)) = 4 /\ Len(<<a, b, c, d>>) = 4
      OBVIOUS
    <2>3. \A i \in 1..4 : Append(<<a, b, c>>, d)[i] = <<a, b, c, d>>[i]
      OBVIOUS
    <2> QED
      BY <2>1, <2>2, <2>3, SeqEqual
  <1> QED
    BY <1>1, <1>2, <1>3

(* Every step of app_main, and of the tasks, keeps it.                     *)
LEMMA NextBootInv == BootInv /\ [DeviceNext]_dvars => BootInv'
  <1> SUFFICES ASSUME BootInv, [DeviceNext]_dvars PROVE BootInv'
    OBVIOUS
  <1> USE DEF NoEventfds, NoQueue, Glued, ThreadSteps
  <1>r. CASE Restart
    BY <1>r DEF Restart, BootInv, AppSteps
  <1>1. CASE UNCHANGED device
    BY <1>1 DEF device, BootInv
  <1>2. CASE AppMain
    <2> USE DEF BringUp, AppStep
    <2>1. CASE nvs_flash_init \/ esp_event_loop_create_default \/ esp_netif_init
      BY <2>1 DEF nvs_flash_init, esp_event_loop_create_default, esp_netif_init, BootInv,
         AppSteps
    <2>2. CASE esp_vfs_eventfd_register \/ esp_openthread_lock_init
               \/ esp_openthread_host_interface_init
      BY <2>2 DEF esp_vfs_eventfd_register, esp_openthread_lock_init,
         esp_openthread_host_interface_init, BootInv, AppSteps
    <2>3. CASE esp_openthread_alarm_init
      <3>1. workflows = <<>> /\ workflow_register("alarm")
        BY <2>3 DEF esp_openthread_alarm_init, BootInv
      <3>2. workflows' = Append(workflows, "alarm")
        BY <3>1, Registers
      <3>3. workflows' = <<"alarm">>
        BY <3>1, <3>2
      <3> QED
        BY <2>3, <3>3 DEF esp_openthread_alarm_init, BootInv, AppSteps
    <2>4. CASE esp_openthread_task_queue_init
      <3>1. workflows = <<"alarm">> /\ workflow_register("task_queue")
        BY <2>4 DEF esp_openthread_task_queue_init, eventfd, BootInv
      <3>2. workflows' = Append(workflows, "task_queue")
        BY <3>1, Registers
      <3>3. workflows' = <<"alarm", "task_queue">>
        BY <3>1, <3>2, Lists
      <3> QED
        BY <2>4, <3>3 DEF esp_openthread_task_queue_init, eventfd, BootInv, AppSteps
    <2>5. CASE esp_openthread_radio_init
      <3>1. workflows = <<"alarm", "task_queue">> /\ workflow_register("radio")
        BY <2>5 DEF esp_openthread_radio_init, eventfd, BootInv
      <3>2. workflows' = Append(workflows, "radio")
        BY <3>1, Registers
      <3>3. workflows' = <<"alarm", "task_queue", "radio">>
        BY <3>1, <3>2, Lists
      <3> QED
        BY <2>5, <3>3 DEF esp_openthread_radio_init, eventfd, BootInv, AppSteps
    <2>6. CASE esp_openthread_netif_glue_init
      <3>1. workflows = <<"alarm", "task_queue", "radio">> /\ workflow_register("glue")
        BY <2>6 DEF esp_openthread_netif_glue_init, eventfd, BootInv
      <3>2. workflows' = Append(workflows, "glue")
        BY <3>1, Registers
      <3>3. workflows' = <<"alarm", "task_queue", "radio", "glue">>
        BY <3>1, <3>2, Lists
      <3> QED
        BY <2>6, <3>3 DEF esp_openthread_netif_glue_init, eventfd, BootInv, AppSteps
    <2>7. CASE esp_openthread_init \/ otSetStateChangedCallback \/ config_joiner_dataset
      BY <2>7 DEF esp_openthread_init, otSetStateChangedCallback, config_joiner_dataset,
         CallOpenThread, BootInv, AppSteps
    <2>8. CASE CreateThreadProcess \/ adc_init \/ launch_pm25_test_task
      BY <2>8 DEF CreateThreadProcess, adc_init, launch_pm25_test_task, BootInv, AppSteps
    <2>9. CASE ErrorCheckFails
      BY <2>9, <1>r DEF ErrorCheckFails
    <2> QED
      BY <1>2, <2>1, <2>2, <2>3, <2>4, <2>5, <2>6, <2>7, <2>8, <2>9 DEF AppMain
  <1>3. CASE Tasks
    <2>1. CASE esp_openthread_launch_mainloop \/ coapClientStartCallback \/ LoopReturns
      BY <2>1 DEF esp_openthread_launch_mainloop, coapClientStartCallback, LoopReturns,
         ThreadStep, BootInv
    <2>2. CASE esp_openthread_netif_glue_deinit \/ esp_netif_destroy
               \/ esp_vfs_eventfd_unregister
      BY <2>2 DEF esp_openthread_netif_glue_deinit, esp_netif_destroy,
         esp_vfs_eventfd_unregister, ThreadStep, BootInv
    <2>3. CASE Loop(MainNext) \/ Loop(MainFails) \/ Loop(MainProcessFails) \/ Outside
               \/ (\E p \in Posters : Signal(PostSignal(p)))
               \/ (\E u \in Users : Signal(otTaskletsSignalPending(u)))
      BY <2>3, <1>1 DEF Loop, Outside, Signal
    <2>4. CASE \/ SignalFails \/ set_event \/ openthread_netif_transmit
               \/ bme68x_data_retrieve \/ otPlatReset
      BY <2>4, <1>r DEF SignalFails, set_event, openthread_netif_transmit,
         bme68x_data_retrieve, otPlatReset
    <2> QED
      BY <1>3, <2>1, <2>2, <2>3, <2>4 DEF Tasks
  <1> QED
    BY <1>1, <1>2, <1>3 DEF DeviceNext, dvars

(* app_main's place tells what is there, on every boot.                    *)
LEMMA BootSafety == DeviceSpec => []BootInv
  <1>1. DeviceInit => BootInv
    BY DEF DeviceInit, Boot, BootInv, AppSteps, ThreadSteps, NoEventfds, NoQueue, Glued
  <1> QED
    BY <1>1, NextBootInv, PTL DEF DeviceSpec

(* thread_end_device.c: the main loop only runs on what it needs.          *)
THEOREM LoopAlwaysEquipped == DeviceSpec => []LoopEquipped
  <1>1. BootInv => LoopEquipped
    BY DEF BootInv, LoopEquipped, NoEventfds, NoQueue, Glued
  <1> QED
    BY <1>1, BootSafety, PTL

(* thread_end_device.c: three eventfds are enough on every boot.           *)
THEOREM ThreeEventfdsSuffice == DeviceSpec => []EnoughEventfds
  <1>1. BootInv => EnoughEventfds
    <2> SUFFICES ASSUME BootInv, app \in {"task_queue", "radio", "glue"}
                 PROVE  Cardinality(fds) < max_fds
      BY DEF EnoughEventfds
    <2>1. max_fds = 3 /\ fds \in {{}, {"task_queue"}, {"task_queue", "radio"}}
      BY DEF BootInv, NoEventfds, NoQueue, Glued
    <2>2. /\ Cardinality({}) = 0
          /\ IsFiniteSet({"task_queue"}) /\ Cardinality({"task_queue"}) = 1
      BY FS_EmptySet, FS_Singleton
    <2>3. Cardinality({"task_queue"} \cup {"radio"}) = 2
      BY <2>2, FS_AddElement
    <2>4. {"task_queue", "radio"} = {"task_queue"} \cup {"radio"}
      OBVIOUS
    <2> QED
      BY <2>1, <2>2, <2>3, <2>4
  <1> QED
    BY <1>1, BootSafety, PTL

(* Who posts or signals, where the loop is, and how far the boot has come: *)
(* nobody begins before the task queue is there, and the loop only moves   *)
(* under thread_process.                                                   *)
LiveInv ==
  /\ "instance" \in up \/ "glue" \in up \/ cli_up => app \notin NoQueue
  /\ (\E p \in Posters : post[p] # "idle") => app \notin NoQueue
  /\ (\E u \in Users : user[u] # "idle") => app \notin NoQueue
  /\ main \notin {"top", "failed"} => thread = "loop"

(* Every step of the device keeps it.                                      *)
LEMMA NextLiveInv == BootInv /\ LiveInv /\ [DeviceNext]_dvars => LiveInv'
  <1> SUFFICES ASSUME BootInv, LiveInv, [DeviceNext]_dvars PROVE LiveInv'
    OBVIOUS
  <1> USE DEF NoEventfds, NoQueue
  <1>r. CASE Restart
    BY <1>r DEF Restart, LiveInv
  <1>1. CASE UNCHANGED dvars
    BY <1>1 DEF dvars, device, vars, LiveInv
  <1>2. CASE AppMain
    <2>1. CASE ErrorCheckFails
      BY <2>1, <1>r DEF ErrorCheckFails
    <2>2. CASE AppMain /\ ~ErrorCheckFails
      <3>1. UNCHANGED <<post, user, main, cli_up>>
        BY <2>2 DEF AppMain, nvs_flash_init, esp_event_loop_create_default, esp_netif_init,
           esp_vfs_eventfd_register, esp_openthread_lock_init, esp_openthread_alarm_init,
           esp_openthread_host_interface_init, esp_openthread_task_queue_init,
           esp_openthread_radio_init, esp_openthread_init, esp_openthread_netif_glue_init,
           otSetStateChangedCallback, config_joiner_dataset, CreateThreadProcess, adc_init,
           launch_pm25_test_task, BringUp, eventfd, CallOpenThread, vars, others
      <3>2. /\ app \notin NoQueue => app' \notin NoQueue
            /\ app \in NoQueue => up' \subseteq up \cup NoQueue
            /\ thread = "loop" => thread' = "loop"
        BY <2>2 DEF AppMain, nvs_flash_init, esp_event_loop_create_default, esp_netif_init,
           esp_vfs_eventfd_register, esp_openthread_lock_init, esp_openthread_alarm_init,
           esp_openthread_host_interface_init, esp_openthread_task_queue_init,
           esp_openthread_radio_init, esp_openthread_init, esp_openthread_netif_glue_init,
           otSetStateChangedCallback, config_joiner_dataset, CreateThreadProcess, adc_init,
           launch_pm25_test_task, BringUp, eventfd, CallOpenThread, AppStep, BootInv
      <3> QED
        BY <3>1, <3>2 DEF LiveInv
    <2> QED
      BY <1>2, <2>1, <2>2
  <1>3. CASE Tasks
    <2>1. CASE \/ SignalFails \/ set_event \/ openthread_netif_transmit
               \/ bme68x_data_retrieve \/ otPlatReset
      BY <2>1, <1>r DEF SignalFails, set_event, openthread_netif_transmit,
         bme68x_data_retrieve, otPlatReset
    <2>2. CASE esp_openthread_launch_mainloop \/ coapClientStartCallback
      BY <2>2 DEF esp_openthread_launch_mainloop, coapClientStartCallback, ThreadStep, vars,
         BootInv, LiveInv
    <2>3. CASE LoopReturns \/ esp_openthread_netif_glue_deinit \/ esp_netif_destroy
               \/ esp_vfs_eventfd_unregister
      BY <2>3 DEF LoopReturns, esp_openthread_netif_glue_deinit, esp_netif_destroy,
         esp_vfs_eventfd_unregister, ThreadStep, vars, BootInv, LiveInv
    <2>4. CASE Loop(MainNext) \/ Loop(MainFails) \/ Loop(MainProcessFails)
      <3>1. thread = "loop" /\ UNCHANGED <<app, up, cli_up, thread, post, user>>
        BY <2>4 DEF Loop, device, MainNext, MainFails, MainProcessFails, MainTop,
           MainUpdate, MainSelect, MainWoken, MainRead, MainRun, CommandEnds, MainDrained,
           MainTasklets, MainRelease, others
      <3> QED
        BY <3>1 DEF LiveInv
    <2>5. CASE Outside \/ (\E p \in Posters : Signal(PostSignal(p)))
               \/ (\E u \in Users : Signal(otTaskletsSignalPending(u)))
      <3>1. UNCHANGED <<app, up, cli_up, thread, main>>
        BY <2>5 DEF Outside, Signal, device, PostBegin, PostSend, PostFails, PostSignal,
           CliNotified, UserBegin, UserAcquire, UserCall, otTaskletsSignalPending,
           UserRelease, loop, rest
      <3>2. app \notin NoQueue
        BY <2>5, PostersAssumption
        DEF Outside, Signal, PostSend, PostFails, PostSignal, CliNotified, UserAcquire,
            UserCall, otTaskletsSignalPending, UserRelease, UserStep, LiveInv
      <3> QED
        BY <3>1, <3>2 DEF LiveInv
    <2> QED
      BY <1>3, <2>1, <2>2, <2>3, <2>4, <2>5 DEF Tasks
  <1> QED
    BY <1>1, <1>2, <1>3 DEF DeviceNext

(* Nobody posts too early and the loop does not move by itself.            *)
LEMMA LiveSafety == DeviceSpec => []LiveInv
  <1>1. DeviceInit => LiveInv
    BY DEF DeviceInit, Boot, Init, LiveInv
  <1> QED
    BY <1>1, NextLiveInv, BootSafety, PTL DEF DeviceSpec

(* esp_openthread_lock.h, thread_end_device.c: inside OpenThread the main  *)
(* loop meets neither a task that goes through the lock nor app_main and   *)
(* the cleanup, which do not.                                              *)
THEOREM LoopAloneInside == DeviceSpec => []MainLoopAlone
  <1>1. IInv /\ BootInv /\ LiveInv => MainLoopAlone
    <2> SUFFICES ASSUME IInv, BootInv, LiveInv, main \in Inside
                 PROVE  /\ \A u \in Users : ~InOpenThread(u)
                        /\ app \in {"adc", "settle", "done"}
                        /\ thread = "loop"
      BY DEF MainLoopAlone
    <2>1. thread = "loop" /\ app \in {"adc", "settle", "done"}
      BY DEF Inside, LiveInv, BootInv
    <2>2. \A u \in Users : ~InOpenThread(u)
      BY TasksAssumption DEF IInv, InOpenThreadLocked
    <2> QED
      BY <2>1, <2>2
  <1> QED
    BY <1>1, DeviceSafety, BootSafety, LiveSafety, PTL

(* esp_openthread_task_queue.c, thread_end_device.c: a signal finds its    *)
(* eventfd until thread_process has unregistered them and is gone.         *)
THEOREM SignalsFindEventfd == DeviceSpec => []SignalsLand
  <1>1. BootInv /\ LiveInv => SignalsLand
    <2> SUFFICES ASSUME BootInv, LiveInv, Signalling
                 PROVE  "task_queue" \in fds /\ (max_fds > 0 \/ thread = "deleted")
      BY DEF SignalsLand
    <2>1. app \notin NoQueue
      BY DEF Signalling, LiveInv
    <2> QED
      BY <2>1 DEF BootInv, NoQueue, NoEventfds, Glued, AppSteps, ThreadSteps
  <1> QED
    BY <1>1, BootSafety, LiveSafety, PTL

----------------------------------------------------------------------------
(* Types *)

(* A list of workflows stays one when a workflow comes or goes.            *)
LEMMA WorkflowsType ==
  ASSUME NEW name \in Parts, workflows \in Seq(Parts),
         workflow_register(name) \/ workflow_unregister(name)
  PROVE  workflows' \in Seq(Parts)
  <1>1. CASE workflow_register(name)
    <2>1. workflows' = workflows \/ workflows' = Append(workflows, name)
      BY <1>1 DEF workflow_register
    <2> QED
      BY <2>1
  <1>2. CASE workflow_unregister(name)
    <2> DEFINE First(k) == workflows[k] = name /\ \A j \in 1..(k - 1) : workflows[j] # name
               Without(k) == SubSeq(workflows, 1, k - 1)
                             \o SubSeq(workflows, k + 1, Len(workflows))
               first == CHOOSE k \in DOMAIN workflows : First(k)
    <2>1. CASE \E k \in DOMAIN workflows : First(k)
      <3>1. workflows' = Without(first)
        BY <1>2, <2>1 DEF workflow_unregister
      <3>2. first \in DOMAIN workflows
        <4> HIDE DEF First
        <4> QED
          BY <2>1
      <3>3. first \in 1..Len(workflows) /\ Len(workflows) \in Nat
        BY <3>2
      <3> HIDE DEF first
      <3>4. \A i \in 1..Len(workflows) : workflows[i] \in Parts
        OBVIOUS
      <3>5. /\ \A i \in 1..(first - 1) : workflows[i] \in Parts
            /\ \A i \in (first + 1)..Len(workflows) : workflows[i] \in Parts
        BY <3>3, <3>4
      <3>6. SubSeq(workflows, 1, first - 1) \in Seq(Parts)
        BY <3>3, <3>5, SubSeqProperties
      <3>7. SubSeq(workflows, first + 1, Len(workflows)) \in Seq(Parts)
        BY <3>3, <3>5, SubSeqProperties
      <3> QED
        BY <3>1, <3>6, <3>7, ConcatProperties
    <2>2. CASE ~\E k \in DOMAIN workflows : First(k)
      <3>1. workflows' = workflows
        BY <1>2, <2>2 DEF workflow_unregister
      <3> QED
        BY <3>1
    <2> QED
      BY <2>1, <2>2
  <1> QED
    BY <1>1, <1>2

(* The type invariant but for the flag.                                    *)
StatesTypeOK == /\ app \in AppSteps /\ thread \in ThreadSteps
                /\ max_fds \in 0..3 /\ fds \subseteq {"task_queue", "radio", "glue"}
                /\ up \subseteq Parts
                /\ workflows \in Seq(Parts)
                /\ workers \in 0..MaxWorkers

LEMMA NextDeviceTypeOK == DeviceTypeOK /\ [DeviceNext]_dvars => DeviceTypeOK'
  <1> SUFFICES ASSUME StatesTypeOK, cli_up \in BOOLEAN, [DeviceNext]_dvars
               PROVE  StatesTypeOK' /\ cli_up' \in BOOLEAN
    BY DEF DeviceTypeOK, StatesTypeOK
  <1>r. CASE Restart
    <2>1. StatesTypeOK'
      BY <1>r, MaxWorkersAssumption DEF Restart, StatesTypeOK, AppSteps, ThreadSteps
    <2> QED
      BY <1>r, <2>1 DEF Restart
  <1>1. CASE UNCHANGED device
    BY <1>1 DEF device, StatesTypeOK
  <1>2. CASE AppMain
    <2>1. ASSUME NEW from \in Parts, NEW to \in AppSteps, BringUp(from, to) \/ CallOpenThread(from, to)
          PROVE  StatesTypeOK' /\ cli_up' \in BOOLEAN
      BY <2>1 DEF BringUp, CallOpenThread, AppStep, StatesTypeOK
    <2>2. ASSUME NEW from \in {"task_queue", "radio", "glue"}, NEW to \in AppSteps,
                 eventfd(from, to)
          PROVE  StatesTypeOK' /\ cli_up' \in BOOLEAN
      <3>1. from \in Parts
        BY DEF Parts, AppSteps
      <3>2. workflows' \in Seq(Parts)
        BY <2>2, <3>1, WorkflowsType DEF eventfd, StatesTypeOK
      <3> QED
        BY <2>2, <3>1, <3>2 DEF eventfd, AppStep, StatesTypeOK
    <2>3. CASE esp_openthread_alarm_init
      <3>1. "alarm" \in Parts /\ "uart" \in AppSteps
        BY DEF Parts, AppSteps
      <3>2. workflows' \in Seq(Parts)
        BY <2>3, <3>1, WorkflowsType DEF esp_openthread_alarm_init, StatesTypeOK
      <3> QED
        BY <2>3, <3>1, <3>2 DEF esp_openthread_alarm_init, AppStep, StatesTypeOK
    <2>4. CASE esp_vfs_eventfd_register \/ CreateThreadProcess \/ launch_pm25_test_task
      <3>1. /\ UNCHANGED <<fds, up, workflows, workers>>
            /\ app' \in AppSteps /\ thread' \in ThreadSteps \cup {thread}
            /\ max_fds' \in {max_fds, 3}
        BY <2>4 DEF esp_vfs_eventfd_register, CreateThreadProcess, launch_pm25_test_task,
           AppStep, AppSteps, ThreadSteps
      <3>2. StatesTypeOK'
        BY <3>1 DEF StatesTypeOK
      <3> QED
        BY <2>4, <3>2 DEF esp_vfs_eventfd_register, CreateThreadProcess, launch_pm25_test_task
    <2>5. CASE esp_openthread_task_queue_init \/ esp_openthread_radio_init
               \/ esp_openthread_netif_glue_init
      BY <2>5, <2>2 DEF esp_openthread_task_queue_init, esp_openthread_radio_init,
         esp_openthread_netif_glue_init, AppSteps
    <2>6. CASE ErrorCheckFails
      BY <2>6, <1>r DEF ErrorCheckFails
    <2> QED
      BY <1>2, <2>1, <2>3, <2>4, <2>5, <2>6
      DEF AppMain, nvs_flash_init, esp_event_loop_create_default, esp_netif_init,
          esp_openthread_lock_init, esp_openthread_host_interface_init, esp_openthread_init,
          otSetStateChangedCallback, config_joiner_dataset, adc_init, Parts, AppSteps
  <1>3. CASE Tasks
    <2>1. CASE esp_openthread_launch_mainloop \/ LoopReturns
               \/ esp_netif_destroy \/ esp_vfs_eventfd_unregister
      <3>1. /\ UNCHANGED <<app, fds, up, workflows, workers>>
            /\ thread' \in ThreadSteps /\ max_fds' \in {max_fds, 0}
        BY <2>1 DEF esp_openthread_launch_mainloop, LoopReturns, esp_netif_destroy,
           esp_vfs_eventfd_unregister, ThreadStep, ThreadSteps
      <3>2. StatesTypeOK'
        BY <3>1 DEF StatesTypeOK
      <3> QED
        BY <2>1, <3>2 DEF esp_openthread_launch_mainloop, LoopReturns, esp_netif_destroy,
           esp_vfs_eventfd_unregister
    <2>2. CASE coapClientStartCallback
      BY <2>2, MaxWorkersAssumption DEF coapClientStartCallback, StatesTypeOK
    <2>3. CASE esp_openthread_netif_glue_deinit
      <3>1. "glue" \in Parts
        BY DEF Parts, AppSteps
      <3>2. workflows' \in Seq(Parts)
        BY <2>3, <3>1, WorkflowsType DEF esp_openthread_netif_glue_deinit, StatesTypeOK
      <3> QED
        BY <2>3, <3>2 DEF esp_openthread_netif_glue_deinit, ThreadStep, StatesTypeOK,
           ThreadSteps
    <2>4. CASE Loop(MainNext) \/ Loop(MainFails) \/ Loop(MainProcessFails) \/ Outside
               \/ (\E p \in Posters : Signal(PostSignal(p)))
               \/ (\E u \in Users : Signal(otTaskletsSignalPending(u)))
      BY <2>4, <1>1 DEF Loop, Outside, Signal
    <2>5. CASE \/ SignalFails \/ set_event \/ openthread_netif_transmit
               \/ bme68x_data_retrieve \/ otPlatReset
      BY <2>5, <1>r DEF SignalFails, set_event, openthread_netif_transmit,
         bme68x_data_retrieve, otPlatReset
    <2> QED
      BY <1>3, <2>1, <2>2, <2>3, <2>4, <2>5 DEF Tasks
  <1> QED
    BY <1>1, <1>2, <1>3 DEF DeviceNext, dvars

(* thread_end_device.c: what the device keeps of itself has its type; the  *)
(* count of eventfds and the list of workflows among it                    *)
(* (esp_openthread_platform.cpp:34-86).                                    *)
THEOREM DeviceTypeCorrect == DeviceSpec => []DeviceTypeOK
  <1>1. DeviceInit => DeviceTypeOK
    <2> SUFFICES ASSUME DeviceInit PROVE StatesTypeOK /\ cli_up \in BOOLEAN
      BY DEF DeviceTypeOK, StatesTypeOK
    <2>1. StatesTypeOK
      BY MaxWorkersAssumption DEF DeviceInit, Boot, StatesTypeOK, AppSteps, ThreadSteps
    <2> QED
      BY <2>1 DEF DeviceInit, Boot
  <1> QED
    BY <1>1, NextDeviceTypeOK, PTL DEF DeviceSpec
=============================================================================
