------------------------------ MODULE EndDevice ------------------------------
(***************************************************************************)
(* The end device as a whole,                                              *)
(* my_projects/thread_end_device/main/src/thread_end_device.c: app_main    *)
(* brings the system up, esp_openthread_platform_init with its list of     *)
(* workflows included, and starts thread_process, which starts the command *)
(* line task, runs the OpenThread main loop (OtMainloop) and cleans up     *)
(* when the loop ends; the state-changed callback starts coap_process      *)
(* tasks; a failed assertion or ESP_ERROR_CHECK anywhere restarts the      *)
(* chip.                                                                   *)
(*                                                                         *)
(* The work of the other tasks is modelled in CoapClient, Pm25, GasIaq and *)
(* Mhz19c.                                                                 *)
(***************************************************************************)
EXTENDS OtMainloop, FiniteSets

CONSTANTS MaxWorkers    \* bound: coap_process tasks

ASSUME MaxWorkersAssumption == MaxWorkers \in Nat

VARIABLES app,          \* where app_main is
          max_fds,      \* eventfds that can be open, 0 when none are registered
          fds,          \* eventfds that are open
          up,           \* what has been initialized
          workflows,    \* s_workflow_list
          thread,       \* where thread_process is
          cli_up,       \* ot_cli exists
          workers       \* number of coap_process tasks

device == <<app, max_fds, fds, up, workflows, thread, cli_up, workers>>

dvars == <<device, vars>>

AppSteps == {"nvs", "event_loop", "netif", "eventfd", "lock", "alarm", "uart",
             "task_queue", "radio", "instance", "glue", "callback", "dataset", "create",
             "adc", "settle", "done"}

ThreadSteps == {"none", "start", "loop", "glue", "netif", "eventfd", "deleted"}

Parts == AppSteps \ {"eventfd", "create", "settle", "done"}

Boot == /\ app = "nvs"
        /\ max_fds = 0 /\ fds = {} /\ up = {} /\ workflows = <<>>
        /\ thread = "none" /\ cli_up = FALSE /\ workers = 0

DeviceInit == Boot /\ Init /\ ~tasklets

(* The chip restarts: everything is as after power-on.                     *)
Restart == /\ app' = "nvs"
           /\ max_fds' = 0 /\ fds' = {} /\ up' = {} /\ workflows' = <<>>
           /\ thread' = "none" /\ cli_up' = FALSE /\ workers' = 0
           /\ queue' = <<>> /\ tasklets' = FALSE /\ event' = FALSE
           /\ lock' = NoTask /\ main' = "top" /\ isset' = FALSE /\ poll' = FALSE
           /\ post' = [p \in Posters |-> "idle"]
           /\ user' = [u \in Users |-> "idle"]
           /\ running' = FALSE /\ notify' = FALSE /\ lines' = 0 /\ leaked' = 0

----------------------------------------------------------------------------
(* app_main and thread_instance_init *)

AppStep(from, to) == app = from /\ app' = to

(* esp_openthread_platform_workflow_register: to the end of the list, once. *)
workflow_register(name) ==
  workflows' = IF \E i \in DOMAIN workflows : workflows[i] = name
               THEN workflows ELSE Append(workflows, name)

(* esp_openthread_platform_workflow_unregister: the first of that name goes. *)
workflow_unregister(name) ==
  LET First(k) == workflows[k] = name /\ \A j \in 1..(k - 1) : workflows[j] # name
      Without(k) == SubSeq(workflows, 1, k - 1) \o SubSeq(workflows, k + 1, Len(workflows))
  IN  workflows' = IF \E k \in DOMAIN workflows : First(k)
                   THEN Without(CHOOSE k \in DOMAIN workflows : First(k)) ELSE workflows

(* A call under ESP_ERROR_CHECK, or one that cannot fail.                  *)
BringUp(from, to) == /\ AppStep(from, to)
                     /\ up' = up \cup {from}
                     /\ UNCHANGED <<max_fds, fds, workflows, thread, cli_up, workers, vars>>

nvs_flash_init == BringUp("nvs", "event_loop")

esp_event_loop_create_default == BringUp("event_loop", "netif")

esp_netif_init == BringUp("netif", "eventfd")

(* Slip: the netif was not counted in max_fds.                             *)
RegisterTwo == /\ AppStep("eventfd", "lock")
               /\ max_fds' = 2
               /\ UNCHANGED <<fds, up, workflows, thread, cli_up, workers, vars>>

esp_vfs_eventfd_register == /\ AppStep("eventfd", "lock")
                            /\ max_fds' = 3
                            /\ UNCHANGED <<fds, up, workflows, thread, cli_up, workers, vars>>

(* esp_openthread_platform_init                                            *)
esp_openthread_lock_init == BringUp("lock", "alarm")

esp_openthread_alarm_init == /\ AppStep("alarm", "uart")
                             /\ up' = up \cup {"alarm"}
                             /\ workflow_register("alarm")
                             /\ UNCHANGED <<max_fds, fds, thread, cli_up, workers, vars>>

(* The console is the UART's and is read by ot_cli: no workflow.           *)
esp_openthread_host_interface_init == BringUp("uart", "task_queue")

(* eventfd(), for the task queue, the radio and the network interface, and *)
(* the workflow that waits on it.                                          *)
eventfd(from, to) == /\ Cardinality(fds) < max_fds
                     /\ AppStep(from, to)
                     /\ fds' = fds \cup {from}
                     /\ up' = up \cup {from}
                     /\ workflow_register(from)
                     /\ UNCHANGED <<max_fds, thread, cli_up, workers, vars>>

esp_openthread_task_queue_init == eventfd("task_queue", "radio")

esp_openthread_radio_init == eventfd("radio", "instance")

(* OpenThread is called before there is a main loop; the call may leave    *)
(* tasklets behind, which are signalled.                                   *)
CallOpenThread(from, to) ==
  /\ AppStep(from, to)
  /\ up' = up \cup {from}
  /\ tasklets' \in {tasklets, TRUE}
  /\ event' = (event \/ tasklets')
  /\ UNCHANGED <<max_fds, fds, workflows, thread, cli_up, workers,
                 queue, lock, main, isset, poll, others>>

(* otInstanceInitSingle, and the command line on top of it.                *)
esp_openthread_init == CallOpenThread("instance", "glue")

esp_openthread_netif_glue_init == eventfd("glue", "callback")

otSetStateChangedCallback == BringUp("callback", "dataset")

config_joiner_dataset == CallOpenThread("dataset", "create")

(* Slip: thread_process is created before the callback is set.             *)
CreateEarly == /\ \/ AppStep("callback", "dataset") /\ up' = up
                  \/ AppStep("create", "adc") /\ up' = up \cup {"callback"}
               /\ thread' = IF thread = "none" THEN "start" ELSE thread
               /\ UNCHANGED <<max_fds, fds, workflows, cli_up, workers, vars>>

(* xTaskCreate(thread_process): its result is not looked at.               *)
CreateThreadProcess == /\ AppStep("create", "adc")
                       /\ thread' \in {"none", "start"}
                       /\ UNCHANGED <<max_fds, fds, up, workflows, cli_up, workers, vars>>

adc_init == BringUp("adc", "settle")

(* The five seconds, and launch_pm25_test_task; app_main returns.          *)
launch_pm25_test_task ==
  /\ AppStep("settle", "done")
  /\ UNCHANGED <<max_fds, fds, up, workflows, thread, cli_up, workers, vars>>

(* Any of the checked calls may fail.                                      *)
ErrorCheckFails == /\ app \in AppSteps \ {"callback", "dataset", "create", "settle", "done"}
                   /\ Restart

AppMain == \/ nvs_flash_init \/ esp_event_loop_create_default \/ esp_netif_init
           \/ esp_vfs_eventfd_register \/ esp_openthread_lock_init
           \/ esp_openthread_alarm_init \/ esp_openthread_host_interface_init
           \/ esp_openthread_task_queue_init
           \/ esp_openthread_radio_init \/ esp_openthread_init
           \/ esp_openthread_netif_glue_init \/ otSetStateChangedCallback
           \/ config_joiner_dataset \/ CreateThreadProcess \/ adc_init
           \/ launch_pm25_test_task \/ ErrorCheckFails

----------------------------------------------------------------------------
(* thread_process, ot_cli, the callback and coap_process *)

ThreadStep(from, to) == thread = from /\ thread' = to

(* esp_openthread_cli_create_task, then the main loop.                     *)
esp_openthread_launch_mainloop ==
  /\ ThreadStep("start", "loop")
  /\ cli_up' \in BOOLEAN
  /\ UNCHANGED <<app, max_fds, fds, up, workflows, workers, vars>>

(* A step of the main loop.                                                *)
Loop(step) == thread = "loop" /\ step /\ UNCHANGED device

(* The device joins: a tasklet runs the callback, which creates a          *)
(* coap_process.                                                           *)
coapClientStartCallback ==
  /\ thread = "loop" /\ main = "tasklets" /\ tasklets
  /\ workers < MaxWorkers
  /\ workers' = workers + 1
  /\ UNCHANGED <<app, max_fds, fds, up, workflows, thread, cli_up, vars>>

(* Slip: the eventfds go first.                                            *)
LoopReturnsUnregistered ==
  /\ main = "failed" /\ ThreadStep("loop", "glue")
  /\ max_fds' = 0
  /\ UNCHANGED <<app, fds, up, workflows, cli_up, workers, vars>>

(* The main loop has failed and returns.                                   *)
LoopReturns ==
  /\ main = "failed" /\ ThreadStep("loop", "glue")
  /\ UNCHANGED <<app, max_fds, fds, up, workflows, cli_up, workers, vars>>

(* The three steps of the cleanup, and vTaskDelete.                        *)
esp_openthread_netif_glue_deinit ==
  /\ ThreadStep("glue", "netif")
  /\ fds' = fds \ {"glue"}
  /\ up' = up \ {"glue"}
  /\ workflow_unregister("glue")
  /\ UNCHANGED <<app, max_fds, cli_up, workers, vars>>

esp_netif_destroy ==
  /\ ThreadStep("netif", "eventfd")
  /\ UNCHANGED <<app, max_fds, fds, up, workflows, cli_up, workers, vars>>

(* Slip: the error value of a descriptor is stored for the count.          *)
UnregisterMinusOne ==
  /\ ThreadStep("eventfd", "deleted")
  /\ max_fds' = -1
  /\ UNCHANGED <<app, fds, up, workflows, cli_up, workers, vars>>

esp_vfs_eventfd_unregister ==
  /\ ThreadStep("eventfd", "deleted")
  /\ max_fds' = 0
  /\ UNCHANGED <<app, fds, up, workflows, cli_up, workers, vars>>

(* Tasks post from the moment they exist, or the task queue does; lwIP's   *)
(* task is there with the network interface.                               *)
Outside == /\ \/ \E p \in Posters : /\ IF p = Cli THEN cli_up ELSE "instance" \in up
                                    /\ PostBegin(p)
              \/ \E p \in Posters : PostSend(p) \/ PostFails(p)
              \/ CliNotified
              \/ \E u \in Users : "glue" \in up /\ UserBegin(u)
              \/ \E u \in Users : UserAcquire(u) \/ UserCall(u) \/ UserRelease(u)
           /\ UNCHANGED device

Signal(write) == max_fds > 0 /\ write /\ UNCHANGED device

(* The descriptor is gone: the assertion after the write fails.            *)
Signalling == \/ \E p \in Posters : post[p] = "signal"
              \/ \E u \in Users : user[u] = "signal"

SignalFails == max_fds = 0 /\ Signalling /\ Restart

(* So it is for the radio's interrupt when a frame comes in.               *)
set_event == max_fds = 0 /\ "radio" \in up /\ Restart

(* lwIP sends a packet through an interface whose packet queue is deleted  *)
(* and NULL: xQueueSend asserts.                                           *)
openthread_netif_transmit == thread = "netif" /\ lock = NoTask /\ Restart

(* coap_process calls bme68x_data_retrieve.  Nobody has called             *)
(* bme68x_i2c_init, so bme_sensor_mutex is NULL and xSemaphoreTake asserts. *)
bme68x_data_retrieve == workers > 0 /\ Restart

(* A command line asks for a reset (reset, factoryreset): otPlatReset, in  *)
(* the main loop.                                                          *)
otPlatReset == /\ thread = "loop" /\ main = "drain"
               /\ queue # <<>> /\ Head(queue) = Cli
               /\ Restart

Tasks == \/ esp_openthread_launch_mainloop \/ coapClientStartCallback
         \/ Loop(MainNext) \/ Loop(MainFails) \/ Loop(MainProcessFails)
         \/ LoopReturns \/ esp_openthread_netif_glue_deinit
         \/ esp_netif_destroy \/ esp_vfs_eventfd_unregister
         \/ Outside \/ SignalFails \/ set_event \/ openthread_netif_transmit
         \/ bme68x_data_retrieve \/ otPlatReset
         \/ \E p \in Posters : Signal(PostSignal(p))
         \/ \E u \in Users : Signal(otTaskletsSignalPending(u))

(* Everything may come to rest: app_main returns, thread_process is        *)
(* deleted, ot_cli waits for a notification.                               *)
DeviceNext == AppMain \/ Tasks

DeviceSpec == DeviceInit /\ [][DeviceNext]_dvars

----------------------------------------------------------------------------
(* Fairness.  The main loop runs when it is ready, and of select only what *)
(* the eventfd and a zero timeout promise is assumed, not its ten seconds. *)
(* Those who share the lock take it for rare events and give it back, so   *)
(* the loop gets it in the end.  Tasklets do not go on for ever.  A        *)
(* command that prompts later waits for a timer or for the radio, which    *)
(* wake select, and ends.                                                  *)

MainWakes == MainSelect /\ (event \/ poll \/ running)

Fairness ==
  /\ WF_dvars(Loop(MainUpdate \/ MainWakes \/ MainRead \/ MainRun \/ MainDrained
                   \/ MainRelease))
  /\ SF_dvars(Loop(MainTop)) /\ SF_dvars(Loop(MainWoken))
  /\ SF_dvars(Loop(MainTasklets /\ ~tasklets')) /\ SF_dvars(Loop(CommandEnds))
  /\ \A p \in Posters :
       WF_dvars(\/ (PostSend(p) \/ PostFails(p)) /\ UNCHANGED device
                \/ Signal(PostSignal(p)))
  /\ WF_dvars(CliNotified /\ UNCHANGED device)
  /\ \A u \in Users :
       WF_dvars(\/ (UserCall(u) \/ UserRelease(u)) /\ UNCHANGED device
                \/ Signal(otTaskletsSignalPending(u)))

DeviceFairSpec == DeviceSpec /\ Fairness

----------------------------------------------------------------------------
(* PROPERTIES *)

(* Every variable keeps its type; no more eventfds can be open than        *)
(* app_main asked for.                                                     *)
DeviceTypeOK == /\ app \in AppSteps /\ thread \in ThreadSteps /\ cli_up \in BOOLEAN
                /\ max_fds \in 0..3 /\ fds \subseteq {"task_queue", "radio", "glue"}
                /\ up \subseteq Parts
                /\ workflows \in Seq(Parts)
                /\ workers \in 0..MaxWorkers

(* thread_end_device.c:84-103 and 141-142: whenever the main loop runs,    *)
(* after whatever restarts, all it waits on and calls back is there: the   *)
(* three eventfds, the four workflows in their order, the instance, the    *)
(* interface, the callback, the dataset; and app_main is past its own      *)
(* calls into OpenThread, which it makes without the lock.                 *)
LoopEquipped ==
  thread \in {"start", "loop"} =>
    /\ max_fds > 0 /\ fds = {"task_queue", "radio", "glue"}
    /\ workflows = <<"alarm", "task_queue", "radio", "glue">>
    /\ {"lock", "instance", "glue", "callback", "dataset"} \subseteq up
    /\ app \in {"adc", "settle", "done"}

(* thread_end_device.c:128-131 "Used eventfds: netif, ot task queue, radio *)
(* driver": on every boot a slot is left when one of the three asks for it *)
(* (esp_openthread_radio_init does not look at what eventfd returns).      *)
EnoughEventfds ==
  app \in {"task_queue", "radio", "glue"} => Cardinality(fds) < max_fds

(* esp_openthread_lock.h:38-39, thread_end_device.c:92-142: while the main *)
(* loop is inside OpenThread it is there alone of those modelled here: no  *)
(* task that goes through the lock is, app_main has made its last call     *)
(* without the lock and thread_process has not begun to take the interface *)
(* down.                                                                   *)
MainLoopAlone ==
  main \in Inside => /\ \A u \in Users : ~InOpenThread(u)
                     /\ app \in {"adc", "settle", "done"}
                     /\ thread = "loop"

(* thread_end_device.c:119-122, esp_openthread_task_queue.c:48 and 69 (the *)
(* assert behind the write): a task that has queued work, or made a        *)
(* tasklet pending, finds the eventfd to signal it, through the whole of   *)
(* the boot and of the cleanup, until the last step of the cleanup has     *)
(* unregistered the eventfds under it.                                     *)
SignalsLand ==
  Signalling => /\ "task_queue" \in fds
                /\ max_fds > 0 \/ thread = "deleted"
=============================================================================
