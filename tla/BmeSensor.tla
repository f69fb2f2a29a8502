------------------------------ MODULE BmeSensor ------------------------------
(***************************************************************************)
(* The reading of the BME680 by bme68x_data_retrieve in                    *)
(* my_projects/thread_end_device/main/src/sensors.c, through bme68x_lib    *)
(* and Bosch's driver, by several tasks (every coap_process, the test task *)
(* and the gas refresh task) that share one bme68x_lib_t.                  *)
(*                                                                         *)
(* Calls are numbered in the order they get the mutex, a measurement bears *)
(* the number of the call that started it and 0 stands for the zeroes of a *)
(* structure that was never filled.  The I2C bus may fail any transfer.    *)
(* The chip measures in its own time, which may be longer than the driver  *)
(* polls: 16x oversampling twice and 150 ms of heating take some 200 ms,   *)
(* the five polls 50 ms.  Whether reading the result or starting a         *)
(* measurement clears the chip's new-data flag is left open.  The formulas *)
(* that turn raw values into degrees, percents and ohms are left out.      *)
(***************************************************************************)
EXTENDS Integers, FiniteSets

CONSTANTS Tasks,
          TRIES,        \* tries of read_field_data: 5
          MaxCalls,     \* bound on the calls, for model checking
          NoTask, Uninitialized

ASSUME TriesAssumption == TRIES \in Nat \ {0}

ASSUME CallsAssumption == MaxCalls \in Nat

ASSUME NoTaskAssumption == NoTask \notin Tasks

VARIABLES mutex,        \* holder of bme_sensor_mutex, or NoTask
          last_op_mode, \* sensor.last_op_mode: "sleep" or "forced"
          sensor_data,  \* sensor.sensor_data[0], a Field
          n_fields,     \* sensor.n_fields
          pc,           \* [Tasks -> Steps]
          call,         \* [Tasks -> Nat]: the call the task is in
          tries,        \* [Tasks -> 0..TRIES]
          buff,         \* [Tasks -> Field]: what a burst read
          data,         \* [Tasks -> Field or Uninitialized]: the caller's
          calls,        \* history: calls that got the mutex so far
          delivered,    \* history: measurement of the last data handed out
          mode,         \* chip: power mode in CTRL_MEAS
          running,      \* chip: measurement in progress, or 0
          field         \* chip: FIELD0, a Field

chip == <<mode, running, field>>

lib == <<last_op_mode, sensor_data, n_fields>>

vars == <<mutex, lib, pc, call, tries, buff, data, calls, delivered, chip>>

Steps == {"idle", "take", "mode", "force", "fetch", "poll", "heater", "get",
          "give", "return"}

Field == [new : BOOLEAN, of : Nat]

Zeroes == [new |-> FALSE, of |-> 0]

TypeOK == /\ mutex \in Tasks \cup {NoTask}
          /\ last_op_mode \in {"sleep", "forced"}
          /\ sensor_data \in Field /\ n_fields \in 0..1
          /\ pc \in [Tasks -> Steps]
          /\ call \in [Tasks -> Nat]
          /\ tries \in [Tasks -> 0..TRIES]
          /\ buff \in [Tasks -> Field]
          /\ data \in [Tasks -> Field \cup {Uninitialized}]
          /\ calls \in Nat /\ delivered \in Nat
          /\ mode \in {"sleep", "forced"} /\ running \in Nat
          /\ field \in Field

Init == /\ mutex = NoTask
        /\ last_op_mode = "sleep" /\ sensor_data = Zeroes /\ n_fields = 0
        /\ pc = [t \in Tasks |-> "idle"]
        /\ call = [t \in Tasks |-> 0]
        /\ tries = [t \in Tasks |-> 0]
        /\ buff = [t \in Tasks |-> Zeroes]
        /\ data = [t \in Tasks |-> Uninitialized]
        /\ calls = 0 /\ delivered = 0
        /\ mode = "sleep" /\ running = 0 /\ field = Zeroes

Step(t, from, to) == pc[t] = from /\ pc' = [pc EXCEPT ![t] = to]

(* Slips of the code below, which the properties must notice.              *)

(* The mutex is not waited for.                                            *)
TakeAnyway(t) == /\ Step(t, "take", "mode")
                 /\ mutex' = t
                 /\ calls' = calls + 1
                 /\ call' = [call EXCEPT ![t] = calls + 1]
                 /\ UNCHANGED <<lib, tries, buff, data, delivered, chip>>

(* The result of the transfers is ignored and the new-data flag trusted.   *)
HeaterFailsUnseen(t) == /\ Step(t, "heater", "get")
                        /\ n_fields' = 1
                        /\ UNCHANGED <<mutex, last_op_mode, sensor_data, call,
                                       tries, buff, data, calls, delivered, chip>>

(* The loop waits for the chip to fall asleep of itself.                   *)
WaitForSleep(t) == /\ Step(t, "mode", "mode")
                   /\ mode = "forced"
                   /\ UNCHANGED <<mutex, lib, call, tries, buff, data, calls,
                                  delivered, chip>>

(* The tries are not checked.                                              *)
PollUnbounded(t) ==
  /\ pc[t] = "poll"
  /\ buff' = [buff EXCEPT ![t] = field]
  /\ sensor_data' = [sensor_data EXCEPT !.new = field.new]
  /\ \E b \in {FALSE, field.new} : field' = [field EXCEPT !.new = b]
  /\ IF field.new
     THEN pc' = [pc EXCEPT ![t] = "heater"] /\ UNCHANGED tries
     ELSE tries' = [tries EXCEPT ![t] = @ - 1] /\ UNCHANGED pc
  /\ UNCHANGED <<mutex, last_op_mode, n_fields, call, data, calls, delivered,
                 mode, running>>
-----------------------------------------------------------------------------
(* A task declares bme68x_data_t data and calls bme68x_data_retrieve.      *)
Call(t) == /\ Step(t, "idle", "take")
           /\ calls + Cardinality({u \in Tasks : pc[u] = "take"}) < MaxCalls
           /\ data' = [data EXCEPT ![t] = Uninitialized]
           /\ UNCHANGED <<mutex, lib, call, tries, buff, calls, delivered, chip>>

Take(t) == /\ Step(t, "take", "mode")
           /\ mutex = NoTask
           /\ mutex' = t
           /\ calls' = calls + 1
           /\ call' = [call EXCEPT ![t] = calls + 1]
           /\ UNCHANGED <<lib, tries, buff, data, delivered, chip>>

(* bme68x_set_op_mode finds the chip asleep ...                            *)
Asleep(t) == /\ Step(t, "mode", "force")
             /\ mode = "sleep"
             /\ UNCHANGED <<mutex, lib, call, tries, buff, data, calls,
                            delivered, chip>>

(* ... or puts it to sleep, which ends the measurement in progress, waits  *)
(* and looks again.                                                        *)
PutToSleep(t) == /\ Step(t, "mode", "mode")
                 /\ mode = "forced"
                 /\ mode' = "sleep" /\ running' = 0
                 /\ UNCHANGED <<mutex, lib, call, tries, buff, data, calls,
                                delivered, field>>

(* The write that starts a measurement; only then is last_op_mode set.     *)
StartMeasurement(t) ==
  /\ Step(t, "force", "fetch")
  /\ mode' = "forced" /\ running' = call[t]
  /\ \E b \in {FALSE, field.new} : field' = [field EXCEPT !.new = b]
  /\ last_op_mode' = "forced"
  /\ UNCHANGED <<mutex, sensor_data, n_fields, call, tries, buff, data, calls,
                 delivered>>

(* A transfer of bme68x_set_op_mode fails and leaves the chip as it is;    *)
(* bme68x_data_retrieve goes on.                                           *)
ModeFails(t) == /\ pc[t] \in {"mode", "force"}
                /\ pc' = [pc EXCEPT ![t] = "fetch"]
                /\ UNCHANGED <<mutex, lib, call, tries, buff, data, calls,
                               delivered, chip>>

(* bme68x_lib_fetch_data reads field 0, in forced mode only ...            *)
Fetch(t) == /\ Step(t, "fetch", "poll")
            /\ last_op_mode = "forced"
            /\ n_fields' = 0
            /\ tries' = [tries EXCEPT ![t] = TRIES]
            /\ buff' = [buff EXCEPT ![t] = Zeroes]
            /\ UNCHANGED <<mutex, last_op_mode, sensor_data, call, data, calls,
                           delivered, chip>>

(* ... and is BME68X_W_DEFINE_OP_MODE until the mode was once set.         *)
FetchUndefined(t) == /\ Step(t, "fetch", "get")
                     /\ last_op_mode = "sleep"
                     /\ n_fields' = 0
                     /\ UNCHANGED <<mutex, last_op_mode, sensor_data, call,
                                    tries, buff, data, calls, delivered, chip>>

(* One try of read_field_data: the status is stored at once, the values    *)
(* only later.  Without new data it waits and tries again.                 *)
Poll(t) == /\ pc[t] = "poll" /\ tries[t] > 0
           /\ buff' = [buff EXCEPT ![t] = field]
           /\ sensor_data' = [sensor_data EXCEPT !.new = field.new]
           /\ \E b \in {FALSE, field.new} : field' = [field EXCEPT !.new = b]
           /\ IF field.new
              THEN pc' = [pc EXCEPT ![t] = "heater"] /\ UNCHANGED tries
              ELSE tries' = [tries EXCEPT ![t] = @ - 1] /\ UNCHANGED pc
           /\ UNCHANGED <<mutex, last_op_mode, n_fields, call, data, calls,
                          delivered, mode, running>>

(* The burst fails: the status comes from what the buffer happens to hold. *)
PollFails(t) == /\ tries[t] > 0
                /\ Step(t, "poll", "get")
                /\ \E b \in BOOLEAN : sensor_data' = [sensor_data EXCEPT !.new = b]
                /\ UNCHANGED <<mutex, last_op_mode, n_fields, call, tries, buff,
                               data, calls, delivered, chip>>

(* No new data in five tries: BME68X_W_NO_NEW_DATA.                        *)
NoNewData(t) == /\ tries[t] = 0
                /\ Step(t, "poll", "get")
                /\ UNCHANGED <<mutex, lib, call, tries, buff, data, calls,
                               delivered, chip>>

(* The three heater registers are read, then the values are stored.        *)
Heater(t) == /\ Step(t, "heater", "get")
             /\ sensor_data' = [sensor_data EXCEPT !.of = buff[t].of]
             /\ n_fields' = 1
             /\ UNCHANGED <<mutex, last_op_mode, call, tries, buff, data, calls,
                            delivered, chip>>

(* One of the three fails: new data are flagged, the values are the old.   *)
HeaterFails(t) == /\ Step(t, "heater", "get")
                  /\ UNCHANGED <<mutex, lib, call, tries, buff, data, calls,
                                 delivered, chip>>

(* bme68x_lib_get_data copies the field to the caller, who then corrects   *)
(* the temperature ...                                                     *)
GetData(t) == /\ Step(t, "get", "give")
              /\ n_fields > 0
              /\ data' = [data EXCEPT ![t] = sensor_data]
              /\ delivered' = sensor_data.of
              /\ UNCHANGED <<mutex, lib, call, tries, buff, calls, chip>>

(* ... unless nothing was fetched: the caller's structure is left alone.   *)
Failed(t) == /\ Step(t, "get", "give")
             /\ n_fields = 0
             /\ UNCHANGED <<mutex, lib, call, tries, buff, data, calls,
                            delivered, chip>>

Give(t) == /\ Step(t, "give", "return")
           /\ mutex' = NoTask
           /\ UNCHANGED <<lib, call, tries, buff, data, calls, delivered, chip>>

Return(t) == /\ Step(t, "return", "idle")
             /\ UNCHANGED <<mutex, lib, call, tries, buff, data, calls,
                            delivered, chip>>

(* The chip ends its measurement and goes back to sleep.                   *)
Measured == /\ mode = "forced"
            /\ mode' = "sleep" /\ running' = 0
            /\ field' = [new |-> TRUE, of |-> running]
            /\ UNCHANGED <<mutex, lib, pc, call, tries, buff, data, calls,
                           delivered>>

(* What a task does within a call, with a bus that works ...               *)
Work(t) == \/ Take(t) \/ Asleep(t) \/ PutToSleep(t)
           \/ StartMeasurement(t) \/ Fetch(t) \/ FetchUndefined(t)
           \/ Poll(t) \/ NoNewData(t) \/ Heater(t)
           \/ GetData(t) \/ Failed(t) \/ Give(t) \/ Return(t)

(* ... and when a transfer fails.                                          *)
BusFails(t) == ModeFails(t) \/ PollFails(t) \/ HeaterFails(t)

Next == Measured \/ \E t \in Tasks : Call(t) \/ Work(t) \/ BusFails(t)

Spec == Init /\ [][Next]_vars

(* FreeRTOS runs every ready task and hands a mutex to a waiter: a task is *)
(* weakly fair in a call and strongly in taking the mutex.  The chip owes  *)
(* nothing, and no failure of the bus is counted on.                       *)
FairSpec == Spec /\ \A t \in Tasks : WF_vars(Work(t)) /\ SF_vars(Take(t))
-----------------------------------------------------------------------------
(* What a caller is handed, flag and values, is what the one burst of this *)
(* very call read that found new data (bme68x.c:1207-1240): never the      *)
(* zeroes of an unfilled structure and never a new flag over the values of *)
(* an earlier call, though read_field_data stores the flag at every try    *)
(* and the values only at the end, in a structure all tasks share.         *)
WholeReading == \A t \in Tasks :
                  data[t] # Uninitialized =>
                    /\ buff[t].new /\ buff[t].of > 0
                    /\ data[t].new /\ data[t].of = buff[t].of

(* Readings do not go back in time: no task is handed a measurement older  *)
(* than one already handed out, to it or to another, and none is handed    *)
(* one that was started after its own call.                                *)
ReadingsInOrder ==
  [][\A t \in Tasks : GetData(t) =>
        /\ delivered' >= delivered
        /\ delivered' <= call[t]]_vars

Within == {"mode", "force", "fetch", "poll", "heater", "get", "give"}

Unfilled == {"take", "mode", "force", "fetch", "poll", "heater", "get"}

(* The parts of an inductive invariant for the two properties above.       *)
Exclusive == \A t \in Tasks :
               pc[t] \in Within => mutex = t /\ call[t] = calls /\ calls > 0

ChipSane == /\ mode = "forced" => running > 0
            /\ mode = "forced" => field.of <= running /\ running <= calls
            /\ field.new => field.of > 0
            /\ delivered <= field.of /\ field.of <= calls

Recent(f) == f.new /\ f.of > 0 /\ delivered <= f.of /\ f.of <= field.of

Progressing == \A t \in Tasks :
                 /\ pc[t] \in {"poll", "heater"} => n_fields = 0
                 /\ pc[t] = "heater" => Recent(buff[t]) /\ sensor_data.new
                 /\ pc[t] = "get" /\ n_fields > 0 =>
                      /\ Recent(sensor_data)
                      /\ buff[t].new /\ sensor_data.of = buff[t].of
                 /\ pc[t] \in Unfilled => data[t] = Uninitialized

IInv == TypeOK /\ Exclusive /\ ChipSane /\ Progressing /\ WholeReading

(* Every call of bme68x_data_retrieve returns: the loop until the chip     *)
(* sleeps ends and no path keeps the mutex.                                *)
RetrieveReturns == \A t \in Tasks : pc[t] = "take" ~> pc[t] = "idle"
=============================================================================
