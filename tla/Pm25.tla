-------------------------------- MODULE Pm25 --------------------------------
(***************************************************************************)
(* The PM2.5 reading of my_projects/thread_end_device/main/src/sensors.c:  *)
(* get_pm25_reading takes PM25_ADC_READINGS calibrated ADC readings, puts  *)
(* one sample made of their average into the shared buffer and returns the *)
(* buffer's average.  pm25_test_task and every coap_process call it.       *)
(*                                                                         *)
(* adc_oneshot_read (components/esp_adc/adc_oneshot.c) does not wait for   *)
(* the lock of the ADC unit: it fails when another task has it, and        *)
(* ESP_ERROR_CHECK then aborts, which restarts the chip.                   *)
(*                                                                         *)
(* The buffer's functions are single steps here, which CircularBuffer      *)
(* justifies.  A sample is an integer in units of one millivolt over       *)
(* 10 * PM25_ADC_READINGS, so that an average and its 10% are whole.       *)
(***************************************************************************)
EXTENDS WindowOps

CONSTANTS Tasks,
          Volts,                \* calibrated readings, in millivolts
          PM25_ADC_READINGS,    \* 25
          NoTask

ASSUME ReadingsAssumption == PM25_ADC_READINGS \in Nat \ {0}

ASSUME WindowAssumption == MAX_ITEMS \in Nat \ {0}

ASSUME VoltsAssumption == Volts \subseteq Nat

ASSUME NoTaskAssumption == NoTask \notin Tasks

VARIABLES window,       \* the sample buffer
          adc_lock,     \* holder of the ADC unit's lock, or NoTask
          pc,           \* [Tasks -> Steps]
          i,            \* [Tasks -> 0..PM25_ADC_READINGS]: readings taken
          total,        \* [Tasks -> Nat]: their sum
          sample,       \* [Tasks -> Nat]: pm_25_concentration
          reading,      \* [Tasks -> the record get_average returns]
          others,       \* history: samples others added since this task's own
          reset_reason  \* history: why the chip restarted last

vars == <<window, adc_lock, pc, i, total, sample, reading, others, reset_reason>>

Steps == {"off", "read", "convert", "calibrate", "add", "average", "return"}

Readings == [terms : Seq(Nat), n : Nat]

NoReading == [terms |-> <<>>, n |-> 0]

Idle(x) == [t \in Tasks |-> x]

Init == /\ window = <<>> /\ adc_lock = NoTask
        /\ pc = Idle("off")
        /\ i = Idle(0) /\ total = Idle(0) /\ sample = Idle(0)
        /\ reading = Idle(NoReading)
        /\ others = Idle(0)
        /\ reset_reason = "power_on"

(* ESP_ERROR_CHECK fails in some task: the chip restarts, the RAM is lost. *)
Abort(why) == /\ window' = <<>> /\ adc_lock' = NoTask
              /\ pc' = Idle("off")
              /\ i' = Idle(0) /\ total' = Idle(0) /\ sample' = Idle(0)
              /\ reading' = Idle(NoReading)
              /\ others' = Idle(0)
              /\ reset_reason' = why

Step(t, from, to) == pc[t] = from /\ pc' = [pc EXCEPT ![t] = to]

(* The task exists now and its loop calls get_pm25_reading.                *)
Start(t) == /\ Step(t, "off", "read")
            /\ UNCHANGED <<window, adc_lock, i, total, sample, reading, others,
                           reset_reason>>

(* adc_oneshot_read gets the lock of the unit ...                          *)
adc_lock_try_acquire(t) ==
  /\ Step(t, "read", "convert")
  /\ adc_lock = NoTask
  /\ adc_lock' = t
  /\ UNCHANGED <<window, i, total, sample, reading, others, reset_reason>>

(* ... or finds it taken and returns ESP_ERR_TIMEOUT.                      *)
AdcBusy(t) == /\ pc[t] = "read" /\ adc_lock # NoTask
              /\ Abort("adc_busy")

(* The conversion, in a critical section, and the release of the lock.     *)
adc_oneshot_hal_convert(t) ==
  /\ Step(t, "convert", "calibrate")
  /\ adc_lock' = NoTask
  /\ UNCHANGED <<window, i, total, sample, reading, others, reset_reason>>

(* A conversion that is not valid, or a calibration that fails.            *)
ReadingFails(t) == /\ pc[t] = "calibrate"
                   /\ Abort("adc_error")

(* Slip: i <= PM25_ADC_READINGS, one reading past the end of the array.    *)
ReadingOneMore(t) ==
  /\ pc[t] = "calibrate"
  /\ \E v \in Volts : total' = [total EXCEPT ![t] = @ + v]
  /\ i' = [i EXCEPT ![t] = @ + 1]
  /\ pc' = [pc EXCEPT ![t] = IF i[t] + 1 <= PM25_ADC_READINGS THEN "read" ELSE "add"]
  /\ UNCHANGED <<window, adc_lock, sample, reading, others, reset_reason>>

(* adc_cali_raw_to_voltage yields the reading; after a delay the next one  *)
(* follows, or, after the last, the sum.                                   *)
Reading(t) ==
  /\ pc[t] = "calibrate"
  /\ \E v \in Volts : total' = [total EXCEPT ![t] = @ + v]
  /\ i' = [i EXCEPT ![t] = @ + 1]
  /\ pc' = [pc EXCEPT ![t] = IF i[t] + 1 < PM25_ADC_READINGS THEN "read" ELSE "add"]
  /\ UNCHANGED <<window, adc_lock, sample, reading, others, reset_reason>>

(* generate_random(low_end, high_end): the ends and the middle of the      *)
(* average with its 10% on either side.                                    *)
Sampled(s) == {9 * s, 10 * s, 11 * s}

Count(n) == IF n < MAX_ITEMS THEN n + 1 ELSE n

(* add_item(pm_25_concentration)                                           *)
add_item(t) ==
  /\ Step(t, "add", "average")
  /\ \E x \in Sampled(total[t]) : /\ sample' = [sample EXCEPT ![t] = x]
                                  /\ window' = Slide(window, x)
  /\ others' = [u \in Tasks |-> IF u = t THEN 0
                                ELSE IF pc[u] = "average" THEN Count(others[u])
                                ELSE others[u]]
  /\ UNCHANGED <<adc_lock, i, total, reading, reset_reason>>

get_average(t) ==
  /\ Step(t, "average", "return")
  /\ reading' = [reading EXCEPT ![t] = Snapshot(window)]
  /\ UNCHANGED <<window, adc_lock, i, total, sample, others, reset_reason>>

(* The caller prints or sends the reading, sleeps and calls again.         *)
Return(t) == /\ Step(t, "return", "read")
             /\ i' = [i EXCEPT ![t] = 0]
             /\ total' = [total EXCEPT ![t] = 0]
             /\ sample' = [sample EXCEPT ![t] = 0]
             /\ reading' = [reading EXCEPT ![t] = NoReading]
             /\ others' = [others EXCEPT ![t] = 0]
             /\ UNCHANGED <<window, adc_lock, reset_reason>>

Run(t) == \/ Start(t) \/ adc_lock_try_acquire(t) \/ AdcBusy(t)
          \/ adc_oneshot_hal_convert(t) \/ ReadingFails(t) \/ Reading(t)
          \/ add_item(t) \/ get_average(t) \/ Return(t)

Next == \E t \in Tasks : Run(t)

Spec == Init /\ [][Next]_vars

----------------------------------------------------------------------------
(* PROPERTIES *)

(* Every variable keeps its type; a task never takes more readings than    *)
(* its array on the stack holds.                                           *)
TypeOK == /\ window \in Seq(Nat) /\ Len(window) <= MAX_ITEMS
          /\ adc_lock \in Tasks \cup {NoTask}
          /\ pc \in [Tasks -> Steps]
          /\ i \in [Tasks -> 0..PM25_ADC_READINGS]
          /\ total \in [Tasks -> Nat]
          /\ sample \in [Tasks -> Nat]
          /\ reading \in [Tasks -> Readings]
          /\ others \in [Tasks -> 0..MAX_ITEMS]
          /\ reset_reason \in {"power_on", "adc_busy", "adc_error"}

(* sensors.c:120-121: add_item and get_average are two calls, and other    *)
(* tasks add their samples in between.  A task's own sample is still in    *)
(* the average it returns, and the average is never the 0.0f of an empty   *)
(* buffer, unless a whole window of other samples came between.            *)
OwnSampleCounted ==
  \A t \in Tasks : pc[t] = "return" =>
    LET terms == reading[t].terms
        n == reading[t].n
    IN  /\ n > 0
        /\ others[t] < MAX_ITEMS => n > others[t] /\ terms[n - others[t]] = sample[t]

(* adc_oneshot.rst:198 "Above functions are guaranteed to be thread-safe.  *)
(* Therefore, you can call them from different RTOS tasks without          *)
(* protection by extra locks": calling adc_oneshot_read from two tasks     *)
(* does not make it fail.                                                  *)
ThreadSafeRead == reset_reason # "adc_busy"

----------------------------------------------------------------------------
(* The inductive invariant behind OwnSampleCounted: between its add_item   *)
(* and its get_average a task's sample is as far from the end of the       *)
(* window as others have added since.                                      *)

SampleInWindow(t) ==
  /\ Len(window) > 0
  /\ others[t] < MAX_ITEMS => /\ Len(window) > others[t]
                              /\ window[Len(window) - others[t]] = sample[t]

SamplePlace == \A t \in Tasks : pc[t] = "average" => SampleInWindow(t)

ReadingsLeft == \A t \in Tasks : pc[t] \in {"off", "read", "convert", "calibrate"} =>
                                   i[t] < PM25_ADC_READINGS

IInv == TypeOK /\ ReadingsLeft /\ SamplePlace /\ OwnSampleCounted
=============================================================================
