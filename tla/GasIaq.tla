------------------------------- MODULE GasIaq -------------------------------
(***************************************************************************)
(* bme68x_get_iaq of my_projects/thread_end_device/main/src/sensors.c: the *)
(* air-quality score relative to the highest gas resistance seen.  The     *)
(* ceiling and two counters are function statics shared by every task that *)
(* calls it (bme68x_gas_refresh_task, bme68x_test_task, each copy of       *)
(* coap_process).  gas_ceil_mutex guards the writes of the ceiling and     *)
(* nothing else, so one action is one load or store of a static.           *)
(*                                                                         *)
(* Reading a static twice without a call in between may use one load or    *)
(* two: the model allows both.  Resistances are integers in tenths, which  *)
(* keeps comp_gas * 1.1 exact; NaN stands for what comes out of the        *)
(* formula when bme68x_data_retrieve left the caller's struct              *)
(* uninitialized.                                                          *)
(***************************************************************************)
EXTENDS Integers

CONSTANTS Tasks,
          Gas,          \* values comp_gas takes
          NaN,          \* a float that is not a number
          BURN_IN,      \* 30
          RESET_LIMIT,  \* 200
          NoTask

ASSUME TasksAssumption == NoTask \notin Tasks

ASSUME LimitsAssumption == BURN_IN \in Nat /\ RESET_LIMIT \in Nat

ASSUME GasAssumption == NaN \notin Int /\ Gas \subseteq Int \cup {NaN}

VARIABLES gas_ceil, burn_in_counter, reset_counter,   \* the statics
          gas_ceil_mutex,     \* the task that holds it, or NoTask
          pc,                 \* [Tasks -> Steps]
          comp_gas,           \* [Tasks -> Gas \cup {0}], local
          loaded,             \* [Tasks -> Nat]: the counter as it was last loaded
          seen,               \* [Tasks -> Ceils]: the ceiling as it was checked
          iaq,                \* [Tasks -> -1..100], local
          burnt               \* history: burn-in calls so far, up to BURN_IN

vars == <<gas_ceil, burn_in_counter, reset_counter, gas_ceil_mutex, pc,
          comp_gas, loaded, seen, iaq, burnt>>

(* The code asks of the counters only whether they are below 30, or above  *)
(* 200, and interleaved increments can carry them past any bound.  Above   *)
(* the value from which the answer stays the same they stand still here.   *)
ResetCap == RESET_LIMIT + 1

Incremented(n, cap) == IF n < cap THEN n + 1 ELSE cap

Steps == {"idle", "burn_check", "burn_inc", "burn_store",
          "ceil_check", "ceil_take", "ceil_set", "ceil_give",
          "score", "reset_check", "reset_take", "reset_set", "reset_give",
          "reset_zero", "reset_inc", "reset_store", "return"}

Tenths(g) == IF g = NaN THEN NaN ELSE 10 * g

(* comp_gas * 1.1                                                          *)
Raised(g) == IF g = NaN THEN NaN ELSE 11 * g

Ceils == {0} \cup {Tenths(g) : g \in Gas} \cup {Raised(g) : g \in Gas}

(* The float comparison comp_gas > gas_ceil: false when either is NaN.     *)
Exceeds(g, c) == g # NaN /\ c # NaN /\ Tenths(g) > c

Square(x) == x * x

(* Slip: the ratio is not capped by fminf.                                 *)
UncappedScore(g, c) == IF g = NaN \/ c = NaN \/ c = 0 THEN 100
                       ELSE (100 * Square(Tenths(g))) \div Square(c)

(* fminf(powf(comp_gas / gas_ceil, 2), 1.0) * 100.0, whole percents.       *)
(* fminf returns the other operand of a NaN, and x / 0 is infinite or NaN. *)
Score(g, c) == IF g = NaN \/ c = NaN \/ c = 0 \/ Square(Tenths(g)) >= Square(c)
               THEN 100
               ELSE (100 * Square(Tenths(g))) \div Square(c)

Init == /\ gas_ceil = 0 /\ burn_in_counter = 0 /\ reset_counter = 0
        /\ gas_ceil_mutex = NoTask
        /\ pc = [t \in Tasks |-> "idle"]
        /\ comp_gas = [t \in Tasks |-> 0]
        /\ loaded = [t \in Tasks |-> 0]
        /\ seen = [t \in Tasks |-> 0]
        /\ iaq = [t \in Tasks |-> -1]
        /\ burnt = 0

Step(t, from, to) == pc[t] = from /\ pc' = [pc EXCEPT ![t] = to]

statics == <<gas_ceil, burn_in_counter, reset_counter>>

locals == <<comp_gas, loaded, seen, iaq>>

(* The call, and the humidity compensation that yields comp_gas.           *)
Enter(t) ==
  /\ Step(t, "idle", "burn_check")
  /\ \E g \in Gas : comp_gas' = [comp_gas EXCEPT ![t] = g]
  /\ UNCHANGED <<statics, gas_ceil_mutex, loaded, seen, iaq, burnt>>

(* Slip: burn_in_counter < 29.                                             *)
BurnCheckEarly(t) ==
  /\ \/ /\ burn_in_counter < BURN_IN - 1
        /\ Step(t, "burn_check", "burn_inc")
        /\ loaded' = [loaded EXCEPT ![t] = burn_in_counter]
     \/ /\ burn_in_counter >= BURN_IN - 1
        /\ Step(t, "burn_check", "ceil_check")
        /\ loaded' = loaded
  /\ UNCHANGED <<statics, gas_ceil_mutex, comp_gas, seen, iaq, burnt>>

(* if (burn_in_counter < 30)                                               *)
BurnCheck(t) ==
  /\ \/ /\ burn_in_counter < BURN_IN
        /\ Step(t, "burn_check", "burn_inc")
        /\ loaded' = [loaded EXCEPT ![t] = burn_in_counter]
     \/ /\ burn_in_counter >= BURN_IN
        /\ Step(t, "burn_check", "ceil_check")
        /\ loaded' = loaded
  /\ UNCHANGED <<statics, gas_ceil_mutex, comp_gas, seen, iaq, burnt>>

(* burn_in_counter++: of the value that was checked, or of a fresh load,   *)
(* stored in a step of its own.                                            *)
BurnInc(t) ==
  /\ Step(t, "burn_inc", "burn_store")
  /\ \E b \in {loaded[t], burn_in_counter} : loaded' = [loaded EXCEPT ![t] = b]
  /\ UNCHANGED <<statics, gas_ceil_mutex, comp_gas, seen, iaq, burnt>>

BurnStore(t) ==
  /\ Step(t, "burn_store", "return")
  /\ burn_in_counter' = Incremented(loaded[t], BURN_IN)
  /\ burnt' = Incremented(burnt, BURN_IN)
  /\ UNCHANGED <<gas_ceil, reset_counter, gas_ceil_mutex, locals>>

(* Slip: the comparison written as !(comp_gas <= gas_ceil).                *)
CeilCheckNegated(t) ==
  /\ \/ /\ comp_gas[t] = NaN \/ gas_ceil = NaN \/ Exceeds(comp_gas[t], gas_ceil)
        /\ Step(t, "ceil_check", "ceil_take")
        /\ seen' = seen
     \/ /\ comp_gas[t] # NaN /\ gas_ceil # NaN /\ ~Exceeds(comp_gas[t], gas_ceil)
        /\ Step(t, "ceil_check", "score")
        /\ seen' = [seen EXCEPT ![t] = gas_ceil]
  /\ UNCHANGED <<statics, gas_ceil_mutex, comp_gas, loaded, iaq, burnt>>

(* if (comp_gas > gas_ceil), read without the mutex.                       *)
CeilCheck(t) ==
  /\ \/ /\ Exceeds(comp_gas[t], gas_ceil)
        /\ Step(t, "ceil_check", "ceil_take")
        /\ seen' = seen
     \/ /\ ~Exceeds(comp_gas[t], gas_ceil)
        /\ Step(t, "ceil_check", "score")
        /\ seen' = [seen EXCEPT ![t] = gas_ceil]
  /\ UNCHANGED <<statics, gas_ceil_mutex, comp_gas, loaded, iaq, burnt>>

(* xSemaphoreTake(gas_ceil_mutex, portMAX_DELAY), for either writer.       *)
Take(t, from, to) ==
  /\ gas_ceil_mutex = NoTask
  /\ gas_ceil_mutex' = t
  /\ Step(t, from, to)
  /\ UNCHANGED <<statics, locals, burnt>>

CeilTake(t) == Take(t, "ceil_take", "ceil_set")

CeilSet(t) ==
  /\ Step(t, "ceil_set", "ceil_give")
  /\ gas_ceil' = Tenths(comp_gas[t])
  /\ UNCHANGED <<burn_in_counter, reset_counter, gas_ceil_mutex, locals, burnt>>

(* xSemaphoreGive, then the ceiling is loaded again for the score.         *)
CeilGive(t) ==
  /\ Step(t, "ceil_give", "score")
  /\ gas_ceil_mutex' = NoTask
  /\ seen' = [seen EXCEPT ![t] = gas_ceil]
  /\ UNCHANGED <<statics, comp_gas, loaded, iaq, burnt>>

ComputeScore(t) ==
  /\ Step(t, "score", "reset_check")
  /\ \E c \in {seen[t], gas_ceil} : iaq' = [iaq EXCEPT ![t] = Score(comp_gas[t], c)]
  /\ UNCHANGED <<statics, gas_ceil_mutex, comp_gas, loaded, seen, burnt>>

(* Slip: the function returns as soon as it has a score.                   *)
ResetCheckNever(t) ==
  /\ Step(t, "reset_check", "return")
  /\ UNCHANGED <<statics, gas_ceil_mutex, locals, burnt>>

(* if (reset_counter > 200)                                                *)
ResetCheck(t) ==
  /\ \/ /\ reset_counter > RESET_LIMIT
        /\ Step(t, "reset_check", "reset_take")
        /\ loaded' = loaded
     \/ /\ reset_counter <= RESET_LIMIT
        /\ Step(t, "reset_check", "reset_inc")
        /\ loaded' = [loaded EXCEPT ![t] = reset_counter]
  /\ UNCHANGED <<statics, gas_ceil_mutex, comp_gas, seen, iaq, burnt>>

ResetTake(t) == Take(t, "reset_take", "reset_set")

ResetSet(t) ==
  /\ Step(t, "reset_set", "reset_give")
  /\ gas_ceil' = Raised(comp_gas[t])
  /\ UNCHANGED <<burn_in_counter, reset_counter, gas_ceil_mutex, locals, burnt>>

ResetGive(t) ==
  /\ Step(t, "reset_give", "reset_zero")
  /\ gas_ceil_mutex' = NoTask
  /\ UNCHANGED <<statics, locals, burnt>>

(* Slip: cleared to -1, as if an increment followed.                       *)
ResetToMinusOne(t) ==
  /\ Step(t, "reset_zero", "return")
  /\ reset_counter' = -1
  /\ UNCHANGED <<gas_ceil, burn_in_counter, gas_ceil_mutex, locals, burnt>>

(* Slip: both counters are cleared.                                        *)
ResetZeroBoth(t) ==
  /\ Step(t, "reset_zero", "return")
  /\ reset_counter' = 0 /\ burn_in_counter' = 0
  /\ UNCHANGED <<gas_ceil, gas_ceil_mutex, locals, burnt>>

ResetZero(t) ==
  /\ Step(t, "reset_zero", "return")
  /\ reset_counter' = 0
  /\ UNCHANGED <<gas_ceil, burn_in_counter, gas_ceil_mutex, locals, burnt>>

(* reset_counter++, likewise.                                              *)
ResetInc(t) ==
  /\ Step(t, "reset_inc", "reset_store")
  /\ \E r \in {loaded[t], reset_counter} : loaded' = [loaded EXCEPT ![t] = r]
  /\ UNCHANGED <<statics, gas_ceil_mutex, comp_gas, seen, iaq, burnt>>

ResetStore(t) ==
  /\ Step(t, "reset_store", "return")
  /\ reset_counter' = Incremented(loaded[t], ResetCap)
  /\ UNCHANGED <<gas_ceil, burn_in_counter, gas_ceil_mutex, locals, burnt>>

(* return iaq: the locals are gone with the stack frame.                   *)
Return(t) ==
  /\ Step(t, "return", "idle")
  /\ comp_gas' = [comp_gas EXCEPT ![t] = 0]
  /\ loaded' = [loaded EXCEPT ![t] = 0]
  /\ seen' = [seen EXCEPT ![t] = 0]
  /\ iaq' = [iaq EXCEPT ![t] = -1]
  /\ UNCHANGED <<statics, gas_ceil_mutex, burnt>>

Run(t) == \/ Enter(t) \/ BurnCheck(t) \/ BurnInc(t) \/ BurnStore(t)
          \/ CeilCheck(t) \/ CeilTake(t) \/ CeilSet(t) \/ CeilGive(t)
          \/ ComputeScore(t) \/ ResetCheck(t) \/ ResetTake(t) \/ ResetSet(t)
          \/ ResetGive(t) \/ ResetZero(t) \/ ResetInc(t) \/ ResetStore(t) \/ Return(t)

Next == \E t \in Tasks : Run(t)

Spec == Init /\ [][Next]_vars

(* The calling tasks are endless loops around vTaskDelay.                  *)
FairSpec == Spec /\ \A t \in Tasks : WF_vars(Run(t))

----------------------------------------------------------------------------
(* PROPERTIES *)

(* Every static and local of bme68x_get_iaq keeps its type: the counters   *)
(* never go negative and the ceiling is 0 or stems from a sample.          *)
TypeOK == /\ gas_ceil \in Ceils
          /\ burn_in_counter \in 0..BURN_IN /\ reset_counter \in 0..ResetCap
          /\ gas_ceil_mutex \in Tasks \cup {NoTask}
          /\ pc \in [Tasks -> Steps]
          /\ comp_gas \in [Tasks -> Gas \cup {0}]
          /\ loaded \in [Tasks -> Nat]
          /\ seen \in [Tasks -> Ceils]
          /\ iaq \in [Tasks -> Int]
          /\ burnt \in 0..BURN_IN

(* sensors.c, fminf at the score: whatever garbage the sensor path hands   *)
(* in, a zero, negative or NaN ceiling included, the score stays a percent *)
(* (or the -1 of the burn-in).                                             *)
ScoreRange == \A t \in Tasks : iaq[t] \in -1..100

(* No task is given a score before BURN_IN calls of the burn-in were made, *)
(* however increments are lost or overlap.                                 *)
NoEarlyScore == \A t \in Tasks : iaq[t] # -1 => burnt >= BURN_IN

(* A reset of the ceiling by some task.                                    *)
ResetStep == \E t \in Tasks : pc[t] = "reset_set" /\ pc'[t] = "reset_give"

(* sensors.c:218 "Update the gas ceiling to the new highest value if       *)
(* needed": between two resets the ceiling only rises, and NaN samples     *)
(* neither enter it nor move it.                                           *)
RisesUntilReset ==
  [][ResetStep \/ (gas_ceil # NaN /\ gas_ceil' # NaN /\ gas_ceil' > gas_ceil)]_gas_ceil

(* The comparison that guards the store is false for NaN: whatever tasks   *)
(* do between it and the store, NaN gets into the ceiling by a reset only. *)
NaNOnlyByReset == [][gas_ceil' = NaN => ResetStep]_gas_ceil

(* sensors.c:231 "after a while the gas ceiling might be too high, we      *)
(* reset it": the ceiling is brought down to the air of the day again and  *)
(* again, also when it has become NaN.                                     *)
CeilReanchored == []<>(\E t \in Tasks : pc[t] = "reset_give")

(* sensors.c:212-216: a task that stores an increment it loaded long ago   *)
(* sets burn_in_counter back and can reopen a burn-in that was over, for   *)
(* every caller.  It ends for good all the same.                           *)
BurnInEnds == <>[](burn_in_counter >= BURN_IN)

----------------------------------------------------------------------------
(* The inductive invariant behind NoEarlyScore: what a task has loaded and *)
(* so what it may store, never runs ahead of the calls made.               *)

BurnPending == {t \in Tasks : pc[t] \in {"burn_inc", "burn_store"}}

Scoring == Steps \ {"idle", "burn_check", "burn_inc", "burn_store", "return"}

HistoryInv == /\ burn_in_counter <= burnt
              /\ \A t \in BurnPending : loaded[t] <= burnt
              /\ \A t \in Tasks : pc[t] \in Scoring => burnt >= BURN_IN

IInv == TypeOK /\ HistoryInv /\ ScoreRange /\ NoEarlyScore

(* Behind NaNOnlyByReset: a sample on its way into the ceiling has passed  *)
(* the comparison, and the caller's own copy of it cannot change.          *)
Admitted == \A t \in Tasks : pc[t] \in {"ceil_take", "ceil_set"} => comp_gas[t] # NaN
=============================================================================
