--------------------------- MODULE BmeSensorProofs ---------------------------
(***************************************************************************)
(* For any number of tasks, tries and calls: bme68x_data_retrieve hands    *)
(* out whole measurements only, and none older than one already handed out.*)
(***************************************************************************)
EXTENDS BmeSensor, TLAPS

(* After bme68x_i2c_init nothing was measured and nobody holds the mutex.  *)
LEMMA InitIInv == Init => IInv
  <1> SUFFICES ASSUME Init PROVE IInv
    OBVIOUS
  <1>1. TypeOK
    BY TriesAssumption DEF Init, TypeOK, Field, Zeroes, Steps
  <1>2. Exclusive /\ Progressing
    BY DEF Init, Exclusive, Progressing, Within, Unfilled
  <1>3. ChipSane
    BY DEF Init, ChipSane, Zeroes
  <1>4. WholeReading
    BY DEF Init, WholeReading
  <1> QED
    BY <1>1, <1>2, <1>3, <1>4 DEF IInv

(* Every step of a task, of the bus and of the chip keeps the invariant.   *)
LEMMA StepIInv == IInv /\ [Next]_vars => IInv'
  <1> SUFFICES ASSUME IInv, [Next]_vars PROVE IInv'
    OBVIOUS
  <1> USE NoTaskAssumption, TriesAssumption DEF IInv, TypeOK, Exclusive, ChipSane,
          Progressing, Recent, Unfilled, WholeReading, Within, Steps, Field, Step, lib, chip
  <1>1. ASSUME NEW t \in Tasks, Call(t) PROVE IInv'
    <2>1. TypeOK'
      BY <1>1 DEF Call
    <2>2. Exclusive'
      BY <1>1 DEF Call
    <2>3. ChipSane'
      BY <1>1 DEF Call
    <2>4. Progressing'
      BY <1>1 DEF Call
    <2>5. WholeReading'
      BY <1>1 DEF Call
    <2> QED
      BY <2>1, <2>2, <2>3, <2>4, <2>5 DEF IInv
  <1>2. ASSUME NEW t \in Tasks, Take(t) PROVE IInv'
    <2>1. TypeOK'
      BY <1>2 DEF Take
    <2>2. Exclusive'
      BY <1>2 DEF Take
    <2>3. ChipSane'
      BY <1>2 DEF Take
    <2>4. Progressing'
      BY <1>2 DEF Take
    <2>5. WholeReading'
      BY <1>2 DEF Take
    <2> QED
      BY <2>1, <2>2, <2>3, <2>4, <2>5 DEF IInv
  <1>3. ASSUME NEW t \in Tasks, Asleep(t) PROVE IInv'
    <2>1. TypeOK'
      BY <1>3 DEF Asleep
    <2>2. Exclusive'
      BY <1>3 DEF Asleep
    <2>3. ChipSane'
      BY <1>3 DEF Asleep
    <2>4. Progressing'
      BY <1>3 DEF Asleep
    <2>5. WholeReading'
      BY <1>3 DEF Asleep
    <2> QED
      BY <2>1, <2>2, <2>3, <2>4, <2>5 DEF IInv
  <1>4. ASSUME NEW t \in Tasks, PutToSleep(t) PROVE IInv'
    <2>1. TypeOK'
      BY <1>4 DEF PutToSleep
    <2>2. Exclusive'
      BY <1>4 DEF PutToSleep
    <2>3. ChipSane'
      BY <1>4 DEF PutToSleep
    <2>4. Progressing'
      BY <1>4 DEF PutToSleep
    <2>5. WholeReading'
      BY <1>4 DEF PutToSleep
    <2> QED
      BY <2>1, <2>2, <2>3, <2>4, <2>5 DEF IInv
  <1>5. ASSUME NEW t \in Tasks, StartMeasurement(t) PROVE IInv'
    <2>1. TypeOK'
      BY <1>5 DEF StartMeasurement
    <2>2. Exclusive'
      BY <1>5 DEF StartMeasurement
    <2>3. ChipSane'
      <3>1. PICK b \in {FALSE, field.new} : field' = [field EXCEPT !.new = b]
        BY <1>5 DEF StartMeasurement
      <3>2. field'.of = field.of /\ (field'.new => field.new)
        BY <3>1
      <3>3. running' = calls /\ calls > 0
        BY <1>5 DEF StartMeasurement
      <3> QED
        BY <1>5, <3>2, <3>3 DEF StartMeasurement
    <2>4. Progressing'
      BY <1>5 DEF StartMeasurement
    <2>5. WholeReading'
      BY <1>5 DEF StartMeasurement
    <2> QED
      BY <2>1, <2>2, <2>3, <2>4, <2>5 DEF IInv
  <1>6. ASSUME NEW t \in Tasks, ModeFails(t) PROVE IInv'
    <2>1. TypeOK'
      BY <1>6 DEF ModeFails
    <2>2. Exclusive'
      BY <1>6 DEF ModeFails
    <2>3. ChipSane'
      BY <1>6 DEF ModeFails
    <2>4. Progressing'
      BY <1>6 DEF ModeFails
    <2>5. WholeReading'
      BY <1>6 DEF ModeFails
    <2> QED
      BY <2>1, <2>2, <2>3, <2>4, <2>5 DEF IInv
  <1>7. ASSUME NEW t \in Tasks, Fetch(t) PROVE IInv'
    <2>1. TypeOK'
      BY <1>7 DEF Fetch, Zeroes
    <2>2. Exclusive'
      BY <1>7 DEF Fetch, Zeroes
    <2>3. ChipSane'
      BY <1>7 DEF Fetch, Zeroes
    <2>4. Progressing'
      BY <1>7 DEF Fetch, Zeroes
    <2>5. WholeReading'
      BY <1>7 DEF Fetch, Zeroes
    <2> QED
      BY <2>1, <2>2, <2>3, <2>4, <2>5 DEF IInv
  <1>8. ASSUME NEW t \in Tasks, FetchUndefined(t) PROVE IInv'
    <2>1. TypeOK'
      BY <1>8 DEF FetchUndefined
    <2>2. Exclusive'
      BY <1>8 DEF FetchUndefined
    <2>3. ChipSane'
      BY <1>8 DEF FetchUndefined
    <2>4. Progressing'
      BY <1>8 DEF FetchUndefined
    <2>5. WholeReading'
      BY <1>8 DEF FetchUndefined
    <2> QED
      BY <2>1, <2>2, <2>3, <2>4, <2>5 DEF IInv
  <1>9. ASSUME NEW t \in Tasks, Poll(t) PROVE IInv'
    <2>1. TypeOK'
      <3>1. tries' \in [Tasks -> 0..TRIES] /\ pc' \in [Tasks -> Steps]
        BY <1>9 DEF Poll
      <3>2. field' \in Field /\ sensor_data' \in Field
        BY <1>9 DEF Poll
      <3>3. buff' \in [Tasks -> Field]
        BY <1>9 DEF Poll
      <3> QED
        BY <1>9, <3>1, <3>2, <3>3 DEF Poll
    <2>2. Exclusive'
      BY <1>9 DEF Poll
    <2>3. ChipSane'
      BY <1>9 DEF Poll
    <2>4. Progressing'
      BY <1>9 DEF Poll
    <2>5. WholeReading'
      BY <1>9 DEF Poll
    <2> QED
      BY <2>1, <2>2, <2>3, <2>4, <2>5 DEF IInv
  <1>10. ASSUME NEW t \in Tasks, PollFails(t) PROVE IInv'
    <2>1. TypeOK'
      BY <1>10 DEF PollFails
    <2>2. Exclusive'
      BY <1>10 DEF PollFails
    <2>3. ChipSane'
      BY <1>10 DEF PollFails
    <2>4. Progressing'
      BY <1>10 DEF PollFails
    <2>5. WholeReading'
      BY <1>10 DEF PollFails
    <2> QED
      BY <2>1, <2>2, <2>3, <2>4, <2>5 DEF IInv
  <1>11. ASSUME NEW t \in Tasks, NoNewData(t) PROVE IInv'
    <2>1. TypeOK'
      BY <1>11 DEF NoNewData
    <2>2. Exclusive'
      BY <1>11 DEF NoNewData
    <2>3. ChipSane'
      BY <1>11 DEF NoNewData
    <2>4. Progressing'
      BY <1>11 DEF NoNewData
    <2>5. WholeReading'
      BY <1>11 DEF NoNewData
    <2> QED
      BY <2>1, <2>2, <2>3, <2>4, <2>5 DEF IInv
  <1>12. ASSUME NEW t \in Tasks, Heater(t) PROVE IInv'
    <2>1. TypeOK'
      BY <1>12 DEF Heater
    <2>2. Exclusive'
      BY <1>12 DEF Heater
    <2>3. ChipSane'
      BY <1>12 DEF Heater
    <2>4. Progressing'
      BY <1>12 DEF Heater
    <2>5. WholeReading'
      BY <1>12 DEF Heater
    <2> QED
      BY <2>1, <2>2, <2>3, <2>4, <2>5 DEF IInv
  <1>13. ASSUME NEW t \in Tasks, HeaterFails(t) PROVE IInv'
    <2>1. TypeOK'
      BY <1>13 DEF HeaterFails
    <2>2. Exclusive'
      BY <1>13 DEF HeaterFails
    <2>3. ChipSane'
      BY <1>13 DEF HeaterFails
    <2>4. Progressing'
      BY <1>13 DEF HeaterFails
    <2>5. WholeReading'
      BY <1>13 DEF HeaterFails
    <2> QED
      BY <2>1, <2>2, <2>3, <2>4, <2>5 DEF IInv
  <1>14. ASSUME NEW t \in Tasks, GetData(t) PROVE IInv'
    <2>1. TypeOK'
      BY <1>14 DEF GetData
    <2>2. Exclusive'
      BY <1>14 DEF GetData
    <2>3. ChipSane'
      BY <1>14 DEF GetData
    <2>4. Progressing'
      BY <1>14 DEF GetData
    <2>5. WholeReading'
      BY <1>14 DEF GetData
    <2> QED
      BY <2>1, <2>2, <2>3, <2>4, <2>5 DEF IInv
  <1>15. ASSUME NEW t \in Tasks, Failed(t) PROVE IInv'
    <2>1. TypeOK'
      BY <1>15 DEF Failed
    <2>2. Exclusive'
      BY <1>15 DEF Failed
    <2>3. ChipSane'
      BY <1>15 DEF Failed
    <2>4. Progressing'
      BY <1>15 DEF Failed
    <2>5. WholeReading'
      BY <1>15 DEF Failed
    <2> QED
      BY <2>1, <2>2, <2>3, <2>4, <2>5 DEF IInv
  <1>16. ASSUME NEW t \in Tasks, Give(t) PROVE IInv'
    <2>1. TypeOK'
      BY <1>16 DEF Give
    <2>2. Exclusive'
      BY <1>16 DEF Give
    <2>3. ChipSane'
      BY <1>16 DEF Give
    <2>4. Progressing'
      BY <1>16 DEF Give
    <2>5. WholeReading'
      BY <1>16 DEF Give
    <2> QED
      BY <2>1, <2>2, <2>3, <2>4, <2>5 DEF IInv
  <1>17. ASSUME NEW t \in Tasks, Return(t) PROVE IInv'
    <2>1. TypeOK'
      BY <1>17 DEF Return
    <2>2. Exclusive'
      BY <1>17 DEF Return
    <2>3. ChipSane'
      BY <1>17 DEF Return
    <2>4. Progressing'
      BY <1>17 DEF Return
    <2>5. WholeReading'
      BY <1>17 DEF Return
    <2> QED
      BY <2>1, <2>2, <2>3, <2>4, <2>5 DEF IInv
  <1>18. CASE Measured
    BY <1>18 DEF Measured
  <1>19. CASE UNCHANGED vars
    BY <1>19 DEF vars
  <1> HIDE DEF IInv
  <1> QED
    BY <1>1, <1>2, <1>3, <1>4, <1>5, <1>6, <1>7, <1>8, <1>9, <1>10,
       <1>11, <1>12, <1>13, <1>14, <1>15, <1>16, <1>17, <1>18, <1>19
    DEF Next, Work, BusFails

(* The invariant holds throughout.                                         *)
THEOREM Safety == Spec => []IInv
  <1>1. Init => IInv
    BY InitIInv
  <1>2. IInv /\ [Next]_vars => IInv'
    BY StepIInv
  <1> QED
    BY <1>1, <1>2, PTL DEF Spec

(* Every variable keeps its type; a call polls no more often than the      *)
(* loop of read_field_data (bme68x.c:1202) allows.                         *)
THEOREM TypeCorrect == Spec => []TypeOK
  <1>1. IInv => TypeOK
    BY DEF IInv
  <1> QED
    BY <1>1, Safety, PTL

(* What bme68x_data_retrieve hands out, flag and values, is what the burst *)
(* of that same call read as new, for any number of tasks, tries and calls *)
(* and any failures of the bus.                                            *)
THEOREM OnlyWholeReadings == Spec => []WholeReading
  <1>1. IInv => WholeReading
    BY DEF IInv
  <1> QED
    BY <1>1, Safety, PTL

(* The measurements handed out by bme68x_lib_get_data, over all tasks, do  *)
(* not go back in time and come from no later call.                        *)
THEOREM InOrder == Spec => ReadingsInOrder
  <1>1. ASSUME IInv, NEW t \in Tasks, GetData(t)
        PROVE  delivered' >= delivered /\ delivered' <= call[t]
    BY <1>1 DEF IInv, TypeOK, Field, Exclusive, ChipSane, Progressing, Recent,
                Within, GetData, Step
  <1>2. IInv /\ [Next]_vars =>
          [\A t \in Tasks : GetData(t) =>
             /\ delivered' >= delivered
             /\ delivered' <= call[t]]_vars
    BY <1>1
  <1> QED
    BY <1>2, Safety, PTL DEF Spec, ReadingsInOrder
=============================================================================
