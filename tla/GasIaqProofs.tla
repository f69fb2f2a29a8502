---------------------------- MODULE GasIaqProofs ----------------------------
(***************************************************************************)
(* For any set of tasks and any limits of the counters of bme68x_get_iaq:  *)
(* no score is given before the burn-in calls were made, a score is a      *)
(* percent, and NaN enters the ceiling by a reset only.                    *)
(***************************************************************************)
EXTENDS GasIaq, TLAPS

(* A square is not negative, and only zero has the square zero.            *)
LEMMA Squares == \A x \in Int : Square(x) \in Nat /\ (x # 0 => Square(x) > 0)
  BY SMTT(30) DEF Square

(* A proper fraction of 100 is a percent.                                  *)
LEMMA Percent ==
  ASSUME NEW x \in Nat, NEW y \in Nat, x < y
  PROVE  (100 * x) \div y \in 0..100
  BY SMTT(30)

(* A task's sample is a resistance or NaN.                                 *)
LEMMA GasTypes == \A g \in Gas \cup {0} : g = NaN \/ g \in Int
  BY GasAssumption

(* The ceiling stays a resistance or NaN.                                  *)
LEMMA CeilTypes ==
  /\ \A g \in Gas : Tenths(g) \in Ceils /\ Raised(g) \in Ceils
  /\ \A c \in Ceils : c = NaN \/ c \in Int
  BY GasAssumption DEF Ceils, Tenths, Raised

(* The score of any sample against any ceiling is a percent.               *)
LEMMA ScorePercent ==
  ASSUME NEW g \in Gas \cup {0}, NEW c \in Ceils
  PROVE  Score(g, c) \in 0..100
  <1>1. CASE g = NaN \/ c = NaN \/ c = 0 \/ Square(Tenths(g)) >= Square(c)
    BY <1>1 DEF Score
  <1>2. CASE ~(g = NaN \/ c = NaN \/ c = 0 \/ Square(Tenths(g)) >= Square(c))
    <2>1. g \in Int /\ c \in Int /\ Tenths(g) \in Int
      BY <1>2, GasAssumption, CeilTypes DEF Tenths
    <2>2. Square(Tenths(g)) \in Nat /\ Square(c) \in Nat
      BY <2>1, Squares
    <2>3. Square(Tenths(g)) < Square(c)
      BY <1>2, <2>2
    <2> QED
      BY <1>2, <2>2, <2>3, Percent DEF Score
  <1> QED
    BY <1>1, <1>2

(* An increment stays below the cap and adds at most one.                  *)
LEMMA IncrementedTypes ==
  ASSUME NEW cap \in Nat, NEW n \in Nat
  PROVE  /\ Incremented(n, cap) \in 0..cap
         /\ \A m \in Nat : n <= m => Incremented(n, cap) <= Incremented(m, cap)
         /\ n <= cap => n <= Incremented(n, cap)
  BY DEF Incremented

(* The statics start at zero and no task is in the function.               *)
LEMMA InitIInv == Init => IInv
  <1> SUFFICES ASSUME Init PROVE IInv
    OBVIOUS
  <1> USE LimitsAssumption DEF Init
  <1>1. TypeOK
    BY DEF TypeOK, Ceils, Steps, ResetCap
  <1>2. HistoryInv /\ ScoreRange /\ NoEarlyScore
    BY DEF HistoryInv, ScoreRange, NoEarlyScore, Scoring, BurnPending
  <1> QED
    BY <1>1, <1>2 DEF IInv

(* Every step keeps the variables in their types.                          *)
LEMMA NextTypeOK == TypeOK /\ [Next]_vars => TypeOK'
  <1> SUFFICES ASSUME TypeOK, [Next]_vars PROVE TypeOK'
    OBVIOUS
  <1> USE LimitsAssumption DEF TypeOK, Step, Steps, statics, locals, ResetCap
  <1>1. CASE UNCHANGED vars
    BY <1>1 DEF vars
  <1>2. ASSUME NEW t \in Tasks, Enter(t) \/ BurnCheck(t) \/ BurnInc(t) PROVE TypeOK'
    BY <1>2 DEF Enter, BurnCheck, BurnInc
  <1>3. ASSUME NEW t \in Tasks,
               CeilCheck(t) \/ CeilTake(t) \/ CeilGive(t) \/ ResetTake(t) \/ ResetGive(t)
        PROVE  TypeOK'
    BY <1>3 DEF CeilCheck, CeilTake, CeilGive, ResetTake, ResetGive, Take
  <1>4. ASSUME NEW t \in Tasks, CeilSet(t) \/ ResetSet(t) PROVE TypeOK'
    <2>1. gas_ceil' \in Ceils
      BY <1>4, CeilTypes DEF CeilSet, ResetSet, Ceils, Tenths, Raised
    <2> QED
      BY <1>4, <2>1 DEF CeilSet, ResetSet
  <1>5. ASSUME NEW t \in Tasks, ComputeScore(t) PROVE TypeOK'
    <2> PICK c \in {seen[t], gas_ceil} : iaq' = [iaq EXCEPT ![t] = Score(comp_gas[t], c)]
      BY <1>5 DEF ComputeScore
    <2>1. Score(comp_gas[t], c) \in 0..100
      BY ScorePercent
    <2> QED
      BY <1>5, <2>1 DEF ComputeScore
  <1>6. ASSUME NEW t \in Tasks, ResetCheck(t) \/ ResetZero(t) \/ ResetInc(t) PROVE TypeOK'
    BY <1>6 DEF ResetCheck, ResetZero, ResetInc
  <1>7. ASSUME NEW t \in Tasks, BurnStore(t) \/ ResetStore(t) PROVE TypeOK'
    <2>1. /\ Incremented(loaded[t], BURN_IN) \in 0..BURN_IN
          /\ Incremented(burnt, BURN_IN) \in 0..BURN_IN
          /\ Incremented(loaded[t], ResetCap) \in 0..ResetCap
      <3>1. loaded[t] \in Nat /\ burnt \in Nat /\ ResetCap \in Nat
        OBVIOUS
      <3> QED
        BY <3>1, IncrementedTypes
    <2> QED
      BY <1>7, <2>1 DEF BurnStore, ResetStore
  <1>8. ASSUME NEW t \in Tasks, Return(t) PROVE TypeOK'
    BY <1>8 DEF Return, Ceils
  <1> QED
    BY <1>1, <1>2, <1>3, <1>4, <1>5, <1>6, <1>7, <1>8 DEF Next, Run

(* Every step keeps the record of the burn-in: the counter, and what a     *)
(* task may still store into it, is at most the number of calls made.      *)
LEMMA NextHistory == IInv /\ [Next]_vars => HistoryInv'
  <1> SUFFICES ASSUME IInv, [Next]_vars PROVE HistoryInv'
    OBVIOUS
  <1>t. TypeOK /\ HistoryInv
    BY DEF IInv
  <1> USE <1>t, LimitsAssumption
      DEF TypeOK, HistoryInv, BurnPending, Step, Steps, Scoring, statics, locals
  <1>1. CASE UNCHANGED vars
    BY <1>1 DEF vars
  <1>2. ASSUME NEW t \in Tasks, Enter(t) \/ Return(t) PROVE HistoryInv'
    BY <1>2 DEF Enter, Return
  <1>3. ASSUME NEW t \in Tasks, BurnCheck(t) PROVE HistoryInv'
    BY <1>3 DEF BurnCheck
  <1>4. ASSUME NEW t \in Tasks, BurnInc(t) PROVE HistoryInv'
    BY <1>4 DEF BurnInc
  <1>5. ASSUME NEW t \in Tasks, BurnStore(t) PROVE HistoryInv'
    <2>1. /\ Incremented(loaded[t], BURN_IN) <= Incremented(burnt, BURN_IN)
          /\ burnt <= Incremented(burnt, BURN_IN)
          /\ Incremented(burnt, BURN_IN) \in Nat
      BY <1>5, IncrementedTypes DEF BurnStore
    <2> QED
      BY <1>5, <2>1 DEF BurnStore
  <1>6. ASSUME NEW t \in Tasks,
               \/ CeilCheck(t) \/ CeilTake(t) \/ CeilSet(t) \/ CeilGive(t)
               \/ ResetTake(t) \/ ResetSet(t) \/ ResetGive(t)
        PROVE  HistoryInv'
    BY <1>6 DEF CeilCheck, CeilTake, CeilSet, CeilGive, ResetTake, ResetSet, ResetGive, Take
  <1>7. ASSUME NEW t \in Tasks,
               \/ ComputeScore(t) \/ ResetCheck(t) \/ ResetZero(t)
               \/ ResetInc(t) \/ ResetStore(t)
        PROVE  HistoryInv'
    BY <1>7 DEF ComputeScore, ResetCheck, ResetZero, ResetInc, ResetStore
  <1> QED
    BY <1>1, <1>2, <1>3, <1>4, <1>5, <1>6, <1>7 DEF Next, Run

(* Every step preserves the inductive invariant.                           *)
LEMMA NextIInv == IInv /\ [Next]_vars => IInv'
  <1> SUFFICES ASSUME IInv, [Next]_vars PROVE IInv'
    OBVIOUS
  <1>t. TypeOK /\ TypeOK' /\ HistoryInv'
    BY NextTypeOK, NextHistory DEF IInv
  <1>q. ASSUME iaq' = iaq, burnt' = burnt PROVE ScoreRange' /\ NoEarlyScore'
    BY <1>q DEF IInv, ScoreRange, NoEarlyScore
  <1>1. CASE UNCHANGED vars
    BY <1>1, <1>t, <1>q DEF vars, IInv
  <1>2. ASSUME NEW t \in Tasks,
               \/ Enter(t) \/ BurnCheck(t) \/ BurnInc(t)
               \/ CeilCheck(t) \/ CeilTake(t) \/ CeilSet(t) \/ CeilGive(t)
               \/ ResetCheck(t) \/ ResetTake(t) \/ ResetSet(t) \/ ResetGive(t)
               \/ ResetZero(t) \/ ResetInc(t) \/ ResetStore(t)
        PROVE  ScoreRange' /\ NoEarlyScore'
    BY <1>2, <1>q DEF Enter, BurnCheck, BurnInc, CeilCheck, CeilTake, CeilSet, CeilGive,
                      ResetCheck, ResetTake, ResetSet, ResetGive, ResetZero, ResetInc,
                      ResetStore, Take, locals
  <1>3. ASSUME NEW t \in Tasks, BurnStore(t) PROVE ScoreRange' /\ NoEarlyScore'
    <2>1. iaq' = iaq /\ burnt <= burnt' /\ burnt' \in Nat
      BY <1>3, <1>t, LimitsAssumption, IncrementedTypes DEF BurnStore, locals, TypeOK
    <2> QED
      BY <2>1, <1>t, LimitsAssumption DEF IInv, ScoreRange, NoEarlyScore, TypeOK
  <1>4. ASSUME NEW t \in Tasks, ComputeScore(t) PROVE ScoreRange' /\ NoEarlyScore'
    <2>1. burnt' = burnt /\ burnt >= BURN_IN
      BY <1>4 DEF ComputeScore, IInv, HistoryInv, Step, Scoring, Steps
    <2>2. PICK c \in {seen[t], gas_ceil} : iaq' = [iaq EXCEPT ![t] = Score(comp_gas[t], c)]
      BY <1>4 DEF ComputeScore
    <2>3. Score(comp_gas[t], c) \in 0..100
      BY <1>t, ScorePercent DEF TypeOK
    <2> QED
      BY <1>t, <2>1, <2>2, <2>3 DEF IInv, ScoreRange, NoEarlyScore, TypeOK
  <1>5. ASSUME NEW t \in Tasks, Return(t) PROVE ScoreRange' /\ NoEarlyScore'
    BY <1>5, <1>t DEF Return, IInv, ScoreRange, NoEarlyScore, TypeOK
  <1> QED
    BY <1>t, <1>1, <1>2, <1>3, <1>4, <1>5 DEF Next, Run, IInv

(* The inductive invariant holds however the calls interleave.             *)
THEOREM Safety == Spec => []IInv
  BY InitIInv, NextIInv, PTL DEF Spec

(* sensors.c: every variable of bme68x_get_iaq keeps its type.             *)
THEOREM TypeCorrect == Spec => []TypeOK
  BY Safety, PTL DEF IInv

(* No caller gets a score before BURN_IN burn-in calls have been made.     *)
THEOREM BurnInRespected == Spec => []NoEarlyScore
  BY Safety, PTL DEF IInv

(* Every score is a percent, whatever the sensor path hands in.            *)
THEOREM ScoreIsPercent == Spec => []ScoreRange
  BY Safety, PTL DEF IInv

(* A sample waiting for the mutex, or about to be stored, is no NaN.       *)
LEMMA AdmittedInv == Spec => [](TypeOK /\ Admitted)
  <1>1. Init => Admitted
    BY DEF Init, Admitted
  <1>2. TypeOK /\ Admitted /\ [Next]_vars => Admitted'
    <2> SUFFICES ASSUME TypeOK, Admitted, [Next]_vars PROVE Admitted'
      OBVIOUS
    <2> USE DEF TypeOK, Admitted, Step, Steps, statics, locals
    <2>1. CASE UNCHANGED vars
      BY <2>1 DEF vars
    <2>2. ASSUME NEW t \in Tasks, Enter(t) \/ BurnCheck(t) \/ BurnInc(t) \/ BurnStore(t)
          PROVE  Admitted'
      BY <2>2 DEF Enter, BurnCheck, BurnInc, BurnStore
    <2>3. ASSUME NEW t \in Tasks, CeilCheck(t) PROVE Admitted'
      BY <2>3 DEF CeilCheck, Exceeds
    <2>4. ASSUME NEW t \in Tasks,
                 CeilTake(t) \/ CeilSet(t) \/ CeilGive(t) \/ ResetTake(t) \/ ResetSet(t)
                   \/ ResetGive(t)
          PROVE  Admitted'
      BY <2>4 DEF CeilTake, CeilSet, CeilGive, ResetTake, ResetSet, ResetGive, Take
    <2>5. ASSUME NEW t \in Tasks,
                 \/ ComputeScore(t) \/ ResetCheck(t) \/ ResetZero(t)
                 \/ ResetInc(t) \/ ResetStore(t)
          PROVE  Admitted'
      BY <2>5 DEF ComputeScore, ResetCheck, ResetZero, ResetInc, ResetStore
    <2>6. ASSUME NEW t \in Tasks, Return(t) PROVE Admitted'
      BY <2>6 DEF Return
    <2> QED
      BY <2>1, <2>2, <2>3, <2>4, <2>5, <2>6 DEF Next, Run
  <1> QED
    BY <1>1, <1>2, TypeCorrect, PTL DEF Spec

(* sensors.c:219: however the tasks interleave between the comparison and  *)
(* the store, NaN enters the ceiling by a reset only.                      *)
THEOREM NaNKeptOut == Spec => NaNOnlyByReset
  <1>1. TypeOK /\ Admitted /\ [Next]_vars => [gas_ceil' = NaN => ResetStep]_gas_ceil
    <2> SUFFICES ASSUME TypeOK, Admitted, Next, gas_ceil' # gas_ceil, gas_ceil' = NaN
                 PROVE  ResetStep
      BY DEF vars
    <2> PICK t \in Tasks : Run(t)
      BY DEF Next
    <2>1. CASE CeilSet(t)
      <3>1. comp_gas[t] # NaN
        BY <2>1 DEF CeilSet, Step, Admitted
      <3>2. comp_gas[t] \in Int
        BY <3>1, GasTypes DEF TypeOK
      <3> QED
        BY <2>1, <3>1, <3>2, GasAssumption DEF CeilSet, Tenths
    <2>2. CASE ResetSet(t)
      BY <2>2 DEF ResetSet, Step, ResetStep, TypeOK
    <2>3. CASE ~CeilSet(t) /\ ~ResetSet(t)
      BY <2>3 DEF Run, Enter, BurnCheck, BurnInc, BurnStore, CeilCheck, CeilTake,
                  CeilGive, ComputeScore, ResetCheck, ResetTake, ResetGive, ResetZero,
                  ResetInc, ResetStore, Return, Take, statics
    <2> QED
      BY <2>1, <2>2, <2>3
  <1> QED
    BY <1>1, AdmittedInv, PTL DEF Spec, NaNOnlyByReset
=============================================================================
