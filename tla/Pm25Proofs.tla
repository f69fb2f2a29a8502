----------------------------- MODULE Pm25Proofs -----------------------------
(***************************************************************************)
(* For any number of tasks, readings per sample and window size: a task's  *)
(* own sample is in the average it returns unless a whole window of other  *)
(* samples came between its add_item and its get_average.                  *)
(***************************************************************************)
EXTENDS Pm25, SequenceTheorems, TLAPS

(* What add_item does to the window: it stays bounded, the new sample is   *)
(* its last, and what was k from the end is k + 1 from the end.            *)
LEMMA SlideFacts ==
  ASSUME NEW w \in Seq(Nat), Len(w) <= MAX_ITEMS, NEW x \in Nat
  PROVE  LET s == Slide(w, x) IN
         /\ s \in Seq(Nat) /\ Len(s) <= MAX_ITEMS /\ Len(s) > 0
         /\ s[Len(s)] = x
         /\ \A k \in Nat : k < Len(w) /\ k + 1 < MAX_ITEMS =>
              k + 1 < Len(s) /\ s[Len(s) - (k + 1)] = w[Len(w) - k]
  <1> USE WindowAssumption
  <1>1. CASE Len(w) >= MAX_ITEMS
    <2>1. w # <<>> /\ Len(w) = MAX_ITEMS
      BY <1>1
    <2>2. /\ Tail(w) \in Seq(Nat) /\ Len(Tail(w)) = Len(w) - 1
          /\ \A j \in 1..Len(w) - 1 : Tail(w)[j] = w[j + 1]
      BY <2>1
    <2> DEFINE s == Append(Tail(w), x)
    <2>3. /\ s \in Seq(Nat) /\ Len(s) = Len(w) /\ s[Len(s)] = x
          /\ \A j \in 1..Len(w) - 1 : s[j] = w[j + 1]
      BY <2>1, <2>2
    <2>4. ASSUME NEW k \in Nat, k < Len(w), k + 1 < MAX_ITEMS
          PROVE  k + 1 < Len(s) /\ s[Len(s) - (k + 1)] = w[Len(w) - k]
      <3>1. Len(w) - (k + 1) \in 1..Len(w) - 1
        BY <2>1, <2>4
      <3>2. s[Len(w) - (k + 1)] = w[Len(w) - (k + 1) + 1]
        BY <3>1, <2>3
      <3> HIDE DEF s
      <3> QED
        BY <3>1, <3>2, <2>1, <2>3, <2>4
    <2>5. Slide(w, x) = s
      BY <1>1 DEF Slide
    <2> HIDE DEF s
    <2> QED
      BY <2>1, <2>3, <2>4, <2>5
  <1>2. CASE Len(w) < MAX_ITEMS
    <2> DEFINE s == Append(w, x)
    <2>1. /\ s \in Seq(Nat) /\ Len(s) = Len(w) + 1 /\ s[Len(s)] = x
          /\ \A j \in 1..Len(w) : s[j] = w[j]
      OBVIOUS
    <2>2. ASSUME NEW k \in Nat, k < Len(w), k + 1 < MAX_ITEMS
          PROVE  k + 1 < Len(s) /\ s[Len(s) - (k + 1)] = w[Len(w) - k]
      BY <2>1, <2>2
    <2>3. Slide(w, x) = s
      BY <1>2 DEF Slide
    <2>4. Len(w) \in Nat
      OBVIOUS
    <2> HIDE DEF s
    <2> QED
      BY <1>2, <2>1, <2>2, <2>3, <2>4
  <1> QED
    BY <1>1, <1>2

(* What get_average returns is a reading.                                  *)
LEMMA ReadingFacts ==
  /\ NoReading \in Readings
  /\ \A w \in Seq(Nat) : /\ Snapshot(w) \in Readings
                         /\ Snapshot(w).terms = w /\ Snapshot(w).n = Len(w)
  BY DEF NoReading, Readings, Snapshot

(* At power on no task has taken a reading.                                *)
LEMMA InitIInv == Init => IInv
  <1> SUFFICES ASSUME Init PROVE IInv
    OBVIOUS
  <1> USE ReadingsAssumption, WindowAssumption DEF Init, Idle, Steps
  <1>1. TypeOK
    BY ReadingFacts DEF TypeOK
  <1>2. ReadingsLeft /\ SamplePlace /\ OwnSampleCounted
    BY DEF ReadingsLeft, SamplePlace, OwnSampleCounted
  <1> QED
    BY <1>1, <1>2 DEF IInv

(* A restart leads back to such a state.                                   *)
LEMMA AbortIInv ==
  ASSUME NEW why \in {"adc_busy", "adc_error"}, Abort(why)
  PROVE  IInv'
  <1> USE ReadingsAssumption, WindowAssumption DEF Abort, Idle, Steps
  <1>1. TypeOK'
    BY ReadingFacts DEF TypeOK
  <1>2. ReadingsLeft' /\ SamplePlace' /\ OwnSampleCounted'
    BY DEF ReadingsLeft, SamplePlace, OwnSampleCounted
  <1> QED
    BY <1>1, <1>2 DEF IInv

(* Every step preserves the inductive invariant.                           *)
LEMMA NextIInv == IInv /\ [Next]_vars => IInv'
  <1> SUFFICES ASSUME IInv, [Next]_vars PROVE IInv'
    OBVIOUS
  <1> USE ReadingsAssumption, WindowAssumption
  <1> USE DEF IInv, Steps
  <1>1. CASE UNCHANGED vars
    BY <1>1 DEF vars, TypeOK, ReadingsLeft, SamplePlace, SampleInWindow, OwnSampleCounted
  <1>2. ASSUME NEW t \in Tasks, Run(t) PROVE IInv'
    <2>1. CASE Start(t) \/ adc_lock_try_acquire(t) \/ adc_oneshot_hal_convert(t)
      <3> USE <2>1 DEF Start, adc_lock_try_acquire, adc_oneshot_hal_convert, Step
      <3>1. TypeOK'
        BY DEF TypeOK
      <3>2. ReadingsLeft'
        BY DEF TypeOK, ReadingsLeft
      <3>3. SamplePlace' /\ OwnSampleCounted'
        BY DEF TypeOK, SamplePlace, SampleInWindow, OwnSampleCounted
      <3> QED
        BY <3>1, <3>2, <3>3
    <2>2. CASE AdcBusy(t) \/ ReadingFails(t)
      BY <2>2, AbortIInv DEF AdcBusy, ReadingFails
    <2>3. CASE Reading(t)
      <3>1. TypeOK' /\ ReadingsLeft'
        BY <2>3, VoltsAssumption DEF Reading, TypeOK, ReadingsLeft
      <3>2. SamplePlace' /\ OwnSampleCounted'
        BY <2>3 DEF Reading, TypeOK, SamplePlace, SampleInWindow, OwnSampleCounted
      <3> QED
        BY <3>1, <3>2
    <2>4. CASE add_item(t)
      <3>1. PICK x \in Sampled(total[t]) : /\ sample' = [sample EXCEPT ![t] = x]
                                           /\ window' = Slide(window, x)
        BY <2>4 DEF add_item
      <3>2. x \in Nat
        BY DEF Sampled, TypeOK
      <3>3. /\ window' \in Seq(Nat) /\ Len(window') <= MAX_ITEMS /\ Len(window') > 0
            /\ window'[Len(window')] = x
            /\ \A k \in Nat : k < Len(window) /\ k + 1 < MAX_ITEMS =>
                 k + 1 < Len(window') /\ window'[Len(window') - (k + 1)] = window[Len(window) - k]
        BY <3>1, <3>2, SlideFacts DEF TypeOK
      <3>4. TypeOK'
        BY <2>4, <3>1, <3>2, <3>3 DEF add_item, Step, TypeOK, Count
      <3>5. ReadingsLeft' /\ OwnSampleCounted'
        BY <2>4, <3>1 DEF add_item, Step, TypeOK, ReadingsLeft, OwnSampleCounted
      <3>6. ASSUME NEW u \in Tasks, pc'[u] = "average" PROVE SampleInWindow(u)'
        <4>1. CASE u = t
          BY <4>1, <2>4, <3>1, <3>3, <3>4 DEF add_item, Step, TypeOK, SampleInWindow
        <4>2. CASE u # t
          <5>1. pc[u] = "average" /\ others'[u] = Count(others[u]) /\ sample'[u] = sample[u]
            BY <4>2, <3>6, <2>4, <3>1 DEF add_item, Step, TypeOK
          <5>2. SampleInWindow(u) /\ others[u] \in Nat
            BY <5>1 DEF SamplePlace, TypeOK
          <5>3. CASE others[u] + 1 < MAX_ITEMS
            <6>1. others'[u] = others[u] + 1
              BY <5>1, <5>2, <5>3 DEF Count
            <6>2. others[u] < Len(window) /\ window[Len(window) - others[u]] = sample[u]
              BY <5>2, <5>3 DEF SampleInWindow
            <6>3. /\ others[u] + 1 < Len(window')
                  /\ window'[Len(window') - (others[u] + 1)] = window[Len(window) - others[u]]
              BY <3>3, <5>2, <5>3, <6>2
            <6> QED
              BY <3>3, <5>1, <6>1, <6>2, <6>3 DEF SampleInWindow
          <5>4. CASE others[u] + 1 >= MAX_ITEMS
            <6>1. ~(others'[u] < MAX_ITEMS)
              BY <5>1, <5>2, <5>4 DEF Count
            <6> QED
              BY <3>3, <6>1 DEF SampleInWindow
          <5> QED
            BY <5>2, <5>3, <5>4
        <4> QED
          BY <4>1, <4>2
      <3> QED
        BY <3>4, <3>5, <3>6 DEF SamplePlace
    <2>5. CASE get_average(t)
      <3>1. TypeOK'
        BY <2>5, ReadingFacts DEF get_average, Step, TypeOK
      <3>2. ReadingsLeft' /\ SamplePlace'
        BY <2>5 DEF get_average, Step, TypeOK, ReadingsLeft, SamplePlace, SampleInWindow
      <3>3. OwnSampleCounted'
        <4>1. SampleInWindow(t) /\ reading'[t].terms = window /\ reading'[t].n = Len(window)
          BY <2>5, ReadingFacts DEF get_average, Step, TypeOK, SamplePlace
        <4> QED
          BY <2>5, <4>1 DEF get_average, Step, TypeOK, SampleInWindow, OwnSampleCounted
      <3> QED
        BY <3>1, <3>2, <3>3
    <2>6. CASE Return(t)
      <3>1. TypeOK' /\ ReadingsLeft'
        BY <2>6, ReadingFacts DEF Return, Step, TypeOK, ReadingsLeft
      <3>2. SamplePlace' /\ OwnSampleCounted'
        BY <2>6 DEF Return, Step, TypeOK, SamplePlace, SampleInWindow, OwnSampleCounted
      <3> QED
        BY <3>1, <3>2
    <2> QED
      BY <1>2, <2>1, <2>2, <2>3, <2>4, <2>5, <2>6 DEF Run
  <1> QED
    BY <1>1, <1>2 DEF Next

(* The inductive invariant holds across any interleaving and any restart.  *)
THEOREM Safety == Spec => []IInv
  BY InitIInv, NextIInv, PTL DEF Spec

(* Every variable keeps its type; no task writes past the array of         *)
(* add_to_pm25_buffer (sensors.c:79-108).                                  *)
THEOREM TypeCorrect == Spec => []TypeOK
  <1>1. IInv => TypeOK
    BY DEF IInv
  <1> QED
    BY <1>1, Safety, PTL

(* sensors.c:118-122: the average a task returns counts its own sample.    *)
THEOREM OwnSampleInAverage == Spec => []OwnSampleCounted
  <1>1. IInv => OwnSampleCounted
    BY DEF IInv
  <1> QED
    BY <1>1, Safety, PTL
=============================================================================
