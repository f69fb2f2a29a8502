------------------------ MODULE CircularBufferProofs ------------------------
(***************************************************************************)
(* For any tasks, any samples and any capacity: the deque never outgrows   *)
(* MAX_ITEMS, no loop sees it change, and circular_buffer.cpp implements   *)
(* the atomic window of SlidingWindow.                                     *)
(***************************************************************************)
EXTENDS CircularBuffer, SequenceTheorems, TLAPS

USE DEF Goto

(* What pop_front and push_back do to the deque.                           *)
LEMMA TailFacts ==
  ASSUME NEW S, NEW s \in Seq(S), s # <<>>
  PROVE  /\ Tail(s) \in Seq(S) /\ Len(Tail(s)) = Len(s) - 1 
         /\ Len(s) \in Nat \ {0} /\ Head(s) \in S
  OBVIOUS

(* push_back adds one sample at the end and moves no other.                *)
LEMMA AppendFacts ==
  ASSUME NEW S, NEW s \in Seq(S), NEW x \in S
  PROVE  /\ Append(s, x) \in Seq(S) /\ Len(Append(s, x)) = Len(s) + 1
         /\ \A i \in 1..Len(s) : Append(s, x)[i] = s[i]
         /\ Append(s, x)[Len(s) + 1] = x
  OBVIOUS

(* Samples are integers, as results are.                                   *)
LEMMA ItemsInt == Items \subseteq Int
  <1>1. \A x \in Items : x \in Nat
    BY ItemsAssumption, Zenon
  <1>2. \A x \in Nat : x \in Int
    OBVIOUS
  <1> QED
    BY <1>1, <1>2, Zenon

(* What a loop has visited can be returned.                                *)
LEMMA SampleSeq ==
  /\ Seq(Items) \subseteq Seq(Int)
  /\ <<>> \in Seq(Items) /\ Len(<<>>) = 0
  /\ \A x \in Int : <<x>> \in Seq(Int)
  <1>1. ASSUME NEW s \in Seq(Items) PROVE s \in Seq(Int)
    BY ItemsInt, SeqMonotonic
  <1> QED
    BY <1>1

(* What a call can return is a result.                                     *)
LEMMA ResultFacts ==
  /\ NoResult \in Results
  /\ \A s \in Seq(Items), n \in Nat : [terms |-> s, n |-> n] \in Results
  /\ \A x \in Int : [terms |-> <<x>>, n |-> 1] \in Results
  BY SampleSeq DEF NoResult, Results

(* The initial state satisfies the inductive invariant.                    *)
LEMMA InitIInv == Init => IInv
  <1> SUFFICES ASSUME Init PROVE IInv
    OBVIOUS
  <1> USE DEF Init
  <1>1. TypeOK
    BY MaxItemsAssumption DEF TypeOK, Steps, Ops, Results, NoResult
  <1>2. MutexInv
    BY NoTaskAssumption DEF MutexInv, Holding
  <1>3. StepInv /\ LoopInv
    BY DEF StepInv, LoopInv
  <1> QED
    BY <1>1, <1>2, <1>3 DEF IInv

(* Every step preserves the inductive invariant.                           *)
LEMMA NextIInv == IInv /\ [Next]_vars => IInv'
  <1> SUFFICES ASSUME IInv, [Next]_vars PROVE IInv'
    OBVIOUS
  <1> USE MaxItemsAssumption, ItemsAssumption, NoTaskAssumption
  <1> USE DEF IInv, TypeOK, MutexInv, StepInv, LoopInv, Holding, Steps, Ops
  <1>1. CASE UNCHANGED vars
    BY <1>1 DEF vars
  <1>2. ASSUME NEW t \in Tasks, Call(t) PROVE IInv'
    <2> PICK o \in Ops : /\ op' = [op EXCEPT ![t] = o]
                         /\ IF o = "add_item"
                            THEN \E x \in Items : item' = [item EXCEPT ![t] = x]
                            ELSE item' = item
      BY <1>2 DEF Call
    <2>1. /\ item' \in [Tasks -> Items \cup {0}]
          /\ o = "add_item" => item'[t] \in Items
          /\ \A u \in Tasks \ {t} : item'[u] = item[u]
      <3>1. CASE o = "add_item"
        <4> PICK x \in Items : item' = [item EXCEPT ![t] = x]
          BY <3>1
        <4> QED
          OBVIOUS
      <3>2. CASE o # "add_item"
        BY <3>2
      <3> QED
        BY <3>1, <3>2
    <2>2. TypeOK' /\ MutexInv'
      BY <1>2, <2>1 DEF Call
    <2>3. StepInv' /\ LoopInv'
      BY <1>2, <2>1 DEF Call
    <2> QED
      BY <2>2, <2>3
  <1>3. ASSUME NEW t \in Tasks, Lock(t) PROVE IInv'
    BY <1>3 DEF Lock
  <1>4. ASSUME NEW t \in Tasks, add_item_trim(t) PROVE IInv'
    BY <1>4, TailFacts DEF add_item_trim
  <1>5. ASSUME NEW t \in Tasks, add_item_push(t) PROVE IInv'
    BY <1>5, AppendFacts DEF add_item_push
  <1>6. ASSUME NEW t \in Tasks, remove_item(t) PROVE IInv'
    <2>1. CASE buffer = <<>>
      <3>1. ret' = [ret EXCEPT ![t] = [terms |-> <<-1>>, n |-> 1]] /\ buffer' = buffer
        BY <1>6, <2>1 DEF remove_item
      <3>2. ret' \in [Tasks -> Results]
        BY <3>1, ResultFacts, -1 \in Int
      <3> QED
        BY <1>6, <3>1, <3>2 DEF remove_item
    <2>2. CASE buffer # <<>>
      <3>1. /\ ret' = [ret EXCEPT ![t] = [terms |-> <<Head(buffer)>>, n |-> 1]]
            /\ buffer' = Tail(buffer)
        BY <1>6, <2>2 DEF remove_item
      <3>2. Head(buffer) \in Int
        <4>1. Head(buffer) \in Items
          BY <2>2, TailFacts
        <4> QED
          BY <4>1, ItemsInt, Zenon
      <3>3. ret' \in [Tasks -> Results]
        BY <3>1, <3>2, ResultFacts
      <3>4. buffer' \in Seq(Items) /\ Len(buffer') < MAX_ITEMS /\ Len(buffer') \in Nat
        BY <2>2, <3>1, TailFacts
      <3> QED
        BY <1>6, <3>3, <3>4 DEF remove_item
    <2> QED
      BY <2>1, <2>2
  <1>7. ASSUME NEW t \in Tasks, buffer_size(t) PROVE IInv'
    <2>1. ret' \in [Tasks -> Results]
      BY <1>7, ResultFacts, SampleSeq DEF buffer_size
    <2> QED
      BY <1>7, <2>1 DEF buffer_size
  <1>8. ASSUME NEW t \in Tasks, LoopStart(t) PROVE IInv'
    <2>1. ret' \in [Tasks -> Results]
      BY <1>8, ResultFacts DEF LoopStart
    <2>2. sum[t] = <<>> /\ Len(sum[t]) = 0
      BY <1>8, SampleSeq DEF LoopStart
    <2>3. TypeOK' /\ MutexInv' /\ StepInv'
      BY <1>8, <2>1 DEF LoopStart
    <2>4. LoopInv'
      BY <1>8, <2>2 DEF LoopStart
    <2> QED
      BY <2>3, <2>4
  <1>9. ASSUME NEW t \in Tasks, LoopTurn(t) PROVE IInv'
    BY <1>9, AppendFacts DEF LoopTurn
  <1>10. ASSUME NEW t \in Tasks, LoopEnd(t) PROVE IInv'
    <2>1. ret' \in [Tasks -> Results]
      BY <1>10, ResultFacts DEF LoopEnd
    <2>2. sum' \in [Tasks -> Seq(Items)]
      BY <1>10, SampleSeq DEF LoopEnd
    <2> QED
      BY <1>10, <2>1, <2>2 DEF LoopEnd
  <1>11. ASSUME NEW t \in Tasks, Unlock(t) PROVE IInv'
    <2>1. ret' \in [Tasks -> Results]
      BY <1>11, ResultFacts DEF Unlock
    <2> QED
      BY <1>11, <2>1 DEF Unlock
  <1> QED
    BY <1>1, <1>2, <1>3, <1>4, <1>5, <1>6, <1>7, <1>8, <1>9, <1>10, <1>11
    DEF Next, Progress

(* The inductive invariant holds in every reachable state.                 *)
THEOREM Safety == Spec => []IInv
  BY InitIInv, NextIInv, PTL DEF Spec

(* The deque is bounded, as a property of the specification.               *)
THEOREM TypeCorrect == Spec => []TypeOK
  BY Safety, PTL DEF IInv

(* A loop over the deque never sees it change.                             *)
THEOREM NoTornLoop == Spec => []LoopInv
  BY Safety, PTL DEF IInv

(* Initial states are initial states of the window.                        *)
LEMMA InitRefines == Init => Window!Init
  BY NoTaskAssumption DEF Init, Window!Init, AbsWindow, AbsPhase, NoResult, Window!NoResult

(* Outside the push step the window is the deque.                          *)
LEMMA WindowIsBuffer ==
  ASSUME IInv, NEW t \in Tasks, pc[t] \in Holding \ {"push"}
  PROVE  AbsWindow = buffer
  BY DEF IInv, MutexInv, Holding, AbsWindow

(* Every step is a step of the window or leaves it alone.                  *)
LEMMA NextRefines ==
  IInv /\ IInv' /\ [Next]_vars => [Window!Next]_Window!vars
  <1> SUFFICES ASSUME IInv, IInv', [Next]_vars PROVE [Window!Next]_Window!vars
    OBVIOUS
  <1> USE NoTaskAssumption DEF Window!vars, Holding
  <1>t. /\ pc \in [Tasks -> Steps] /\ buffer \in Seq(Items) /\ Len(buffer) \in Nat
        /\ buffer_mutex \in Tasks \cup {NoTask}
        /\ sum \in [Tasks -> Seq(Items)]
    BY DEF IInv, TypeOK
  <1>m. MutexInv /\ MutexInv' /\ StepInv /\ LoopInv
    BY DEF IInv
  <1>1. CASE UNCHANGED vars
    BY <1>1 DEF vars, AbsWindow, AbsPhase
  <1>2. ASSUME NEW t \in Tasks, Call(t) PROVE Window!Invoke(t)
    <2>1. AbsWindow' = AbsWindow
      <3>1. buffer_mutex # t
        BY <1>2, <1>m DEF Call, MutexInv
      <3>2. \A u \in Tasks \ {t} : item'[u] = item[u] /\ pc'[u] = pc[u]
        BY <1>2, <1>t DEF Call, IInv, TypeOK
      <3> QED
        BY <1>2, <1>t, <3>1, <3>2 DEF Call, AbsWindow
    <2>2. AbsPhase[t] = "idle" /\ AbsPhase' = [AbsPhase EXCEPT ![t] = "called"]
      BY <1>2, <1>t DEF Call, AbsPhase
    <2> QED
      BY <1>2, <2>1, <2>2 DEF Call, Window!Invoke, Ops, Window!Ops
  <1>3. ASSUME NEW t \in Tasks, Lock(t) PROVE UNCHANGED Window!vars
    BY <1>3, <1>t DEF Lock, AbsWindow, AbsPhase
  <1>4. ASSUME NEW t \in Tasks, add_item_trim(t) PROVE Window!TakeEffect(t)
    <2>1. AbsWindow = buffer /\ AbsWindow' = Window!Slide(AbsWindow, item[t])
      BY <1>4, <1>t, <1>m, WindowIsBuffer
      DEF add_item_trim, AbsWindow, MutexInv, Window!Slide
    <2>2. AbsPhase[t] = "called" /\ AbsPhase' = [AbsPhase EXCEPT ![t] = "done"]
      BY <1>4, <1>t DEF add_item_trim, AbsPhase
    <2> QED
      BY <1>4, <2>1, <2>2 DEF add_item_trim, Window!TakeEffect
  <1>5. ASSUME NEW t \in Tasks, add_item_push(t) PROVE UNCHANGED Window!vars
    <2>1. buffer_mutex = t /\ buffer_mutex' = t
      BY <1>5, <1>m DEF add_item_push, MutexInv
    <2>2. AbsWindow' = AbsWindow
      BY <1>5, <1>t, <2>1 DEF add_item_push, AbsWindow
    <2>3. AbsPhase' = AbsPhase
      BY <1>5, <1>t DEF add_item_push, AbsPhase
    <2> QED
      BY <1>5, <2>2, <2>3 DEF add_item_push
  <1>6. ASSUME NEW t \in Tasks, remove_item(t) PROVE Window!TakeEffect(t)
    <2>1. AbsWindow = buffer /\ AbsWindow' = buffer'
      BY <1>6, <1>t, <1>m, WindowIsBuffer DEF remove_item, AbsWindow, MutexInv
    <2>2. AbsPhase[t] = "called" /\ AbsPhase' = [AbsPhase EXCEPT ![t] = "done"]
      BY <1>6, <1>t DEF remove_item, AbsPhase
    <2> QED
      BY <1>6, <2>1, <2>2 DEF remove_item, Window!TakeEffect, Window!OldestOrError
  <1>7. ASSUME NEW t \in Tasks, buffer_size(t) PROVE Window!TakeEffect(t)
    <2>1. AbsWindow = buffer /\ AbsWindow' = buffer
      BY <1>7, <1>t, <1>m, WindowIsBuffer DEF buffer_size, AbsWindow, MutexInv
    <2>2. AbsPhase[t] = "called" /\ AbsPhase' = [AbsPhase EXCEPT ![t] = "done"]
      BY <1>7, <1>t DEF buffer_size, AbsPhase
    <2> QED
      BY <1>7, <2>1, <2>2 DEF buffer_size, Window!TakeEffect, Window!SizeOf
  <1>8. ASSUME NEW t \in Tasks, LoopStart(t)
        PROVE  Window!TakeEffect(t) \/ UNCHANGED Window!vars
    <2>1. AbsWindow = buffer /\ AbsWindow' = buffer
      BY <1>8, <1>t, <1>m, WindowIsBuffer DEF LoopStart, AbsWindow, MutexInv
    <2>2. CASE buffer = <<>>
      <3>1. AbsPhase[t] = "called" /\ AbsPhase' = [AbsPhase EXCEPT ![t] = "done"]
        BY <1>8, <2>2, <1>t DEF LoopStart, AbsPhase
      <3>2. ret' = [ret EXCEPT ![t] = Window!Snapshot(AbsWindow)]
        BY <1>8, <2>1, <2>2 DEF LoopStart, NoResult, Window!Snapshot
      <3> QED
        BY <1>8, <2>1, <3>1, <3>2 DEF LoopStart, Window!TakeEffect
    <2>3. CASE buffer # <<>>
      <3>1. AbsPhase' = AbsPhase
        BY <1>8, <2>3, <1>t DEF LoopStart, AbsPhase
      <3> QED
        BY <1>8, <2>1, <2>3, <3>1 DEF LoopStart
    <2> QED
      BY <2>2, <2>3
  <1>9. ASSUME NEW t \in Tasks, LoopTurn(t) PROVE UNCHANGED Window!vars
    BY <1>9 DEF LoopTurn, AbsWindow, AbsPhase
  <1>10. ASSUME NEW t \in Tasks, LoopEnd(t) PROVE Window!TakeEffect(t)
    <2>1. AbsWindow = buffer /\ AbsWindow' = buffer
      BY <1>10, <1>t, <1>m, WindowIsBuffer DEF LoopEnd, AbsWindow, MutexInv
    <2>2. AbsPhase[t] = "called" /\ AbsPhase' = [AbsPhase EXCEPT ![t] = "done"]
      BY <1>10, <1>t DEF LoopEnd, AbsPhase
    <2>3. sum[t] = buffer
      <3>1. sum[t] \in Seq(Items) /\ Len(sum[t]) = Len(buffer)
        BY <1>10, <1>t, <1>m DEF LoopEnd, LoopInv
      <3>2. \A i \in 1..Len(sum[t]) : sum[t][i] = buffer[i]
        BY <1>10, <1>m DEF LoopEnd, LoopInv
      <3> QED
        BY <1>t, <3>1, <3>2, SeqEqual
    <2>4. op[t] \in {"print_buffer", "get_average"}
      BY <1>10, <1>m DEF LoopEnd, StepInv
    <2> QED
      BY <1>10, <2>1, <2>2, <2>3, <2>4 DEF LoopEnd, Window!TakeEffect, Window!Snapshot
  <1>11. ASSUME NEW t \in Tasks, Unlock(t) PROVE Window!Return(t)
    <2>1. AbsWindow = buffer /\ AbsWindow' = buffer
      BY <1>11, <1>t, <1>m, WindowIsBuffer DEF Unlock, AbsWindow, MutexInv
    <2>2. AbsPhase[t] = "done" /\ AbsPhase' = [AbsPhase EXCEPT ![t] = "idle"]
      BY <1>11, <1>t DEF Unlock, AbsPhase
    <2> QED
      BY <1>11, <2>1, <2>2 DEF Unlock, Window!Return, NoResult, Window!NoResult
  <1> QED
    BY <1>1, <1>2, <1>3, <1>4, <1>5, <1>6, <1>7, <1>8, <1>9, <1>10, <1>11
    DEF Next, Progress, Window!Next

(* circular_buffer.cpp implements the atomic window: each of its functions *)
(* is linearizable, for every number of tasks and every capacity.          *)
THEOREM Linearizable == Spec => ImplementsWindow
  BY InitRefines, NextRefines, Safety, PTL DEF Spec, ImplementsWindow, Window!Spec
=============================================================================
