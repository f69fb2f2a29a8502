--------------------------- MODULE SlidingWindow ---------------------------
(***************************************************************************)
(* What my_projects/thread_end_device/main/src/circular_buffer.cpp         *)
(* promises its callers: a window over the last MAX_ITEMS samples on which *)
(* every call takes effect at one instant between its invocation and its   *)
(* return.  The code reaches this with a deque and a mutex; that it does   *)
(* is the refinement stated in CircularBuffer.                             *)
(***************************************************************************)
EXTENDS WindowOps

CONSTANTS Tasks,      \* FreeRTOS tasks that call the buffer
          Items       \* the sample values

VARIABLES window,     \* the samples, oldest first
          phase,      \* [Tasks -> Phases]: how far the task's call has got
          op,         \* [Tasks -> Ops \cup {"none"}]: the call it makes
          item,       \* [Tasks -> Items \cup {0}]: the argument of add_item
          ret         \* [Tasks -> Results]: what the call will return

vars == <<window, phase, op, item, ret>>

Phases == {"idle", "called", "done"}

Ops == {"add_item", "remove_item", "buffer_size", "print_buffer", "get_average"}

Results == [terms : Seq(Int), n : Nat]

NoResult == [terms |-> <<>>, n |-> 0]

Init == /\ window = <<>>
        /\ phase = [t \in Tasks |-> "idle"]
        /\ op = [t \in Tasks |-> "none"]
        /\ item = [t \in Tasks |-> 0]
        /\ ret = [t \in Tasks |-> NoResult]

Invoke(t) == /\ phase[t] = "idle"
             /\ phase' = [phase EXCEPT ![t] = "called"]
             /\ \E o \in Ops :
                  /\ op' = [op EXCEPT ![t] = o]
                  /\ IF o = "add_item"
                     THEN \E x \in Items : item' = [item EXCEPT ![t] = x]
                     ELSE item' = item
             /\ UNCHANGED <<window, ret>>

(* The instant at which the call happens.                                  *)
TakeEffect(t) ==
  /\ phase[t] = "called"
  /\ phase' = [phase EXCEPT ![t] = "done"]
  /\ \/ /\ op[t] = "add_item"
        /\ window' = Slide(window, item[t])
        /\ ret' = ret
     \/ /\ op[t] = "remove_item"
        /\ window' = IF window = <<>> THEN window ELSE Tail(window)
        /\ ret' = [ret EXCEPT ![t] = OldestOrError(window)]
     \/ /\ op[t] = "buffer_size"
        /\ window' = window
        /\ ret' = [ret EXCEPT ![t] = SizeOf(window)]
     \/ /\ op[t] \in {"print_buffer", "get_average"}
        /\ window' = window
        /\ ret' = [ret EXCEPT ![t] = Snapshot(window)]
  /\ UNCHANGED <<op, item>>

Return(t) == /\ phase[t] = "done"
             /\ phase' = [phase EXCEPT ![t] = "idle"]
             /\ op' = [op EXCEPT ![t] = "none"]
             /\ item' = [item EXCEPT ![t] = 0]
             /\ ret' = [ret EXCEPT ![t] = NoResult]
             /\ UNCHANGED window

Next == \E t \in Tasks : Invoke(t) \/ TakeEffect(t) \/ Return(t)

Spec == Init /\ [][Next]_vars
=============================================================================
