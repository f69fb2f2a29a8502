--------------------------- MODULE CircularBuffer ---------------------------
(***************************************************************************)
(* The PM2.5 sample buffer of the end device,                              *)
(* my_projects/thread_end_device/main/src/circular_buffer.cpp: a deque     *)
(* guarded by a mutex, called from any number of preemptible tasks.  One   *)
(* action is one step a task can be preempted after: taking the mutex, the *)
(* size check with its pop_front, push_back, one turn of the loops over    *)
(* the deque, and the release at the end of the lock_guard's scope.        *)
(***************************************************************************)
EXTENDS Integers, Sequences

CONSTANTS Tasks, Items, MAX_ITEMS,
          NoTask      \* the mutex is free

ASSUME MaxItemsAssumption == MAX_ITEMS \in Nat \ {0}

ASSUME ItemsAssumption == Items \subseteq Nat

ASSUME NoTaskAssumption == NoTask \notin Tasks

VARIABLES buffer,        \* the deque
          buffer_mutex,  \* the task that holds it, or NoTask
          pc,            \* [Tasks -> Steps]
          op,            \* [Tasks -> Ops \cup {"none"}]: the function the task is in
          item,          \* [Tasks -> Items \cup {0}]: argument of add_item
          sum,           \* [Tasks -> Seq(Items)]: the terms a loop has visited
          ret            \* [Tasks -> Results]: what the call will return

vars == <<buffer, buffer_mutex, pc, op, item, sum, ret>>

Steps == {"idle", "lock", "body", "push", "loop", "unlock"}

Ops == {"add_item", "remove_item", "buffer_size", "print_buffer", "get_average"}

NoResult == [terms |-> <<>>, n |-> 0]

Results == [terms : Seq(Int), n : Nat]

Init == /\ buffer = <<>>
        /\ buffer_mutex = NoTask
        /\ pc = [t \in Tasks |-> "idle"]
        /\ op = [t \in Tasks |-> "none"]
        /\ item = [t \in Tasks |-> 0]
        /\ sum = [t \in Tasks |-> <<>>]
        /\ ret = [t \in Tasks |-> NoResult]

Goto(t, s) == pc' = [pc EXCEPT ![t] = s]

(* A task calls one of the five functions.                                 *)
Call(t) == /\ pc[t] = "idle"
           /\ \E o \in Ops :
                /\ op' = [op EXCEPT ![t] = o]
                /\ IF o = "add_item" THEN \E x \in Items : item' = [item EXCEPT ![t] = x]
                                     ELSE item' = item
           /\ Goto(t, "lock")
           /\ UNCHANGED <<buffer, buffer_mutex, sum, ret>>

(* Slip: the lock_guard line is missing.                                   *)
LockMissing(t) == /\ pc[t] = "lock"
                  /\ buffer_mutex' = t
                  /\ Goto(t, "body")
                  /\ UNCHANGED <<buffer, op, item, sum, ret>>

(* std::lock_guard's constructor.                                          *)
Lock(t) == /\ pc[t] = "lock"
           /\ buffer_mutex = NoTask
           /\ buffer_mutex' = t
           /\ Goto(t, "body")
           /\ UNCHANGED <<buffer, op, item, sum, ret>>

(* Slip: size() > MAX_ITEMS.                                               *)
TrimLate(t) ==
  /\ pc[t] = "body" /\ op[t] = "add_item"
  /\ buffer' = IF Len(buffer) > MAX_ITEMS THEN Tail(buffer) ELSE buffer
  /\ Goto(t, "push")
  /\ UNCHANGED <<buffer_mutex, op, item, sum, ret>>

(* Slip: pop_back instead of pop_front.                                    *)
TrimNewest(t) ==
  /\ pc[t] = "body" /\ op[t] = "add_item"
  /\ buffer' = IF Len(buffer) >= MAX_ITEMS
               THEN SubSeq(buffer, 1, Len(buffer) - 1) ELSE buffer
  /\ Goto(t, "push")
  /\ UNCHANGED <<buffer_mutex, op, item, sum, ret>>

(* add_item: the size check and pop_front.                                 *)
add_item_trim(t) ==
  /\ pc[t] = "body" /\ op[t] = "add_item"
  /\ buffer' = IF Len(buffer) >= MAX_ITEMS THEN Tail(buffer) ELSE buffer
  /\ Goto(t, "push")
  /\ UNCHANGED <<buffer_mutex, op, item, sum, ret>>

(* add_item: push_back.                                                    *)
add_item_push(t) ==
  /\ pc[t] = "push"
  /\ buffer' = Append(buffer, item[t])
  /\ Goto(t, "unlock")
  /\ UNCHANGED <<buffer_mutex, op, item, sum, ret>>

(* Slip: a manual lock, and the empty case returns without releasing it.   *)
RemoveKeepsLock(t) ==
  /\ pc[t] = "body" /\ op[t] = "remove_item"
  /\ \/ /\ buffer = <<>>
        /\ ret' = [ret EXCEPT ![t] = [terms |-> <<-1>>, n |-> 1]]
        /\ buffer' = buffer
        /\ Goto(t, "idle")
     \/ /\ buffer # <<>>
        /\ ret' = [ret EXCEPT ![t] = [terms |-> <<Head(buffer)>>, n |-> 1]]
        /\ buffer' = Tail(buffer)
        /\ Goto(t, "unlock")
  /\ UNCHANGED <<buffer_mutex, op, item, sum>>

remove_item(t) ==
  /\ pc[t] = "body" /\ op[t] = "remove_item"
  /\ \/ /\ buffer = <<>>
        /\ ret' = [ret EXCEPT ![t] = [terms |-> <<-1>>, n |-> 1]]
        /\ buffer' = buffer
     \/ /\ buffer # <<>>
        /\ ret' = [ret EXCEPT ![t] = [terms |-> <<Head(buffer)>>, n |-> 1]]
        /\ buffer' = Tail(buffer)
  /\ Goto(t, "unlock")
  /\ UNCHANGED <<buffer_mutex, op, item, sum>>

buffer_size(t) ==
  /\ pc[t] = "body" /\ op[t] = "buffer_size"
  /\ ret' = [ret EXCEPT ![t] = [terms |-> <<>>, n |-> Len(buffer)]]
  /\ Goto(t, "unlock")
  /\ UNCHANGED <<buffer, buffer_mutex, op, item, sum>>

(* print_buffer and get_average start a loop over the deque; get_average   *)
(* returns 0.0f at once when it is empty, print_buffer's loop ends at once. *)
LoopStart(t) ==
  /\ pc[t] = "body" /\ op[t] \in {"print_buffer", "get_average"}
  /\ \/ /\ buffer = <<>>
        /\ ret' = [ret EXCEPT ![t] = NoResult]
        /\ Goto(t, "unlock")
     \/ /\ buffer # <<>>
        /\ Goto(t, "loop")
        /\ ret' = ret
  /\ UNCHANGED <<buffer, buffer_mutex, op, item, sum>>

(* One turn of the loop.                                                   *)
LoopTurn(t) ==
  /\ pc[t] = "loop"
  /\ Len(sum[t]) < Len(buffer)
  /\ sum' = [sum EXCEPT ![t] = Append(@, buffer[Len(@) + 1])]
  /\ UNCHANGED <<buffer, buffer_mutex, pc, op, item, ret>>

(* The loop is over; get_average divides by the size the deque has now.    *)
LoopEnd(t) ==
  /\ pc[t] = "loop"
  /\ Len(sum[t]) >= Len(buffer)
  /\ ret' = [ret EXCEPT ![t] = [terms |-> sum[t], n |-> Len(buffer)]]
  /\ Goto(t, "unlock")
  /\ sum' = [sum EXCEPT ![t] = <<>>]
  /\ UNCHANGED <<buffer, buffer_mutex, op, item>>

(* std::lock_guard's destructor, on every way out of the function; the     *)
(* call's argument and result are gone with its stack frame.               *)
Unlock(t) == /\ pc[t] = "unlock"
             /\ buffer_mutex' = NoTask
             /\ Goto(t, "idle")
             /\ op' = [op EXCEPT ![t] = "none"]
             /\ item' = [item EXCEPT ![t] = 0]
             /\ ret' = [ret EXCEPT ![t] = NoResult]
             /\ UNCHANGED <<buffer, sum>>

Progress(t) == \/ add_item_trim(t) \/ add_item_push(t) \/ remove_item(t)
               \/ buffer_size(t) \/ LoopStart(t) \/ LoopTurn(t) \/ LoopEnd(t)
               \/ Unlock(t)

Next == \E t \in Tasks : Call(t) \/ Lock(t) \/ Progress(t)

Spec == Init /\ [][Next]_vars

(* A task that is ready runs, and a task waiting for the mutex is not      *)
(* passed over for ever: the callers sleep for seconds between two calls   *)
(* and FreeRTOS hands a mutex to the waiter that came first.               *)
Fairness == \A t \in Tasks : WF_vars(Progress(t)) /\ SF_vars(Lock(t))

FairSpec == Spec /\ Fairness

----------------------------------------------------------------------------
(* PROPERTIES *)

Holding == {"body", "push", "loop", "unlock"}

(* Every variable keeps its type; the deque never outgrows MAX_ITEMS,      *)
(* which add_item's check-then-push only achieves under buffer_mutex.      *)
TypeOK == /\ buffer \in Seq(Items) /\ Len(buffer) <= MAX_ITEMS
          /\ buffer_mutex \in Tasks \cup {NoTask}
          /\ pc \in [Tasks -> Steps]
          /\ op \in [Tasks -> Ops \cup {"none"}]
          /\ item \in [Tasks -> Items \cup {0}]
          /\ sum \in [Tasks -> Seq(Items)]
          /\ ret \in [Tasks -> Results]

(* The mutex has an owner exactly while that task is inside a function.    *)
MutexInv == \A t \in Tasks : (pc[t] \in Holding) <=> (buffer_mutex = t)

(* Which function may be at which step, and the room add_item has made.    *)
StepInv == \A t \in Tasks :
             /\ pc[t] = "push" => /\ op[t] = "add_item" /\ item[t] \in Items
                                  /\ Len(buffer) < MAX_ITEMS
             /\ pc[t] \in {"lock", "body"} /\ op[t] = "add_item" => item[t] \in Items
             /\ pc[t] = "loop" => op[t] \in {"print_buffer", "get_average"}
             /\ pc[t] # "loop" => sum[t] = <<>>

(* No torn average: what a loop has visited so far is a prefix of the      *)
(* deque as it is now, whatever the other tasks do meanwhile               *)
(* (circular_buffer.cpp, get_average and print_buffer).                    *)
LoopInv == \A t \in Tasks :
             pc[t] = "loop" =>
               /\ Len(sum[t]) <= Len(buffer)
               /\ \A i \in 1..Len(sum[t]) : sum[t][i] = buffer[i]

(* The inductive invariant.                                                *)
IInv == TypeOK /\ MutexInv /\ StepInv /\ LoopInv

(* Refinement mapping.  add_item takes effect at its size check: from      *)
(* there on no other task can see the deque until the sample is in it.     *)
AbsWindow == IF buffer_mutex # NoTask /\ pc[buffer_mutex] = "push"
             THEN Append(buffer, item[buffer_mutex]) ELSE buffer

AbsPhase == [t \in Tasks |->
              IF pc[t] = "idle" THEN "idle"
              ELSE IF pc[t] \in {"lock", "body", "loop"} THEN "called"
              ELSE "done"]

Window == INSTANCE SlidingWindow WITH window <- AbsWindow, phase <- AbsPhase

(* Linearizability: every function of circular_buffer.cpp takes effect at  *)
(* one instant of a window of the last MAX_ITEMS samples, in arrival       *)
(* order, and returns what the window held at that instant.                *)
ImplementsWindow == Window!Spec

(* Every call returns: no way out of a function keeps buffer_mutex, the    *)
(* early returns of remove_item and get_average included.                  *)
CallsReturn == \A t \in Tasks : (pc[t] # "idle") ~> (pc[t] = "idle")

=============================================================================
