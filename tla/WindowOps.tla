----------------------------- MODULE WindowOps -----------------------------
(***************************************************************************)
(* What the functions of                                                   *)
(* my_projects/thread_end_device/main/src/circular_buffer.cpp do to a      *)
(* window of samples, oldest first.                                        *)
(*                                                                         *)
(* A float sum is represented by the sequence of its terms, so the value   *)
(* of get_average is the record with the terms that were added up and the  *)
(* divisor; the 0.0f of the empty buffer is the record with no term.       *)
(***************************************************************************)
EXTENDS Integers, Sequences

CONSTANT MAX_ITEMS      \* capacity of the window

(* Slip: pop_back makes room, at the cost of the newest sample.            *)
SlideNewest(w, x) ==
  Append(IF Len(w) >= MAX_ITEMS THEN SubSeq(w, 1, Len(w) - 1) ELSE w, x)

(* add_item: the oldest sample makes room when the window is full.         *)
Slide(w, x) == Append(IF Len(w) >= MAX_ITEMS THEN Tail(w) ELSE w, x)

(* remove_item: the oldest sample, or the code's -1.0f.                    *)
OldestOrError(w) == [terms |-> IF w = <<>> THEN <<-1>> ELSE <<Head(w)>>, n |-> 1]

(* get_average and print_buffer: one consistent picture of the window.     *)
Snapshot(w) == [terms |-> w, n |-> Len(w)]

SizeOf(w) == [terms |-> <<>>, n |-> Len(w)]
=============================================================================
