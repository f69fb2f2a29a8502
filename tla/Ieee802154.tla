------------------------------ MODULE Ieee802154 ------------------------------
(***************************************************************************)
(* The IEEE 802.15.4 driver of the chip,                                   *)
(* components/ieee802154/driver/esp_ieee802154_dev.c: its state machine,   *)
(* its receive buffers with the stub that takes frames when all of them    *)
(* are in use, the transmission it defers while a frame is coming in, and  *)
(* the interrupt handlers.  An interrupt handler and a critical section    *)
(* are one step each (the chip has one core).                              *)
(*                                                                         *)
(* The driver reports to its user by upcalls.  An action that makes them   *)
(* has a parameter for them: n is how often receive_done is called for the *)
(* buffer at rx_index.                                                     *)
(*                                                                         *)
(* The hardware is external: a frame it is receiving and the one event it  *)
(* has latched.  Every event is followed by a turnaround of 192 us at      *)
(* least, and an interrupt is not held off for longer.                     *)
(***************************************************************************)
EXTENDS Integers, FiniteSetsExt

CONSTANT RX_BUFFER_SIZE     \* CONFIG_IEEE802154_RX_BUFFER_SIZE

ASSUME BufferAssumption == RX_BUFFER_SIZE \in Nat \ {0}

VARIABLES state,            \* s_ieee802154_state
          rx_index,         \* s_rx_index: the buffer the hardware receives into
          process,          \* s_rx_frame_info[].process: the user has the buffer
          pending_tx,       \* s_pending_tx.frame
          receiving,        \* ieee802154_ll_is_current_rx_frame
          latched,          \* the event the hardware has raised
          unseen            \* history: the frame that a transmission is deferred
                            \* behind has ended without an interrupt

Buffers == 0..(RX_BUFFER_SIZE - 1)

STUB == RX_BUFFER_SIZE

(* What the user sends, without and with a request for an acknowledgement. *)
Frames == {"data", "data_ack"}

(* s_ieee802154_state, with TX and TX_CCA told apart not by the assessment *)
(* of the channel but by what s_tx_frame asks for.                         *)
States == {"idle", "sleep", "rx", "tx_ack", "tx_enh_ack", "tx_data", "tx_data_ack",
           "rx_ack", "ed"}

Sending == {"tx_data", "tx_data_ack"}

(* RX_DONE by the frame received: no answer wanted, one that the hardware  *)
(* sends, one that software has to write (2015 frames).                    *)
RxDone == {"rx_plain", "rx_wants_ack", "rx_wants_enh"}

Events == RxDone \cup {"none", "rx_abort", "ack_tx_done", "tx_done", "ack_rx_done",
                       "tx_abort", "tx_security", "ed_done"}

driver == <<state, rx_index, process, pending_tx, receiving, latched, unseen>>

DriverInit == /\ state = "idle" /\ rx_index = 0
              /\ process = [b \in Buffers |-> FALSE]
              /\ pending_tx = "none"
              /\ receiving = FALSE /\ latched = "none" /\ unseen = FALSE

DriverReset == /\ state' = "idle" /\ rx_index' = 0
               /\ process' = [b \in Buffers |-> FALSE]
               /\ pending_tx' = "none"
               /\ receiving' = FALSE /\ latched' = "none" /\ unseen' = FALSE

----------------------------------------------------------------------------
(* Receive buffers *)

Free(proc, i) == {k \in 1..RX_BUFFER_SIZE : ~proc[(k + i) % RX_BUFFER_SIZE]}

(* Slip: the search takes the next buffer without a look at its flag.      *)
NextWhatever(i, proc) ==
  IF i # STUB /\ ~proc[i] THEN i ELSE (1 + i) % RX_BUFFER_SIZE

(* The buffer in use if it is free, else the next free one, else the stub. *)
set_next_rx_buffer(i, proc) ==
  IF i # STUB /\ ~proc[i] THEN i
  ELSE IF Free(proc, i) = {} THEN STUB
  ELSE (Min(Free(proc, i)) + i) % RX_BUFFER_SIZE

(* ieee802154_receive_done and ieee802154_transmit_done with an ack: the   *)
(* user has the buffer from now on, unless it is the stub.                 *)
HandedOut == IF rx_index = STUB THEN process ELSE [process EXCEPT ![rx_index] = TRUE]

(* ieee802154_receive_handle_done                                          *)
receive_handle_done(b) == process' = [process EXCEPT ![b] = FALSE]

----------------------------------------------------------------------------
(* Operations, from a process flag array on *)

enable_rx(proc) == /\ rx_index' = set_next_rx_buffer(rx_index, proc)
                   /\ state' = "rx" /\ process' = proc

(* The part of transmit_internal after stop_current_operation.             *)
Send(f, proc) == /\ rx_index' = IF f = "data_ack" THEN set_next_rx_buffer(rx_index, proc)
                                                  ELSE rx_index
                 /\ state' = IF f = "data_ack" THEN "tx_data_ack" ELSE "tx_data"
                 /\ process' = proc

(* next_operation.  OpenThread sets rx_when_idle as it likes; the sleep    *)
(* called here finds the state IDLE and has nothing to stop.               *)
next_operation(proc) ==
  \/ /\ pending_tx # "none"
     /\ Send(pending_tx, proc) /\ pending_tx' = "none"
  \/ /\ pending_tx = "none" /\ UNCHANGED pending_tx
     /\ \/ enable_rx(proc)
        \/ state' = "sleep" /\ process' = proc /\ UNCHANGED rx_index

(* stop_current_operation reports a frame whose RX_DONE is still latched,  *)
(* the frame whose acknowledgement it cuts off, and the transmission it    *)
(* cuts off, with the acknowledgement that is latched if there is one.  Of *)
(* an energy scan it reports nothing.                                      *)
StopReports == \/ state = "rx" /\ latched \in RxDone
               \/ state \in {"tx_ack", "tx_enh_ack"}

AckLatched == state = "rx_ack" /\ latched = "ack_rx_done"

Stop(n) == /\ n = IF StopReports THEN 1 ELSE 0
           /\ receiving' = FALSE /\ latched' = "none"
           /\ unseen' = (pending_tx # "none")

Stopped == IF StopReports \/ AckLatched THEN HandedOut ELSE process

----------------------------------------------------------------------------
(* Interrupts *)

Handle(events) == latched \in events /\ latched' = "none"

(* A frame that needs no answer, or whose answer cannot be generated.      *)
RxDoneReports(n) == /\ Handle({"rx_plain", "rx_wants_enh"})
                    /\ n = 1
                    /\ next_operation(HandedOut)
                    /\ UNCHANGED <<receiving, unseen>>

(* A frame the hardware answers, or for which esp_ieee802154_enh_ack_generator *)
(* has written the answer.                                                 *)
RxDoneAnswers == /\ Handle({"rx_wants_ack", "rx_wants_enh"})
                 /\ state' = IF latched = "rx_wants_ack" THEN "tx_ack" ELSE "tx_enh_ack"
                 /\ UNCHANGED <<rx_index, process, pending_tx, receiving, unseen>>

(* The acknowledgement is out, or broken off.  A deferred transmission     *)
(* stops the current operation, which is still the acknowledgement: the    *)
(* frame is reported a second time.                                        *)
isr_handle_ack_tx_done(n) == /\ Handle({"ack_tx_done"})
                             /\ n = IF pending_tx = "none" THEN 1 ELSE 2
                             /\ next_operation(HandedOut)
                             /\ UNCHANGED <<receiving, unseen>>

isr_handle_rx_abort == /\ Handle({"rx_abort"})
                       /\ next_operation(process)
                       /\ UNCHANGED <<receiving, unseen>>

AwaitAck == /\ Handle({"tx_done"}) /\ state = "tx_data_ack"
            /\ state' = "rx_ack"
            /\ UNCHANGED <<rx_index, process, pending_tx, receiving, unseen>>

isr_handle_tx_done == /\ Handle({"tx_done"}) /\ state = "tx_data"
                      /\ next_operation(process)
                      /\ UNCHANGED <<receiving, unseen>>

(* The acknowledgement is in a buffer, or in the stub, where it is lost.   *)
isr_handle_ack_rx_done == /\ Handle({"ack_rx_done"})
                          /\ next_operation(HandedOut)
                          /\ UNCHANGED <<receiving, unseen>>

(* The transmission or the wait for its acknowledgement ends without one:  *)
(* TX_ABORT for a reason that is enabled, or the timer.                    *)
isr_handle_tx_abort(e) == /\ Handle({e}) /\ e \in {"tx_abort", "tx_security"}
                          /\ next_operation(process)
                          /\ UNCHANGED <<receiving, unseen>>

isr_handle_ed_done == /\ Handle({"ed_done"})
                      /\ next_operation(process)
                      /\ UNCHANGED <<receiving, unseen>>

----------------------------------------------------------------------------
(* Calls *)

Busy == (state = "rx" /\ receiving) \/ state \in {"tx_ack", "tx_enh_ack"}

(* The first critical section of ieee802154_transmit defers the frame.  It *)
(* does not stop the hardware: the frame that is coming in may be broken   *)
(* off after is_current_rx_frame was read and before the interrupts of     *)
(* broken-off frames are enabled, and then raises none ...                 *)
Defer(f) == /\ Busy
            /\ pending_tx' = f
            /\ \/ UNCHANGED <<receiving, unseen>>
               \/ receiving /\ receiving' = FALSE /\ unseen' = TRUE
            /\ UNCHANGED <<state, rx_index, process, latched>>

(* ... or leaves it to the second, in transmit_internal; an interrupt may  *)
(* come between the two.                                                   *)
transmit_internal(f, n) == /\ Stop(n)
                           /\ Send(f, Stopped)
                           /\ UNCHANGED pending_tx

(* It returns at once when the radio receives already and no change of the *)
(* PIB, such as the channel's, is pending.                                 *)
ieee802154_receive(n) == /\ Stop(n)
                         /\ enable_rx(Stopped)
                         /\ UNCHANGED pending_tx

ieee802154_sleep(n) == /\ state # "sleep" /\ Stop(n)
                       /\ state' = "sleep" /\ process' = Stopped
                       /\ UNCHANGED <<rx_index, pending_tx>>

ieee802154_energy_detect(n) == /\ Stop(n)
                               /\ state' = "ed" /\ process' = Stopped
                               /\ UNCHANGED <<rx_index, pending_tx>>

----------------------------------------------------------------------------
(* Hardware *)

Raise(e) == latched = "none" /\ latched' = e

hw == <<state, rx_index, process, pending_tx>>

FrameBegins == /\ state = "rx" /\ ~receiving /\ latched = "none"
               /\ receiving' = TRUE /\ unseen' = FALSE
               /\ UNCHANGED <<hw, latched>>

(* The frame is complete, or broken off: an abort raises an interrupt only *)
(* while a transmission is deferred.                                       *)
FrameEnds == /\ receiving /\ receiving' = FALSE
             /\ \/ \E e \in RxDone : Raise(e)
                \/ pending_tx # "none" /\ Raise("rx_abort")
                \/ pending_tx = "none" /\ UNCHANGED latched
             /\ UNCHANGED <<hw, unseen>>

AckSent == /\ state \in {"tx_ack", "tx_enh_ack"} /\ Raise("ack_tx_done")
           /\ UNCHANGED <<hw, receiving, unseen>>

TxEnds == /\ state \in Sending /\ \E e \in {"tx_done", "tx_abort", "tx_security"} : Raise(e)
          /\ UNCHANGED <<hw, receiving, unseen>>

AckWaitEnds == /\ state = "rx_ack" /\ \E e \in {"ack_rx_done", "tx_abort"} : Raise(e)
               /\ UNCHANGED <<hw, receiving, unseen>>

EdEnds == /\ state = "ed" /\ Raise("ed_done")
          /\ UNCHANGED <<hw, receiving, unseen>>
=============================================================================
