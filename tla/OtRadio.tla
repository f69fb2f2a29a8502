------------------------------- MODULE OtRadio -------------------------------
(***************************************************************************)
(* OpenThread's radio on top of the IEEE 802.15.4 driver,                  *)
(* components/openthread/src/port/esp_openthread_radio.c.  The driver's    *)
(* upcalls run in the interrupt (or in a critical section of a call): they *)
(* put a received frame in a circular queue, set an event bit, and make    *)
(* the eventfd readable.  esp_openthread_radio_process, in the main loop,  *)
(* turns bits and queue into OpenThread's callbacks and hands the buffers  *)
(* back.  In a callback, and when its tasklets and timers run, OpenThread  *)
(* may call the radio again.  It starts an operation only when none is     *)
(* outstanding, but may put the radio to sleep or back to receiving while  *)
(* a transmission is, as when the interface goes down; an energy scan,     *)
(* whose interruption the driver does not report, it lets finish.          *)
(***************************************************************************)
EXTENDS Ieee802154

VARIABLES slot,         \* s_receive_frame[].mPsdu: a buffer or NULL
          head, tail, used,     \* s_recv_queue
          ack,          \* s_ack_frame.mPsdu
          bits,         \* s_txrx_events, but for EVENT_RX_DONE, which is never read
          tx_error,     \* s_tx_error is one esp_openthread_radio_process knows
          event,        \* s_radio_event_fd is readable
          pc,           \* where the main loop is
          tmp,          \* s_txrx_events as clr_event has loaded it
          api,          \* a radio call on its way to its critical section
          op,           \* what OpenThread waits for
          mishap        \* history: what has happened to buffers

queue == <<slot, head, tail, used>>

port == <<queue, ack, bits, tx_error, event>>

main == <<pc, tmp, api, op>>

vars == <<driver, port, main, mishap>>

NULL == -1

(* The driver has reported one frame twice, a frame came while the queue   *)
(* was full, an acknowledgement came while the one before was there.       *)
Mishaps == {"doubled", "dropped", "ack_lost"}

Bits == {"tx_done", "tx_failed", "ed_done"}

(* The steps of esp_openthread_radio_process: a bit is tested, loaded,     *)
(* stored back without it, and reported in a callback.                     *)
Steps == {"select", "read", "tx_done", "tx_done_clr", "tx_done_report", "tx_done_cb",
          "tx_done_cb_ack", "ack_hand", "ack_null", "tx_failed", "tx_failed_clr",
          "tx_failed_report", "tx_failed_cb", "ed_done", "ed_done_clr", "ed_done_report",
          "ed_done_cb", "rx", "rx_cb", "rx_hand", "rx_null", "rx_sub", "work"}

(* Where OpenThread's own code runs.                                       *)
Callbacks == {"tx_done_cb", "tx_done_cb_ack", "tx_failed_cb", "ed_done_cb", "rx_cb", "work"}

PortInit == /\ slot = [i \in Buffers |-> NULL] /\ head = 0 /\ tail = 0 /\ used = 0
            /\ ack = NULL /\ bits = {} /\ tx_error = TRUE /\ event = FALSE
            /\ pc = "work" /\ tmp = {} /\ api = "none" /\ op = "none"
            /\ mishap = {}

Init == DriverInit /\ PortInit

----------------------------------------------------------------------------
(* Upcalls of the driver *)

(* Slip: the eventfd is not written.                                       *)
SetSilently(e) == bits' = bits \cup {e} /\ UNCHANGED event

set_event(e) == bits' = bits \cup {e} /\ event' = TRUE

(* esp_ieee802154_receive_done, n times for the buffer at rx_index.  With  *)
(* the queue full it returns and the buffer stays with the user for ever.  *)
receive_done(n) ==
  LET calls  == IF rx_index = STUB THEN 0 ELSE n
      taken  == Min({calls, RX_BUFFER_SIZE - used})
      At(j)  == (tail + j) % RX_BUFFER_SIZE
  IN  /\ slot' = [i \in Buffers |-> IF \E j \in 0..(taken - 1) : i = At(j) THEN rx_index
                                                                      ELSE slot[i]]
      /\ tail' = At(taken) /\ used' = used + taken
      /\ event' = (event \/ taken > 0)
      /\ mishap' = mishap \cup (IF taken = 2 THEN {"doubled"} ELSE {})
                          \cup (IF taken = 0 /\ calls > 0 THEN {"dropped"} ELSE {})
      /\ UNCHANGED <<head, ack, bits, tx_error>>

transmit_done == /\ set_event("tx_done")
                 /\ UNCHANGED <<queue, ack, tx_error, mishap>>

(* ieee802154_transmit_done with an acknowledgement: in the stub it counts *)
(* as none.                                                                *)
transmit_done_ack ==
  IF rx_index = STUB
    THEN /\ set_event("tx_failed") /\ tx_error' = TRUE
         /\ UNCHANGED <<queue, ack, mishap>>
    ELSE /\ set_event("tx_done") /\ ack' = rx_index
         /\ mishap' = IF ack = NULL THEN mishap ELSE mishap \cup {"ack_lost"}
         /\ UNCHANGED <<queue, tx_error>>

transmit_failed(known) == /\ set_event("tx_failed") /\ tx_error' = known
                          /\ UNCHANGED <<queue, ack, mishap>>

energy_detect_done == /\ set_event("ed_done")
                      /\ UNCHANGED <<queue, ack, tx_error, mishap>>

(* What stop_current_operation reports of a transmission.                  *)
stop_tx == IF state = "tx_data" /\ latched = "tx_done" THEN transmit_done
                                                       ELSE transmit_failed(TRUE)

stop_rx_ack == IF AckLatched THEN transmit_done_ack ELSE transmit_failed(TRUE)

stop_current_operation(n) == CASE state \in Sending -> stop_tx
                               [] state = "rx_ack"  -> stop_rx_ack
                               [] OTHER             -> receive_done(n)

ieee802154_isr ==
  /\ \/ \E n \in 1..2 : /\ RxDoneReports(n) \/ isr_handle_ack_tx_done(n)
                        /\ receive_done(n)
     \/ (RxDoneAnswers \/ isr_handle_rx_abort \/ AwaitAck) /\ UNCHANGED <<port, mishap>>
     \/ isr_handle_tx_done /\ transmit_done
     \/ isr_handle_ack_rx_done /\ transmit_done_ack
     \/ isr_handle_tx_abort("tx_abort") /\ transmit_failed(TRUE)
     \/ isr_handle_tx_abort("tx_security") /\ transmit_failed(FALSE)
     \/ isr_handle_ed_done /\ energy_detect_done
  /\ UNCHANGED main

----------------------------------------------------------------------------
(* OpenThread calls the radio *)

MayCall == pc \in Callbacks /\ api = "none" /\ op = "none"

MayStop == pc \in Callbacks /\ api = "none" /\ op # "ed"

(* Slip: the frame is deferred and sent all the same.                      *)
TransmitTwice(f) == /\ MayCall /\ op' = "tx" /\ api' = f
                    /\ Defer(f) \/ (~Busy /\ UNCHANGED driver)
                    /\ UNCHANGED <<port, pc, tmp, mishap>>

otPlatRadioTransmit(f) == /\ MayCall /\ op' = "tx"
                          /\ \/ Defer(f) /\ UNCHANGED api
                             \/ ~Busy /\ api' = f /\ UNCHANGED driver
                          /\ UNCHANGED <<port, pc, tmp, mishap>>

otPlatRadioReceive == /\ MayStop
                      /\ \E n \in 0..1 : ieee802154_receive(n) /\ stop_current_operation(n)
                      /\ UNCHANGED main

otPlatRadioSleep == /\ MayStop
                    /\ \E n \in 0..1 : ieee802154_sleep(n) /\ stop_current_operation(n)
                    /\ UNCHANGED main

otPlatRadioEnergyScan == /\ MayCall /\ op' = "ed"
                         /\ \E n \in 0..1 : ieee802154_energy_detect(n) /\ stop_current_operation(n)
                         /\ UNCHANGED <<pc, tmp, api>>

(* The second critical section of a transmission that was not deferred.    *)
TransmitRuns == /\ api # "none" /\ api' = "none"
                /\ \E n \in 0..1 : transmit_internal(api, n) /\ stop_current_operation(n)
                /\ UNCHANGED <<pc, tmp, op>>

----------------------------------------------------------------------------
(* esp_openthread_radio_process *)

Goto(from, to) == pc = from /\ api = "none" /\ pc' = to

(* select returns for the eventfd, or for something else.                  *)
Select == Goto("select", "read") /\ UNCHANGED <<driver, port, tmp, api, op, mishap>>

Read == /\ Goto("read", "tx_done")
        /\ event' = FALSE
        /\ UNCHANGED <<driver, queue, ack, bits, tx_error, tmp, api, op, mishap>>

(* get_event                                                               *)
Test(e, clr, next) == /\ pc = e
                      /\ \/ e \in bits /\ Goto(e, clr) /\ tmp' = bits
                         \/ e \notin bits /\ Goto(e, next) /\ UNCHANGED tmp
                      /\ UNCHANGED <<driver, port, api, op, mishap>>

(* The second half of clr_event: what an interrupt has set since the load  *)
(* is overwritten.                                                         *)
clr_event(e, clr, report) == /\ Goto(clr, report)
                             /\ bits' = tmp \ {e}
                             /\ tmp' = {}
                             /\ UNCHANGED <<driver, queue, ack, tx_error, event, api, op,
                                            mishap>>

(* The callback begins: the operation is over for OpenThread.              *)
Report(report, cb) == /\ Goto(report, cb)
                      /\ op' = "none"
                      /\ UNCHANGED <<driver, port, tmp, api, mishap>>

CallbackReturns(cb, next) ==
  Goto(cb, next) /\ UNCHANGED <<driver, port, tmp, api, op, mishap>>

TxDone == \/ Test("tx_done", "tx_done_clr", "tx_failed")
          \/ clr_event("tx_done", "tx_done_clr", "tx_done_report")
          \/ ack = NULL /\ Report("tx_done_report", "tx_done_cb")
          \/ ack # NULL /\ Report("tx_done_report", "tx_done_cb_ack")

(* Slip: the acknowledgement is forgotten before it is handed back.        *)
HandNothing == /\ Goto("ack_hand", "ack_null")
               /\ UNCHANGED <<driver, port, tmp, api, op, mishap>>

(* The acknowledgement is handed back, then forgotten.                     *)
HandAck == /\ Goto("ack_hand", "ack_null")
           /\ receive_handle_done(ack)
           /\ UNCHANGED <<state, rx_index, pending_tx, receiving, latched, unseen, port,
                          tmp, api, op, mishap>>

ForgetAck == /\ Goto("ack_null", "tx_failed")
             /\ ack' = NULL
             /\ UNCHANGED <<driver, queue, bits, tx_error, event, tmp, api, op, mishap>>

TxFailed == \/ Test("tx_failed", "tx_failed_clr", "ed_done")
            \/ clr_event("tx_failed", "tx_failed_clr", "tx_failed_report")
            \/ tx_error /\ Report("tx_failed_report", "tx_failed_cb")

(* ETS_ASSERT(false) at an error that is not in the switch.                *)
Restart == /\ pc = "tx_failed_report" /\ ~tx_error
           /\ DriverReset
           /\ slot' = [i \in Buffers |-> NULL] /\ head' = 0 /\ tail' = 0 /\ used' = 0
           /\ ack' = NULL /\ bits' = {} /\ tx_error' = TRUE /\ event' = FALSE
           /\ pc' = "work" /\ tmp' = {} /\ api' = "none" /\ op' = "none"
           /\ mishap' = {}

EdDone == \/ Test("ed_done", "ed_done_clr", "rx")
          \/ clr_event("ed_done", "ed_done_clr", "ed_done_report")
          \/ Report("ed_done_report", "ed_done_cb")

(* while (atomic_load(&s_recv_queue.used)): a frame is delivered, handed   *)
(* back, taken out, and only then no longer counted.  On an empty slot the *)
(* loop spins.                                                             *)
RxTest == /\ \/ used = 0 /\ Goto("rx", "work")
             \/ used > 0 /\ slot[head] # NULL /\ Goto("rx", "rx_cb")
          /\ UNCHANGED <<driver, port, tmp, api, op, mishap>>

RxHand == /\ Goto("rx_hand", "rx_null")
          /\ receive_handle_done(slot[head])
          /\ UNCHANGED <<state, rx_index, pending_tx, receiving, latched, unseen, port,
                         tmp, api, op, mishap>>

(* Slip: the head stays where it is.                                       *)
RemoveKeepsHead == /\ Goto("rx_null", "rx_sub")
                   /\ slot' = [slot EXCEPT ![head] = NULL]
                   /\ UNCHANGED <<driver, head, tail, used, ack, bits, tx_error, event, tmp,
                                  api, op, mishap>>

(* Slip: the head does not wrap round.                                     *)
RemoveUnwrapped == /\ Goto("rx_null", "rx_sub")
                   /\ slot' = [slot EXCEPT ![head] = NULL]
                   /\ head' = head + 1
                   /\ UNCHANGED <<driver, tail, used, ack, bits, tx_error, event, tmp, api,
                                  op, mishap>>

RxRemove == /\ Goto("rx_null", "rx_sub")
            /\ slot' = [slot EXCEPT ![head] = NULL]
            /\ head' = (head + 1) % RX_BUFFER_SIZE
            /\ UNCHANGED <<driver, tail, used, ack, bits, tx_error, event, tmp, api, op,
                           mishap>>

RxSub == /\ Goto("rx_sub", "rx")
         /\ used' = used - 1
         /\ UNCHANGED <<driver, slot, head, tail, ack, bits, tx_error, event, tmp, api, op,
                        mishap>>

Process == \/ Read \/ TxDone \/ HandAck \/ ForgetAck \/ TxFailed \/ Restart \/ EdDone
           \/ RxTest \/ RxHand \/ RxRemove \/ RxSub

Returns == \/ CallbackReturns("tx_done_cb", "tx_failed")
           \/ CallbackReturns("tx_done_cb_ack", "ack_hand")
           \/ CallbackReturns("tx_failed_cb", "ed_done")
           \/ CallbackReturns("ed_done_cb", "rx")
           \/ CallbackReturns("rx_cb", "rx_hand")
           \/ CallbackReturns("work", "select")

Calls == \/ \E f \in Frames : otPlatRadioTransmit(f)
         \/ otPlatRadioReceive \/ otPlatRadioSleep \/ otPlatRadioEnergyScan

Hardware == /\ FrameBegins \/ FrameEnds \/ AckSent \/ TxEnds \/ AckWaitEnds \/ EdEnds
            /\ UNCHANGED <<port, main, mishap>>

Next == ieee802154_isr \/ Calls \/ TransmitRuns \/ Select \/ Process \/ Returns \/ Hardware

Spec == Init /\ [][Next]_vars

----------------------------------------------------------------------------
(* Fairness: interrupts are served, the hardware ends what it has begun    *)
(* (the driver's own 200 ms timer stands behind the wait for an            *)
(* acknowledgement), the main loop runs when it is ready and wakes up for  *)
(* the eventfd, and OpenThread returns from its callbacks.                 *)

HardwareEnds == /\ FrameEnds \/ AckSent \/ TxEnds \/ AckWaitEnds \/ EdEnds
                /\ UNCHANGED <<port, main, mishap>>

Wakes == Select /\ event

Fairness == /\ WF_vars(ieee802154_isr)
            /\ WF_vars(HardwareEnds)
            /\ WF_vars(TransmitRuns) /\ WF_vars(Process) /\ WF_vars(Wakes)
            /\ SF_vars(Returns)

FairSpec == Spec /\ Fairness

----------------------------------------------------------------------------
(* PROPERTIES *)

(* Every variable keeps its type; the queue never counts more frames than  *)
(* it has slots.                                                           *)
TypeOK == /\ state \in States /\ rx_index \in Buffers \cup {STUB}
          /\ process \in [Buffers -> BOOLEAN]
          /\ pending_tx \in Frames \cup {"none"}
          /\ receiving \in BOOLEAN /\ latched \in Events /\ unseen \in BOOLEAN
          /\ slot \in [Buffers -> Buffers \cup {NULL}]
          /\ head \in Buffers /\ tail \in Buffers /\ used \in 0..RX_BUFFER_SIZE
          /\ ack \in Buffers \cup {NULL} /\ bits \subseteq Bits /\ tmp \subseteq Bits
          /\ tx_error \in BOOLEAN /\ event \in BOOLEAN
          /\ pc \in Steps /\ api \in Frames \cup {"none"}
          /\ op \in {"none", "tx", "ed"} /\ mishap \subseteq Mishaps

(* Where a transmission is, and where an energy scan.                      *)
TxStages == {"call", "deferred", "air", "done", "failed", "report"}

TxPlaces == {x \in TxStages : \/ x = "call" /\ api \in Frames
                              \/ x = "deferred" /\ pending_tx # "none"
                              \/ x = "air" /\ state \in Sending \cup {"rx_ack"}
                              \/ x = "done" /\ "tx_done" \in bits
                              \/ x = "failed" /\ "tx_failed" \in bits
                              \/ x = "report" /\ pc \in {"tx_done_report", "tx_failed_report"}}

EdPlaces == {x \in TxStages : \/ x = "air" /\ state = "ed"
                              \/ x = "done" /\ "ed_done" \in bits
                              \/ x = "report" /\ pc = "ed_done_report"}

(* Exactly-once completion (esp_openthread_radio.c:104-107 and 163-220,    *)
(* esp_ieee802154_dev.c:372-394 and 880-902): what OpenThread waits for is *)
(* in one place at any time: on its way to the hardware, deferred, in the  *)
(* hardware, or completed and noted in one bit, or just taken from it.  In *)
(* particular clr_event, which is a load and a store that an interrupt may *)
(* come between, never loses a completion or brings one back.              *)
OpOnePlace ==
  /\ IF op = "tx" THEN \E x \in TxStages : TxPlaces = {x} ELSE TxPlaces = {}
  /\ IF op = "ed" THEN \E x \in TxStages : EdPlaces = {x} ELSE EdPlaces = {}

(* esp_openthread_radio.c:223-241 and 695-722: the slots from head on are  *)
(* filled, as many as the queue counts and no others, however an interrupt *)
(* falls between the steps of the loop; so the loop never spins on an      *)
(* empty slot and no frame is written over another.                        *)
QueueConsistent ==
  LET n == IF pc = "rx_sub" THEN used - 1 ELSE used IN
  /\ n \in 0..RX_BUFFER_SIZE
  /\ tail = (head + n) % RX_BUFFER_SIZE
  /\ \A j \in 0..(RX_BUFFER_SIZE - 1) :
       slot[(head + j) % RX_BUFFER_SIZE] # NULL <=> j < n

(* Where a buffer of the user is: in a slot or in the acknowledgement,     *)
(* unless it has just been handed back from there.                         *)
Holders(b) == {i \in Buffers : slot[i] = b /\ ~(pc = "rx_null" /\ i = head)}
              \cup (IF ack = b /\ pc # "ack_null" THEN {STUB} ELSE {})

(* esp_ieee802154_dev.c:167-198: the hardware never receives a frame or an *)
(* acknowledgement into a buffer whose flag says that the user has it,     *)
(* and, unless a frame was reported twice, never into one that a slot of   *)
(* the queue or the acknowledgement still points to.  After a double       *)
(* report it may: handing back the first of the two slots frees the        *)
(* buffer of the second.                                                   *)
ReceivesIntoFree ==
  state \in {"rx", "tx_ack", "tx_enh_ack", "tx_data_ack", "rx_ack"} /\ rx_index # STUB =>
    ~process[rx_index] /\ ("doubled" \notin mishap => Holders(rx_index) = {})

(* esp_ieee802154.h:476 "User must call the function                       *)
(* esp_ieee802154_receive_handle_done()": unless a frame was reported      *)
(* twice, no buffer is handed back twice, for it is in one place at most,  *)
(* and a free one in none; and as long as no frame was dropped at a full   *)
(* queue and no acknowledgement overwritten either, every buffer that was  *)
(* handed out is in a place from which it will be handed back.             *)
BuffersAccounted ==
  /\ "doubled" \notin mishap =>
       \A b \in Buffers : \/ Holders(b) = {}
                          \/ process[b] /\ \E h \in 0..STUB : Holders(b) = {h}
  /\ mishap = {} => \A b \in Buffers : process[b] => Holders(b) # {}

(* OpenThread's MAC waits without a timeout of its own for                 *)
(* otPlatRadioTxDone and otPlatRadioEnergyScanDone: a transmission, also a *)
(* deferred one, and an energy scan are reported, provided the loop over   *)
(* received frames ends again and again; only a transmission deferred      *)
(* behind a frame that has ended unseen, in the gap of Defer or by a call  *)
(* that stopped it, waits for the next frame on the air.                   *)
OpReported ==
  []<>(pc = "select") => ((op # "none") ~> (op = "none" \/ unseen))

(* The inductive invariant.  An event belongs to what the driver is doing; *)
(* between its load and its store clr_event loses nothing because nothing  *)
(* can complete there; a step of the loop over received frames, and the    *)
(* report of an acknowledgement, find what the test before them has found. *)

EventFitsState ==
  /\ receiving => state = "rx" /\ latched = "none"
  /\ latched \in RxDone \cup {"rx_abort"} => state = "rx"
  /\ latched = "ack_tx_done" => state \in {"tx_ack", "tx_enh_ack"}
  /\ latched \in {"tx_done", "tx_security"} => state \in Sending
  /\ latched = "tx_abort" => state \in Sending \cup {"rx_ack"}
  /\ latched = "ack_rx_done" => state = "rx_ack"
  /\ latched = "ed_done" => state = "ed"

StepsFit ==
  /\ api # "none" => pc \in Callbacks
  /\ pc = "tx_done_clr" => tmp = bits /\ "tx_done" \in bits
  /\ pc = "tx_failed_clr" => tmp = bits /\ "tx_failed" \in bits
  /\ pc = "ed_done_clr" => tmp = bits /\ "ed_done" \in bits
  /\ pc \in {"tx_done_cb_ack", "ack_hand", "ack_null"} => ack # NULL
  /\ pc \in {"rx_cb", "rx_hand", "rx_null", "rx_sub"} => used > 0

IInv == /\ TypeOK /\ EventFitsState /\ StepsFit /\ ReceivesIntoFree /\ QueueConsistent
        /\ OpOnePlace /\ BuffersAccounted
=============================================================================
