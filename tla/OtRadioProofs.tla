---------------------------- MODULE OtRadioProofs ----------------------------
(***************************************************************************)
(* OpenThread's radio and the IEEE 802.15.4 driver under it, for any       *)
(* number of receive buffers.                                              *)
(***************************************************************************)
EXTENDS OtRadio, WellFoundedInduction, TLAPS

----------------------------------------------------------------------------
(* Numbers *)

(* A set of natural numbers that is not empty has a least element.         *)
LEMMA LeastElement ==
  ASSUME NEW S \in SUBSET Nat, S # {}
  PROVE  Min(S) \in S /\ \A y \in S : Min(S) <= y
  <1> DEFINE R == {ss \in Nat \X Nat : ss[1] < ss[2]}
  <1>1. IsWellFoundedOn(R, Nat)
    BY NatLessThanWellFounded DEF OpToRel
  <1>3. \E x \in S : \A y \in S : ~(<<y, x>> \in R)
    <2> HIDE DEF R
    <2> QED BY <1>1, WFMin
  <1>2. \E x \in S : \A y \in S : x <= y
    <2>1. PICK x \in S : \A y \in S : <<y, x>> \notin R
      BY <1>3
    <2>2. ASSUME NEW y \in S PROVE x <= y
      <3>1. <<y, x>> \notin R /\ <<y, x>> \in Nat \X Nat
        BY <2>1
      <3>2. ~(y < x)
        BY <3>1
      <3> QED
        BY <3>2
    <2> QED
      BY <2>2
  <1> QED
    BY <1>2 DEF Min

LEMMA LesserOfTwo ==
  ASSUME NEW a \in Int, NEW b \in Int
  PROVE  Min({a, b}) = IF a <= b THEN a ELSE b
  BY DEF Min

(* An index that is moved on by at most the size of the array.             *)
LEMMA WrapRound ==
  ASSUME NEW a \in Buffers, NEW d \in 0..RX_BUFFER_SIZE
  PROVE  /\ (a + d) % RX_BUFFER_SIZE = IF a + d < RX_BUFFER_SIZE THEN a + d
                                                               ELSE a + d - RX_BUFFER_SIZE
         /\ (a + d) % RX_BUFFER_SIZE \in Buffers
  BY BufferAssumption DEF Buffers

----------------------------------------------------------------------------
(* Receive buffers *)

(* set_next_rx_buffer finds a buffer that is free, or takes the stub.      *)
LEMMA NextBufferFree ==
  ASSUME NEW i \in Buffers \cup {STUB}, NEW proc \in [Buffers -> BOOLEAN]
  PROVE  /\ set_next_rx_buffer(i, proc) \in Buffers \cup {STUB}
         /\ set_next_rx_buffer(i, proc) # STUB => ~proc[set_next_rx_buffer(i, proc)]
  <1> DEFINE S == Free(proc, i)
  <1>1. CASE i # STUB /\ ~proc[i]
    BY <1>1 DEF set_next_rx_buffer
  <1>2. CASE ~(i # STUB /\ ~proc[i]) /\ S = {}
    BY <1>2 DEF set_next_rx_buffer
  <1>3. CASE ~(i # STUB /\ ~proc[i]) /\ S # {}
    <2>1. S \in SUBSET Nat /\ S \subseteq 1..RX_BUFFER_SIZE
      BY BufferAssumption DEF Free
    <2>2. Min(S) \in S
      BY <2>1, <1>3, LeastElement
    <2>3. set_next_rx_buffer(i, proc) = (Min(S) + i) % RX_BUFFER_SIZE
      BY <1>3 DEF set_next_rx_buffer
    <2>4. ~proc[(Min(S) + i) % RX_BUFFER_SIZE]
      BY <2>2 DEF Free
    <2>5. Min(S) + i \in Nat
      BY <2>1, <2>2, BufferAssumption DEF Buffers, STUB
    <2>6. (Min(S) + i) % RX_BUFFER_SIZE \in Buffers
      <3> HIDE DEF S
      <3> QED
        BY <2>5, BufferAssumption DEF Buffers
    <2> QED
      BY <2>3, <2>4, <2>6
  <1> QED
    BY <1>1, <1>2, <1>3

----------------------------------------------------------------------------
(* The driver *)

(* The driver's own part of ReceivesIntoFree.                              *)
FlagFree ==
  state \in {"rx", "tx_ack", "tx_enh_ack", "tx_data_ack", "rx_ack"} /\ rx_index # STUB =>
    ~process[rx_index]

(* The part of the inductive invariant that is about the driver alone.     *)
DriverOK == /\ state \in States /\ rx_index \in Buffers \cup {STUB}
            /\ process \in [Buffers -> BOOLEAN]
            /\ pending_tx \in Frames \cup {"none"}
            /\ receiving \in BOOLEAN /\ latched \in Events /\ unseen \in BOOLEAN
            /\ EventFitsState /\ FlagFree

LEMMA HandedOutType ==
  DriverOK => HandedOut \in [Buffers -> BOOLEAN] /\ Stopped \in [Buffers -> BOOLEAN]
  BY DEF DriverOK, HandedOut, Stopped

(* What is begun next, by an interrupt or by a call, receives into a free  *)
(* buffer and has not raised an event yet.                                 *)
LEMMA EnableRxOK ==
  ASSUME DriverOK, NEW proc \in [Buffers -> BOOLEAN], enable_rx(proc),
         receiving' = FALSE, latched' = "none", pending_tx' \in Frames \cup {"none"},
         unseen' \in BOOLEAN
  PROVE  DriverOK'
  <1>1. rx_index \in Buffers \cup {STUB}
    BY DEF DriverOK
  <1>2. /\ rx_index' \in Buffers \cup {STUB}
        /\ rx_index' # STUB => ~proc[rx_index']
    BY <1>1, NextBufferFree DEF enable_rx
  <1>3. state' = "rx" /\ process' = proc
    BY DEF enable_rx
  <1> QED
    BY <1>2, <1>3 DEF DriverOK, States, Events, EventFitsState, FlagFree, RxDone, STUB

LEMMA SendOK ==
  ASSUME DriverOK, NEW f \in Frames, NEW proc \in [Buffers -> BOOLEAN], Send(f, proc),
         receiving' = FALSE, latched' = "none", pending_tx' \in Frames \cup {"none"},
         unseen' \in BOOLEAN
  PROVE  DriverOK'
  <1>1. rx_index \in Buffers \cup {STUB}
    BY DEF DriverOK
  <1>2. /\ rx_index' \in Buffers \cup {STUB}
        /\ state' = "tx_data_ack" => (rx_index' # STUB => ~proc[rx_index'])
    BY <1>1, NextBufferFree DEF Send
  <1>3. state' \in Sending /\ process' = proc
    BY DEF Send, Sending
  <1> QED
    BY <1>2, <1>3 DEF DriverOK, States, Sending, Events, EventFitsState, FlagFree,
                      RxDone, STUB

LEMMA RestOK ==
  ASSUME DriverOK, NEW proc \in [Buffers -> BOOLEAN], state' \in {"sleep", "ed"},
         process' = proc, UNCHANGED rx_index,
         receiving' = FALSE, latched' = "none", pending_tx' \in Frames \cup {"none"},
         unseen' \in BOOLEAN
  PROVE  DriverOK'
  BY DEF DriverOK, States, Events, EventFitsState, FlagFree, RxDone

LEMMA NextOperationOK ==
  ASSUME DriverOK, NEW proc \in [Buffers -> BOOLEAN], next_operation(proc),
         receiving' = FALSE, latched' = "none", unseen' \in BOOLEAN
  PROVE  DriverOK'
  <1>1. CASE pending_tx # "none" /\ Send(pending_tx, proc) /\ pending_tx' = "none"
    <2>1. pending_tx \in Frames
      BY <1>1 DEF DriverOK
    <2> QED
      BY <1>1, <2>1, SendOK
  <1>2. CASE pending_tx' = "none" /\ enable_rx(proc)
    BY <1>2, EnableRxOK
  <1>3. CASE pending_tx' = "none" /\ state' = "sleep" /\ process' = proc /\ UNCHANGED rx_index
    BY <1>3, RestOK
  <1> QED
    BY <1>1, <1>2, <1>3 DEF next_operation

(* Every interrupt handler, call and event of the hardware keeps it.       *)
LEMMA InterruptOK ==
  ASSUME DriverOK,
         \/ \E n \in 1..2 : RxDoneReports(n) \/ isr_handle_ack_tx_done(n)
         \/ RxDoneAnswers \/ isr_handle_rx_abort \/ AwaitAck
         \/ isr_handle_tx_done \/ isr_handle_ack_rx_done
         \/ isr_handle_tx_abort("tx_abort") \/ isr_handle_tx_abort("tx_security")
         \/ isr_handle_ed_done
  PROVE  DriverOK'
  <1>1. CASE RxDoneAnswers
    BY <1>1 DEF RxDoneAnswers, Handle, DriverOK, States, Events, EventFitsState,
                FlagFree, RxDone
  <1>2. CASE AwaitAck
    BY <1>2 DEF AwaitAck, Handle, DriverOK, States, Events, EventFitsState,
                FlagFree, RxDone
  <1>3. CASE /\ latched' = "none" /\ latched # "none" /\ UNCHANGED <<receiving, unseen>>
             /\ next_operation(HandedOut) \/ next_operation(process)
    <2>1. receiving' = FALSE /\ unseen' \in BOOLEAN
      BY <1>3 DEF DriverOK, EventFitsState
    <2>2. process \in [Buffers -> BOOLEAN]
      BY DEF DriverOK
    <2> QED
      BY <1>3, <2>1, <2>2, HandedOutType, NextOperationOK
  <1> QED
    BY <1>1, <1>2, <1>3
    DEF RxDoneReports, isr_handle_ack_tx_done, isr_handle_rx_abort, isr_handle_tx_done,
        isr_handle_ack_rx_done, isr_handle_tx_abort, isr_handle_ed_done, Handle

LEMMA CallOK ==
  ASSUME DriverOK, NEW f \in Frames, NEW n \in 0..1,
         \/ Defer(f) \/ transmit_internal(f, n)
         \/ ieee802154_receive(n) \/ ieee802154_sleep(n) \/ ieee802154_energy_detect(n)
  PROVE  DriverOK'
  <1>1. CASE Defer(f)
    <2>1. /\ UNCHANGED <<state, rx_index, process, latched>> /\ pending_tx' \in Frames
          /\ (receiving' = receiving /\ unseen' = unseen)
             \/ (receiving' = FALSE /\ unseen' = TRUE)
      BY <1>1 DEF Defer
    <2>2. FlagFree'
      BY <2>1 DEF DriverOK, FlagFree
    <2>3. receiving' \in BOOLEAN /\ unseen' \in BOOLEAN /\ (receiving' => receiving)
      <3>1. receiving \in BOOLEAN /\ unseen \in BOOLEAN
        BY DEF DriverOK
      <3>2. CASE receiving' = receiving /\ unseen' = unseen
        BY <3>1, <3>2, Zenon
      <3>3. CASE receiving' = FALSE /\ unseen' = TRUE
        BY <3>3, Zenon
      <3> QED
        BY <2>1, <3>2, <3>3, Zenon
    <2>4. EventFitsState'
      <3>1. state' = state /\ latched' = latched
        BY <2>1
      <3> QED
        BY <2>3, <3>1, Zenon DEF DriverOK, EventFitsState
    <2> QED
      BY <2>1, <2>2, <2>3, <2>4 DEF DriverOK
  <1> pending_tx \in Frames \cup {"none"}
    BY DEF DriverOK
  <1>2. CASE transmit_internal(f, n)
    BY <1>2, HandedOutType, SendOK DEF transmit_internal, Stop
  <1>3. CASE ieee802154_receive(n)
    BY <1>3, HandedOutType, EnableRxOK DEF ieee802154_receive, Stop
  <1>4. CASE ieee802154_sleep(n) \/ ieee802154_energy_detect(n)
    BY <1>4, HandedOutType, RestOK DEF ieee802154_sleep, ieee802154_energy_detect, Stop
  <1> QED
    BY <1>1, <1>2, <1>3, <1>4

LEMMA HardwareOK ==
  ASSUME DriverOK,
         FrameBegins \/ FrameEnds \/ AckSent \/ TxEnds \/ AckWaitEnds \/ EdEnds
  PROVE  DriverOK'
  <1> USE DEF DriverOK, EventFitsState, Events, hw, Raise
  <1>1. FlagFree'
    BY DEF FlagFree, FrameBegins, FrameEnds, AckSent, TxEnds, AckWaitEnds, EdEnds
  <1>2. CASE FrameBegins
    BY <1>1, <1>2 DEF FrameBegins, RxDone
  <1>3. CASE FrameEnds
    BY <1>1, <1>3 DEF FrameEnds, RxDone
  <1>4. CASE AckSent
    BY <1>1, <1>4 DEF AckSent, RxDone
  <1>5. CASE TxEnds
    BY <1>1, <1>5 DEF TxEnds, RxDone, Sending
  <1>6. CASE AckWaitEnds
    BY <1>1, <1>6 DEF AckWaitEnds, RxDone
  <1>7. CASE EdEnds
    BY <1>1, <1>7 DEF EdEnds, RxDone
  <1> QED
    BY <1>2, <1>3, <1>4, <1>5, <1>6, <1>7

(* A buffer that is handed back is free, whichever it is.                  *)
LEMMA HandledOK ==
  ASSUME DriverOK, NEW b, receive_handle_done(b),
         UNCHANGED <<state, rx_index, pending_tx, receiving, latched, unseen>>
  PROVE  DriverOK'
  <1>1. process' \in [Buffers -> BOOLEAN] /\ \A i \in Buffers : process'[i] => process[i]
    BY DEF receive_handle_done, DriverOK
  <1> QED
    BY <1>1 DEF DriverOK, EventFitsState, FlagFree

(* The driver keeps its part whatever is above it.                         *)
LEMMA NextDriverOK ==
  ASSUME DriverOK, api \in Frames \cup {"none"}, [Next]_vars PROVE DriverOK'
  <1>1. CASE UNCHANGED driver
    BY <1>1 DEF driver, DriverOK, EventFitsState, FlagFree
  <1>2. CASE ieee802154_isr
    BY <1>2, InterruptOK DEF ieee802154_isr
  <1>3. CASE Calls
    <2>1. PICK f \in Frames, n \in 0..1 :
             \/ Defer(f) \/ UNCHANGED driver
             \/ ieee802154_receive(n) \/ ieee802154_sleep(n) \/ ieee802154_energy_detect(n)
      BY <1>3 DEF Calls, otPlatRadioTransmit, otPlatRadioReceive, otPlatRadioSleep,
                  otPlatRadioEnergyScan, Frames
    <2> QED
      BY <2>1, <1>1, CallOK
  <1>4. CASE TransmitRuns
    BY <1>4, CallOK DEF TransmitRuns
  <1>5. CASE Hardware
    BY <1>5, HardwareOK DEF Hardware
  <1>6. CASE HandAck \/ RxHand
    BY <1>6, HandledOK DEF HandAck, RxHand
  <1>7. CASE Restart
    <2>1. /\ state' = "idle" /\ rx_index' = 0 /\ pending_tx' = "none"
          /\ receiving' = FALSE /\ latched' = "none" /\ unseen' = FALSE
          /\ process' = [b \in Buffers |-> FALSE] /\ 0 \in Buffers
      BY <1>7, BufferAssumption DEF Restart, DriverReset, Buffers
    <2> QED
      BY <2>1 DEF DriverOK, States, Events, EventFitsState, FlagFree, RxDone
  <1>8. CASE \/ UNCHANGED vars \/ Select \/ Returns \/ Read \/ TxDone \/ ForgetAck
             \/ TxFailed \/ EdDone \/ RxTest \/ RxRemove \/ RxSub
    <2>1. UNCHANGED driver
      BY <1>8 DEF vars, Select, Returns, CallbackReturns, Read, TxDone, ForgetAck, TxFailed,
                  EdDone, RxTest, RxRemove, RxSub, Test, clr_event, Report
    <2> QED
      BY <2>1, <1>1
  <1> QED
    BY <1>2, <1>3, <1>4, <1>5, <1>6, <1>7, <1>8 DEF Next, Process

----------------------------------------------------------------------------
(* What a step does to the buffers and the queue *)

(* Nothing.                                                                *)
Steady == /\ UNCHANGED <<process, queue, ack, mishap>>
          /\ pc' = pc \/ {pc, pc'} \cap {"ack_null", "rx_null", "rx_sub"} = {}

(* The buffer the hardware was receiving into is handed out with a frame,  *)
(* once, twice, or not at all.                                             *)
Received == \E n \in 0..2 : /\ receive_done(n) /\ UNCHANGED pc
                            /\ process' = IF n = 0 THEN process ELSE HandedOut
                            /\ n > 0 /\ rx_index # STUB => ~process[rx_index]

(* It is handed out with an acknowledgement.                               *)
Acknowledged == /\ transmit_done_ack /\ UNCHANGED pc
                /\ process' = HandedOut
                /\ rx_index # STUB => ~process[rx_index]

LEMMA BufferSteps ==
  ASSUME DriverOK, [Next]_vars
  PROVE  \/ Steady \/ Received \/ Acknowledged
         \/ HandAck \/ ForgetAck \/ RxHand \/ RxRemove \/ RxSub \/ Restart
  <1> USE DEF Steady
  <1>1. CASE ieee802154_isr
    <2>1. UNCHANGED pc
      BY <1>1 DEF ieee802154_isr, main
    <2>p. \A q : next_operation(q) => process' = q
      BY DEF next_operation, enable_rx, Send
    <2>2. ASSUME NEW n \in 1..2, RxDoneReports(n) \/ isr_handle_ack_tx_done(n), receive_done(n)
          PROVE  Received
      <3>1. state \in {"rx", "tx_ack", "tx_enh_ack"}
        BY <2>2 DEF RxDoneReports, isr_handle_ack_tx_done, Handle, DriverOK, EventFitsState, RxDone
      <3>2. process' = HandedOut
        BY <2>2, <2>p DEF RxDoneReports, isr_handle_ack_tx_done
      <3>3. rx_index # STUB => ~process[rx_index]
        BY <3>1 DEF DriverOK, FlagFree
      <3>4. n \in 0..2 /\ n # 0
        OBVIOUS
      <3> QED
        BY <2>1, <2>2, <3>2, <3>3, <3>4 DEF Received
    <2>3. CASE (RxDoneAnswers \/ isr_handle_rx_abort \/ AwaitAck) /\ UNCHANGED <<port, mishap>>
      BY <2>1, <2>3, <2>p DEF RxDoneAnswers, isr_handle_rx_abort, AwaitAck, port
    <2>4. CASE \/ isr_handle_tx_done /\ transmit_done
               \/ isr_handle_tx_abort("tx_abort") /\ transmit_failed(TRUE)
               \/ isr_handle_tx_abort("tx_security") /\ transmit_failed(FALSE)
               \/ isr_handle_ed_done /\ energy_detect_done
      BY <2>1, <2>4, <2>p
      DEF isr_handle_tx_done, isr_handle_tx_abort, isr_handle_ed_done, transmit_done,
          transmit_failed, energy_detect_done
    <2>5. CASE isr_handle_ack_rx_done /\ transmit_done_ack
      <3>1. state = "rx_ack"
        BY <2>5 DEF isr_handle_ack_rx_done, Handle, DriverOK, EventFitsState
      <3>2. process' = HandedOut
        BY <2>5, <2>p DEF isr_handle_ack_rx_done
      <3>3. rx_index # STUB => ~process[rx_index]
        BY <3>1 DEF DriverOK, FlagFree
      <3> QED
        BY <2>1, <2>5, <3>2, <3>3 DEF Acknowledged
    <2> QED
      BY <1>1, <2>2, <2>3, <2>4, <2>5 DEF ieee802154_isr
  <1>2. ASSUME NEW n \in 0..1, Stop(n), process' = Stopped, stop_current_operation(n),
               UNCHANGED pc, state \notin Sending \cup {"rx_ack"}
        PROVE  Received
    <2>0. receive_done(n) /\ ~AckLatched
      BY <1>2 DEF stop_current_operation, AckLatched
    <2>1. /\ StopReports <=> n = 1
          /\ n \in 0..2 /\ (n > 0 <=> n = 1) /\ (n = 0 <=> n # 1)
      BY <1>2 DEF Stop
    <2>2. StopReports => state \in {"rx", "tx_ack", "tx_enh_ack"}
      BY DEF StopReports
    <2>3. StopReports /\ rx_index # STUB => ~process[rx_index]
      BY <2>2 DEF DriverOK, FlagFree
    <2>4. process' = IF n = 0 THEN process ELSE HandedOut
      BY <1>2, <2>0, <2>1 DEF Stopped
    <2> QED
      BY <1>2, <2>0, <2>1, <2>3, <2>4 DEF Received
  <1>2a. ASSUME NEW n \in 0..1, process' = Stopped, stop_current_operation(n),
                UNCHANGED pc, state \in Sending
         PROVE  Steady
    <2>1. stop_tx /\ process' = process
      BY <1>2a DEF stop_current_operation, Stopped, StopReports, AckLatched, Sending
    <2> QED
      BY <1>2a, <2>1 DEF stop_tx, transmit_done, transmit_failed
  <1>2b. ASSUME NEW n \in 0..1, process' = Stopped, stop_current_operation(n),
                UNCHANGED pc, state = "rx_ack"
         PROVE  Steady \/ Acknowledged
    <2>1. stop_rx_ack /\ process' = IF AckLatched THEN HandedOut ELSE process
      BY <1>2b DEF stop_current_operation, Stopped, StopReports, Sending
    <2>2. rx_index # STUB => ~process[rx_index]
      BY <1>2b DEF DriverOK, FlagFree
    <2>3. CASE AckLatched
      BY <1>2b, <2>1, <2>2, <2>3 DEF stop_rx_ack, Acknowledged
    <2>4. CASE ~AckLatched
      BY <1>2b, <2>1, <2>4 DEF stop_rx_ack, transmit_failed
    <2> QED
      BY <2>3, <2>4
  <1>2c. ASSUME NEW n \in 0..1, Stop(n), process' = Stopped, stop_current_operation(n),
                UNCHANGED pc
         PROVE  Steady \/ Received \/ Acknowledged
    BY <1>2c, <1>2, <1>2a, <1>2b
  <1>3. CASE \E f \in Frames : otPlatRadioTransmit(f)
    BY <1>3 DEF otPlatRadioTransmit, Defer, port, driver
  <1>4. CASE otPlatRadioReceive
    BY <1>4, <1>2c DEF otPlatRadioReceive, ieee802154_receive, enable_rx, main
  <1>5. CASE otPlatRadioSleep
    BY <1>5, <1>2c DEF otPlatRadioSleep, ieee802154_sleep, main
  <1>6. CASE otPlatRadioEnergyScan
    BY <1>6, <1>2c DEF otPlatRadioEnergyScan, ieee802154_energy_detect
  <1>7. CASE TransmitRuns
    BY <1>7, <1>2c DEF TransmitRuns, transmit_internal, Send
  <1>8. CASE Hardware
    BY <1>8 DEF Hardware, FrameBegins, FrameEnds, AckSent, TxEnds, AckWaitEnds, EdEnds, hw,
                port, main
  <1>9. CASE UNCHANGED vars
    BY <1>9 DEF vars, driver, port, main
  <1>10. CASE Select \/ Read \/ Returns
    BY <1>10 DEF Select, Read, Returns, CallbackReturns, Goto, driver, port
  <1>11. CASE TxDone
    BY <1>11 DEF TxDone, Test, clr_event, Report, Goto, driver, port
  <1>12. CASE TxFailed
    BY <1>12 DEF TxFailed, Test, clr_event, Report, Goto, driver, port
  <1>13. CASE EdDone \/ RxTest
    BY <1>13 DEF EdDone, RxTest, Test, clr_event, Report, Goto, driver, port
  <1> QED
    BY <1>1, <1>3, <1>4, <1>5, <1>6, <1>7, <1>8, <1>9, <1>10, <1>11, <1>12, <1>13
    DEF Next, Calls, Process

----------------------------------------------------------------------------
(* The queue of received frames *)

(* How far slot i is from slot h on the way round.                         *)
Ahead(h, i) == IF i >= h THEN i - h ELSE i - h + RX_BUFFER_SIZE

(* n slots from h on are filled, the next one to be filled is t.           *)
Filled(s, h, t, n) ==
  /\ n \in 0..RX_BUFFER_SIZE
  /\ t = (h + n) % RX_BUFFER_SIZE
  /\ \A i \in Buffers : /\ s[i] # NULL => Ahead(h, i) < n
                        /\ Ahead(h, i) < n => s[i] # NULL

Count == IF pc = "rx_sub" THEN used - 1 ELSE used

QueueTypeOK == /\ slot \in [Buffers -> Buffers \cup {NULL}]
               /\ head \in Buffers /\ tail \in Buffers /\ used \in 0..RX_BUFFER_SIZE

LEMMA AheadOf ==
  ASSUME NEW h \in Buffers, NEW i \in Buffers
  PROVE  /\ Ahead(h, i) \in 0..(RX_BUFFER_SIZE - 1)
         /\ (h + Ahead(h, i)) % RX_BUFFER_SIZE = i
  <1>1. Ahead(h, i) \in 0..(RX_BUFFER_SIZE - 1)
    BY BufferAssumption DEF Ahead, Buffers
  <1>2. Ahead(h, i) \in 0..RX_BUFFER_SIZE
    BY <1>1, BufferAssumption
  <1>3. (h + Ahead(h, i)) % RX_BUFFER_SIZE =
          IF h + Ahead(h, i) < RX_BUFFER_SIZE THEN h + Ahead(h, i)
                                              ELSE h + Ahead(h, i) - RX_BUFFER_SIZE
    BY <1>2, WrapRound
  <1> QED
    BY <1>1, <1>3, BufferAssumption DEF Ahead, Buffers

LEMMA AheadBack ==
  ASSUME NEW h \in Buffers, NEW j \in 0..(RX_BUFFER_SIZE - 1)
  PROVE  /\ (h + j) % RX_BUFFER_SIZE \in Buffers
         /\ Ahead(h, (h + j) % RX_BUFFER_SIZE) = j
  <1>1. j \in 0..RX_BUFFER_SIZE
    BY BufferAssumption
  <1>2. /\ (h + j) % RX_BUFFER_SIZE = IF h + j < RX_BUFFER_SIZE THEN h + j
                                                               ELSE h + j - RX_BUFFER_SIZE
        /\ (h + j) % RX_BUFFER_SIZE \in Buffers
    BY <1>1, WrapRound
  <1> QED
    BY <1>2, BufferAssumption DEF Ahead, Buffers

(* The invariant, slot by slot.                                            *)
LEMMA SlotBySlot ==
  head \in Buffers => /\ QueueConsistent => Filled(slot, head, tail, Count)
                      /\ Filled(slot, head, tail, Count) => QueueConsistent
  <1> SUFFICES ASSUME head \in Buffers
               PROVE  /\ QueueConsistent => Filled(slot, head, tail, Count)
                      /\ Filled(slot, head, tail, Count) => QueueConsistent
    OBVIOUS
  <1>1. ASSUME QueueConsistent PROVE Filled(slot, head, tail, Count)
    <2>1. ASSUME NEW i \in Buffers
          PROVE  slot[i] # NULL <=> Ahead(head, i) < Count
      <3>1. /\ Ahead(head, i) \in 0..(RX_BUFFER_SIZE - 1)
            /\ (head + Ahead(head, i)) % RX_BUFFER_SIZE = i
        BY AheadOf
      <3> QED
        BY <1>1, <3>1 DEF QueueConsistent, Count
    <2> QED
      BY <1>1, <2>1 DEF QueueConsistent, Count, Filled
  <1>2. ASSUME Filled(slot, head, tail, Count) PROVE QueueConsistent
    <2>1. ASSUME NEW j \in 0..(RX_BUFFER_SIZE - 1)
          PROVE  slot[(head + j) % RX_BUFFER_SIZE] # NULL <=> j < Count
      BY <1>2, AheadBack DEF Filled
    <2> QED
      BY <1>2, <2>1 DEF QueueConsistent, Count, Filled
  <1> QED
    BY <1>1, <1>2

(* receive_done, call by call: k of its calls find room.                   *)
LEMMA Taken ==
  ASSUME NEW n \in 0..2, receive_done(n), DriverOK, QueueTypeOK
  PROVE  \E k \in 0..n :
           /\ k > 0 => rx_index \in Buffers
           /\ used + k <= RX_BUFFER_SIZE
           /\ \A i \in Buffers :
                slot'[i] = IF \E j \in 0..(k - 1) : i = (tail + j) % RX_BUFFER_SIZE
                           THEN rx_index ELSE slot[i]
           /\ slot' \in [Buffers -> Buffers \cup {NULL}]
           /\ tail' = (tail + k) % RX_BUFFER_SIZE /\ used' = used + k
           /\ k = 0 /\ n > 0 /\ rx_index # STUB => mishap' # {}
           /\ k = 2 => "doubled" \in mishap'
           /\ mishap \subseteq mishap' /\ mishap' \subseteq mishap \cup Mishaps
           /\ event' \in BOOLEAN
           /\ UNCHANGED <<head, ack, bits, tx_error>>
  <1> DEFINE calls == IF rx_index = STUB THEN 0 ELSE n
  <1> DEFINE k == Min({calls, RX_BUFFER_SIZE - used})
  <1>1. calls \in 0..2 /\ RX_BUFFER_SIZE - used \in Nat
    BY BufferAssumption DEF QueueTypeOK
  <1>2. k = IF calls <= RX_BUFFER_SIZE - used THEN calls ELSE RX_BUFFER_SIZE - used
    BY <1>1, LesserOfTwo
  <1>3. /\ k \in 0..n /\ k <= calls /\ used + k <= RX_BUFFER_SIZE
        /\ k > 0 => rx_index # STUB
    BY <1>1, <1>2, BufferAssumption DEF QueueTypeOK
  <1>4. k > 0 => rx_index \in Buffers
    BY <1>3 DEF DriverOK
  <1>5. /\ slot' = [i \in Buffers |-> IF \E j \in 0..(k - 1) : i = (tail + j) % RX_BUFFER_SIZE
                                     THEN rx_index ELSE slot[i]]
        /\ tail' = (tail + k) % RX_BUFFER_SIZE /\ used' = used + k
        /\ event' = (event \/ k > 0)
        /\ UNCHANGED <<head, ack, bits, tx_error>>
    BY DEF receive_done
  <1>5a. mishap' = mishap \cup (IF k = 2 THEN {"doubled"} ELSE {})
                         \cup (IF k = 0 /\ calls > 0 THEN {"dropped"} ELSE {})
    BY DEF receive_done
  <1> HIDE DEF k
  <1>6. slot' \in [Buffers -> Buffers \cup {NULL}]
    <2>1. k \in Int
      BY <1>3
    <2>2. k > 0 \/ ~\E j \in 0..(k - 1) : TRUE
      BY <2>1
    <2> QED
      BY <1>4, <1>5, <2>2 DEF QueueTypeOK
  <1>7. /\ k = 0 /\ n > 0 /\ rx_index # STUB => mishap' # {}
        /\ k = 2 => "doubled" \in mishap'
    BY <1>5a
  <1>8. mishap \subseteq mishap' /\ mishap' \subseteq mishap \cup Mishaps
    BY <1>5a DEF Mishaps
  <1>9. event' \in BOOLEAN
    BY <1>5
  <1> QED
    BY <1>3, <1>4, <1>5, <1>6, <1>7, <1>8, <1>9

(* The j-th slot after the last one filled.                                *)
LEMMA SlotBehind ==
  ASSUME NEW h \in Buffers, NEW i \in Buffers, NEW n \in Nat, NEW j \in Nat,
         n + j < RX_BUFFER_SIZE
  PROVE  /\ i = (((h + n) % RX_BUFFER_SIZE) + j) % RX_BUFFER_SIZE => Ahead(h, i) = n + j
         /\ Ahead(h, i) = n + j => i = (((h + n) % RX_BUFFER_SIZE) + j) % RX_BUFFER_SIZE
  <1> DEFINE t == (h + n) % RX_BUFFER_SIZE
  <1>1. n \in 0..RX_BUFFER_SIZE /\ j \in 0..RX_BUFFER_SIZE
    BY BufferAssumption
  <1>2. /\ t = IF h + n < RX_BUFFER_SIZE THEN h + n ELSE h + n - RX_BUFFER_SIZE
        /\ t \in Buffers
    BY <1>1, WrapRound
  <1> HIDE DEF t
  <1>3. (t + j) % RX_BUFFER_SIZE = IF t + j < RX_BUFFER_SIZE THEN t + j
                                                            ELSE t + j - RX_BUFFER_SIZE
    BY <1>1, <1>2, WrapRound
  <1>4. /\ i = (t + j) % RX_BUFFER_SIZE => Ahead(h, i) = n + j
        /\ Ahead(h, i) = n + j => i = (t + j) % RX_BUFFER_SIZE
    BY <1>2, <1>3, BufferAssumption DEF Ahead, Buffers
  <1> QED
    BY <1>4 DEF t

(* The place the queue moves on to when k more slots are filled.           *)
LEMMA TailMovesOn ==
  ASSUME NEW h \in Buffers, NEW n \in Nat, NEW k \in Nat, n + k <= RX_BUFFER_SIZE
  PROVE  (((h + n) % RX_BUFFER_SIZE) + k) % RX_BUFFER_SIZE = (h + (n + k)) % RX_BUFFER_SIZE
  <1> DEFINE t == (h + n) % RX_BUFFER_SIZE
  <1>1. n \in 0..RX_BUFFER_SIZE /\ k \in 0..RX_BUFFER_SIZE /\ n + k \in 0..RX_BUFFER_SIZE
    BY BufferAssumption
  <1>2. /\ t = IF h + n < RX_BUFFER_SIZE THEN h + n ELSE h + n - RX_BUFFER_SIZE
        /\ t \in Buffers
    BY <1>1, WrapRound
  <1>3. (h + (n + k)) % RX_BUFFER_SIZE =
          IF h + (n + k) < RX_BUFFER_SIZE THEN h + (n + k) ELSE h + (n + k) - RX_BUFFER_SIZE
    BY <1>1, WrapRound
  <1> HIDE DEF t
  <1>4. (t + k) % RX_BUFFER_SIZE = IF t + k < RX_BUFFER_SIZE THEN t + k
                                                            ELSE t + k - RX_BUFFER_SIZE
    BY <1>1, <1>2, WrapRound
  <1>5. (t + k) % RX_BUFFER_SIZE = (h + (n + k)) % RX_BUFFER_SIZE
    BY <1>1, <1>2, <1>3, <1>4, BufferAssumption DEF Buffers
  <1> QED
    BY <1>5 DEF t

(* One more frame, or two, at the end of the queue.                        *)
LEMMA FilledReceived ==
  ASSUME Received, DriverOK, QueueTypeOK, Filled(slot, head, tail, Count)
  PROVE  QueueTypeOK' /\ Filled(slot, head, tail, Count)'
  <1>1. PICK n \in 0..2 : receive_done(n) /\ UNCHANGED pc
    BY DEF Received
  <1>2. PICK k \in 0..n :
           /\ k > 0 => rx_index \in Buffers
           /\ used + k <= RX_BUFFER_SIZE
           /\ \A i \in Buffers :
                slot'[i] = IF \E j \in 0..(k - 1) : i = (tail + j) % RX_BUFFER_SIZE
                           THEN rx_index ELSE slot[i]
           /\ slot' \in [Buffers -> Buffers \cup {NULL}]
           /\ tail' = (tail + k) % RX_BUFFER_SIZE /\ used' = used + k
           /\ UNCHANGED head
    BY <1>1, Taken
  <1>3. /\ Count \in Nat /\ k \in Nat /\ Count' = Count + k
        /\ Count + k <= RX_BUFFER_SIZE /\ Count + k \in 0..RX_BUFFER_SIZE
    BY <1>1, <1>2, BufferAssumption DEF Count, QueueTypeOK, Filled
  <1>4. head \in Buffers /\ tail = (head + Count) % RX_BUFFER_SIZE
    BY DEF QueueTypeOK, Filled
  <1>5. tail' = (head + (Count + k)) % RX_BUFFER_SIZE
    BY <1>2, <1>3, <1>4, TailMovesOn
  <1>6. tail' \in Buffers
    BY <1>3, <1>4, <1>5, WrapRound
  <1>7. ASSUME NEW i \in Buffers
        PROVE  /\ slot'[i] # NULL => Ahead(head, i) < Count + k
               /\ Ahead(head, i) < Count + k => slot'[i] # NULL
    <2>1. Ahead(head, i) \in Nat
      BY <1>4, AheadOf
    <2>2. CASE \E j \in 0..(k - 1) : i = (tail + j) % RX_BUFFER_SIZE
      <3>1. PICK j \in 0..(k - 1) : i = (tail + j) % RX_BUFFER_SIZE
        BY <2>2
      <3>2. j \in Nat /\ Count + j < RX_BUFFER_SIZE /\ j < k /\ k > 0
        BY <1>3, BufferAssumption
      <3>3. Ahead(head, i) = Count + j
        BY <1>3, <1>4, <3>1, <3>2, SlotBehind
      <3>4. slot'[i] = rx_index /\ rx_index # NULL
        BY <1>2, <2>2, <3>2 DEF NULL, Buffers
      <3> QED
        BY <1>3, <3>2, <3>3, <3>4
    <2>3. CASE ~\E j \in 0..(k - 1) : i = (tail + j) % RX_BUFFER_SIZE
      <3>1. slot'[i] = slot[i]
        BY <1>2, <2>3
      <3>2. ASSUME Ahead(head, i) < Count + k, Ahead(head, i) >= Count PROVE FALSE
        <4> DEFINE j == Ahead(head, i) - Count
        <4>1. /\ j \in 0..(k - 1) /\ j \in Nat /\ Ahead(head, i) = Count + j
              /\ Count + j < RX_BUFFER_SIZE
          BY <1>3, <2>1, <3>2, BufferAssumption
        <4> HIDE DEF j
        <4>2. i = (tail + j) % RX_BUFFER_SIZE
          BY <1>3, <1>4, <4>1, SlotBehind
        <4> QED
          BY <2>3, <4>1, <4>2
      <3>3. /\ slot[i] # NULL => Ahead(head, i) < Count
            /\ Ahead(head, i) < Count => slot[i] # NULL
        BY DEF Filled
      <3> QED
        BY <1>3, <2>1, <3>1, <3>2, <3>3
    <2> QED
      BY <2>2, <2>3
  <1>8. used' \in 0..RX_BUFFER_SIZE
    BY <1>2, BufferAssumption DEF QueueTypeOK
  <1>9. QueueTypeOK'
    BY <1>2, <1>4, <1>6, <1>8 DEF QueueTypeOK
  <1>10. Filled(slot, head, tail, Count)'
    BY <1>2, <1>3, <1>5, <1>7 DEF Filled
  <1> QED
    BY <1>9, <1>10

(* The frame at the head is taken out.                                     *)
LEMMA FilledRemoved ==
  ASSUME RxRemove, used > 0, QueueTypeOK, Filled(slot, head, tail, Count)
  PROVE  QueueTypeOK' /\ Filled(slot, head, tail, Count)'
  <1>1. /\ slot' = [slot EXCEPT ![head] = NULL] /\ head' = (head + 1) % RX_BUFFER_SIZE
        /\ UNCHANGED <<tail, used>> /\ pc = "rx_null" /\ pc' = "rx_sub"
    BY DEF RxRemove, Goto
  <1>2. /\ Count = used /\ Count' = Count - 1 /\ Count \in 1..RX_BUFFER_SIZE
    BY <1>1, BufferAssumption DEF Count, QueueTypeOK
  <1>3. head \in Buffers /\ 1 \in 0..RX_BUFFER_SIZE
    BY BufferAssumption DEF QueueTypeOK
  <1>4. head' = (IF head + 1 < RX_BUFFER_SIZE THEN head + 1 ELSE head + 1 - RX_BUFFER_SIZE)
        /\ head' \in Buffers
    BY <1>1, <1>3, WrapRound
  <1>5. tail = (head' + (Count - 1)) % RX_BUFFER_SIZE
    <2>1. tail = (head + (1 + (Count - 1))) % RX_BUFFER_SIZE
      BY <1>2 DEF Filled
    <2>2. 1 \in Nat /\ Count - 1 \in Nat /\ 1 + (Count - 1) <= RX_BUFFER_SIZE
      BY <1>2
    <2> QED
      BY <1>1, <1>3, <2>1, <2>2, TailMovesOn
  <1>6. ASSUME NEW i \in Buffers
        PROVE  /\ slot'[i] # NULL => Ahead(head', i) < Count - 1
               /\ Ahead(head', i) < Count - 1 => slot'[i] # NULL
    <2>1. /\ slot[i] # NULL => Ahead(head, i) < Count
          /\ Ahead(head, i) < Count => slot[i] # NULL
      BY DEF Filled
    <2>2. /\ i = head => Ahead(head', i) = RX_BUFFER_SIZE - 1
          /\ i # head => Ahead(head', i) = Ahead(head, i) - 1
      BY <1>3, <1>4, BufferAssumption DEF Ahead, Buffers
    <2>3. slot'[i] = IF i = head THEN NULL ELSE slot[i]
      BY <1>1 DEF QueueTypeOK
    <2>4. Ahead(head, i) \in Nat
      BY <1>3, AheadOf
    <2> QED
      BY <1>2, <2>1, <2>2, <2>3, <2>4, BufferAssumption
  <1>7. QueueTypeOK'
    BY <1>1, <1>4 DEF QueueTypeOK
  <1>8. Count - 1 \in 0..RX_BUFFER_SIZE
    BY <1>2, BufferAssumption
  <1>9. Filled(slot, head, tail, Count)'
    BY <1>1, <1>2, <1>5, <1>6, <1>8 DEF Filled
  <1> QED
    BY <1>7, <1>9

LEMMA EmptyQueue ==
  slot = [i \in Buffers |-> NULL] /\ head = 0 /\ tail = 0 /\ used = 0 /\ pc = "work"
  => QueueTypeOK /\ Filled(slot, head, tail, Count)
  <1> SUFFICES ASSUME slot = [i \in Buffers |-> NULL], head = 0, tail = 0, used = 0, pc = "work"
               PROVE  QueueTypeOK /\ Filled(slot, head, tail, Count)
    OBVIOUS
  <1>1. 0 \in Buffers /\ 0 \in 0..RX_BUFFER_SIZE
    BY BufferAssumption DEF Buffers
  <1>2. QueueTypeOK
    BY <1>1 DEF QueueTypeOK
  <1>3. Count = 0
    BY DEF Count
  <1>4. 0 = (0 + 0) % RX_BUFFER_SIZE
    BY BufferAssumption
  <1>5. ASSUME NEW i \in Buffers PROVE slot[i] = NULL /\ ~(Ahead(head, i) < 0)
    BY <1>1, AheadOf
  <1> QED
    BY <1>1, <1>2, <1>3, <1>4, <1>5 DEF Filled

(* Every step keeps the queue in order.                                    *)
LEMMA NextQueue ==
  ASSUME DriverOK, QueueTypeOK, QueueConsistent, StepsFit, [Next]_vars
  PROVE  QueueTypeOK' /\ QueueConsistent'
  <1>0. (head \in Buffers)' => (Filled(slot, head, tail, Count)' => QueueConsistent')
    BY SlotBySlot, PTL
  <1> SUFFICES QueueTypeOK' /\ Filled(slot, head, tail, Count)'
    BY <1>0 DEF QueueTypeOK
  <1>1. Filled(slot, head, tail, Count)
    BY SlotBySlot DEF QueueTypeOK
  <1>2. CASE Received
    BY <1>1, <1>2, FilledReceived
  <1>3. CASE RxRemove
    <2>1. used > 0
      BY <1>3 DEF RxRemove, Goto, StepsFit
    <2> QED
      BY <1>1, <1>3, <2>1, FilledRemoved
  <1>4. CASE UNCHANGED queue /\ UNCHANGED Count
    BY <1>1, <1>4 DEF queue, QueueTypeOK, Filled
  <1>5. CASE Steady \/ Acknowledged \/ HandAck \/ ForgetAck \/ RxHand
    <2>1. UNCHANGED queue /\ (pc' = "rx_sub" <=> pc = "rx_sub")
      BY <1>5 DEF Steady, Acknowledged, transmit_done_ack, HandAck, ForgetAck, RxHand,
                  Goto, port
    <2> QED
      BY <2>1, <1>4 DEF Count, queue
  <1>6. CASE RxSub
    <2>1. /\ slot' = slot /\ head' = head /\ tail' = tail /\ used' = used - 1
          /\ pc = "rx_sub" /\ pc' = "rx" /\ used > 0
      BY <1>6 DEF RxSub, Goto, StepsFit
    <2>2. Count' = Count
      BY <2>1 DEF Count
    <2>3. used' \in 0..RX_BUFFER_SIZE
      BY <2>1, BufferAssumption DEF QueueTypeOK
    <2> QED
      BY <1>1, <2>1, <2>2, <2>3 DEF QueueTypeOK, Filled
  <1>7. CASE Restart
    <2>1. (slot = [i \in Buffers |-> NULL] /\ head = 0 /\ tail = 0 /\ used = 0 /\ pc = "work")'
      BY <1>7 DEF Restart
    <2>2. (slot = [i \in Buffers |-> NULL] /\ head = 0 /\ tail = 0 /\ used = 0 /\ pc = "work")'
          => (QueueTypeOK /\ Filled(slot, head, tail, Count))'
      BY EmptyQueue, PTL
    <2> QED
      BY <2>1, <2>2
  <1> QED
    BY <1>2, <1>3, <1>5, <1>6, <1>7, BufferSteps

(* The head of a queue that is not empty is a frame, the slot behind its   *)
(* end is empty.                                                           *)
LEMMA HeadAndTail ==
  ASSUME QueueTypeOK, QueueConsistent
  PROVE  /\ Count > 0 => slot[head] \in Buffers
         /\ Count < RX_BUFFER_SIZE => slot[tail] = NULL
  <1>1. Filled(slot, head, tail, Count) /\ head \in Buffers /\ tail \in Buffers
    BY SlotBySlot DEF QueueTypeOK
  <1>2. Ahead(head, head) = 0
    BY <1>1 DEF Ahead, Buffers
  <1>3. ASSUME Count < RX_BUFFER_SIZE PROVE Ahead(head, tail) = Count
    <2>1. Count \in 0..(RX_BUFFER_SIZE - 1) /\ tail = (head + Count) % RX_BUFFER_SIZE
      BY <1>1, <1>3, BufferAssumption DEF Filled
    <2> QED
      BY <1>1, <2>1, AheadBack
  <1>4. slot[head] \in Buffers \cup {NULL} /\ Count \in Nat
    BY <1>1 DEF QueueTypeOK, Filled
  <1> QED
    BY <1>1, <1>2, <1>3, <1>4 DEF Filled

----------------------------------------------------------------------------
(* Who has a buffer *)

InSlot(b, i) == slot[i] = b /\ ~(pc = "rx_null" /\ i = head)

InAck(b) == ack = b /\ pc # "ack_null"

(* BuffersAccounted for one buffer, place by place.                        *)
Once(b) == /\ InAck(b) => process[b] /\ ~\E i \in Buffers : InSlot(b, i)
           /\ \A i \in Buffers : InSlot(b, i) =>
                process[b] /\ \A k \in Buffers : InSlot(b, k) => k = i

Kept(b) == process[b] => InAck(b) \/ \E i \in Buffers : InSlot(b, i)

AllPlaced == /\ "doubled" \notin mishap => \A b \in Buffers : Once(b)
             /\ mishap = {} => \A b \in Buffers : Kept(b)

LEMMA PlaceByPlace == (BuffersAccounted => AllPlaced) /\ (AllPlaced => BuffersAccounted)
  <1>0. STUB \notin Buffers /\ \A h : h \in 0..STUB <=> h \in Buffers \cup {STUB}
    BY BufferAssumption DEF STUB, Buffers
  <1>1. ASSUME NEW b \in Buffers
        PROVE  /\ \A i \in Buffers : i \in Holders(b) <=> InSlot(b, i)
               /\ STUB \in Holders(b) <=> InAck(b)
               /\ Holders(b) \subseteq Buffers \cup {STUB}
    BY <1>0 DEF Holders, InSlot, InAck
  <1>2. ASSUME BuffersAccounted, "doubled" \notin mishap, NEW b \in Buffers PROVE Once(b)
    <2>1. CASE Holders(b) = {}
      BY <1>1, <2>1 DEF Once
    <2>2. CASE process[b] /\ \E h \in 0..STUB : Holders(b) = {h}
      <3>1. PICK h \in 0..STUB : Holders(b) = {h}
        BY <2>2
      <3> QED
        BY <1>0, <1>1, <2>2, <3>1 DEF Once
    <2> QED
      BY <1>2, <2>1, <2>2 DEF BuffersAccounted
  <1>3. ASSUME NEW b \in Buffers, Once(b)
        PROVE  Holders(b) = {} \/ (process[b] /\ \E h \in 0..STUB : Holders(b) = {h})
    <2>1. CASE InAck(b)
      <3>1. Holders(b) = {STUB} /\ process[b]
        BY <1>0, <1>1, <1>3, <2>1 DEF Once
      <3> QED
        BY <1>0, <3>1
    <2>2. ASSUME NEW i \in Buffers, InSlot(b, i)
          PROVE  process[b] /\ \E h \in 0..STUB : Holders(b) = {h}
      <3>1. Holders(b) = {i} /\ process[b]
        BY <1>0, <1>1, <1>3, <2>2 DEF Once
      <3> QED
        BY <1>0, <3>1
    <2>3. CASE ~InAck(b) /\ ~\E i \in Buffers : InSlot(b, i)
      BY <1>1, <2>3
    <2> QED
      BY <2>1, <2>2, <2>3
  <1>4. ASSUME NEW b \in Buffers
        PROVE  Kept(b) <=> (process[b] => Holders(b) # {})
    BY <1>0, <1>1 DEF Kept
  <1> QED
    BY <1>2, <1>3, <1>4 DEF BuffersAccounted, AllPlaced

(* A buffer handed out with a frame goes into the slot at the tail, which  *)
(* was empty.                                                              *)
LEMMA PlacedReceived ==
  ASSUME Received, DriverOK, QueueTypeOK, QueueConsistent, StepsFit, AllPlaced
  PROVE  AllPlaced'
  <1>1. PICK n \in 0..2 : /\ receive_done(n) /\ UNCHANGED pc
                          /\ process' = IF n = 0 THEN process ELSE HandedOut
                          /\ n > 0 /\ rx_index # STUB => ~process[rx_index]
    BY DEF Received
  <1>2. PICK k \in 0..n :
           /\ k > 0 => rx_index \in Buffers
           /\ used + k <= RX_BUFFER_SIZE
           /\ \A i \in Buffers :
                slot'[i] = IF \E j \in 0..(k - 1) : i = (tail + j) % RX_BUFFER_SIZE
                           THEN rx_index ELSE slot[i]
           /\ slot' \in [Buffers -> Buffers \cup {NULL}]
           /\ k = 0 /\ n > 0 /\ rx_index # STUB => mishap' # {}
           /\ k = 2 => "doubled" \in mishap'
           /\ mishap \subseteq mishap'
           /\ UNCHANGED <<head, ack>>
    BY <1>1, Taken
  <1>3. /\ "doubled" \notin mishap' => "doubled" \notin mishap
        /\ mishap' = {} => mishap = {} /\ "doubled" \notin mishap
    BY <1>2
  <1>4. CASE k = 0
    <2>1. /\ mishap' = {} => process' = process
          /\ \A b \in Buffers : process[b] => process'[b]
      BY <1>1, <1>2, <1>4 DEF HandedOut, DriverOK
    <2>2. \A i \in Buffers : slot'[i] = slot[i]
      BY <1>2, <1>4
    <2>3. ASSUME NEW b \in Buffers
          PROVE  /\ Once(b) => Once(b)'
                 /\ mishap' = {} /\ Kept(b) => Kept(b)'
      <3>1. /\ \A i \in Buffers : InSlot(b, i)' <=> InSlot(b, i)
            /\ InAck(b)' <=> InAck(b)
        BY <1>1, <1>2, <2>2 DEF InSlot, InAck
      <3> QED
        BY <2>1, <3>1 DEF Once, Kept
    <2> QED
      BY <1>3, <2>3 DEF AllPlaced
  <1>5. CASE k = 1
    <2>1. /\ rx_index \in Buffers /\ rx_index # STUB /\ n > 0 /\ ~process[rx_index]
          /\ process' = [process EXCEPT ![rx_index] = TRUE]
      <3>1. rx_index \in Buffers /\ n > 0 /\ n # 0
        BY <1>2, <1>5
      <3>2. rx_index # STUB
        BY <3>1, BufferAssumption DEF Buffers, STUB
      <3> QED
        BY <1>1, <3>1, <3>2 DEF HandedOut
    <2>2. tail \in Buffers /\ (tail + 0) % RX_BUFFER_SIZE = tail
      BY BufferAssumption DEF QueueTypeOK, Buffers
    <2>3. \A i \in Buffers : slot'[i] = IF i = tail THEN rx_index ELSE slot[i]
      <3>1. \A j : j \in 0..(k - 1) <=> j = 0
        BY <1>5
      <3> QED
        BY <1>2, <2>2, <3>1
    <2>4. Count < RX_BUFFER_SIZE /\ (pc = "rx_null" => Count > 0)
      BY <1>2, <1>5, BufferAssumption DEF Count, QueueTypeOK, StepsFit
    <2>5. slot[tail] = NULL /\ (pc = "rx_null" => slot[head] \in Buffers)
      BY <2>4, HeadAndTail
    <2>6. NULL \notin Buffers
      BY DEF NULL, Buffers
    <2>7. ASSUME NEW b \in Buffers
          PROVE  (Once(b) => Once(b)') /\ (Kept(b) => Kept(b)')
      <3>1. \A i \in Buffers : InSlot(b, i)' <=> (i = tail /\ b = rx_index) \/ InSlot(b, i)
        BY <1>1, <1>2, <2>2, <2>3, <2>5, <2>6 DEF InSlot
      <3>2. ~InSlot(b, tail)
        BY <2>5, <2>6 DEF InSlot
      <3>3. InAck(b)' <=> InAck(b)
        BY <1>1, <1>2 DEF InAck
      <3>4. process'[b] = (b = rx_index \/ process[b])
        BY <2>1 DEF DriverOK
      <3>5. b = rx_index => ~process[b]
        BY <2>1
      <3>6. CASE b = rx_index
        <4>1. Once(b) => ~InAck(b) /\ \A i \in Buffers : ~InSlot(b, i)
          BY <3>5, <3>6 DEF Once
        <4> QED
          BY <3>1, <3>2, <3>3, <3>4, <3>6, <4>1, <2>2 DEF Once, Kept
      <3>7. CASE b # rx_index
        <4>1. /\ \A i \in Buffers : InSlot(b, i)' <=> InSlot(b, i)
              /\ process'[b] = process[b]
          BY <3>1, <3>4, <3>7 DEF DriverOK
        <4> QED
          BY <3>3, <4>1 DEF Once, Kept
      <3> QED
        BY <3>6, <3>7
    <2> QED
      BY <1>3, <2>7 DEF AllPlaced
  <1>6. CASE k = 2
    <2>1. "doubled" \in mishap' /\ mishap' # {}
      BY <1>2, <1>6
    <2> QED
      BY <2>1 DEF AllPlaced
  <1> QED
    BY <1>2, <1>4, <1>5, <1>6

(* An acknowledgement takes its one place, perhaps that of another.        *)
LEMMA PlacedAcknowledged ==
  ASSUME Acknowledged, DriverOK, QueueTypeOK, StepsFit, ack \in Buffers \cup {NULL}, AllPlaced
  PROVE  AllPlaced'
  <1>n. NULL \notin Buffers
    BY DEF NULL, Buffers
  <1>p. process \in [Buffers -> BOOLEAN] /\ rx_index \in Buffers \cup {STUB}
    BY DEF DriverOK
  <1>1. CASE rx_index = STUB
    <2>1. UNCHANGED <<process, slot, head, ack, mishap, pc>>
      BY <1>1 DEF Acknowledged, transmit_done_ack, HandedOut, queue
    <2> QED
      BY <2>1 DEF AllPlaced, Once, Kept, InSlot, InAck
  <1>2. CASE rx_index # STUB
    <2>1. /\ UNCHANGED <<slot, head, pc>> /\ ack' = rx_index
          /\ mishap' = IF ack = NULL THEN mishap ELSE mishap \cup {"ack_lost"}
          /\ process' = [process EXCEPT ![rx_index] = TRUE] /\ ~process[rx_index]
      BY <1>2 DEF Acknowledged, transmit_done_ack, HandedOut, queue
    <2>2. rx_index \in Buffers
      BY <1>2, <1>p
    <2>3. /\ "doubled" \notin mishap' => "doubled" \notin mishap
          /\ mishap' = {} => mishap = {} /\ ack = NULL /\ pc # "ack_null"
      BY <2>1 DEF StepsFit
    <2>4. ASSUME NEW b \in Buffers
          PROVE  /\ Once(b) => Once(b)'
                 /\ ack = NULL /\ pc # "ack_null" /\ Kept(b) => Kept(b)'
      <3>1. /\ \A i \in Buffers : InSlot(b, i)' <=> InSlot(b, i)
            /\ InAck(b)' <=> b = rx_index /\ pc # "ack_null"
            /\ ack = NULL => ~InAck(b)
        BY <1>n, <2>1, <2>2 DEF InSlot, InAck
      <3>2. process'[b] = (b = rx_index \/ process[b])
        BY <2>1, <1>p
      <3>3. CASE b = rx_index
        <4>1. Once(b) => \A i \in Buffers : ~InSlot(b, i)
          BY <2>1, <3>3 DEF Once
        <4> QED
          BY <3>1, <3>2, <3>3, <4>1 DEF Once, Kept
      <3>4. CASE b # rx_index
        <4>1. process'[b] = process[b] /\ ~InAck(b)'
          BY <2>1, <1>p, <3>1, <3>4
        <4> QED
          BY <3>1, <4>1 DEF Once, Kept
      <3> QED
        BY <3>3, <3>4
    <2> QED
      BY <2>3, <2>4 DEF AllPlaced
  <1> QED
    BY <1>1, <1>2

(* Every step keeps every buffer in its place, unless it is one of the     *)
(* mishaps.                                                                *)
LEMMA NextBuffers ==
  ASSUME DriverOK, QueueTypeOK, QueueConsistent, StepsFit, ack \in Buffers \cup {NULL},
         BuffersAccounted, [Next]_vars
  PROVE  BuffersAccounted'
  <1>0. AllPlaced' => BuffersAccounted'
    BY PlaceByPlace, PTL
  <1> SUFFICES AllPlaced'
    BY <1>0
  <1>1. AllPlaced
    BY PlaceByPlace
  <1>n. NULL \notin Buffers
    BY DEF NULL, Buffers
  <1>t. slot \in [Buffers -> Buffers \cup {NULL}] /\ head \in Buffers
    BY DEF QueueTypeOK
  <1>p. process \in [Buffers -> BOOLEAN] /\ rx_index \in Buffers \cup {STUB}
    BY DEF DriverOK
  <1>a. ASSUME UNCHANGED mishap,
               \A b \in Buffers : (Once(b) => Once(b)') /\ (Kept(b) => Kept(b)')
        PROVE  AllPlaced'
    BY <1>1, <1>a DEF AllPlaced
  <1>2. CASE Received
    BY <1>1, <1>2, PlacedReceived
  <1>3. CASE Steady \/ RxSub
    <2>1. /\ UNCHANGED <<process, slot, head, ack, mishap>>
          /\ pc' = "rx_null" <=> pc = "rx_null"
          /\ pc' = "ack_null" <=> pc = "ack_null"
      BY <1>3 DEF Steady, RxSub, Goto, queue, driver
    <2>2. ASSUME NEW b \in Buffers PROVE (Once(b) => Once(b)') /\ (Kept(b) => Kept(b)')
      BY <2>1 DEF Once, Kept, InSlot, InAck
    <2> QED
      BY <1>a, <2>1, <2>2
  <1>4. CASE Acknowledged
    BY <1>1, <1>4, PlacedAcknowledged
  <1>5. CASE HandAck
    <2>1. /\ UNCHANGED <<slot, head, ack, mishap>> /\ pc = "ack_hand" /\ pc' = "ack_null"
          /\ process' = [process EXCEPT ![ack] = FALSE] /\ ack \in Buffers
      BY <1>5 DEF HandAck, Goto, receive_handle_done, port, queue, StepsFit
    <2>2. ASSUME NEW b \in Buffers PROVE (Once(b) => Once(b)') /\ (Kept(b) => Kept(b)')
      <3>1. /\ \A i \in Buffers : InSlot(b, i)' <=> InSlot(b, i)
            /\ ~InAck(b)' /\ (InAck(b) <=> b = ack)
        BY <2>1 DEF InSlot, InAck
      <3>3. CASE b = ack
        <4>1. ~process'[b]
          BY <2>1, <3>3, <1>p
        <4> QED
          BY <3>1, <3>3, <4>1 DEF Once, Kept
      <3>4. CASE b # ack
        <4>1. process'[b] = process[b]
          BY <2>1, <3>4, <1>p
        <4> QED
          BY <3>1, <3>4, <4>1 DEF Once, Kept
      <3> QED
        BY <3>3, <3>4
    <2> QED
      BY <1>a, <2>1, <2>2
  <1>6. CASE ForgetAck
    <2>1. /\ UNCHANGED <<process, slot, head, mishap>> /\ pc = "ack_null" /\ pc' = "tx_failed"
          /\ ack' = NULL
      BY <1>6 DEF ForgetAck, Goto, queue, driver
    <2>2. ASSUME NEW b \in Buffers PROVE (Once(b) => Once(b)') /\ (Kept(b) => Kept(b)')
      <3>1. /\ \A i \in Buffers : InSlot(b, i)' <=> InSlot(b, i)
            /\ ~InAck(b)' /\ ~InAck(b) /\ process'[b] = process[b]
        BY <1>n, <2>1 DEF InSlot, InAck
      <3> QED
        BY <3>1 DEF Once, Kept
    <2> QED
      BY <1>a, <2>1, <2>2
  <1>7. CASE RxHand
    <2>1. /\ UNCHANGED <<slot, head, ack, mishap>> /\ pc = "rx_hand" /\ pc' = "rx_null"
          /\ process' = [process EXCEPT ![slot[head]] = FALSE]
      BY <1>7 DEF RxHand, Goto, receive_handle_done, port, queue
    <2>2. slot[head] \in Buffers
      BY <2>1, HeadAndTail DEF Count, StepsFit
    <2>3. ASSUME NEW b \in Buffers PROVE (Once(b) => Once(b)') /\ (Kept(b) => Kept(b)')
      <3>1. /\ \A i \in Buffers : InSlot(b, i)' <=> InSlot(b, i) /\ i # head
            /\ InAck(b)' <=> InAck(b)
            /\ b = slot[head] <=> InSlot(b, head)
        BY <2>1 DEF InSlot, InAck
      <3>3. CASE b = slot[head]
        <4>1. ~process'[b]
          BY <2>1, <3>3, <1>p
        <4> QED
          BY <1>t, <3>1, <3>3, <4>1 DEF Once, Kept
      <3>4. CASE b # slot[head]
        <4>1. process'[b] = process[b]
          BY <2>1, <3>4, <1>p
        <4>2. \A i \in Buffers : InSlot(b, i)' <=> InSlot(b, i)
          BY <3>1, <3>4
        <4> QED
          BY <3>1, <4>1, <4>2 DEF Once, Kept
      <3> QED
        BY <3>3, <3>4
    <2> QED
      BY <1>a, <2>1, <2>3
  <1>8. CASE RxRemove
    <2>1. /\ UNCHANGED <<process, ack, mishap>> /\ pc = "rx_null" /\ pc' = "rx_sub"
          /\ slot' = [slot EXCEPT ![head] = NULL]
      BY <1>8 DEF RxRemove, Goto, driver
    <2>2. ASSUME NEW b \in Buffers PROVE (Once(b) => Once(b)') /\ (Kept(b) => Kept(b)')
      <3>1. /\ \A i \in Buffers : InSlot(b, i)' <=> InSlot(b, i)
            /\ InAck(b)' <=> InAck(b)
        BY <1>n, <1>t, <2>1 DEF InSlot, InAck
      <3> QED
        BY <2>1, <3>1 DEF Once, Kept
    <2> QED
      BY <1>a, <2>1, <2>2
  <1>9. CASE Restart
    <2>1. /\ process' = [b \in Buffers |-> FALSE] /\ slot' = [i \in Buffers |-> NULL]
          /\ ack' = NULL
      BY <1>9 DEF Restart, DriverReset
    <2>2. ASSUME NEW b \in Buffers PROVE Once(b)' /\ Kept(b)'
      BY <1>n, <2>1 DEF Once, Kept, InSlot, InAck
    <2> QED
      BY <2>2 DEF AllPlaced
  <1> QED
    BY <1>2, <1>3, <1>4, <1>5, <1>6, <1>7, <1>8, <1>9, BufferSteps

----------------------------------------------------------------------------
(* What OpenThread waits for *)

InAir == state \in Sending \cup {"rx_ack"}

Reporting == pc \in {"tx_done_report", "tx_failed_report"}

(* OpOnePlace, place by place.                                             *)
TxSomewhere == \/ api \in Frames \/ pending_tx # "none" \/ InAir
               \/ "tx_done" \in bits \/ "tx_failed" \in bits \/ Reporting

TxOnce ==
  /\ api \in Frames => ~(\/ pending_tx # "none" \/ InAir \/ "tx_done" \in bits
                         \/ "tx_failed" \in bits \/ Reporting)
  /\ pending_tx # "none" => ~(InAir \/ "tx_done" \in bits \/ "tx_failed" \in bits \/ Reporting)
  /\ InAir => ~("tx_done" \in bits \/ "tx_failed" \in bits \/ Reporting)
  /\ "tx_done" \in bits => ~("tx_failed" \in bits \/ Reporting)
  /\ "tx_failed" \in bits => ~Reporting

EdSomewhere == state = "ed" \/ "ed_done" \in bits \/ pc = "ed_done_report"

EdOnce == /\ state = "ed" => ~("ed_done" \in bits \/ pc = "ed_done_report")
          /\ "ed_done" \in bits => pc # "ed_done_report"

Waiting == /\ (op = "tx") = TxSomewhere /\ TxOnce
           /\ (op = "ed") = EdSomewhere /\ EdOnce

LEMMA StageByStage == (OpOnePlace => Waiting) /\ (Waiting => OpOnePlace)
  <1>1. /\ "call" \in TxPlaces <=> api \in Frames
        /\ "deferred" \in TxPlaces <=> pending_tx # "none"
        /\ "air" \in TxPlaces <=> InAir
        /\ "done" \in TxPlaces <=> "tx_done" \in bits
        /\ "failed" \in TxPlaces <=> "tx_failed" \in bits
        /\ "report" \in TxPlaces <=> Reporting
        /\ TxPlaces \subseteq TxStages
    BY DEF TxPlaces, TxStages, InAir, Reporting
  <1>2. /\ "air" \in EdPlaces <=> state = "ed"
        /\ "done" \in EdPlaces <=> "ed_done" \in bits
        /\ "report" \in EdPlaces <=> pc = "ed_done_report"
        /\ EdPlaces \subseteq {"air", "done", "report"}
    BY DEF EdPlaces, TxStages
  <1>3. (\E x \in TxStages : TxPlaces = {x}) <=> TxSomewhere /\ TxOnce
    <2>1. ASSUME NEW x \in TxStages, TxPlaces = {x} PROVE TxSomewhere /\ TxOnce
      <3>1. \A y : y \in TxPlaces <=> y = x
        BY <2>1
      <3>2. x \in {"call", "deferred", "air", "done", "failed", "report"}
        BY DEF TxStages
      <3> QED
        BY <1>1, <3>1, <3>2 DEF TxSomewhere, TxOnce
    <2>2. ASSUME TxSomewhere, TxOnce PROVE \E x \in TxStages : TxPlaces = {x}
      <3> USE <1>1, <2>2 DEF TxOnce, TxStages
      <3>1. CASE api \in Frames
        <4>1. TxPlaces = {"call"}
          BY <3>1
        <4> QED
          BY <4>1
      <3>2. CASE pending_tx # "none"
        <4>1. TxPlaces = {"deferred"}
          BY <3>2
        <4> QED
          BY <4>1
      <3>3. CASE InAir
        <4>1. TxPlaces = {"air"}
          BY <3>3
        <4> QED
          BY <4>1
      <3>4. CASE "tx_done" \in bits
        <4>1. TxPlaces = {"done"}
          BY <3>4
        <4> QED
          BY <4>1
      <3>5. CASE "tx_failed" \in bits
        <4>1. TxPlaces = {"failed"}
          BY <3>5
        <4> QED
          BY <4>1
      <3>6. CASE Reporting
        <4>1. TxPlaces = {"report"}
          BY <3>6
        <4> QED
          BY <4>1
      <3> QED
        BY <3>1, <3>2, <3>3, <3>4, <3>5, <3>6 DEF TxSomewhere
    <2> QED
      BY <2>1, <2>2
  <1>4. TxPlaces = {} <=> ~TxSomewhere
    BY <1>1 DEF TxSomewhere, TxStages
  <1>5. (\E x \in TxStages : EdPlaces = {x}) <=> EdSomewhere /\ EdOnce
    <2>1. ASSUME NEW x \in TxStages, EdPlaces = {x} PROVE EdSomewhere /\ EdOnce
      <3>1. \A y : y \in EdPlaces <=> y = x
        BY <2>1
      <3>2. x \in {"air", "done", "report"}
        BY <1>2, <2>1
      <3> QED
        BY <1>2, <3>1, <3>2 DEF EdSomewhere, EdOnce
    <2>2. ASSUME EdSomewhere, EdOnce PROVE \E x \in TxStages : EdPlaces = {x}
      <3>1. EdPlaces = {"air"} \/ EdPlaces = {"done"} \/ EdPlaces = {"report"}
        BY <1>2, <2>2 DEF EdSomewhere, EdOnce
      <3> QED
        BY <3>1 DEF TxStages
    <2> QED
      BY <2>1, <2>2
  <1>6. EdPlaces = {} <=> ~EdSomewhere
    BY <1>2 DEF EdSomewhere
  <1>7. ~TxSomewhere => TxOnce
    BY DEF TxSomewhere, TxOnce
  <1>8. ~EdSomewhere => EdOnce
    BY DEF EdSomewhere, EdOnce
  <1>9. TxSomewhere \in BOOLEAN /\ EdSomewhere \in BOOLEAN
    BY DEF TxSomewhere, EdSomewhere
  <1> QED
    BY <1>3, <1>4, <1>5, <1>6, <1>7, <1>8, <1>9 DEF OpOnePlace, Waiting

(* The next operation is the deferred transmission, if there is one.       *)
LEMMA NextOperation ==
  ASSUME NEW proc, next_operation(proc), pending_tx \in Frames \cup {"none"}
  PROVE  /\ pending_tx' = "none" /\ state' # "ed"
         /\ pending_tx # "none" => InAir'
         /\ pending_tx = "none" => ~InAir'
  BY DEF next_operation, Send, enable_rx, InAir, Sending, Frames

MainTypeOK == /\ ack \in Buffers \cup {NULL} /\ bits \subseteq Bits /\ tmp \subseteq Bits
              /\ tx_error \in BOOLEAN /\ event \in BOOLEAN
              /\ pc \in Steps /\ api \in Frames \cup {"none"}
              /\ op \in {"none", "tx", "ed"} /\ mishap \subseteq Mishaps

(* receive_done tells OpenThread nothing about what it waits for.          *)
LEMMA ReceiveDoneBits == \A n : receive_done(n) => UNCHANGED bits
  BY DEF receive_done

(* A transmission that is stopped is reported, once.                       *)
LEMMA StopBits ==
  ASSUME NEW n, stop_current_operation(n)
  PROVE  /\ ~InAir => UNCHANGED bits
         /\ InAir => bits' = bits \cup {"tx_done"} \/ bits' = bits \cup {"tx_failed"}
  <1>1. CASE ~InAir
    BY <1>1, ReceiveDoneBits DEF InAir, stop_current_operation
  <1>2. CASE state \in Sending
    <2>1. stop_tx
      BY <1>2 DEF stop_current_operation, Sending
    <2> QED
      BY <1>2, <2>1 DEF InAir, stop_tx, transmit_done, transmit_failed, set_event
  <1>3. CASE state = "rx_ack"
    <2>1. stop_rx_ack
      BY <1>3 DEF stop_current_operation, Sending
    <2> QED
      BY <1>3, <2>1 DEF InAir, stop_rx_ack, transmit_done_ack, transmit_failed, set_event
  <1> QED
    BY <1>1, <1>2, <1>3 DEF InAir

(* An interrupt that ends an operation finds it in the hardware, and no    *)
(* trace of it anywhere else.                                              *)
LEMMA InterruptWaiting ==
  ASSUME DriverOK, MainTypeOK, Waiting, ieee802154_isr PROVE Waiting'
  <1> USE DEF Waiting, TxSomewhere, TxOnce, EdSomewhere, EdOnce, Reporting
  <1>0. UNCHANGED <<pc, api, op>>
    BY DEF ieee802154_isr, main
  <1>1. pending_tx \in Frames \cup {"none"}
    BY DEF DriverOK
  <1>2. CASE \/ \E n \in 1..2 : /\ RxDoneReports(n) \/ isr_handle_ack_tx_done(n)
                                /\ receive_done(n)
             \/ isr_handle_rx_abort /\ UNCHANGED <<port, mishap>>
    <2>1. ~InAir /\ state # "ed" /\ UNCHANGED bits
      BY <1>2, ReceiveDoneBits
      DEF RxDoneReports, isr_handle_ack_tx_done, isr_handle_rx_abort, Handle, DriverOK,
          EventFitsState, RxDone, InAir, Sending, port
    <2>2. next_operation(HandedOut) \/ next_operation(process)
      BY <1>2 DEF RxDoneReports, isr_handle_ack_tx_done, isr_handle_rx_abort
    <2>3. /\ pending_tx' = "none" /\ state' # "ed"
          /\ pending_tx # "none" => InAir'
          /\ pending_tx = "none" => ~InAir'
      BY <1>1, <2>2, NextOperation
    <2> QED
      BY <1>0, <2>1, <2>3
  <1>3. CASE (RxDoneAnswers \/ AwaitAck) /\ UNCHANGED <<port, mishap>>
    <2>1. (InAir' <=> InAir) /\ state # "ed" /\ state' # "ed" /\ UNCHANGED <<bits, pending_tx>>
      BY <1>3 DEF RxDoneAnswers, AwaitAck, Handle, DriverOK, EventFitsState, RxDone, InAir,
                  Sending, port
    <2> QED
      BY <1>0, <2>1
  <1>4. CASE \/ isr_handle_tx_done /\ transmit_done
             \/ isr_handle_ack_rx_done /\ transmit_done_ack
             \/ isr_handle_tx_abort("tx_abort") /\ transmit_failed(TRUE)
             \/ isr_handle_tx_abort("tx_security") /\ transmit_failed(FALSE)
    <2>1. InAir /\ state # "ed"
      BY <1>4 DEF isr_handle_tx_done, isr_handle_ack_rx_done, isr_handle_tx_abort, Handle,
                  DriverOK, EventFitsState, InAir, Sending
    <2>2. next_operation(HandedOut) \/ next_operation(process)
      BY <1>4 DEF isr_handle_tx_done, isr_handle_ack_rx_done, isr_handle_tx_abort
    <2>3. bits' = bits \cup {"tx_done"} \/ bits' = bits \cup {"tx_failed"}
      BY <1>4 DEF transmit_done, transmit_done_ack, transmit_failed, set_event
    <2>4. pending_tx = "none" /\ pending_tx' = "none" /\ state' # "ed" /\ ~InAir'
      BY <1>1, <2>1, <2>2, NextOperation
    <2> QED
      BY <1>0, <2>1, <2>3, <2>4
  <1>5. CASE isr_handle_ed_done /\ energy_detect_done
    <2>1. state = "ed" /\ ~InAir /\ op = "ed"
      BY <1>5 DEF isr_handle_ed_done, Handle, DriverOK, EventFitsState, InAir, Sending
    <2>2. next_operation(process) /\ bits' = bits \cup {"ed_done"}
      BY <1>5 DEF isr_handle_ed_done, energy_detect_done, set_event
    <2>3. pending_tx = "none" /\ pending_tx' = "none" /\ state' # "ed" /\ ~InAir'
      BY <1>1, <2>1, <2>2, NextOperation
    <2> QED
      BY <1>0, <2>1, <2>2, <2>3
  <1> QED
    BY <1>2, <1>3, <1>4, <1>5 DEF ieee802154_isr

(* OpenThread begins an operation only when it waits for none.             *)
LEMMA CallWaiting ==
  ASSUME DriverOK, MainTypeOK, Waiting, Calls \/ TransmitRuns PROVE Waiting'
  <1> USE DEF Waiting, TxSomewhere, TxOnce, EdSomewhere, EdOnce, Reporting
  <1>1. CASE \E f \in Frames : otPlatRadioTransmit(f)
    <2>1. PICK f \in Frames : otPlatRadioTransmit(f)
      BY <1>1
    <2>2. /\ op = "none" /\ op' = "tx" /\ UNCHANGED <<bits, pc, state>> /\ api = "none"
          /\ \/ pending_tx' = f /\ api' = api
             \/ pending_tx' = pending_tx /\ api' = f
      BY <2>1 DEF otPlatRadioTransmit, MayCall, Defer, port, driver
    <2>3. f # "none" /\ "none" \notin Frames
      BY DEF Frames
    <2> QED
      BY <2>2, <2>3 DEF InAir
  <1>2. CASE otPlatRadioReceive \/ otPlatRadioSleep
    <2>1. PICK n \in 0..1 :
             /\ op # "ed" /\ UNCHANGED <<pc, api, op, pending_tx>>
             /\ state' \in {"rx", "sleep"} /\ stop_current_operation(n)
      BY <1>2
      DEF otPlatRadioReceive, otPlatRadioSleep, MayStop, ieee802154_receive, enable_rx,
          ieee802154_sleep, main
    <2>2. ~InAir'
      BY <2>1 DEF InAir, Sending
    <2>3. CASE InAir
      <3>1. bits' = bits \cup {"tx_done"} \/ bits' = bits \cup {"tx_failed"}
        BY <2>1, <2>3, StopBits
      <3> QED
        BY <2>1, <2>2, <2>3, <3>1
    <2>4. CASE ~InAir
      <3>1. UNCHANGED bits
        BY <2>1, <2>4, StopBits
      <3> QED
        BY <2>1, <2>2, <2>4, <3>1
    <2> QED
      BY <2>3, <2>4
  <1>3. CASE otPlatRadioEnergyScan
    <2>1. PICK n \in 0..1 :
             /\ op = "none" /\ op' = "ed" /\ UNCHANGED <<pc, api, pending_tx>>
             /\ state' = "ed" /\ stop_current_operation(n)
      BY <1>3 DEF otPlatRadioEnergyScan, MayCall, ieee802154_energy_detect
    <2>2. ~InAir /\ UNCHANGED bits
      BY <2>1, StopBits
    <2> QED
      BY <2>1, <2>2 DEF InAir, Sending
  <1>4. CASE TransmitRuns
    <2>1. PICK n \in 0..1 :
             /\ api \in Frames /\ api' = "none" /\ UNCHANGED <<pc, op, pending_tx>>
             /\ state' \in Sending /\ stop_current_operation(n)
      BY <1>4 DEF TransmitRuns, transmit_internal, Send, Sending, MainTypeOK
    <2>2. "none" \notin Frames
      BY DEF Frames
    <2>3. ~InAir /\ UNCHANGED bits
      BY <2>1, StopBits
    <2> QED
      BY <2>1, <2>2, <2>3 DEF InAir, Sending
  <1> QED
    BY <1>1, <1>2, <1>3, <1>4 DEF Calls

(* Between the load and the store of clr_event nothing else is completed,  *)
(* so only the bit that was tested goes, and it goes into the report.      *)
LEMMA LoopWaiting ==
  ASSUME MainTypeOK, StepsFit, Waiting,
         \/ Select \/ Process \/ Returns \/ Hardware \/ UNCHANGED vars
  PROVE  Waiting'
  <1> USE DEF Waiting, TxSomewhere, TxOnce, EdSomewhere, EdOnce, Reporting
  <1>1. CASE /\ UNCHANGED <<state, pending_tx, bits, api, op>>
             /\ pc' = pc \/ {pc, pc'} \cap {"tx_done_report", "tx_failed_report",
                                            "ed_done_report"} = {}
    BY <1>1 DEF InAir
  <1>2. CASE \/ Select \/ Read \/ Returns \/ Hardware \/ UNCHANGED vars \/ HandAck \/ ForgetAck
             \/ RxTest \/ RxHand \/ RxRemove \/ RxSub
    <2>1. UNCHANGED <<state, pending_tx, bits, api, op>>
      BY <1>2 DEF Select, Read, Returns, CallbackReturns, Hardware, vars, HandAck, ForgetAck,
                  RxTest, RxHand, RxRemove, RxSub, FrameBegins, FrameEnds, AckSent, TxEnds,
                  AckWaitEnds, EdEnds, hw, driver, port, main
    <2>2. pc' = pc \/ {pc, pc'} \cap {"tx_done_report", "tx_failed_report", "ed_done_report"} = {}
      BY <1>2 DEF Select, Read, Returns, CallbackReturns, Hardware, vars, HandAck, ForgetAck,
                  RxTest, RxHand, RxRemove, RxSub, Goto, main
    <2> QED
      BY <1>1, <2>1, <2>2
  <1>3. CASE Restart
    <2>1. /\ state' = "idle" /\ pending_tx' = "none" /\ bits' = {} /\ api' = "none"
          /\ op' = "none" /\ pc' = "work" /\ "none" \notin Frames
      BY <1>3 DEF Restart, DriverReset, Frames
    <2> QED
      BY <2>1 DEF InAir, Sending
  <1>4. CASE \/ Test("tx_done", "tx_done_clr", "tx_failed")
             \/ Test("tx_failed", "tx_failed_clr", "ed_done")
             \/ Test("ed_done", "ed_done_clr", "rx")
    <2>1. /\ UNCHANGED <<state, pending_tx, bits, api, op>>
          /\ {pc, pc'} \cap {"tx_done_report", "tx_failed_report", "ed_done_report"} = {}
      BY <1>4 DEF Test, Goto, driver, port
    <2> QED
      BY <1>1, <2>1
  <1>5. CASE clr_event("tx_done", "tx_done_clr", "tx_done_report")
    <2>1. /\ UNCHANGED <<state, pending_tx, api, op>> /\ bits' = bits \ {"tx_done"}
          /\ "tx_done" \in bits /\ pc = "tx_done_clr" /\ pc' = "tx_done_report"
      BY <1>5 DEF clr_event, Goto, StepsFit, driver
    <2> QED
      BY <2>1 DEF InAir
  <1>6. CASE clr_event("tx_failed", "tx_failed_clr", "tx_failed_report")
    <2>1. /\ UNCHANGED <<state, pending_tx, api, op>> /\ bits' = bits \ {"tx_failed"}
          /\ "tx_failed" \in bits /\ pc = "tx_failed_clr" /\ pc' = "tx_failed_report"
      BY <1>6 DEF clr_event, Goto, StepsFit, driver
    <2> QED
      BY <2>1 DEF InAir
  <1>7. CASE clr_event("ed_done", "ed_done_clr", "ed_done_report")
    <2>1. /\ UNCHANGED <<state, pending_tx, api, op>> /\ bits' = bits \ {"ed_done"}
          /\ "ed_done" \in bits /\ pc = "ed_done_clr" /\ pc' = "ed_done_report"
      BY <1>7 DEF clr_event, Goto, StepsFit, driver
    <2> QED
      BY <2>1 DEF InAir
  <1>8. CASE \/ Report("tx_done_report", "tx_done_cb")
             \/ Report("tx_done_report", "tx_done_cb_ack")
             \/ Report("tx_failed_report", "tx_failed_cb")
             \/ Report("ed_done_report", "ed_done_cb")
    <2>1. /\ UNCHANGED <<state, pending_tx, bits, api>> /\ op' = "none"
          /\ pc \in {"tx_done_report", "tx_failed_report", "ed_done_report"}
          /\ pc' \notin {"tx_done_report", "tx_failed_report", "ed_done_report"}
      BY <1>8 DEF Report, Goto, driver, port
    <2> QED
      BY <2>1 DEF InAir
  <1> QED
    BY <1>2, <1>3, <1>4, <1>5, <1>6, <1>7, <1>8 DEF Process, TxDone, TxFailed, EdDone

----------------------------------------------------------------------------
(* The steps of the main loop *)

LEMMA ReceiveDoneCounts ==
  ASSUME NEW n \in 0..2, receive_done(n), DriverOK, QueueTypeOK, mishap \subseteq Mishaps
  PROVE  /\ used > 0 => used' > 0
         /\ UNCHANGED <<ack, bits, tx_error>> /\ event' \in BOOLEAN
         /\ mishap' \subseteq Mishaps
  <1>1. PICK k \in 0..n : /\ used' = used + k /\ UNCHANGED <<ack, bits, tx_error>>
                          /\ event' \in BOOLEAN /\ mishap' \subseteq mishap \cup Mishaps
    BY Taken
  <1> QED
    BY <1>1, BufferAssumption DEF QueueTypeOK

(* An interrupt keeps what a step has tested: a frame stays in the queue,  *)
(* an acknowledgement may only be replaced, and where a bit is being       *)
(* cleared no other can be set.                                            *)
LEMMA InterruptSteps ==
  ASSUME DriverOK, MainTypeOK, QueueTypeOK, StepsFit, Waiting, ieee802154_isr
  PROVE  StepsFit' /\ MainTypeOK'
  <1>0. UNCHANGED <<pc, tmp, api, op>>
    BY DEF ieee802154_isr, main
  <1>1. CASE \E n \in 1..2 : receive_done(n)
    <2>1. PICK n \in 1..2 : receive_done(n)
      BY <1>1
    <2>2. n \in 0..2 /\ mishap \subseteq Mishaps
      BY DEF MainTypeOK
    <2>3. /\ used > 0 => used' > 0
          /\ UNCHANGED <<ack, bits, tx_error>> /\ event' \in BOOLEAN
          /\ mishap' \subseteq Mishaps
      BY <2>1, <2>2, ReceiveDoneCounts
    <2>4. StepsFit'
      BY <1>0, <2>3 DEF StepsFit
    <2> QED
      BY <1>0, <2>3, <2>4 DEF MainTypeOK
  <1>2. CASE UNCHANGED <<port, mishap>>
    BY <1>0, <1>2 DEF port, queue, StepsFit, MainTypeOK
  <1>3. CASE \/ isr_handle_tx_done /\ transmit_done
             \/ isr_handle_ack_rx_done /\ transmit_done_ack
             \/ isr_handle_tx_abort("tx_abort") /\ transmit_failed(TRUE)
             \/ isr_handle_tx_abort("tx_security") /\ transmit_failed(FALSE)
             \/ isr_handle_ed_done /\ energy_detect_done
    <2>1. InAir \/ state = "ed"
      BY <1>3 DEF isr_handle_tx_done, isr_handle_ack_rx_done, isr_handle_tx_abort,
                  isr_handle_ed_done, Handle, DriverOK, EventFitsState, InAir, Sending
    <2>2. bits \cap Bits = {}
      BY <2>1 DEF Bits, Waiting, TxSomewhere, TxOnce, EdSomewhere, EdOnce
    <2>3. pc \notin {"tx_done_clr", "tx_failed_clr", "ed_done_clr"}
      BY <2>2 DEF StepsFit, Bits
    <2>4. /\ UNCHANGED used /\ (ack # NULL => ack' # NULL) /\ ack' \in Buffers \cup {NULL}
      <3>1. UNCHANGED used /\ (ack' = ack \/ (rx_index # STUB /\ ack' = rx_index))
        BY <1>3 DEF transmit_done, transmit_done_ack, transmit_failed, energy_detect_done, queue
      <3>2. NULL \notin Buffers
        BY DEF NULL, Buffers
      <3> QED
        BY <3>1, <3>2 DEF DriverOK, MainTypeOK
    <2>5. \E e \in Bits : bits' = bits \cup {e} /\ event' = TRUE
      BY <1>3 DEF transmit_done, transmit_done_ack, transmit_failed, energy_detect_done,
                  set_event, Bits
    <2>6. tx_error' \in BOOLEAN
      BY <1>3 DEF transmit_done, transmit_done_ack, transmit_failed, energy_detect_done,
                  MainTypeOK
    <2>7. mishap' \subseteq Mishaps
      BY <1>3 DEF transmit_done, transmit_done_ack, transmit_failed, energy_detect_done,
                  MainTypeOK, Mishaps
    <2>8. StepsFit'
      BY <1>0, <2>3, <2>4 DEF StepsFit
    <2>9. bits' \subseteq Bits /\ event' \in BOOLEAN
      BY <2>5 DEF MainTypeOK
    <2>10. MainTypeOK'
      BY <1>0, <2>4, <2>6, <2>7, <2>9 DEF MainTypeOK
    <2> QED
      BY <2>8, <2>10
  <1> QED
    BY <1>1, <1>2, <1>3 DEF ieee802154_isr

LEMMA CallSteps ==
  ASSUME DriverOK, MainTypeOK, QueueTypeOK, StepsFit, Calls \/ TransmitRuns
  PROVE  StepsFit' /\ MainTypeOK'
  <1>1. pc \in Callbacks /\ UNCHANGED <<pc, tmp>>
    BY DEF Calls, TransmitRuns, otPlatRadioTransmit, otPlatRadioReceive, otPlatRadioSleep,
           otPlatRadioEnergyScan, MayCall, MayStop, StepsFit, main
  <1>2. api' \in Frames \cup {"none"} /\ op' \in {"none", "tx", "ed"}
    BY DEF Calls, TransmitRuns, otPlatRadioTransmit, otPlatRadioReceive, otPlatRadioSleep,
           otPlatRadioEnergyScan, MayCall, MainTypeOK, main
  <1>3. /\ used > 0 => used' > 0
        /\ ack # NULL => ack' # NULL
        /\ ack' \in Buffers \cup {NULL} /\ bits' \subseteq Bits /\ tx_error' \in BOOLEAN
        /\ event' \in BOOLEAN /\ mishap' \subseteq Mishaps
    <2>1. CASE UNCHANGED <<port, mishap>>
      BY <2>1 DEF port, queue, MainTypeOK
    <2>2. CASE \E n \in 0..1 : receive_done(n)
      <3>1. PICK n \in 0..1 : receive_done(n)
        BY <2>2
      <3>2. n \in 0..2 /\ mishap \subseteq Mishaps
        BY DEF MainTypeOK
      <3>3. /\ used > 0 => used' > 0
            /\ UNCHANGED <<ack, bits, tx_error>> /\ event' \in BOOLEAN
            /\ mishap' \subseteq Mishaps
        BY <3>1, <3>2, ReceiveDoneCounts
      <3> QED
        BY <3>3 DEF MainTypeOK
    <2>3. CASE transmit_done \/ transmit_done_ack \/ transmit_failed(TRUE)
      <3>1. /\ UNCHANGED used /\ event' = TRUE
            /\ bits' = bits \cup {"tx_done"} \/ bits' = bits \cup {"tx_failed"}
            /\ ack' = ack \/ (rx_index # STUB /\ ack' = rx_index)
            /\ tx_error' = tx_error \/ tx_error' = TRUE
            /\ mishap' = mishap \/ mishap' = mishap \cup {"ack_lost"}
        BY <2>3 DEF transmit_done, transmit_done_ack, transmit_failed, set_event, queue
      <3>2. NULL \notin Buffers
        BY DEF NULL, Buffers
      <3>3. (ack # NULL => ack' # NULL) /\ ack' \in Buffers \cup {NULL}
        BY <3>1, <3>2 DEF DriverOK, MainTypeOK
      <3>4. bits' \subseteq Bits /\ mishap' \subseteq Mishaps
        BY <3>1 DEF MainTypeOK, Bits, Mishaps
      <3>5. tx_error' \in BOOLEAN /\ event' \in BOOLEAN
        BY <3>1 DEF MainTypeOK
      <3> QED
        BY <3>1, <3>3, <3>4, <3>5
    <2>4. ASSUME NEW n \in 0..1, stop_current_operation(n)
          PROVE  receive_done(n) \/ transmit_done \/ transmit_done_ack \/ transmit_failed(TRUE)
      BY <2>4 DEF stop_current_operation, stop_tx, stop_rx_ack
    <2>5. UNCHANGED <<port, mishap>> \/ \E n \in 0..1 : stop_current_operation(n)
      BY DEF Calls, TransmitRuns, otPlatRadioTransmit, otPlatRadioReceive,
             otPlatRadioSleep, otPlatRadioEnergyScan
    <2> QED
      BY <2>1, <2>2, <2>3, <2>4, <2>5
  <1>4. StepsFit'
    BY <1>1, <1>3 DEF StepsFit, Callbacks
  <1>5. MainTypeOK'
    BY <1>1, <1>2, <1>3 DEF MainTypeOK
  <1> QED
    BY <1>4, <1>5

LEMMA LoopSteps ==
  ASSUME MainTypeOK, QueueTypeOK, StepsFit,
         \/ Select \/ Process \/ Returns \/ Hardware \/ UNCHANGED vars
  PROVE  StepsFit' /\ MainTypeOK'
  <1>1. CASE Hardware \/ UNCHANGED vars
    <2>1. UNCHANGED <<port, main, mishap>>
      BY <1>1 DEF Hardware, vars
    <2> QED
      BY <2>1 DEF port, queue, main, StepsFit, MainTypeOK
  <1>2. CASE Select \/ Read \/ Returns
    <2>1. /\ api = "none" /\ UNCHANGED <<slot, head, tail, used, ack, bits, tx_error, tmp, api,
                                         op, mishap>>
          /\ event' \in BOOLEAN
      BY <1>2 DEF Select, Read, Returns, CallbackReturns, Goto, port, queue, MainTypeOK
    <2>2. \/ pc' \in {"read", "tx_done", "tx_failed", "ed_done", "rx", "select"}
          \/ pc = "tx_done_cb_ack" /\ pc' = "ack_hand"
          \/ pc = "rx_cb" /\ pc' = "rx_hand"
      BY <1>2 DEF Select, Read, Returns, CallbackReturns, Goto
    <2>3. StepsFit'
      BY <2>1, <2>2 DEF StepsFit
    <2> QED
      BY <2>1, <2>2, <2>3 DEF MainTypeOK, Steps
  <1>3. CASE \/ Test("tx_done", "tx_done_clr", "tx_failed")
             \/ Test("tx_failed", "tx_failed_clr", "ed_done")
             \/ Test("ed_done", "ed_done_clr", "rx")
    <2>1. /\ api = "none" /\ UNCHANGED <<used, ack, bits, tx_error, event, api, op, mishap>>
          /\ tmp' = tmp \/ tmp' = bits
      BY <1>3 DEF Test, Goto, port, queue
    <2>2. \/ pc' \in {"tx_failed", "ed_done", "rx"}
          \/ pc' = "tx_done_clr" /\ "tx_done" \in bits /\ tmp' = bits
          \/ pc' = "tx_failed_clr" /\ "tx_failed" \in bits /\ tmp' = bits
          \/ pc' = "ed_done_clr" /\ "ed_done" \in bits /\ tmp' = bits
      BY <1>3 DEF Test, Goto
    <2>3. StepsFit'
      BY <2>1, <2>2 DEF StepsFit
    <2> QED
      BY <2>1, <2>2, <2>3 DEF MainTypeOK, Steps
  <1>4. CASE \/ clr_event("tx_done", "tx_done_clr", "tx_done_report")
             \/ clr_event("tx_failed", "tx_failed_clr", "tx_failed_report")
             \/ clr_event("ed_done", "ed_done_clr", "ed_done_report")
    <2>1. /\ api = "none" /\ UNCHANGED <<used, ack, tx_error, event, api, op, mishap>>
          /\ tmp' = {} /\ bits' \subseteq tmp
          /\ pc' \in {"tx_done_report", "tx_failed_report", "ed_done_report"}
      BY <1>4 DEF clr_event, Goto, queue
    <2>2. StepsFit'
      BY <2>1 DEF StepsFit
    <2> QED
      BY <2>1, <2>2 DEF MainTypeOK, Steps
  <1>5. CASE \/ ack = NULL /\ Report("tx_done_report", "tx_done_cb")
             \/ ack # NULL /\ Report("tx_done_report", "tx_done_cb_ack")
             \/ Report("tx_failed_report", "tx_failed_cb")
             \/ Report("ed_done_report", "ed_done_cb")
    <2>1. /\ api = "none" /\ UNCHANGED <<used, ack, bits, tmp, tx_error, event, api, mishap>>
          /\ op' = "none"
          /\ \/ pc' \in {"tx_done_cb", "tx_failed_cb", "ed_done_cb"}
             \/ pc' = "tx_done_cb_ack" /\ ack # NULL
      BY <1>5 DEF Report, Goto, port, queue
    <2>2. StepsFit'
      BY <2>1 DEF StepsFit
    <2> QED
      BY <2>1, <2>2 DEF MainTypeOK, Steps
  <1>6. CASE HandAck \/ ForgetAck
    <2>1. /\ api = "none" /\ UNCHANGED <<used, bits, tmp, tx_error, event, api, op, mishap>>
          /\ \/ pc = "ack_hand" /\ pc' = "ack_null" /\ ack' = ack
             \/ pc' = "tx_failed" /\ ack' = NULL
      BY <1>6 DEF HandAck, ForgetAck, Goto, port, queue
    <2>2. StepsFit'
      BY <2>1 DEF StepsFit
    <2> QED
      BY <2>1, <2>2 DEF MainTypeOK, Steps
  <1>7. CASE RxTest \/ RxHand \/ RxRemove \/ RxSub
    <2>1. /\ api = "none" /\ UNCHANGED <<ack, bits, tmp, tx_error, event, api, op, mishap>>
          /\ \/ pc' \in {"work", "rx"}
             \/ pc' = "rx_cb" /\ used > 0 /\ used' = used
             \/ pc = "rx_hand" /\ pc' = "rx_null" /\ used' = used
             \/ pc = "rx_null" /\ pc' = "rx_sub" /\ used' = used
      BY <1>7 DEF RxTest, RxHand, RxRemove, RxSub, Goto, port, queue
    <2>2. StepsFit'
      BY <2>1 DEF StepsFit
    <2> QED
      BY <2>1, <2>2 DEF MainTypeOK, Steps
  <1>8. CASE Restart
    <2>1. /\ api' = "none" /\ pc' = "work" /\ bits' = {} /\ tmp' = {} /\ ack' = NULL
          /\ tx_error' = TRUE /\ event' = FALSE /\ op' = "none" /\ mishap' = {}
      BY <1>8 DEF Restart
    <2>2. StepsFit'
      BY <2>1 DEF StepsFit
    <2> QED
      BY <2>1, <2>2 DEF MainTypeOK, Steps
  <1> QED
    BY <1>1, <1>2, <1>3, <1>4, <1>5, <1>6, <1>7, <1>8 DEF Process, TxDone, TxFailed, EdDone

----------------------------------------------------------------------------
(* The inductive invariant *)

(* A buffer that is free is in no slot, so the flag is enough.             *)
LEMMA FlagIsEnough ==
  ASSUME DriverOK, BuffersAccounted PROVE ReceivesIntoFree
  <1> SUFFICES ASSUME state \in {"rx", "tx_ack", "tx_enh_ack", "tx_data_ack", "rx_ack"},
                      rx_index # STUB
               PROVE  ~process[rx_index] /\ ("doubled" \notin mishap => Holders(rx_index) = {})
    BY DEF ReceivesIntoFree
  <1>1. rx_index \in Buffers /\ ~process[rx_index]
    BY DEF DriverOK, FlagFree
  <1> QED
    BY <1>1 DEF BuffersAccounted

LEMMA Parts ==
  /\ IInv => DriverOK /\ QueueTypeOK /\ MainTypeOK /\ StepsFit
             /\ QueueConsistent /\ OpOnePlace /\ BuffersAccounted
  /\ DriverOK /\ QueueTypeOK /\ MainTypeOK /\ StepsFit
     /\ QueueConsistent /\ OpOnePlace /\ BuffersAccounted => IInv
  <1>1. ReceivesIntoFree => FlagFree
    BY DEF ReceivesIntoFree, FlagFree
  <1> QED
    BY <1>1, FlagIsEnough DEF IInv, TypeOK, DriverOK, QueueTypeOK, MainTypeOK

LEMMA InitIInv == Init => IInv
  <1> SUFFICES ASSUME Init PROVE IInv
    OBVIOUS
  <1> USE DEF Init, DriverInit, PortInit
  <1>1. DriverOK
    <2>1. 0 \in Buffers
      BY BufferAssumption DEF Buffers
    <2> QED
      BY <2>1 DEF DriverOK, States, Events, EventFitsState, FlagFree, RxDone
  <1>2. QueueTypeOK /\ Filled(slot, head, tail, Count)
    BY EmptyQueue
  <1>3. QueueConsistent
    BY <1>2, SlotBySlot DEF QueueTypeOK
  <1>4. StepsFit
    BY DEF StepsFit
  <1>5. MainTypeOK
    BY DEF MainTypeOK, Steps
  <1>6. Waiting
    BY DEF Waiting, TxSomewhere, TxOnce, EdSomewhere, EdOnce, InAir, Reporting, Sending, Frames
  <1>7. AllPlaced
    <2>1. NULL \notin Buffers
      BY DEF NULL, Buffers
    <2> QED
      BY <2>1 DEF AllPlaced, Once, Kept, InSlot, InAck
  <1> QED
    BY <1>1, <1>2, <1>3, <1>4, <1>5, <1>6, <1>7, StageByStage, PlaceByPlace, Parts

LEMMA NextIInv == IInv /\ [Next]_vars => IInv'
  <1> SUFFICES ASSUME IInv, [Next]_vars PROVE IInv'
    OBVIOUS
  <1>0. /\ DriverOK /\ QueueTypeOK /\ MainTypeOK /\ StepsFit
        /\ QueueConsistent /\ OpOnePlace /\ BuffersAccounted
    BY Parts
  <1>1. DriverOK'
    BY <1>0, NextDriverOK DEF MainTypeOK
  <1>2. QueueTypeOK' /\ QueueConsistent'
    BY <1>0, NextQueue
  <1>3. BuffersAccounted'
    BY <1>0, NextBuffers DEF MainTypeOK
  <1>4. Waiting
    BY <1>0, StageByStage
  <1>5. Waiting'
    BY <1>0, <1>4, InterruptWaiting, CallWaiting, LoopWaiting DEF Next
  <1>6. OpOnePlace'
    BY <1>5, StageByStage, PTL
  <1>7. StepsFit' /\ MainTypeOK'
    BY <1>0, <1>4, InterruptSteps, CallSteps, LoopSteps DEF Next
  <1> QED
    BY <1>1, <1>2, <1>3, <1>6, <1>7, Parts, PTL

(* The inductive invariant holds always.                                   *)
THEOREM RadioSafety == Spec => []IInv
  BY InitIInv, NextIInv, PTL DEF Spec

(* Every variable of the driver, the queue and the main loop keeps its     *)
(* type; the queue never counts more frames than it has slots              *)
(* (esp_openthread_radio.c:695-722).                                       *)
THEOREM TypeCorrect == Spec => []TypeOK
  <1>1. IInv => TypeOK
    BY DEF IInv
  <1> QED
    BY <1>1, RadioSafety, PTL

(* A transmission or an energy scan OpenThread waits for is in exactly one *)
(* place, through deferral, interrupts between the load and the store of   *)
(* clr_event, and callbacks: no completion is lost or reported twice       *)
(* (esp_openthread_radio.c:104-107 and 163-220).                           *)
THEOREM CompletesOnce == Spec => []OpOnePlace
  <1>1. IInv => OpOnePlace
    BY DEF IInv
  <1> QED
    BY <1>1, RadioSafety, PTL

(* The hardware never receives into a buffer whose flag says the user has  *)
(* it, nor, unless the driver has reported a frame twice, into one that a  *)
(* slot of the queue or the acknowledgement still points to                *)
(* (esp_ieee802154_dev.c:167-198).                                         *)
THEOREM NoOverwrite == Spec => []ReceivesIntoFree
  <1>1. IInv => ReceivesIntoFree
    BY DEF IInv
  <1> QED
    BY <1>1, RadioSafety, PTL

(* The queue of received frames counts what it holds, whatever interrupts  *)
(* the loop that empties it (esp_openthread_radio.c:223-241 and 695-722).  *)
THEOREM QueueInOrder == Spec => []QueueConsistent
  <1>1. IInv => QueueConsistent
    BY DEF IInv
  <1> QED
    BY <1>1, RadioSafety, PTL

(* Unless the driver has reported a frame twice no buffer is in two places *)
(* and no free one in any; as long as no frame was dropped at a full queue *)
(* and no acknowledgement overwritten either, every buffer that was handed *)
(* out is in a place from which it will be handed back                     *)
(* (esp_openthread_radio.c:163-241, esp_ieee802154_dev.c:167-198).         *)
THEOREM NoBufferLost == Spec => []BuffersAccounted
  <1>1. IInv => BuffersAccounted
    BY DEF IInv
  <1> QED
    BY <1>1, RadioSafety, PTL
=============================================================================
