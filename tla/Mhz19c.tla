------------------------------- MODULE Mhz19c -------------------------------
(***************************************************************************)
(* The CO2 sensor driver of                                                *)
(* my_projects/thread_end_device/main/src/sensors.c:                       *)
(* mhz19c_get_co2_concentration sends a request over the UART, waits for   *)
(* one frame with a timeout, flushes the receive buffer and checks the     *)
(* frame's checksum.  Any task may call it (coap_process,                  *)
(* mhz19c_test_task).                                                      *)
(*                                                                         *)
(* The UART driver and the sensor are modelled from how this code uses     *)
(* them.  The receive interrupt hands bytes over when the line has been    *)
(* idle, so a frame reaches the ring buffer as one burst: whole, or only   *)
(* its end when a flush emptied the hardware FIFO half way.  The sensor    *)
(* answers its requests in order, at any later time, or not at all.        *)
(*                                                                         *)
(* A frame has five bytes here: start, command, high, low, checksum (the   *)
(* unused bytes 4..7 of the nine are left out), of Byte values each.       *)
(***************************************************************************)
EXTENDS Integers, Sequences

CONSTANTS Tasks,
          Ppm,          \* the concentrations the sensor may measure
          Byte,         \* 256: values of a uint8_t
          MaxOwed,      \* bound: requests the sensor has not answered yet
          LINE_LOSS,    \* TRUE: the line may drop the end of a frame
          STALE_STACK,  \* TRUE: a call may find the last frame on its stack
          NoTask

ASSUME ByteAssumption == Byte \in Nat /\ Byte > 2

ASSUME MaxOwedAssumption == MaxOwed \in Nat

ASSUME PpmAssumption == Ppm \subseteq 0..(Byte * Byte - 1)

VARIABLES ring,         \* bytes received and not yet read
          owed,         \* answers the sensor still has to send, in order
          arriving,     \* TRUE while a flush can cut the first of them
          rx_mux,       \* the task reading or flushing, or NoTask
          pc,           \* [Tasks -> Steps]
          response,     \* [Tasks -> Seq of bytes]: the buffer on the stack
          rxBytes,      \* [Tasks -> Int]: bytes read, -1 when rx_mux timed out
          result,       \* [Tasks -> Int]
          asked,        \* history: [Tasks -> Ppm \cup {-1}]: the value this request is to bring
          quiet,        \* history: no answer was outstanding at the last flush
          clean         \* history: [Tasks -> BOOLEAN]: this call began quiet and alone

vars == <<ring, owed, arriving, rx_mux, pc, response, rxBytes, result, asked,
          quiet, clean>>

FRAME == 5              \* MHZ19C_BUFFER_SIZE, 9 in the code

Steps == {"idle", "take", "read", "flush_take", "flush", "check", "return"}

(* mhz19c_calculate_checksum: the bytes after the first, in a uint8_t.     *)
mhz19c_calculate_checksum(p) ==
  ((Byte - 1 - ((p[2] + p[3] + p[4]) % Byte)) + 1) % Byte

(* (high_byte << 8) | low_byte                                             *)
Concentration(p) == Byte * p[3] + p[4]

(* The sensor's answer: start byte, command byte, value, checksum.         *)
FrameOf(v) ==
  LET hi == v \div Byte
      lo == v % Byte
  IN  <<Byte - 1, 1, hi, lo, (3 * Byte - (1 + hi + lo)) % Byte>>

Zeros == [i \in 1..FRAME |-> 0]

Init == /\ ring = <<>> /\ owed = <<>> /\ arriving = FALSE
        /\ rx_mux = NoTask
        /\ pc = [t \in Tasks |-> "idle"]
        /\ response = [t \in Tasks |-> Zeros]
        /\ rxBytes = [t \in Tasks |-> 0]
        /\ result = [t \in Tasks |-> -1]
        /\ asked = [t \in Tasks |-> -1]
        /\ quiet = TRUE /\ clean = [t \in Tasks |-> FALSE]

Step(t, from, to) == pc[t] = from /\ pc' = [pc EXCEPT ![t] = to]

(* uart_write_bytes: the request goes out whole and the sensor measures.   *)
Request(t) ==
  /\ Step(t, "idle", "take")
  /\ Len(owed) < MaxOwed
  /\ \E v \in Ppm : /\ owed' = Append(owed, v)
                    /\ asked' = [asked EXCEPT ![t] = v]
  /\ clean' = [u \in Tasks |-> u = t /\ quiet /\ \A v \in Tasks : pc[v] = "idle"]
  /\ UNCHANGED <<ring, arriving, rx_mux, response, rxBytes, result, quiet>>

(* uart_write_bytes fails: no driver installed on the port.                *)
RequestFails(t) ==
  /\ Step(t, "idle", "return")
  /\ result' = [result EXCEPT ![t] = -1]
  /\ UNCHANGED <<ring, owed, arriving, rx_mux, response, rxBytes, asked, quiet, clean>>

(* uart_read_bytes takes rx_mux ...                                        *)
ReadTake(t) ==
  /\ Step(t, "take", "read")
  /\ rx_mux = NoTask
  /\ rx_mux' = t
  /\ rxBytes' = [rxBytes EXCEPT ![t] = 0]
  /\ UNCHANGED <<ring, owed, arriving, response, result, asked, quiet, clean>>

(* ... or gives up after 200 ms.                                           *)
ReadTakeTimeout(t) ==
  /\ Step(t, "take", "flush_take")
  /\ rx_mux # NoTask
  /\ rxBytes' = [rxBytes EXCEPT ![t] = -1]
  /\ UNCHANGED <<ring, owed, arriving, rx_mux, response, result, asked, quiet, clean>>

(* Slip: the copy is not limited to what is still wanted.                  *)
ReadUncapped(t) ==
  /\ pc[t] = "read" /\ ring # <<>> /\ rxBytes[t] < FRAME
  /\ response' = [response EXCEPT ![t] =
       [i \in 1..FRAME |-> IF i \in rxBytes[t]+1..rxBytes[t]+Len(ring)
                           THEN ring[i - rxBytes[t]] ELSE @[i]]]
  /\ rxBytes' = [rxBytes EXCEPT ![t] = @ + Len(ring)]
  /\ ring' = <<>>
  /\ UNCHANGED <<owed, arriving, rx_mux, pc, result, asked, quiet, clean>>

(* One pass of its loop: as many bytes as are there and still wanted.      *)
ReadChunk(t) ==
  /\ pc[t] = "read" /\ ring # <<>> /\ rxBytes[t] < FRAME
  /\ LET want == FRAME - rxBytes[t]
         k == IF Len(ring) < want THEN Len(ring) ELSE want
     IN  /\ response' = [response EXCEPT ![t] =
              [i \in 1..FRAME |-> IF i \in rxBytes[t]+1..rxBytes[t]+k
                                  THEN ring[i - rxBytes[t]] ELSE @[i]]]
         /\ rxBytes' = [rxBytes EXCEPT ![t] = @ + k]
         /\ ring' = SubSeq(ring, k + 1, Len(ring))
  /\ UNCHANGED <<owed, arriving, rx_mux, pc, result, asked, quiet, clean>>

(* The frame is complete, or 200 ms have passed without a byte.            *)
ReadEnd(t) ==
  /\ Step(t, "read", "flush_take")
  /\ rxBytes[t] = FRAME \/ ring = <<>>
  /\ rx_mux' = NoTask
  /\ UNCHANGED <<ring, owed, arriving, response, rxBytes, result, asked, quiet, clean>>

FlushTake(t) ==
  /\ Step(t, "flush_take", "flush")
  /\ rx_mux = NoTask
  /\ rx_mux' = t
  /\ UNCHANGED <<ring, owed, arriving, response, rxBytes, result, asked, quiet, clean>>

(* Slip: no uart_flush.                                                    *)
NoFlush(t) ==
  /\ Step(t, "flush", "check")
  /\ rx_mux' = NoTask
  /\ quiet' = (owed = <<>>)
  /\ UNCHANGED <<ring, owed, arriving, response, rxBytes, result, asked, clean>>

(* uart_flush: the ring buffer and the hardware FIFO are emptied; of a     *)
(* frame that is just arriving only the rest will follow.                  *)
Flush(t) ==
  /\ Step(t, "flush", "check")
  /\ rx_mux' = NoTask
  /\ ring' = <<>>
  /\ arriving' \in (IF owed = <<>> THEN {arriving} ELSE {arriving, TRUE})
  /\ quiet' = (owed = <<>>)
  /\ UNCHANGED <<owed, response, rxBytes, result, asked, clean>>

(* The two error returns, and the value of a frame that adds up.           *)
Check(t) ==
  /\ Step(t, "check", "return")
  /\ result' = [result EXCEPT ![t] =
       IF rxBytes[t] <= 0 THEN -1
       ELSE IF mhz19c_calculate_checksum(response[t]) = response[t][FRAME]
            THEN Concentration(response[t]) ELSE -1]
  /\ UNCHANGED <<ring, owed, arriving, rx_mux, response, rxBytes, asked, quiet, clean>>

(* The caller goes on; the next call finds on its stack what this one left *)
(* there, or what other functions have put in its place.                   *)
Return(t) ==
  /\ Step(t, "return", "idle")
  /\ \/ response' = [response EXCEPT ![t] = Zeros]
     \/ STALE_STACK /\ response' = response
  /\ rxBytes' = [rxBytes EXCEPT ![t] = 0]
  /\ result' = [result EXCEPT ![t] = -1]
  /\ asked' = [asked EXCEPT ![t] = -1]
  /\ UNCHANGED <<ring, owed, arriving, rx_mux, quiet, clean>>

Driver(t) == \/ Request(t) \/ RequestFails(t) \/ ReadTake(t) \/ ReadTakeTimeout(t)
             \/ ReadChunk(t) \/ ReadEnd(t) \/ FlushTake(t) \/ Flush(t) \/ Check(t)
             \/ Return(t)

(* The sensor's next answer reaches the ring buffer, cut at the front by a *)
(* flush, or at the end by the line.                                       *)
Answer ==
  /\ owed # <<>>
  /\ \E from \in 1..FRAME, to \in 1..FRAME :
       /\ from > 1 => arriving
       /\ to < FRAME => LINE_LOSS
       /\ ring' = ring \o SubSeq(FrameOf(Head(owed)), from, to)
  /\ owed' = Tail(owed)
  /\ arriving' = FALSE
  /\ UNCHANGED <<rx_mux, pc, response, rxBytes, result, asked, quiet, clean>>

(* The sensor does not answer a request.                                   *)
NoAnswer ==
  /\ owed # <<>>
  /\ owed' = Tail(owed)
  /\ arriving' = FALSE
  /\ UNCHANGED <<ring, rx_mux, pc, response, rxBytes, result, asked, quiet, clean>>

Next == (\E t \in Tasks : Driver(t)) \/ Answer \/ NoAnswer

Spec == Init /\ [][Next]_vars

----------------------------------------------------------------------------
(* PROPERTIES *)

(* Every variable keeps its type: the ring buffer and the frame on the     *)
(* stack hold bytes, a call returns -1 or a 16-bit value.                  *)
TypeOK == /\ ring \in Seq(0..Byte-1) /\ owed \in Seq(Ppm) /\ Len(owed) <= MaxOwed
          /\ arriving \in BOOLEAN /\ quiet \in BOOLEAN /\ clean \in [Tasks -> BOOLEAN]
          /\ rx_mux \in Tasks \cup {NoTask}
          /\ pc \in [Tasks -> Steps]
          /\ response \in [Tasks -> [1..FRAME -> 0..Byte-1]]
          /\ rxBytes \in [Tasks -> -1..FRAME]
          /\ result \in [Tasks -> -1..(Byte * Byte - 1)]
          /\ asked \in [Tasks -> Ppm \cup {-1}]

(* A late answer, or another caller, spoils at most the calls it overlaps: *)
(* a call that begins when nobody else is in one and nothing was           *)
(* outstanding at the last flush, and that stays alone, gets the value of  *)
(* its own request or -1, whatever was received, cut or misread before.    *)
ResyncsAfterLateAnswer ==
  \A t \in Tasks : pc[t] = "return" /\ clean[t] => result[t] \in {-1, asked[t]}

(* sensors.h "returns -1 if error": a read that timed out before the frame *)
(* was complete is an error.                                               *)
ShortReadIsError ==
  \A t \in Tasks : pc[t] = "return" /\ rxBytes[t] \in 1..FRAME-1 => result[t] = -1

(* The inductive invariant.  Once nobody is before or in a flush and the   *)
(* last one found nothing outstanding, the line is silent.  A clean call   *)
(* stays alone until it returns, and in the ring buffer there is nothing   *)
(* but its own answer, whole or not at all; it is this that a line which   *)
(* drops bytes would break.                                                *)

Silent == quiet /\ (\A t \in Tasks : pc[t] \notin {"take", "read", "flush_take", "flush"})
            => ring = <<>> /\ owed = <<>>

Pending(t) == /\ \/ ring = <<>> /\ owed \in {<<>>, <<asked[t]>>}
                 \/ ring = FrameOf(asked[t]) /\ owed = <<>>
              /\ ~arriving

CleanCall(t) ==
  /\ pc[t] \notin {"idle", "return"} =>
       asked[t] \in Ppm /\ \A u \in Tasks \ {t} : pc[u] \in {"idle", "return"}
  /\ pc[t] = "take" => Pending(t)
  /\ pc[t] = "read" =>
       \/ rxBytes[t] = 0 /\ Pending(t)
       \/ rxBytes[t] = FRAME /\ response[t] = FrameOf(asked[t]) /\ ring = <<>> /\ owed = <<>>
  /\ pc[t] \in {"flush_take", "flush", "check"} =>
       rxBytes[t] <= 0 \/ response[t] = FrameOf(asked[t])
  /\ pc[t] = "return" => result[t] \in {-1, asked[t]}

IInv == /\ TypeOK
        /\ arriving => owed # <<>>
        /\ Silent
        /\ \A t \in Tasks : clean[t] => CleanCall(t)
=============================================================================
