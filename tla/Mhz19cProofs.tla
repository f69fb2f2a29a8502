---------------------------- MODULE Mhz19cProofs ----------------------------
(***************************************************************************)
(* The CO2 sensor driver, for any callers, any measured values and any     *)
(* number of unanswered requests.                                          *)
(***************************************************************************)
EXTENDS Mhz19c, SequenceTheorems, TLAPS

----------------------------------------------------------------------------
(* Bytes and frames *)

(* A 16-bit value is its high byte and its low byte.                       *)
LEMMA HighAndLow ==
  ASSUME NEW v \in 0..(Byte * Byte - 1)
  PROVE  /\ v \div Byte \in 0..(Byte - 1) /\ v % Byte \in 0..(Byte - 1)
         /\ Byte * (v \div Byte) + (v % Byte) = v
  <1>1. Byte \in Nat /\ Byte > 2 /\ v \in Int /\ 0 <= v /\ v < Byte * Byte
    BY ByteAssumption
  <1>2. /\ v \div Byte \in Int /\ v % Byte \in 0..(Byte - 1)
        /\ v = Byte * (v \div Byte) + (v % Byte)
    BY <1>1
  <1> DEFINE q == v \div Byte
             r == v % Byte
  <1>3. q \in Int /\ r \in Int /\ 0 <= r /\ r < Byte /\ Byte * q + r = v
    BY <1>1, <1>2
  <1> HIDE DEF q, r
  <1>4. q < Byte
    <2>1. ASSUME q >= Byte PROVE FALSE
      <3>1. Byte * q >= Byte * Byte
        BY <1>1, <1>3, <2>1
      <3> QED
        BY <1>1, <1>3, <3>1
    <2> QED
      BY <1>1, <1>3, <2>1
  <1>5. 0 <= q
    <2>1. ASSUME q <= -1 PROVE FALSE
      <3>1. Byte * q <= -Byte
        BY <1>1, <1>3, <2>1
      <3> QED
        BY <1>1, <1>3, <3>1
    <2> QED
      BY <1>3, <2>1
  <1> QED
    BY <1>1, <1>3, <1>4, <1>5 DEF q, r

(* High byte and low byte make a 16-bit value.                             *)
LEMMA WordOfBytes ==
  ASSUME NEW hi \in 0..(Byte - 1), NEW lo \in 0..(Byte - 1)
  PROVE  Byte * hi + lo \in 0..(Byte * Byte - 1)
  <1>1. Byte \in Nat /\ Byte > 2
    BY ByteAssumption
  <1>2. Byte * hi \in Int /\ 0 <= Byte * hi /\ Byte * hi <= Byte * (Byte - 1)
    BY <1>1
  <1>3. Byte * (Byte - 1) = Byte * Byte - Byte
    BY <1>1
  <1> QED
    BY <1>1, <1>2, <1>3

(* A remainder is a byte.                                                  *)
LEMMA Remainder ==
  ASSUME NEW n \in Int PROVE n % Byte \in 0..(Byte - 1)
  BY ByteAssumption

(* The sensor's answer is a frame of bytes that carries the value it was   *)
(* asked for.                                                              *)
LEMMA FrameBytes ==
  ASSUME NEW v \in Ppm
  PROVE  /\ FrameOf(v) \in Seq(0..(Byte - 1)) /\ Len(FrameOf(v)) = FRAME
         /\ FrameOf(v) \in [1..FRAME -> 0..(Byte - 1)]
         /\ Concentration(FrameOf(v)) = v
  <1> DEFINE hi == v \div Byte
             lo == v % Byte
             sum == (3 * Byte - (1 + hi + lo)) % Byte
  <1>1. hi \in 0..(Byte - 1) /\ lo \in 0..(Byte - 1) /\ Byte * hi + lo = v
    <2>1. v \in 0..(Byte * Byte - 1)
      BY PpmAssumption
    <2> HIDE DEF sum
    <2> QED
      BY <2>1, HighAndLow
  <1>2. FrameOf(v) = <<Byte - 1, 1, hi, lo, sum>>
    BY DEF FrameOf
  <1> HIDE DEF hi, lo
  <1>3. 3 * Byte - (1 + hi + lo) \in Int
    BY <1>1, ByteAssumption
  <1>4. sum \in 0..(Byte - 1)
    BY <1>3, Remainder
  <1> HIDE DEF sum
  <1>5. Byte - 1 \in 0..(Byte - 1) /\ 1 \in 0..(Byte - 1)
    BY ByteAssumption
  <1>6. FrameOf(v) \in Seq(0..(Byte - 1)) /\ Len(FrameOf(v)) = 5
    BY <1>1, <1>2, <1>4, <1>5
  <1>7. FrameOf(v) \in [1..5 -> 0..(Byte - 1)]
    <2>1. FrameOf(v) \in [1..Len(FrameOf(v)) -> 0..(Byte - 1)]
      BY <1>6, ElementOfSeq, LenProperties
    <2> QED
      BY <1>6, <2>1
  <1>8. FrameOf(v)[3] = hi /\ FrameOf(v)[4] = lo
    BY <1>2
  <1> QED
    BY <1>1, <1>6, <1>7, <1>8 DEF FRAME, Concentration

(* A remainder of what is less than three times the divisor.               *)
LEMMA SmallRemainder ==
  ASSUME NEW n \in Int, 0 <= n, n < 3 * Byte
  PROVE  n % Byte = IF n < Byte THEN n ELSE IF n < 2 * Byte THEN n - Byte ELSE n - 2 * Byte
  <1>1. Byte \in Nat /\ Byte > 2
    BY ByteAssumption
  <1>2. n % Byte \in 0..(Byte - 1) /\ n = Byte * (n \div Byte) + (n % Byte)
        /\ n \div Byte \in Int
    BY <1>1
  <1> DEFINE q == n \div Byte
             r == n % Byte
  <1>3. q \in Int /\ r \in 0..(Byte - 1) /\ n = Byte * q + r
    BY <1>2
  <1> HIDE DEF q, r
  <1>4. q \in 0..2
    <2>1. ASSUME q <= -1 PROVE FALSE
      <3>1. Byte * q <= -Byte
        BY <1>1, <1>3, <2>1
      <3> QED
        BY <1>1, <1>3, <3>1
    <2>2. ASSUME q >= 3 PROVE FALSE
      <3>1. Byte * q >= 3 * Byte
        BY <1>1, <1>3, <2>2
      <3> QED
        BY <1>1, <1>3, <3>1
    <2> QED
      BY <1>3, <2>1, <2>2
  <1>5. q = 0 \/ q = 1 \/ q = 2
    BY <1>4
  <1>6. /\ q = 0 => Byte * q = 0
        /\ q = 1 => Byte * q = Byte
        /\ q = 2 => Byte * q = 2 * Byte
    BY <1>1
  <1> QED
    BY <1>1, <1>3, <1>5, <1>6 DEF r

(* sensors.c, mhz19c_calculate_checksum: every answer of the sensor that   *)
(* arrives whole passes the driver's check, whatever its value; negating   *)
(* the sum with a complement and an increment of a uint8_t is the          *)
(* subtraction the sensor makes, the sum that is 0 modulo 256 included.    *)
THEOREM WholeFramePasses ==
  ASSUME NEW v \in Ppm
  PROVE  mhz19c_calculate_checksum(FrameOf(v)) = FrameOf(v)[FRAME]
  <1> DEFINE hi == v \div Byte
             lo == v % Byte
             s == 1 + hi + lo
  <1>1. hi \in 0..(Byte - 1) /\ lo \in 0..(Byte - 1)
    BY PpmAssumption, HighAndLow
  <1>2. /\ FrameOf(v)[2] = 1 /\ FrameOf(v)[3] = hi /\ FrameOf(v)[4] = lo
        /\ FrameOf(v)[FRAME] = (3 * Byte - s) % Byte
    BY DEF FrameOf, FRAME
  <1>3. mhz19c_calculate_checksum(FrameOf(v)) = ((Byte - 1 - (s % Byte)) + 1) % Byte
    BY <1>2 DEF mhz19c_calculate_checksum
  <1> HIDE DEF hi, lo
  <1>4. Byte \in Nat /\ Byte > 2 /\ s \in Int /\ 0 < s /\ s < 2 * Byte
    BY <1>1, ByteAssumption
  <1> HIDE DEF s
  <1>5. s % Byte = IF s < Byte THEN s ELSE s - Byte
    BY <1>4, SmallRemainder
  <1>6. 3 * Byte - s \in Int /\ 0 <= 3 * Byte - s /\ 3 * Byte - s < 3 * Byte
    BY <1>4
  <1>7. (3 * Byte - s) % Byte = IF s > Byte THEN 2 * Byte - s
                                ELSE IF s = Byte THEN 0 ELSE Byte - s
    BY <1>4, <1>6, SmallRemainder
  <1> DEFINE c == (Byte - 1 - (s % Byte)) + 1
  <1>8. c \in Int /\ c = IF s < Byte THEN Byte - s ELSE 2 * Byte - s
    BY <1>4, <1>5
  <1> HIDE DEF c
  <1>9. c % Byte = IF s > Byte THEN 2 * Byte - s ELSE IF s = Byte THEN 0 ELSE Byte - s
    <2>1. 0 <= c /\ c < 3 * Byte
      BY <1>4, <1>8
    <2>2. c % Byte = IF c < Byte THEN c ELSE IF c < 2 * Byte THEN c - Byte ELSE c - 2 * Byte
      BY <1>8, <2>1, SmallRemainder
    <2> QED
      BY <1>4, <1>8, <2>2
  <1> QED
    BY <1>2, <1>3, <1>7, <1>9 DEF c

----------------------------------------------------------------------------
(* Types *)

FlagsTypeOK == arriving \in BOOLEAN /\ quiet \in BOOLEAN /\ clean \in [Tasks -> BOOLEAN]

LineTypeOK == ring \in Seq(0..Byte-1) /\ owed \in Seq(Ppm) /\ Len(owed) <= MaxOwed

CallsTypeOK == /\ rx_mux \in Tasks \cup {NoTask}
               /\ pc \in [Tasks -> Steps]
               /\ response \in [Tasks -> [1..FRAME -> 0..Byte-1]]
               /\ rxBytes \in [Tasks -> -1..FRAME]
               /\ result \in [Tasks -> -1..(Byte * Byte - 1)]
               /\ asked \in [Tasks -> Ppm \cup {-1}]

LEMMA TypeParts ==
  /\ TypeOK => FlagsTypeOK /\ LineTypeOK /\ CallsTypeOK
  /\ FlagsTypeOK /\ LineTypeOK /\ CallsTypeOK => TypeOK
  BY DEF TypeOK, FlagsTypeOK, LineTypeOK, CallsTypeOK

LEMMA ZerosType == Zeros \in [1..FRAME -> 0..(Byte - 1)]
  BY ByteAssumption DEF Zeros

LEMMA NextFlags == ASSUME FlagsTypeOK, [Next]_vars PROVE FlagsTypeOK'
  <1>1. CASE UNCHANGED vars
    BY <1>1 DEF vars, FlagsTypeOK
  <1>2. ASSUME NEW t \in Tasks, Request(t) PROVE FlagsTypeOK'
    <2>1. UNCHANGED <<arriving, quiet>>
      BY <1>2 DEF Request
    <2>2. clean' \in [Tasks -> BOOLEAN]
      BY <1>2 DEF Request
    <2> QED
      BY <2>1, <2>2 DEF FlagsTypeOK
  <1>3. ASSUME NEW t \in Tasks, Flush(t) PROVE FlagsTypeOK'
    <2>1. UNCHANGED clean /\ (arriving' = arriving \/ arriving' = TRUE)
      BY <1>3 DEF Flush
    <2>2. quiet' \in BOOLEAN
      BY <1>3 DEF Flush
    <2> QED
      BY <2>1, <2>2 DEF FlagsTypeOK
  <1>4. CASE Answer \/ NoAnswer
    BY <1>4 DEF Answer, NoAnswer, FlagsTypeOK
  <1>5. ASSUME NEW t \in Tasks,
               \/ RequestFails(t) \/ ReadTake(t) \/ ReadTakeTimeout(t) \/ ReadChunk(t)
               \/ ReadEnd(t) \/ FlushTake(t) \/ Check(t) \/ Return(t)
        PROVE  FlagsTypeOK'
    <2>1. UNCHANGED <<arriving, quiet, clean>>
      BY <1>5 DEF RequestFails, ReadTake, ReadTakeTimeout, ReadChunk, ReadEnd, FlushTake,
                  Check, Return
    <2> QED
      BY <2>1 DEF FlagsTypeOK
  <1> QED
    BY <1>1, <1>2, <1>3, <1>4, <1>5 DEF Next, Driver

(* Counting positions from a instead of from 0.                            *)
LEMMA OffsetInside ==
  ASSUME NEW i \in 1..5, NEW a \in Int, NEW k \in Int, NEW n \in Int, k <= n, i \in a+1..a+k
  PROVE  i - a \in 1..n
  OBVIOUS

(* A pass of the read loop: k bytes move from the ring buffer to the frame *)
(* on the stack.                                                           *)
LEMMA ChunkMoves ==
  ASSUME NEW t \in Tasks, ReadChunk(t), LineTypeOK, CallsTypeOK
  PROVE  \E k \in 0..Len(ring) :
           /\ k = IF Len(ring) < FRAME - rxBytes[t] THEN Len(ring) ELSE FRAME - rxBytes[t]
           /\ response'[t] = [i \in 1..FRAME |-> IF i \in rxBytes[t]+1..rxBytes[t]+k
                                                THEN ring[i - rxBytes[t]] ELSE response[t][i]]
           /\ response'[t] \in [1..FRAME -> 0..(Byte - 1)]
           /\ \A u \in Tasks \ {t} : response'[u] = response[u] /\ rxBytes'[u] = rxBytes[u]
           /\ rxBytes'[t] = rxBytes[t] + k /\ rxBytes'[t] \in -1..FRAME
           /\ ring' = SubSeq(ring, k + 1, Len(ring)) /\ ring' \in Seq(0..(Byte - 1))
           /\ response' \in [Tasks -> [1..FRAME -> 0..(Byte - 1)]]
           /\ rxBytes' \in [Tasks -> -1..FRAME]
  <1> DEFINE k == IF Len(ring) < FRAME - rxBytes[t] THEN Len(ring) ELSE FRAME - rxBytes[t]
             f == [i \in 1..FRAME |-> IF i \in rxBytes[t]+1..rxBytes[t]+k
                                     THEN ring[i - rxBytes[t]] ELSE response[t][i]]
  <1>1. /\ ring \in Seq(0..(Byte - 1)) /\ Len(ring) \in Nat /\ rxBytes[t] \in -1..5
        /\ rxBytes[t] < 5 /\ FRAME = 5
        /\ response[t] \in [1..FRAME -> 0..(Byte - 1)]
    <2>1. rxBytes[t] < FRAME
      BY DEF ReadChunk
    <2>2. ring \in Seq(0..(Byte - 1)) /\ Len(ring) \in Nat
      BY DEF LineTypeOK
    <2>3. rxBytes[t] \in -1..FRAME /\ response[t] \in [1..FRAME -> 0..(Byte - 1)]
      BY DEF CallsTypeOK
    <2> QED
      BY <2>1, <2>2, <2>3 DEF FRAME
  <1>2. k \in 0..Len(ring) /\ rxBytes[t] + k \in -1..FRAME
    BY <1>1
  <1>3. /\ response' = [response EXCEPT ![t] = f]
        /\ rxBytes' = [rxBytes EXCEPT ![t] = rxBytes[t] + k]
        /\ ring' = SubSeq(ring, k + 1, Len(ring))
    BY DEF ReadChunk, CallsTypeOK
  <1> HIDE DEF k
  <1>4. f \in [1..FRAME -> 0..(Byte - 1)]
    <2>1. ASSUME NEW i \in 1..FRAME PROVE f[i] \in 0..(Byte - 1)
      <3>1. CASE i \in rxBytes[t]+1..rxBytes[t]+k
        <4>1. i - rxBytes[t] \in 1..Len(ring)
          <5>1. Len(ring) \in Int /\ rxBytes[t] \in Int /\ k \in Int /\ k <= Len(ring)
            BY <1>1, <1>2
          <5> QED
            BY <3>1, <5>1, OffsetInside DEF FRAME
        <4>2. ring[i - rxBytes[t]] \in 0..(Byte - 1)
          BY <1>1, <4>1, ElementOfSeq
        <4> QED
          BY <3>1, <4>2
      <3>2. CASE i \notin rxBytes[t]+1..rxBytes[t]+k
        <4>1. f[i] = response[t][i]
          BY <3>2
        <4> QED
          BY <1>1, <4>1
      <3> QED
        BY <3>1, <3>2
    <2> QED
      BY <2>1
  <1>5. SubSeq(ring, k + 1, Len(ring)) \in Seq(0..(Byte - 1))
    <2>1. \A i \in (k + 1)..Len(ring) : i \in 1..Len(ring)
      BY <1>1, <1>2
    <2>2. \A i \in (k + 1)..Len(ring) : ring[i] \in 0..(Byte - 1)
      BY <1>1, <2>1, ElementOfSeq
    <2>3. k + 1 \in Int /\ Len(ring) \in Int
      BY <1>1, <1>2
    <2> QED
      BY <2>2, <2>3, SubSeqProperties
  <1> HIDE DEF f
  <1>6. /\ response'[t] = f /\ rxBytes'[t] = rxBytes[t] + k
        /\ \A u \in Tasks \ {t} : response'[u] = response[u] /\ rxBytes'[u] = rxBytes[u]
        /\ response' \in [Tasks -> [1..FRAME -> 0..(Byte - 1)]]
        /\ rxBytes' \in [Tasks -> -1..FRAME]
    BY <1>2, <1>3, <1>4 DEF CallsTypeOK
  <1> QED
    BY <1>2, <1>3, <1>4, <1>5, <1>6 DEF f, k

(* What arrives is bytes.                                                  *)
LEMMA AnswerBytes ==
  ASSUME NEW v \in Ppm, NEW from \in 1..FRAME, NEW to \in 1..FRAME
  PROVE  SubSeq(FrameOf(v), from, to) \in Seq(0..(Byte - 1))
  <1>1. FrameOf(v) \in [1..FRAME -> 0..(Byte - 1)]
    BY FrameBytes
  <1>2. \A i \in from..to : i \in 1..FRAME
    BY DEF FRAME
  <1>3. \A i \in from..to : FrameOf(v)[i] \in 0..(Byte - 1)
    BY <1>1, <1>2
  <1>4. from \in Int /\ to \in Int
    BY DEF FRAME
  <1> QED
    BY <1>3, <1>4, SubSeqProperties

LEMMA NextLine == ASSUME LineTypeOK, CallsTypeOK, [Next]_vars PROVE LineTypeOK'
  <1>1. CASE UNCHANGED <<ring, owed>>
    BY <1>1 DEF LineTypeOK
  <1>2. ASSUME NEW t \in Tasks, Request(t) PROVE LineTypeOK'
    <2>1. PICK v \in Ppm : owed' = Append(owed, v) /\ Len(owed) < MaxOwed /\ ring' = ring
      BY <1>2 DEF Request
    <2>2. owed' \in Seq(Ppm) /\ Len(owed') = Len(owed) + 1 /\ Len(owed) \in Nat
      BY <2>1 DEF LineTypeOK
    <2> QED
      BY <2>1, <2>2, MaxOwedAssumption DEF LineTypeOK
  <1>3. ASSUME NEW t \in Tasks, ReadChunk(t) PROVE LineTypeOK'
    <2>1. owed' = owed
      BY <1>3 DEF ReadChunk
    <2>2. ring' \in Seq(0..(Byte - 1))
      BY <1>3, ChunkMoves
    <2> QED
      BY <2>1, <2>2 DEF LineTypeOK
  <1>4. ASSUME NEW t \in Tasks, Flush(t) PROVE LineTypeOK'
    <2>1. ring' = <<>> /\ owed' = owed
      BY <1>4 DEF Flush
    <2> QED
      BY <2>1 DEF LineTypeOK
  <1>5. CASE Answer \/ NoAnswer
    <2>1. owed # <<>> /\ owed' = Tail(owed) /\ owed \in Seq(Ppm) /\ Len(owed) <= MaxOwed
      BY <1>5 DEF Answer, NoAnswer, LineTypeOK
    <2>2. /\ Head(owed) \in Ppm /\ Tail(owed) \in Seq(Ppm) /\ Len(Tail(owed)) = Len(owed) - 1
          /\ Len(owed) \in Nat
      BY <2>1
    <2>3. Len(owed') <= MaxOwed
      BY <2>1, <2>2, MaxOwedAssumption
    <2>4. ring' \in Seq(0..(Byte - 1))
      <3>1. CASE Answer
        <4>1. PICK from \in 1..FRAME, to \in 1..FRAME :
                 ring' = ring \o SubSeq(FrameOf(Head(owed)), from, to)
          BY <3>1 DEF Answer
        <4>2. SubSeq(FrameOf(Head(owed)), from, to) \in Seq(0..(Byte - 1))
          BY <2>2, AnswerBytes
        <4>3. ring \in Seq(0..(Byte - 1))
          BY DEF LineTypeOK
        <4> QED
          BY <4>1, <4>2, <4>3, ConcatProperties
      <3>2. CASE NoAnswer
        BY <3>2 DEF NoAnswer, LineTypeOK
      <3> QED
        BY <1>5, <3>1, <3>2
    <2> QED
      BY <2>1, <2>2, <2>3, <2>4 DEF LineTypeOK
  <1>6. ASSUME NEW t \in Tasks,
               \/ RequestFails(t) \/ ReadTake(t) \/ ReadTakeTimeout(t)
               \/ ReadEnd(t) \/ FlushTake(t) \/ Check(t) \/ Return(t)
        PROVE  UNCHANGED <<ring, owed>>
    BY <1>6 DEF RequestFails, ReadTake, ReadTakeTimeout, ReadEnd, FlushTake, Check, Return
  <1>7. CASE UNCHANGED vars
    BY <1>1, <1>7 DEF vars
  <1> QED
    BY <1>1, <1>2, <1>3, <1>4, <1>5, <1>6, <1>7 DEF Next, Driver

LEMMA NextCalls == ASSUME LineTypeOK, CallsTypeOK, [Next]_vars PROVE CallsTypeOK'
  <1>1. CASE UNCHANGED <<rx_mux, pc, response, rxBytes, result, asked>>
    BY <1>1 DEF CallsTypeOK
  <1>2. CASE UNCHANGED vars \/ Answer \/ NoAnswer
    BY <1>1, <1>2 DEF vars, Answer, NoAnswer
  <1>3. ASSUME NEW t \in Tasks, Request(t) \/ RequestFails(t) PROVE CallsTypeOK'
    <2>1. -1 \in -1..(Byte * Byte - 1)
      BY ByteAssumption
    <2> QED
      BY <1>3, <2>1 DEF Request, RequestFails, Step, Steps, CallsTypeOK
  <1>4. ASSUME NEW t \in Tasks, ReadTake(t) \/ ReadTakeTimeout(t) PROVE CallsTypeOK'
    BY <1>4 DEF ReadTake, ReadTakeTimeout, Step, Steps, CallsTypeOK, FRAME
  <1>5. ASSUME NEW t \in Tasks, ReadChunk(t) PROVE CallsTypeOK'
    <2>1. /\ response' \in [Tasks -> [1..FRAME -> 0..(Byte - 1)]]
          /\ rxBytes' \in [Tasks -> -1..FRAME]
      BY <1>5, ChunkMoves
    <2>2. UNCHANGED <<rx_mux, pc, result, asked>>
      BY <1>5 DEF ReadChunk
    <2> QED
      BY <2>1, <2>2 DEF CallsTypeOK
  <1>6. ASSUME NEW t \in Tasks, ReadEnd(t) \/ FlushTake(t) \/ Flush(t) PROVE CallsTypeOK'
    <2>1. /\ UNCHANGED <<response, rxBytes, result, asked>>
          /\ rx_mux' \in Tasks \cup {NoTask}
      BY <1>6 DEF ReadEnd, FlushTake, Flush
    <2>2. pc' \in [Tasks -> Steps]
      BY <1>6 DEF ReadEnd, FlushTake, Flush, Step, Steps, CallsTypeOK
    <2> QED
      BY <2>1, <2>2 DEF CallsTypeOK
  <1>7. ASSUME NEW t \in Tasks, Check(t) PROVE CallsTypeOK'
    <2>1. response[t] \in [1..5 -> 0..(Byte - 1)]
      BY DEF CallsTypeOK, FRAME
    <2>2. response[t][3] \in 0..(Byte - 1) /\ response[t][4] \in 0..(Byte - 1)
      BY <2>1
    <2>3. Concentration(response[t]) \in 0..(Byte * Byte - 1)
      BY <2>2, WordOfBytes DEF Concentration
    <2> DEFINE r == IF rxBytes[t] <= 0 THEN -1
                    ELSE IF mhz19c_calculate_checksum(response[t]) = response[t][FRAME]
                         THEN Concentration(response[t]) ELSE -1
    <2>4. Byte * Byte \in Int /\ Byte * Byte > 0
      BY ByteAssumption
    <2>5. r \in -1..(Byte * Byte - 1)
      <3>1. r = -1 \/ r = Concentration(response[t])
        OBVIOUS
      <3> HIDE DEF r
      <3> QED
        BY <2>3, <2>4, <3>1
    <2>6. /\ result' = [result EXCEPT ![t] = r] /\ pc' = [pc EXCEPT ![t] = "return"]
          /\ UNCHANGED <<rx_mux, response, rxBytes, asked>>
      BY <1>7 DEF Check, Step
    <2> HIDE DEF r
    <2> QED
      BY <2>5, <2>6 DEF CallsTypeOK, Steps
  <1>8. ASSUME NEW t \in Tasks, Return(t) PROVE CallsTypeOK'
    <2>1. -1 \in -1..(Byte * Byte - 1)
      BY ByteAssumption
    <2>2. response' \in [Tasks -> [1..FRAME -> 0..(Byte - 1)]]
      BY <1>8, ZerosType DEF Return, CallsTypeOK
    <2>3. /\ UNCHANGED rx_mux /\ pc' = [pc EXCEPT ![t] = "idle"]
          /\ rxBytes' = [rxBytes EXCEPT ![t] = 0] /\ result' = [result EXCEPT ![t] = -1]
          /\ asked' = [asked EXCEPT ![t] = -1]
      BY <1>8 DEF Return, Step
    <2> QED
      BY <2>1, <2>2, <2>3 DEF Steps, CallsTypeOK, FRAME
  <1> QED
    BY <1>2, <1>3, <1>4, <1>5, <1>6, <1>7, <1>8 DEF Next, Driver

(* The three parts of the type invariant are kept together.                *)
LEMMA NextTypeOK == TypeOK /\ [Next]_vars => TypeOK'
  <1> SUFFICES ASSUME TypeOK, [Next]_vars PROVE TypeOK'
    OBVIOUS
  <1>1. FlagsTypeOK' /\ LineTypeOK' /\ CallsTypeOK'
    BY TypeParts, NextFlags, NextLine, NextCalls
  <1>2. FlagsTypeOK' /\ LineTypeOK' /\ CallsTypeOK' => TypeOK'
    BY TypeParts, PTL
  <1> QED
    BY <1>1, <1>2

LEMMA InitTypeOK == Init => TypeOK
  <1> SUFFICES ASSUME Init PROVE TypeOK
    OBVIOUS
  <1>1. FlagsTypeOK
    BY DEF Init, FlagsTypeOK
  <1>2. LineTypeOK
    BY MaxOwedAssumption DEF Init, LineTypeOK
  <1>3. CallsTypeOK
    <2>1. -1 \in -1..(Byte * Byte - 1)
      BY ByteAssumption
    <2>2. Zeros \in [1..FRAME -> 0..(Byte - 1)] /\ 0 \in -1..FRAME
      BY ZerosType DEF FRAME
    <2> HIDE DEF Zeros
    <2> QED
      BY <2>1, <2>2 DEF Init, CallsTypeOK, Steps
  <1> QED
    BY <1>1, <1>2, <1>3, TypeParts

(* sensors.c: the ring buffer and the frame on the stack hold bytes, the   *)
(* read loop never writes past the frame, and a call returns -1 or a       *)
(* 16-bit value, with and without losses on the line.                      *)
THEOREM TypeCorrect == Spec => []TypeOK
  BY InitTypeOK, NextTypeOK, PTL DEF Spec

----------------------------------------------------------------------------
(* A clean call *)

(* A step of one task leaves the others where they are.                    *)
LEMMA OthersStay ==
  ASSUME NEW t \in Tasks, NEW u \in Tasks, t # u, Driver(u), TypeOK
  PROVE  /\ pc'[t] = pc[t] /\ response'[t] = response[t] /\ rxBytes'[t] = rxBytes[t]
         /\ result'[t] = result[t] /\ asked'[t] = asked[t]
  <1> USE DEF TypeOK, Step
  <1>1. CASE Request(u) \/ RequestFails(u)
    BY <1>1 DEF Request, RequestFails
  <1>2. CASE ReadTake(u) \/ ReadTakeTimeout(u)
    BY <1>2 DEF ReadTake, ReadTakeTimeout
  <1>3. CASE ReadChunk(u)
    BY <1>3 DEF ReadChunk
  <1>4. CASE ReadEnd(u) \/ FlushTake(u) \/ Flush(u)
    BY <1>4 DEF ReadEnd, FlushTake, Flush
  <1>5. CASE Check(u)
    BY <1>5 DEF Check
  <1>6. CASE Return(u)
    BY <1>6 DEF Return
  <1> QED
    BY <1>1, <1>2, <1>3, <1>4, <1>5, <1>6 DEF Driver

LEMMA NextArriving ==
  ASSUME TypeOK, arriving => owed # <<>>, [Next]_vars PROVE (arriving => owed # <<>>)'
  <1>1. CASE UNCHANGED <<owed, arriving>>
    BY <1>1
  <1>2. ASSUME NEW t \in Tasks, Request(t) PROVE owed' # <<>>
    BY <1>2 DEF Request, TypeOK
  <1>3. ASSUME NEW t \in Tasks, Flush(t) PROVE arriving' => owed' # <<>>
    BY <1>3 DEF Flush
  <1>4. CASE Answer \/ NoAnswer
    BY <1>4 DEF Answer, NoAnswer
  <1>5. ASSUME NEW t \in Tasks,
               \/ RequestFails(t) \/ ReadTake(t) \/ ReadTakeTimeout(t) \/ ReadChunk(t)
               \/ ReadEnd(t) \/ FlushTake(t) \/ Check(t) \/ Return(t)
        PROVE  UNCHANGED <<owed, arriving>>
    BY <1>5 DEF RequestFails, ReadTake, ReadTakeTimeout, ReadChunk, ReadEnd, FlushTake,
                Check, Return
  <1>6. CASE UNCHANGED vars
    BY <1>1, <1>6 DEF vars
  <1> QED
    BY <1>1, <1>2, <1>3, <1>4, <1>5, <1>6 DEF Next, Driver

(* Whoever comes last out of a flush leaves an empty ring buffer.          *)
LEMMA NextSilent == ASSUME TypeOK, Silent, [Next]_vars PROVE Silent'
  <1> DEFINE Middle == {"take", "read", "flush_take", "flush"}
  <1>p. pc \in [Tasks -> Steps]
    BY DEF TypeOK
  <1>1. CASE /\ UNCHANGED <<ring, owed, quiet>>
             /\ \A t \in Tasks : pc'[t] \in Middle <=> pc[t] \in Middle
    BY <1>1 DEF Silent
  <1>2. ASSUME NEW t \in Tasks,
               \/ Request(t) \/ ReadTake(t) \/ ReadTakeTimeout(t) \/ ReadEnd(t)
               \/ FlushTake(t) \/ ReadChunk(t)
        PROVE  Silent'
    <2>1. pc'[t] \in Middle
      BY <1>2, <1>p DEF Request, ReadTake, ReadTakeTimeout, ReadEnd, FlushTake, ReadChunk, Step
    <2> QED
      BY <2>1 DEF Silent
  <1>3. ASSUME NEW t \in Tasks, Flush(t) PROVE Silent'
    BY <1>3 DEF Flush, Silent
  <1>4. ASSUME NEW t \in Tasks, RequestFails(t) \/ Check(t) \/ Return(t) PROVE Silent'
    <2>1. UNCHANGED <<ring, owed, quiet>>
      BY <1>4 DEF RequestFails, Check, Return
    <2>2. \A u \in Tasks : pc'[u] \in Middle <=> pc[u] \in Middle
      BY <1>4, <1>p DEF RequestFails, Check, Return, Step
    <2> QED
      BY <1>1, <2>1, <2>2
  <1>5. CASE Answer \/ NoAnswer
    BY <1>5 DEF Answer, NoAnswer, Silent
  <1>6. CASE UNCHANGED vars
    BY <1>1, <1>6 DEF vars
  <1> QED
    BY <1>2, <1>3, <1>4, <1>5, <1>6 DEF Next, Driver

(* A call begins clean.                                                    *)
LEMMA CleanBegins ==
  ASSUME IInv, NEW t \in Tasks, NEW u \in Tasks, Request(u), clean'[t]
  PROVE  CleanCall(t)'
  <1>t. TypeOK
    BY DEF IInv
  <1>1. t = u /\ quiet /\ \A v \in Tasks : pc[v] = "idle"
    BY DEF Request
  <1>2. ring = <<>> /\ owed = <<>> /\ ~arriving
    BY <1>1 DEF IInv, Silent
  <1>3. PICK v \in Ppm : /\ owed' = Append(owed, v) /\ asked' = [asked EXCEPT ![u] = v]
                         /\ pc' = [pc EXCEPT ![u] = "take"]
                         /\ UNCHANGED <<ring, arriving>>
    BY DEF Request, Step
  <1>4. owed' = <<v>>
    BY <1>2, <1>3
  <1>5. /\ asked'[t] = v /\ pc'[t] = "take" /\ ring' = <<>> /\ ~arriving'
        /\ \A w \in Tasks \ {t} : pc'[w] = "idle"
    BY <1>t, <1>1, <1>2, <1>3 DEF TypeOK
  <1> QED
    BY <1>4, <1>5 DEF CleanCall, Pending

(* A clean call takes a step.                                              *)
LEMMA CleanGoesOn ==
  ASSUME IInv, NEW t \in Tasks, clean[t], Driver(t), ~Request(t)
  PROVE  CleanCall(t)'
  <1>t. TypeOK
    BY DEF IInv
  <1>c. CleanCall(t)
    BY DEF IInv
  <1>a. pc[t] \notin {"idle", "return"} =>
          /\ asked[t] \in Ppm
          /\ \A u \in Tasks \ {t} : pc[u] \in {"idle", "return"}
    BY <1>c DEF CleanCall
  <1>p. pc \in [Tasks -> Steps] /\ rxBytes \in [Tasks -> -1..FRAME]
        /\ result \in [Tasks -> -1..(Byte * Byte - 1)]
    BY <1>t DEF TypeOK
  <1>1. CASE RequestFails(t)
    <2>1. pc'[t] = "return" /\ result'[t] = -1
      BY <1>1, <1>p DEF RequestFails, Step
    <2> QED
      BY <2>1 DEF CleanCall
  <1>2. CASE ReadTake(t)
    <2>1. /\ pc[t] = "take" /\ pc' = [pc EXCEPT ![t] = "read"] /\ rxBytes'[t] = 0
          /\ UNCHANGED <<ring, owed, arriving, asked>>
      BY <1>2, <1>p DEF ReadTake, Step
    <2>2. pc'[t] = "read" /\ \A u \in Tasks \ {t} : pc'[u] = pc[u]
      BY <2>1, <1>p
    <2>3. Pending(t)'
      BY <1>c, <2>1 DEF CleanCall, Pending
    <2> QED
      BY <1>a, <2>1, <2>2, <2>3 DEF CleanCall
  <1>3. CASE ReadTakeTimeout(t)
    <2>1. /\ pc[t] = "take" /\ pc' = [pc EXCEPT ![t] = "flush_take"] /\ rxBytes'[t] = -1
          /\ UNCHANGED asked
      BY <1>3, <1>p DEF ReadTakeTimeout, Step
    <2>2. pc'[t] = "flush_take" /\ \A u \in Tasks \ {t} : pc'[u] = pc[u]
      BY <2>1, <1>p
    <2> QED
      BY <1>a, <2>1, <2>2 DEF CleanCall
  <1>4. CASE ReadChunk(t)
    <2>1. /\ pc[t] = "read" /\ ring # <<>> /\ rxBytes[t] < FRAME
          /\ UNCHANGED <<pc, owed, asked>>
      BY <1>4 DEF ReadChunk
    <2>2. rxBytes[t] = 0 /\ ring = FrameOf(asked[t]) /\ owed = <<>> /\ asked[t] \in Ppm
      BY <1>a, <1>c, <2>1 DEF CleanCall, Pending, FRAME
    <2>3. /\ Len(ring) = 5 /\ FRAME = 5
          /\ FrameOf(asked[t]) \in [1..FRAME -> 0..(Byte - 1)]
      BY <2>2, FrameBytes DEF FRAME
    <2>4. PICK k \in 0..Len(ring) :
             /\ k = IF Len(ring) < FRAME - rxBytes[t] THEN Len(ring) ELSE FRAME - rxBytes[t]
             /\ response'[t] = [i \in 1..FRAME |->
                                  IF i \in rxBytes[t]+1..rxBytes[t]+k
                                  THEN ring[i - rxBytes[t]] ELSE response[t][i]]
             /\ rxBytes'[t] = rxBytes[t] + k
             /\ ring' = SubSeq(ring, k + 1, Len(ring))
      BY <1>4, <1>t, TypeParts, ChunkMoves
    <2>5. k = 5
      BY <2>2, <2>3, <2>4
    <2>6. rxBytes'[t] = FRAME
      BY <2>2, <2>3, <2>4, <2>5
    <2>7. ring' = <<>>
      <3>1. k + 1 \in Int /\ Len(ring) \in Int /\ Len(ring) < k + 1
        BY <2>3, <2>5
      <3> QED
        BY <2>4, <3>1, SubSeqEmpty
    <2>8. response'[t] = FrameOf(asked[t])
      <3>1. response'[t] = [i \in 1..FRAME |-> FrameOf(asked[t])[i]]
        <4>1. \A i \in 1..FRAME : i \in rxBytes[t]+1..rxBytes[t]+k /\ i - rxBytes[t] = i
          BY <2>2, <2>3, <2>5
        <4> QED
          BY <2>2, <2>4, <4>1
      <3> QED
        BY <2>3, <3>1
    <2> QED
      BY <1>a, <2>1, <2>2, <2>6, <2>7, <2>8 DEF CleanCall
  <1>5. CASE ReadEnd(t)
    <2>1. /\ pc[t] = "read" /\ pc' = [pc EXCEPT ![t] = "flush_take"]
          /\ UNCHANGED <<response, rxBytes, asked>>
      BY <1>5 DEF ReadEnd, Step
    <2>2. pc'[t] = "flush_take" /\ \A u \in Tasks \ {t} : pc'[u] = pc[u]
      BY <2>1, <1>p
    <2>3. rxBytes[t] <= 0 \/ response[t] = FrameOf(asked[t])
      BY <1>c, <2>1 DEF CleanCall
    <2> QED
      BY <1>a, <2>1, <2>2, <2>3 DEF CleanCall
  <1>6. CASE FlushTake(t) \/ Flush(t)
    <2>1. /\ pc[t] \in {"flush_take", "flush"}
          /\ pc' = [pc EXCEPT ![t] = "flush"] \/ pc' = [pc EXCEPT ![t] = "check"]
          /\ UNCHANGED <<response, rxBytes, asked>>
      BY <1>6 DEF FlushTake, Flush, Step
    <2>2. pc'[t] \in {"flush", "check"} /\ \A u \in Tasks \ {t} : pc'[u] = pc[u]
      BY <2>1, <1>p
    <2>3. rxBytes[t] <= 0 \/ response[t] = FrameOf(asked[t])
      BY <1>c, <2>1 DEF CleanCall
    <2> QED
      BY <1>a, <2>1, <2>2, <2>3 DEF CleanCall
  <1>7. CASE Check(t)
    <2>1. pc[t] = "check" /\ pc'[t] = "return" /\ UNCHANGED asked
      BY <1>7, <1>p DEF Check, Step
    <2>2. \/ result'[t] = -1
          \/ ~(rxBytes[t] <= 0) /\ result'[t] = Concentration(response[t])
      BY <1>7, <1>p DEF Check
    <2>3. rxBytes[t] <= 0 \/ response[t] = FrameOf(asked[t])
      BY <1>c, <2>1 DEF CleanCall
    <2>4. Concentration(FrameOf(asked[t])) = asked[t]
      BY <1>a, <2>1, FrameBytes
    <2>5. result'[t] = -1 \/ result'[t] = asked[t]
      BY <2>2, <2>3, <2>4
    <2> QED
      BY <2>1, <2>5 DEF CleanCall
  <1>8. CASE Return(t)
    <2>1. pc'[t] = "idle"
      BY <1>8, <1>p DEF Return, Step
    <2> QED
      BY <2>1 DEF CleanCall
  <1> QED
    BY <1>1, <1>2, <1>3, <1>4, <1>5, <1>6, <1>7, <1>8 DEF Driver

(* Somebody else takes a step that does not begin a request: while a clean *)
(* call is under way it can only fail to send one, or return.              *)
LEMMA CleanBesideOthers ==
  ASSUME IInv, NEW t \in Tasks, clean[t], NEW u \in Tasks, u # t, Driver(u), ~Request(u)
  PROVE  CleanCall(t)'
  <1>t. TypeOK /\ CleanCall(t)
    BY DEF IInv
  <1>p. pc \in [Tasks -> Steps]
    BY <1>t DEF TypeOK
  <1>1. /\ pc'[t] = pc[t] /\ response'[t] = response[t] /\ rxBytes'[t] = rxBytes[t]
        /\ result'[t] = result[t] /\ asked'[t] = asked[t]
    BY <1>t, OthersStay
  <1>2. CASE pc[t] \in {"idle", "return"}
    BY <1>t, <1>1, <1>2 DEF CleanCall
  <1>3. CASE pc[t] \notin {"idle", "return"}
    <2>1. pc[u] \in {"idle", "return"}
      BY <1>t, <1>3 DEF CleanCall
    <2>2. RequestFails(u) \/ Return(u)
      BY <2>1 DEF Driver, ReadTake, ReadTakeTimeout, ReadChunk, ReadEnd, FlushTake, Flush,
                  Check, Step
    <2>3. UNCHANGED <<ring, owed, arriving>>
      BY <2>2 DEF RequestFails, Return
    <2>4. \A w \in Tasks : pc'[w] = pc[w] \/ pc'[w] \in {"idle", "return"}
      BY <2>2, <1>p DEF RequestFails, Return, Step
    <2> QED
      BY <1>t, <1>1, <1>3, <2>3, <2>4 DEF CleanCall, Pending
  <1> QED
    BY <1>2, <1>3

(* The sensor answers a clean call, or does not.                           *)
LEMMA CleanAnswered ==
  ASSUME ~LINE_LOSS, IInv, NEW t \in Tasks, clean[t], Answer \/ NoAnswer
  PROVE  CleanCall(t)'
  <1>t. TypeOK /\ CleanCall(t)
    BY DEF IInv
  <1>1. /\ UNCHANGED <<pc, response, rxBytes, result, asked>>
        /\ owed # <<>> /\ owed' = Tail(owed) /\ arriving' = FALSE
    BY DEF Answer, NoAnswer
  <1>2. ASSUME Pending(t), asked[t] \in Ppm PROVE Pending(t)'
    <2>1. ring = <<>> /\ owed = <<asked[t]>> /\ ~arriving
      BY <1>1, <1>2 DEF Pending
    <2>2. Head(owed) = asked[t] /\ owed' = <<>>
      BY <1>1, <2>1
    <2>3. ring' = <<>> \/ ring' = FrameOf(asked[t])
      <3>1. CASE Answer
        <4>1. PICK from \in 1..FRAME, to \in 1..FRAME :
                 /\ from > 1 => arriving
                 /\ to < FRAME => LINE_LOSS
                 /\ ring' = ring \o SubSeq(FrameOf(Head(owed)), from, to)
          BY <3>1 DEF Answer
        <4>2. from = 1 /\ to = FRAME
          BY <2>1, <4>1 DEF FRAME
        <4>3. FrameOf(asked[t]) \in Seq(0..(Byte - 1)) /\ Len(FrameOf(asked[t])) = FRAME
          BY <1>2, FrameBytes
        <4>4. SubSeq(FrameOf(asked[t]), 1, FRAME) = FrameOf(asked[t])
          BY <4>3, SubSeqFull
        <4>5. <<>> \o FrameOf(asked[t]) = FrameOf(asked[t])
          BY <4>3, ConcatEmptySeq
        <4> QED
          BY <2>1, <2>2, <4>1, <4>2, <4>4, <4>5
      <3>2. CASE NoAnswer
        BY <2>1, <3>2 DEF NoAnswer
      <3> QED
        BY <3>1, <3>2
    <2> QED
      BY <1>1, <2>2, <2>3 DEF Pending
  <1>3. CASE pc[t] \in {"take", "read"}
    <2>1. asked[t] \in Ppm /\ \A u \in Tasks \ {t} : pc[u] \in {"idle", "return"}
      BY <1>t, <1>3 DEF CleanCall
    <2>2. Pending(t) /\ (pc[t] = "read" => rxBytes[t] = 0)
      BY <1>t, <1>1, <1>3 DEF CleanCall
    <2>3. Pending(t)'
      BY <1>2, <2>1, <2>2
    <2> QED
      BY <1>1, <1>3, <2>1, <2>2, <2>3 DEF CleanCall
  <1>4. CASE pc[t] \notin {"take", "read"}
    BY <1>t, <1>1, <1>4 DEF CleanCall
  <1> QED
    BY <1>3, <1>4

----------------------------------------------------------------------------
(* The inductive invariant *)

LEMMA InitIInv == Init => IInv
  <1>1. Init => /\ arriving => owed # <<>>
                /\ Silent
                /\ \A t \in Tasks : clean[t] => CleanCall(t)
    BY DEF Init, Silent
  <1> QED
    BY <1>1, InitTypeOK DEF IInv

LEMMA NextIInv == ~LINE_LOSS /\ IInv /\ [Next]_vars => IInv'
  <1> SUFFICES ASSUME ~LINE_LOSS, IInv, [Next]_vars PROVE IInv'
    OBVIOUS
  <1>1. TypeOK' /\ (arriving => owed # <<>>)' /\ Silent'
    BY NextTypeOK, NextArriving, NextSilent DEF IInv
  <1>2. ASSUME NEW t \in Tasks, clean'[t] PROVE CleanCall(t)'
    <2>1. CASE \E u \in Tasks : Request(u)
      BY <1>2, <2>1, CleanBegins
    <2>2. CASE \E u \in Tasks : Driver(u) /\ ~Request(u)
      <3>1. PICK u \in Tasks : Driver(u) /\ ~Request(u)
        BY <2>2
      <3>2. clean' = clean
        BY <3>1 DEF Driver, RequestFails, ReadTake, ReadTakeTimeout, ReadChunk, ReadEnd,
                    FlushTake, Flush, Check, Return
      <3>3. clean[t]
        BY <1>2, <3>2
      <3> QED
        BY <3>1, <3>3, CleanGoesOn, CleanBesideOthers
    <2>3. CASE Answer \/ NoAnswer
      <3>1. clean[t]
        BY <1>2, <2>3 DEF Answer, NoAnswer
      <3> QED
        BY <2>3, <3>1, CleanAnswered
    <2>4. CASE UNCHANGED vars
      BY <1>2, <2>4 DEF vars, IInv, CleanCall, Pending
    <2> QED
      BY <2>1, <2>2, <2>3, <2>4 DEF Next
  <1> QED
    BY <1>1, <1>2 DEF IInv

(* sensors.c, mhz19c_get_co2_concentration: on a line that loses no bytes  *)
(* a late answer, a frame cut by a flush or another caller spoils only the *)
(* calls it overlaps; a call that begins when the line was quiet and stays *)
(* alone brings the value of its own request, or -1, also when the frame   *)
(* on its stack still holds the last answer.                               *)
THEOREM ResyncsAlways ==
  ASSUME LINE_LOSS = FALSE PROVE Spec => []ResyncsAfterLateAnswer
  <1>1. IInv => ResyncsAfterLateAnswer
    BY DEF IInv, CleanCall, ResyncsAfterLateAnswer
  <1>2. IInv /\ [Next]_vars => IInv'
    BY NextIInv
  <1> QED
    BY <1>1, <1>2, InitIInv, PTL DEF Spec
=============================================================================
