--------------------------- MODULE CecReceiverProofs ---------------------------
(***************************************************************************)
(* Theorems about CecReceiver for every set of frames and every timing     *)
(* within the receiver's own tolerances.                                   *)
(*                                                                         *)
(* The ISR has no bound on rx.byte of its own.  What keeps it inside       *)
(* rx.data is that the receiver never gets ahead of the wire: every pulse  *)
(* it counts is a pulse of the frame in progress, and the pause before a   *)
(* new frame fails every test of the bit time.  Position states it, and    *)
(* RxShape the part of the state it takes to be inductive.                 *)
(***************************************************************************)
EXTENDS CecReceiver, TLAPS

LowStates == {"DATA_LOW", "EOM_LOW", "ACK_LOW"}
HighStates == {"DATA_HIGH", "EOM_HIGH", "ACK_HIGH"}

\* Pulses after the start bit that the ISR counted, in units of the wire.
RxPos ==
  CASE rx.state = "DATA_LOW" -> 10 * rx.byte + rx.bit
    [] rx.state = "DATA_HIGH" -> 10 * rx.byte + rx.bit + 1
    [] rx.state = "EOM_LOW" -> 10 * rx.byte + 8
    [] rx.state \in {"EOM_HIGH", "ACK_LOW"} -> 10 * rx.byte - 1
    [] rx.state = "ACK_HIGH" -> 10 * rx.byte
    [] OTHER -> 0

WirePos == 10 * blk + slot

\* What the initiator keeps to.
WireInv ==
  /\ blk < frame.len
  /\ idle => ~low
  /\ ~idle /\ ~low => ~LastSlot
  /\ low => highUs + lowUs >= 2050
  /\ low /\ slot = 0 => lowUs \in 3500..3900

RxShape ==
  irq # {} =>
    /\ rx.state \notin {"END", "ABORT"}
    /\ rx.state \in LowStates => irq = {"fall"}
    /\ rx.state \in HighStates \cup {"START_HIGH"} => irq = {"rise"}
    /\ rx.state \in HighStates => low /\ since = 0
    /\ rx.state \in {"DATA_LOW", "DATA_HIGH"} => rx.bit < 8
    /\ rx.state \in {"EOM_HIGH", "ACK_LOW", "ACK_HIGH"} => rx.bit = 0

\* An ACK slot the initiator never sent may be taken for the next start bit.
Position ==
  irq # {} => RxPos <= WirePos \/ (rx.state = "ACK_HIGH" /\ slot = 0)

IInv == TypeOK /\ WireInv /\ RxShape /\ Position

--------------------------------------------------------------------------------

\* The position, state by state.
LEMMA RxPosIs ==
  /\ rx.state = "DATA_LOW" => RxPos = 10 * rx.byte + rx.bit
  /\ rx.state = "DATA_HIGH" => RxPos = 10 * rx.byte + rx.bit + 1
  /\ rx.state = "EOM_LOW" => RxPos = 10 * rx.byte + 8
  /\ rx.state \in {"EOM_HIGH", "ACK_LOW"} => RxPos = 10 * rx.byte - 1
  /\ rx.state = "ACK_HIGH" => RxPos = 10 * rx.byte
  /\ rx.state = "START_HIGH" => RxPos = 0
  /\ rx.state = "START_LOW" => RxPos = 0
  BY DEF RxPos

\* The same of the next state.
LEMMA RxPosNext ==
  /\ rx'.state = "DATA_LOW" => RxPos' = 10 * rx'.byte + rx'.bit
  /\ rx'.state = "DATA_HIGH" => RxPos' = 10 * rx'.byte + rx'.bit + 1
  /\ rx'.state = "EOM_LOW" => RxPos' = 10 * rx'.byte + 8
  /\ rx'.state \in {"EOM_HIGH", "ACK_LOW"} => RxPos' = 10 * rx'.byte - 1
  /\ rx'.state = "ACK_HIGH" => RxPos' = 10 * rx'.byte
  /\ rx'.state = "START_HIGH" => RxPos' = 0
  /\ rx'.state = "START_LOW" => RxPos' = 0
  BY DEF RxPos

\* A frame on the wire is one of Frame.
LEMMA FrameType ==
  ASSUME frame \in Frames
  PROVE  /\ frame.len \in 1..FrameMax
         /\ frame.data \in [0..(FrameMax - 1) -> Bytes]
  BY ReceiverAssumption DEF Frame

\* rx.data and its blank value have the same type.
LEMMA BlankType == Blank \in [0..(FrameMax - 1) -> Bytes]
  BY DEF Blank, BlankByte, Bytes, Bit

\* Storing a data bit keeps the buffer a buffer.
LEMMA StoreBitType ==
  ASSUME rx \in RxType, rx.bit < 8, NEW v \in Bit
  PROVE  /\ StoreBit(v) \in RxType
         /\ StoreBit(v).bit = rx.bit + 1
         /\ StoreBit(v).byte = rx.byte
         /\ StoreBit(v).state = IF rx.bit = 7 THEN "EOM_LOW" ELSE "DATA_LOW"
<1> DEFINE old == rx.data[rx.byte]
           new == [rx.data EXCEPT ![rx.byte] = [old EXCEPT ![rx.bit] = v]]
<1>1. new \in [0..(FrameMax - 1) -> Bytes]
  <2>1. CASE rx.byte \in 0..(FrameMax - 1)
    BY <2>1 DEF RxType, Bytes
  <2>2. CASE rx.byte \notin 0..(FrameMax - 1)
    BY <2>2 DEF RxType
  <2> QED BY <2>1, <2>2
<1>2. StoreBit(v) = [rx EXCEPT !.data = new, !.bit = rx.bit + 1,
                        !.state = IF rx.bit + 1 > 7 THEN "EOM_LOW" ELSE "DATA_LOW"]
  BY DEF StoreBit, RxType
<1> HIDE DEF new
<1>3. StoreBit(v).data = new /\ StoreBit(v).bit = rx.bit + 1
  BY <1>2 DEF RxType
<1>4. StoreBit(v).state = IF rx.bit = 7 THEN "EOM_LOW" ELSE "DATA_LOW"
  BY <1>2 DEF RxType
<1>5. StoreBit(v) \in RxType
  <2>1. PICK n : n = rx.bit + 1
    OBVIOUS
  <2>2. n \in 0..8
    BY <2>1 DEF RxType
  <2>3. PICK s \in RxStates : s = IF n > 7 THEN "EOM_LOW" ELSE "DATA_LOW"
    BY DEF RxStates
  <2>4. StoreBit(v) = [rx EXCEPT !.data = new, !.bit = n, !.state = s]
    BY <1>2, <2>1, <2>3
  <2> QED BY <1>1, <2>2, <2>3, <2>4 DEF RxType
<1> QED BY <1>2, <1>3, <1>4, <1>5 DEF RxType

(***************************************************************************)
(* One lemma per state of the ISR: its result and the position it leads    *)
(* to.                                                                     *)
(***************************************************************************)
LEMMA AbortType ==
  ASSUME rx \in RxType, Abort
  PROVE  rx' \in RxType /\ rx'.state = "ABORT"
  BY DEF RxType, RxStates, Abort

\* The start bit begins (START_LOW).
LEMMA StartLowStep ==
  ASSUME rx \in RxType, IsrStartLow
  PROVE  rx' \in RxType /\ rx'.state = "START_HIGH"
  BY DEF RxType, RxStates, IsrStartLow

\* The start bit ends: data follow, or the reception is aborted (START_HIGH).
LEMMA StartHighStep ==
  ASSUME rx \in RxType, NEW t, IsrStartHigh(t)
  PROVE  /\ rx' \in RxType
         /\ \/ rx'.state = "ABORT"
            \/ rx'.state = "DATA_LOW" /\ rx'.bit = 0 /\ RxPos' = 0
<1>1. CASE Abort
  BY <1>1, AbortType
<1>2. CASE ~Abort
  <2>1. rx' = [rx EXCEPT !.state = "DATA_LOW", !.first = TRUE,
                         !.byte = 0, !.bit = 0]
    BY <1>2 DEF IsrStartHigh
  <2>2. rx' \in RxType
    <3>1. 0 \in 0..FrameMax /\ 0 \in 0..8
      BY ReceiverAssumption
    <3>2. "DATA_LOW" \in RxStates
      BY DEF RxStates
    <3> QED BY <2>1, <3>1, <3>2 DEF RxType
  <2>3. rx'.state = "DATA_LOW" /\ rx'.bit = 0 /\ rx'.byte = 0
    BY <2>1 DEF RxType
  <2> QED BY <2>2, <2>3, RxPosNext
<1> QED BY <1>1, <1>2

\* A data bit begins (DATA_LOW).
LEMMA DataLowStep ==
  ASSUME rx \in RxType, NEW t, IsrDataLow(t)
  PROVE  /\ rx' \in RxType
         /\ \/ rx'.state = "ABORT"
            \/ /\ rx'.state = "DATA_HIGH" /\ BitTimeOk(t)
               /\ rx'.bit = rx.bit /\ RxPos' = RxPos + 1
<1>1. CASE Abort
  BY <1>1, AbortType
<1>2. CASE ~Abort
  <2>1. /\ BitTimeOk(t) /\ rx.state = "DATA_LOW"
        /\ rx' = [rx EXCEPT !.state = "DATA_HIGH", !.first = FALSE]
    BY <1>2 DEF IsrDataLow
  <2>2. rx' \in RxType
    BY <2>1 DEF RxType, RxStates
  <2>3. rx'.state = "DATA_HIGH" /\ rx'.bit = rx.bit /\ rx'.byte = rx.byte
    BY <2>1 DEF RxType
  <2>4. rx.bit \in Int /\ rx.byte \in Int
    BY DEF RxType
  <2>5. RxPos' = RxPos + 1
    BY <2>1, <2>3, <2>4, RxPosIs, RxPosNext
  <2> QED BY <2>1, <2>2, <2>3, <2>5
<1> QED BY <1>1, <1>2

\* The EOM bit begins; the byte before it is counted (EOM_LOW).
LEMMA EomLowStep ==
  ASSUME rx \in RxType, rx.byte < FrameMax, NEW t, IsrEomLow(t)
  PROVE  /\ rx' \in RxType
         /\ \/ rx'.state = "ABORT"
            \/ /\ rx'.state = "EOM_HIGH" /\ BitTimeOk(t)
               /\ rx'.bit = 0 /\ RxPos' = RxPos + 1
<1>1. rx.byte \in 0..FrameMax /\ rx.byte + 1 \in 0..FrameMax
  BY ReceiverAssumption DEF RxType
<1>2. PICK n \in 0..FrameMax : n = rx.byte + 1
  BY <1>1
<1>3. PICK f \in BOOLEAN : f = IF BitTimeOk(t) THEN FALSE ELSE rx.first
  BY DEF RxType
<1>4. PICK st \in {"EOM_HIGH", "ABORT"} :
        st = IF BitTimeOk(t) THEN "EOM_HIGH" ELSE "ABORT"
  OBVIOUS
<1>5. /\ rx.state = "EOM_LOW"
      /\ rx' = [rx EXCEPT !.byte = n, !.bit = 0, !.first = f, !.state = st]
  BY <1>2, <1>3, <1>4 DEF IsrEomLow
<1>6. rx' \in RxType
  <2>1. st \in RxStates /\ 0 \in 0..8
    BY DEF RxStates
  <2> QED BY <1>5, <2>1 DEF RxType
<1>7. rx'.state = st /\ rx'.bit = 0 /\ rx'.byte = rx.byte + 1
  BY <1>2, <1>5 DEF RxType
<1>8. st = "EOM_HIGH" => RxPos' = RxPos + 1
  BY <1>1, <1>5, <1>7, RxPosIs, RxPosNext
<1> QED BY <1>4, <1>6, <1>7, <1>8

\* The ACK bit begins (ACK_LOW).
LEMMA AckLowStep ==
  ASSUME rx \in RxType, IsrAckLow
  PROVE  /\ rx' \in RxType
         /\ rx'.state = "ACK_HIGH" /\ rx'.bit = rx.bit /\ RxPos' = RxPos + 1
<1>1. rx.state = "ACK_LOW" /\ rx' = [rx EXCEPT !.state = "ACK_HIGH"]
  BY DEF IsrAckLow
<1>2. rx' \in RxType
  BY <1>1 DEF RxType, RxStates
<1>3. rx'.state = "ACK_HIGH" /\ rx'.bit = rx.bit /\ rx'.byte = rx.byte
  BY <1>1 DEF RxType
<1>4. rx.byte \in Int
  BY DEF RxType
<1> QED BY <1>1, <1>2, <1>3, <1>4, RxPosIs, RxPosNext

\* A data bit ends and is stored (DATA_HIGH).
LEMMA DataHighStep ==
  ASSUME rx \in RxType, rx.bit < 8, NEW t, IsrDataHigh(t)
  PROVE  /\ rx' \in RxType
         /\ \/ rx'.state = "ABORT"
            \/ rx'.state = "EOM_LOW" /\ RxPos' = RxPos
            \/ rx'.state = "DATA_LOW" /\ rx'.bit < 8 /\ RxPos' = RxPos
<1>1. CASE Abort
  BY <1>1, AbortType
<1>2. CASE ~Abort
  <2>1. rx.state = "DATA_HIGH" /\ \E v \in Bit : rx' = StoreBit(v)
    BY <1>2 DEF IsrDataHigh, Bit
  <2>2. rx.bit \in Int /\ rx.byte \in Int
    BY DEF RxType
  <2>3. /\ rx' \in RxType /\ rx'.bit = rx.bit + 1 /\ rx'.byte = rx.byte
        /\ rx'.state = IF rx.bit = 7 THEN "EOM_LOW" ELSE "DATA_LOW"
    BY <2>1, StoreBitType
  <2>4. RxPos' = RxPos
    BY <2>1, <2>2, <2>3, RxPosIs, RxPosNext
  <2> QED BY <2>2, <2>3, <2>4
<1> QED BY <1>1, <1>2

\* The EOM bit ends (EOM_HIGH).
LEMMA EomHighStep ==
  ASSUME rx \in RxType, NEW t, IsrEomHigh(t)
  PROVE  /\ rx' \in RxType
         /\ \/ rx'.state = "ABORT"
            \/ rx'.state = "ACK_LOW" /\ rx'.bit = rx.bit /\ RxPos' = RxPos
<1>1. CASE Abort
  BY <1>1, AbortType
<1>2. CASE ~Abort
  <2>1. rx.state = "EOM_HIGH" /\ rx' = [rx EXCEPT !.eom = IsOne(t), !.state = "ACK_LOW"]
    BY <1>2 DEF IsrEomHigh
  <2>2. PICK e \in BOOLEAN : rx' = [rx EXCEPT !.eom = e, !.state = "ACK_LOW"]
    <3>1. CASE IsOne(t)
      <4>1. IsOne(t) = TRUE
        BY <3>1
      <4> QED BY <2>1, <4>1
    <3>2. CASE ~IsOne(t)
      <4>1. IsOne(t) = FALSE
        BY <3>2 DEF IsOne
      <4> QED BY <2>1, <4>1
    <3> QED BY <3>1, <3>2
  <2>3. rx' \in RxType
    BY <2>2 DEF RxType, RxStates
  <2>4. rx'.state = "ACK_LOW" /\ rx'.bit = rx.bit /\ rx'.byte = rx.byte
    BY <2>2 DEF RxType
  <2>5. rx.byte \in Int
    BY DEF RxType
  <2> QED BY <2>1, <2>3, <2>4, <2>5, RxPosIs, RxPosNext
<1> QED BY <1>1, <1>2

\* The ACK bit ends: another byte follows, or the frame is reported (ACK_HIGH).
LEMMA AckHighStep ==
  ASSUME rx \in RxType, rx.bit = 0, NEW t, IsrAckHigh(t)
  PROVE  /\ rx' \in RxType
         /\ \/ rx'.state \in {"ABORT", "END"}
            \/ /\ rx'.state = "DATA_LOW" /\ rx'.bit = 0 /\ RxPos' = RxPos
               /\ IsOne(t) \/ IsZero(t)
<1>1. CASE Abort
  BY <1>1, AbortType
<1>2. CASE rx' = FrameDone(rx)
  BY <1>2 DEF FrameDone, RxType, RxStates
<1>3. CASE ~Abort /\ rx' # FrameDone(rx)
  <2>1. /\ rx.state = "ACK_HIGH" /\ (IsOne(t) \/ IsZero(t))
        /\ rx' = [rx EXCEPT !.state = "DATA_LOW"]
    BY <1>3 DEF IsrAckHigh
  <2>2. rx' \in RxType
    BY <2>1 DEF RxType, RxStates
  <2>3. rx'.state = "DATA_LOW" /\ rx'.bit = 0 /\ rx'.byte = rx.byte
    BY <2>1 DEF RxType
  <2>4. rx.byte \in Int
    BY DEF RxType
  <2>5. RxPos' = RxPos
    BY <2>1, <2>3, <2>4, RxPosIs, RxPosNext
  <2> QED BY <2>1, <2>2, <2>3, <2>5
<1> QED BY <1>1, <1>2, <1>3

--------------------------------------------------------------------------------

\* The edges the ISR leaves enabled, state by state.
LEMMA IrqForIs ==
  ASSUME NEW s
  PROVE  /\ s \in LowStates => IrqFor(s) = {"fall"}
         /\ s \in HighStates \cup {"START_HIGH"} => IrqFor(s) = {"rise"}
         /\ s \in {"END", "ABORT"} => IrqFor(s) = {}
         /\ IrqFor(s) \subseteq {"rise", "fall"}
  BY DEF IrqFor, LowStates, HighStates

\* The receiver is inside the buffer because it is not ahead of the wire.
LEMMA ByteInside ==
  ASSUME IInv, irq # {}, rx.state \in {"DATA_HIGH", "EOM_LOW"}
  PROVE  rx.byte < FrameMax
<1>1. RxPos <= WirePos
  BY DEF IInv, Position
<1>2. blk <= FrameMax - 1 /\ slot <= 10 /\ blk \in Int /\ slot \in Int
  BY ReceiverAssumption DEF IInv, TypeOK
<1>3. WirePos <= 10 * FrameMax
  BY <1>2, ReceiverAssumption DEF WirePos
<1>4. rx.byte \in Nat /\ rx.bit \in Nat
  BY DEF IInv, TypeOK, RxType
<1>5. 10 * rx.byte < RxPos /\ RxPos \in Int
  BY <1>4, RxPosIs
<1>6. WirePos \in Int /\ FrameMax \in Int
  BY <1>2, ReceiverAssumption DEF WirePos
<1> QED BY <1>1, <1>3, <1>4, <1>5, <1>6

(***************************************************************************)
(* A falling edge: the receiver counts at most the pulse that begins.      *)
(***************************************************************************)
LEMMA FallStep ==
  ASSUME IInv, ~low, NEW t \in 0..MaxSince, FallingEdge(t)
  PROVE  /\ rx' \in RxType
         /\ irq' \subseteq {"rise", "fall"}
         /\ since' \in 0..MaxSince
         /\ driving' \in BOOLEAN
         /\ RxShape'
         /\ irq' # {} =>
              \/ rx'.state \in {"START_LOW", "START_HIGH"}
              \/ /\ irq # {} /\ rx.state \in LowStates
                 /\ RxPos' = RxPos + 1
                 /\ BitTimeOk(t) \/ rx'.state = "ACK_HIGH"
<1> USE DEF IInv
<1>1. low' = TRUE /\ Edge("fall", t) /\ driving' \in BOOLEAN
  BY DEF FallingEdge
<1>2. rx \in RxType /\ irq \subseteq {"rise", "fall"}
  BY DEF TypeOK
<1>3. CASE "fall" \notin irq
  <2>1. rx' = rx /\ irq' = irq /\ since' = t
    BY <1>1, <1>3 DEF Edge
  <2>2. irq # {} => rx.state \in {"START_LOW", "START_HIGH"}
    BY <1>2, <1>3 DEF RxShape, RxType, RxStates, LowStates, HighStates
  <2>3. RxShape'
    BY <2>1, <2>2, <1>3 DEF RxShape, LowStates, HighStates
  <2> QED BY <1>1, <1>2, <2>1, <2>2, <2>3
<1>4. CASE "fall" \in irq
  <2>1. Isr(t)
    BY <1>1, <1>4 DEF Edge
  <2>2. /\ irq' = IrqFor(rx'.state)
        /\ since' = IF rx'.state \in HighStates \cup {"START_HIGH"} THEN 0 ELSE t
    BY <2>1 DEF Isr, HighStates
  <2>3. since' \in 0..MaxSince
    BY <2>2, ReceiverAssumption
  <2>4. rx.state \in {"START_LOW"} \cup LowStates
    BY <1>2, <1>4 DEF RxShape, RxType, RxStates, LowStates, HighStates
  <2>5. rx.state = "EOM_LOW" => rx.byte < FrameMax
    BY <1>4, ByteInside
  <2>6. rx.state = "DATA_LOW" => rx.bit < 8
    BY <1>4 DEF RxShape
  <2>7. rx.state = "ACK_LOW" => rx.bit = 0
    BY <1>4 DEF RxShape
  <2>8. /\ rx' \in RxType
        /\ \/ rx'.state = "ABORT"
           \/ rx'.state = "START_HIGH"
           \/ /\ rx.state \in LowStates /\ RxPos' = RxPos + 1
              /\ \/ rx'.state = "DATA_HIGH" /\ rx'.bit < 8 /\ BitTimeOk(t)
                 \/ rx'.state = "EOM_HIGH" /\ rx'.bit = 0 /\ BitTimeOk(t)
                 \/ rx'.state = "ACK_HIGH" /\ rx'.bit = 0
    <3>1. CASE rx.state = "START_LOW"
      <4>1. IsrStartLow
        BY <2>1, <3>1 DEF Isr, IsrStartHigh, IsrDataLow, IsrEomLow,
           IsrDataHigh, IsrEomHigh, IsrAckLow, IsrAckHigh
      <4> QED BY <1>2, <4>1, StartLowStep
    <3>2. CASE rx.state = "DATA_LOW"
      <4>1. IsrDataLow(t)
        BY <2>1, <3>2 DEF Isr, IsrStartLow, IsrStartHigh, IsrEomLow,
           IsrDataHigh, IsrEomHigh, IsrAckLow, IsrAckHigh
      <4> QED BY <1>2, <2>6, <3>2, <4>1, DataLowStep DEF LowStates
    <3>3. CASE rx.state = "EOM_LOW"
      <4>1. IsrEomLow(t)
        BY <2>1, <3>3 DEF Isr, IsrStartLow, IsrStartHigh, IsrDataLow,
           IsrDataHigh, IsrEomHigh, IsrAckLow, IsrAckHigh
      <4> QED BY <1>2, <2>5, <3>3, <4>1, EomLowStep DEF LowStates
    <3>4. CASE rx.state = "ACK_LOW"
      <4>1. IsrAckLow
        BY <2>1, <3>4 DEF Isr, IsrStartLow, IsrStartHigh, IsrDataLow,
           IsrEomLow, IsrDataHigh, IsrEomHigh, IsrAckHigh
      <4> QED BY <1>2, <2>7, <3>4, <4>1, AckLowStep DEF LowStates
    <3> QED BY <2>4, <3>1, <3>2, <3>3, <3>4 DEF LowStates
  <2>9. irq' # {} => irq' = {"rise"} /\ rx'.state # "ABORT"
    BY <2>2, <2>8, IrqForIs DEF HighStates
  <2>10. RxShape'
    BY <1>1, <2>2, <2>8, <2>9 DEF RxShape, LowStates, HighStates
  <2> QED BY <1>1, <1>4, <2>2, <2>3, <2>8, <2>9, <2>10, IrqForIs
<1> QED BY <1>3, <1>4

(***************************************************************************)
(* A rising edge: the position stays, or a start bit sets it to zero.  An  *)
(* ACK slot is left for a data bit only after the low time of a bit.       *)
(***************************************************************************)
LEMMA RiseStep ==
  ASSUME IInv, low, low' = FALSE, NEW t \in 0..MaxSince, Edge("rise", t)
  PROVE  /\ rx' \in RxType
         /\ irq' \subseteq {"rise", "fall"}
         /\ since' \in 0..MaxSince
         /\ RxShape'
         /\ irq' # {} =>
              \/ rx'.state \in {"START_LOW", "START_HIGH"}
              \/ rx'.state \in LowStates /\ RxPos' = 0
              \/ /\ irq # {} /\ rx.state \in HighStates \cup LowStates
                 /\ rx'.state \in LowStates /\ RxPos' = RxPos
                 /\ rx.state = "ACK_HIGH" => IsOne(t) \/ IsZero(t)
<1> USE DEF IInv
<1>2. rx \in RxType /\ irq \subseteq {"rise", "fall"}
  BY DEF TypeOK
<1>3. CASE "rise" \notin irq
  <2>1. rx' = rx /\ irq' = irq /\ since' = t
    BY <1>3 DEF Edge
  <2>2. irq # {} => rx.state \in {"START_LOW"} \cup LowStates
    BY <1>2, <1>3 DEF RxShape, RxType, RxStates, LowStates, HighStates
  <2>3. RxShape'
    BY <2>1, <2>2, <1>3 DEF RxShape, LowStates, HighStates
  <2>4. RxPos' = RxPos
    BY <2>1 DEF RxPos
  <2> QED BY <1>2, <2>1, <2>2, <2>3, <2>4 DEF LowStates
<1>4. CASE "rise" \in irq
  <2>1. Isr(t)
    BY <1>4 DEF Edge
  <2>2. /\ irq' = IrqFor(rx'.state)
        /\ since' = IF rx'.state \in HighStates \cup {"START_HIGH"} THEN 0 ELSE t
    BY <2>1 DEF Isr, HighStates
  <2>3. since' \in 0..MaxSince
    BY <2>2, ReceiverAssumption
  <2>4. rx.state \in {"START_LOW", "START_HIGH"} \cup HighStates
    BY <1>2, <1>4 DEF RxShape, RxType, RxStates, LowStates, HighStates
  <2>5. rx.state = "DATA_HIGH" => rx.bit < 8
    BY <1>4 DEF RxShape
  <2>6. rx.state \in {"EOM_HIGH", "ACK_HIGH"} => rx.bit = 0
    BY <1>4 DEF RxShape
  <2>7. /\ rx' \in RxType
        /\ \/ rx'.state \in {"ABORT", "END"}
           \/ rx'.state = "START_HIGH"
           \/ /\ \/ rx'.state = "DATA_LOW" /\ rx'.bit < 8
                 \/ rx'.state = "EOM_LOW"
                 \/ rx'.state = "ACK_LOW" /\ rx'.bit = 0
              /\ \/ RxPos' = 0
                 \/ /\ rx.state \in HighStates /\ RxPos' = RxPos
                    /\ rx.state = "ACK_HIGH" => IsOne(t) \/ IsZero(t)
    <3>1. CASE rx.state = "START_LOW"
      <4>1. IsrStartLow
        BY <2>1, <3>1 DEF Isr, IsrStartHigh, IsrDataLow, IsrEomLow,
           IsrDataHigh, IsrEomHigh, IsrAckLow, IsrAckHigh
      <4> QED BY <1>2, <4>1, StartLowStep
    <3>2. CASE rx.state = "START_HIGH"
      <4>1. IsrStartHigh(t)
        BY <2>1, <3>2 DEF Isr, IsrStartLow, IsrDataLow, IsrEomLow,
           IsrDataHigh, IsrEomHigh, IsrAckLow, IsrAckHigh
      <4> QED BY <1>2, <4>1, StartHighStep
    <3>3. CASE rx.state = "DATA_HIGH"
      <4>1. IsrDataHigh(t)
        BY <2>1, <3>3 DEF Isr, IsrStartLow, IsrStartHigh, IsrDataLow,
           IsrEomLow, IsrEomHigh, IsrAckLow, IsrAckHigh
      <4> QED BY <1>2, <2>5, <3>3, <4>1, DataHighStep DEF HighStates
    <3>4. CASE rx.state = "EOM_HIGH"
      <4>1. IsrEomHigh(t)
        BY <2>1, <3>4 DEF Isr, IsrStartLow, IsrStartHigh, IsrDataLow,
           IsrEomLow, IsrDataHigh, IsrAckLow, IsrAckHigh
      <4> QED BY <1>2, <2>6, <3>4, <4>1, EomHighStep DEF HighStates
    <3>5. CASE rx.state = "ACK_HIGH"
      <4>1. IsrAckHigh(t)
        BY <2>1, <3>5 DEF Isr, IsrStartLow, IsrStartHigh, IsrDataLow,
           IsrEomLow, IsrDataHigh, IsrEomHigh, IsrAckLow
      <4> QED BY <1>2, <2>6, <3>5, <4>1, AckHighStep DEF HighStates
    <3> QED BY <2>4, <3>1, <3>2, <3>3, <3>4, <3>5 DEF HighStates
  <2>8. /\ rx'.state \in {"ABORT", "END"} => irq' = {}
        /\ rx'.state = "START_HIGH" => irq' = {"rise"}
        /\ rx'.state \in LowStates => irq' = {"fall"}
        /\ irq' \subseteq {"rise", "fall"}
    BY <2>2, IrqForIs
  <2>9. RxShape'
    BY <2>7, <2>8 DEF RxShape, LowStates, HighStates
  <2> QED BY <1>4, <2>3, <2>7, <2>8, <2>9 DEF LowStates, HighStates
<1> QED BY <1>3, <1>4

--------------------------------------------------------------------------------
(* Every action preserves the invariant.                                       *)

\* The invariant holds after cec_transceiver_init.
LEMMA InitInv == Init => IInv
<1> SUFFICES ASSUME Init PROVE IInv
  OBVIOUS
<1>1. frame \in Frames /\ frame.len \in 1..FrameMax
  BY FrameType DEF Init
<1>2. rx \in RxType /\ rx.state = "START_LOW"
  <2>1. 0 \in 0..FrameMax /\ 0 \in 0..8 /\ "START_LOW" \in RxStates
    BY ReceiverAssumption DEF RxStates
  <2> QED BY <2>1, BlankType DEF Init, RxType
<1>3. TypeOK
  <2>1. 0 \in 0..(FrameMax - 1) /\ MaxSince \in 0..MaxSince /\ 0 \in 0..15
    BY ReceiverAssumption
  <2>2. low \in BOOLEAN /\ idle \in BOOLEAN /\ driving \in BOOLEAN
    BY DEF Init
  <2>3. /\ blk \in 0..(FrameMax - 1) /\ slot \in 0..10
        /\ lowUs \in Nat /\ highUs \in Nat
        /\ address \in 0..15 /\ since \in 0..MaxSince
    BY <2>1 DEF Init
  <2>4. /\ irq \subseteq {"rise", "fall"}
        /\ main \in {"boot", "loop", "tx", "after"}
        /\ heard \in {"no", "whole", "polled"}
    BY DEF Init
  <2> QED BY <1>1, <1>2, <2>2, <2>3, <2>4 DEF TypeOK
<1>4. WireInv
  BY <1>1 DEF Init, WireInv, LastSlot
<1>5. RxShape
  BY <1>2 DEF RxShape, LowStates, HighStates
<1>6. Position
  BY <1>2, RxPosIs DEF Init, Position, WirePos
<1> QED BY <1>3, <1>4, <1>5, <1>6 DEF IInv

\* The initiator's side of the invariant at the start of a pulse.
LEMMA WireIntro ==
  ASSUME low', ~idle', blk' < frame'.len, highUs' + lowUs' >= 2050,
         slot' = 0 => lowUs' \in 3500..3900
  PROVE  WireInv'
  BY DEF WireInv

\* Another initiator begins a frame.
LEMMA BeginFrameInv ==
  ASSUME IInv, BeginFrame
  PROVE  IInv'
<1> USE DEF IInv
<1>1. ~low /\ MaxSince \in 0..MaxSince /\ FallingEdge(MaxSince)
  BY ReceiverAssumption DEF BeginFrame, WireInv, TypeOK
<1>2. /\ rx' \in RxType /\ irq' \subseteq {"rise", "fall"}
      /\ since' \in 0..MaxSince /\ driving' \in BOOLEAN
      /\ RxShape'
      /\ irq' # {} =>
           \/ rx'.state \in {"START_LOW", "START_HIGH"}
           \/ /\ irq # {} /\ rx.state \in LowStates
              /\ RxPos' = RxPos + 1
              /\ BitTimeOk(MaxSince) \/ rx'.state = "ACK_HIGH"
  BY <1>1, FallStep
<1>3. ~BitTimeOk(MaxSince)
  BY ReceiverAssumption DEF BitTimeOk
<1>4. frame' \in Frames /\ frame'.len \in 1..FrameMax
  BY ReceiverAssumption DEF BeginFrame, Frame
<1>5. /\ lowUs' \in 3500..3900 /\ highUs' \in Nat
      /\ highUs' + lowUs' >= 2050
  BY ReceiverAssumption DEF BeginFrame
<1>6. /\ blk' = 0 /\ slot' = 0 /\ idle' = FALSE /\ low' = TRUE
      /\ address' = address /\ main' = main /\ heard' \in {"no", "whole"}
  BY DEF BeginFrame, FallingEdge
<1>7. TypeOK'
  <2>1. blk' \in 0..(FrameMax - 1) /\ slot' \in 0..10 /\ lowUs' \in Nat
    BY <1>5, <1>6, ReceiverAssumption
  <2>2. low' \in BOOLEAN /\ idle' \in BOOLEAN
    BY <1>6
  <2>3. /\ address' \in 0..15 /\ main' \in {"boot", "loop", "tx", "after"}
        /\ heard' \in {"no", "whole", "polled"}
    BY <1>6 DEF TypeOK
  <2> QED BY <1>2, <1>4, <1>5, <2>1, <2>2, <2>3 DEF TypeOK
<1>8. WireInv'
  <2>1. blk' < frame'.len
    BY <1>4, <1>6, ReceiverAssumption
  <2>2. low' BY <1>6
  <2>3. ~idle' BY <1>6
  <2> QED BY <1>5, <2>1, <2>2, <2>3, WireIntro
<1>9. Position'
  BY <1>2, <1>3, <1>6, RxPosNext DEF Position, WirePos
<1> QED BY <1>2, <1>7, <1>8, <1>9

\* The low and high times of a pulse that is not a start bit.
LEMMA PulseTimes ==
  ASSUME frame \in Frames, NEW b \in 0..(frame.len - 1), NEW s \in 1..10,
         NEW l \in LowTimes(b, s), NEW total \in BitTotal
  PROVE  /\ l \in 400..1700
         /\ total - l \in Nat /\ (total - l) + l >= 2050
<1>1. LowTimes(b, s) \subseteq OneLow \cup ZeroLow
  BY DEF LowTimes
<1>2. l \in OneLow \cup ZeroLow
  BY <1>1
<1>3. l \in 400..1700 /\ total \in 2050..2750
  BY <1>2, ReceiverAssumption
<1> QED BY <1>3

\* It sends the next bit of the frame.
LEMMA NextPulseInv ==
  ASSUME IInv, NextPulse
  PROVE  IInv'
<1> USE DEF IInv
<1>1. ~low /\ ~idle /\ ~LastSlot /\ frame' = frame /\ idle' = FALSE
  BY DEF NextPulse, WireInv
<1>2. frame \in Frames /\ frame.len \in 1..FrameMax /\ blk \in 0..(frame.len - 1)
  BY FrameType, ReceiverAssumption DEF TypeOK, WireInv
<1>3. /\ slot' = IF slot = 10 THEN 1 ELSE slot + 1
      /\ blk' = IF slot = 10 THEN blk + 1 ELSE blk
      /\ slot \in 0..10
  BY DEF NextPulse, TypeOK
<1>4. /\ slot' \in 1..10 /\ blk' \in 0..(frame.len - 1)
      /\ WirePos' = WirePos + 1
  BY <1>1, <1>2, <1>3 DEF LastSlot, WirePos
<1>5. \E l \in LowTimes(blk', slot'), total \in BitTotal :
         lowUs' = l /\ highUs' = total - l
  BY DEF NextPulse
<1>6. lowUs' \in 400..1700 /\ highUs' \in Nat /\ highUs' + lowUs' >= 2050
  <2>1. PICK l \in LowTimes(blk', slot'), total \in BitTotal :
           lowUs' = l /\ highUs' = total - l
    BY <1>5
  <2>2. l \in 400..1700 /\ total - l \in Nat /\ (total - l) + l >= 2050
    BY <1>2, <1>4, PulseTimes, SMTT(30)
  <2> QED BY <2>1, <2>2
<1>7. Cap(since + highUs) \in 0..MaxSince /\ FallingEdge(Cap(since + highUs))
  BY ReceiverAssumption DEF Cap, TypeOK, NextPulse
<1>8. /\ rx' \in RxType /\ irq' \subseteq {"rise", "fall"}
      /\ since' \in 0..MaxSince /\ driving' \in BOOLEAN
      /\ RxShape'
      /\ irq' # {} =>
           \/ rx'.state \in {"START_LOW", "START_HIGH"}
           \/ irq # {} /\ rx.state \in LowStates /\ RxPos' = RxPos + 1
  BY <1>1, <1>7, FallStep
<1>9. low' = TRUE /\ address' = address /\ main' = main /\ heard' = heard
  BY DEF NextPulse, FallingEdge
<1>10. TypeOK'
  <2>1. blk' \in 0..(FrameMax - 1) /\ slot' \in 0..10 /\ lowUs' \in Nat
    BY <1>2, <1>4, <1>6, ReceiverAssumption
  <2>2. low' \in BOOLEAN /\ idle' \in BOOLEAN
    BY <1>1, <1>9
  <2>3. /\ address' \in 0..15 /\ main' \in {"boot", "loop", "tx", "after"}
        /\ heard' \in {"no", "whole", "polled"} /\ frame' \in Frames
    BY <1>1, <1>9 DEF TypeOK
  <2> QED BY <1>6, <1>8, <2>1, <2>2, <2>3 DEF TypeOK
<1>11. WireInv'
  <2>1. blk' < frame'.len /\ slot' # 0
    BY <1>1, <1>2, <1>4, ReceiverAssumption
  <2>2. low' BY <1>9
  <2>3. ~idle' BY <1>1
  <2> QED BY <1>6, <2>1, <2>2, <2>3, WireIntro
<1>12. Position'
  <2>1. SUFFICES ASSUME irq' # {} PROVE RxPos' <= WirePos'
    BY DEF Position
  <2>2. WirePos \in Nat
    BY <1>2, <1>3 DEF WirePos
  <2>3. CASE rx'.state \in {"START_LOW", "START_HIGH"}
    BY <1>4, <2>2, <2>3, RxPosNext
  <2>4. CASE irq # {} /\ rx.state \in LowStates /\ RxPos' = RxPos + 1
    <3>1. RxPos <= WirePos
      BY <2>4 DEF Position, LowStates
    <3>2. RxPos \in Int
      BY <2>4, RxPosIs DEF TypeOK, RxType, LowStates
    <3> QED BY <1>4, <2>2, <2>4, <3>1, <3>2
  <2> QED BY <1>8, <2>1, <2>3, <2>4
<1> QED BY <1>8, <1>10, <1>11, <1>12

\* The low time of a start bit is not that of a data bit.
LEMMA StartIsNoBit ==
  ASSUME NEW t \in 3500..3900, IsOne(t) \/ IsZero(t)
  PROVE  FALSE
<1>1. t \in Int /\ t >= 3500
  OBVIOUS
<1>2. t \in Int /\ t <= 1700
  BY DEF IsOne, IsZero
<1> QED BY <1>1, <1>2

\* The low phase of a bit ends.
LEMMA RiseInv ==
  ASSUME IInv, Rise
  PROVE  IInv'
<1> USE DEF IInv
<1>1. low /\ low' = FALSE /\ idle' = LastSlot
  BY DEF Rise
<1>2. /\ frame' = frame /\ blk' = blk /\ slot' = slot /\ lowUs' = lowUs
      /\ address' = address /\ main' = main /\ heard' = heard
      /\ driving' = FALSE
  BY DEF Rise
<1>3. lowUs \in Nat /\ highUs \in Nat /\ highUs + lowUs >= 2050 /\ since \in 0..MaxSince
  BY <1>1 DEF TypeOK, WireInv
<1>4. Held \in Nat /\ highUs' = highUs - (Held - lowUs) /\ highUs' \in Nat
  BY <1>3 DEF Held, Rise
<1>5. Cap(since + Held) \in 0..MaxSince /\ Edge("rise", Cap(since + Held))
  BY <1>3, <1>4, ReceiverAssumption DEF Cap, Rise
<1>6. /\ rx' \in RxType /\ irq' \subseteq {"rise", "fall"}
      /\ since' \in 0..MaxSince
      /\ RxShape'
      /\ irq' # {} =>
           \/ rx'.state \in {"START_LOW", "START_HIGH"}
           \/ rx'.state \in LowStates /\ RxPos' = 0
           \/ /\ irq # {} /\ rx.state \in HighStates \cup LowStates
              /\ rx'.state \in LowStates /\ RxPos' = RxPos
              /\ rx.state = "ACK_HIGH" =>
                   IsOne(Cap(since + Held)) \/ IsZero(Cap(since + Held))
  BY <1>1, <1>5, RiseStep
<1>7. LastSlot \in BOOLEAN
  BY DEF LastSlot
<1>8. TypeOK'
  BY <1>1, <1>2, <1>4, <1>6, <1>7 DEF TypeOK
<1>9. WireInv'
  <2>1. LastSlot' <=> LastSlot
    BY <1>2 DEF LastSlot
  <2> QED BY <1>1, <1>2, <2>1 DEF WireInv
<1>10. Position'
  <2>1. SUFFICES ASSUME irq' # {} PROVE RxPos' <= WirePos'
    BY DEF Position
  <2>2. WirePos \in Nat /\ WirePos' = WirePos
    BY <1>2, ReceiverAssumption DEF WirePos, TypeOK
  <2>3. CASE rx'.state \in {"START_LOW", "START_HIGH"}
    BY <2>2, <2>3, RxPosNext
  <2>4. CASE rx'.state \in LowStates /\ RxPos' = 0
    BY <2>2, <2>4
  <2>5. CASE /\ irq # {} /\ rx.state \in HighStates \cup LowStates
             /\ rx'.state \in LowStates /\ RxPos' = RxPos
             /\ rx.state = "ACK_HIGH" =>
                  IsOne(Cap(since + Held)) \/ IsZero(Cap(since + Held))
    <3>1. rx.state = "ACK_HIGH" => slot # 0
      <4> SUFFICES ASSUME rx.state = "ACK_HIGH", slot = 0 PROVE FALSE
        OBVIOUS
      <4>1. since = 0
        BY <2>5 DEF RxShape, HighStates
      <4>2. lowUs \in 3500..3900
        BY <1>1 DEF WireInv
      <4>3. Cap(since + Held) \in 3500..3900
        BY <4>1, <4>2, ReceiverAssumption DEF Cap, Held
      <4>4. IsOne(Cap(since + Held)) \/ IsZero(Cap(since + Held))
        BY <2>5
      <4> QED BY <4>3, <4>4, StartIsNoBit
    <3> QED BY <2>2, <2>5, <3>1 DEF Position
  <2> QED BY <1>6, <2>1, <2>3, <2>4, <2>5
<1> QED BY <1>6, <1>8, <1>9, <1>10

\* The initiator gives the frame up.
LEMMA AbandonInv ==
  ASSUME IInv, Abandon
  PROVE  IInv'
<1> USE DEF IInv
<1>1. RxPos' = RxPos /\ WirePos' = WirePos /\ (LastSlot' <=> LastSlot)
  BY DEF Abandon, RxPos, WirePos, LastSlot
<1>2. TypeOK'
  BY DEF Abandon, TypeOK
<1>3. WireInv'
  BY <1>1 DEF Abandon, WireInv
<1>4. RxShape' /\ Position'
  BY <1>1 DEF Abandon, RxShape, Position
<1> QED BY <1>2, <1>3, <1>4

\* The main loop polls the receiver and re-arms it.
LEMMA ReceivePollInv ==
  ASSUME IInv, ReceivePoll
  PROVE  IInv'
<1> USE DEF IInv
<1>1. rx' = [rx EXCEPT !.state = "START_LOW", !.frameReady = FALSE,
                       !.len = 0, !.data = Blank]
  BY DEF ReceivePoll, RxStart
<1>2. rx' \in RxType
  <2>1. 0 \in 0..FrameMax /\ "START_LOW" \in RxStates /\ rx \in RxType
    BY ReceiverAssumption DEF RxStates, TypeOK
  <2> QED BY <1>1, <2>1, BlankType DEF RxType
<1>3. rx'.state = "START_LOW"
  BY <1>1, <1>2 DEF TypeOK, RxType
<1>4. UNCHANGED <<wire, address, since, driving>>
  BY DEF ReceivePoll
<1>5. TypeOK'
  BY <1>2, <1>4 DEF ReceivePoll, RxStart, TypeOK, wire
<1>6. WireInv'
  BY <1>4 DEF WireInv, LastSlot, wire
<1>7. RxShape'
  BY <1>3 DEF RxShape, LowStates, HighStates
<1>8. RxPos' = 0 /\ WirePos' \in Nat
  BY <1>3, <1>4, RxPosNext, ReceiverAssumption DEF WirePos, TypeOK, wire
<1>9. Position'
  BY <1>8 DEF Position
<1> QED BY <1>5, <1>6, <1>7, <1>9

\* A transmission begins and switches the receiver off.
LEMMA TxBeginInv ==
  ASSUME IInv, TxBegin
  PROVE  IInv'
<1> USE DEF IInv
<1>1. TypeOK'
  BY DEF TxBegin, TypeOK, wire
<1>2. WireInv'
  BY DEF TxBegin, WireInv, LastSlot, wire
<1>3. RxShape' /\ Position'
  BY DEF TxBegin, RxShape, Position
<1> QED BY <1>1, <1>2, <1>3

\* A transmission ends.
LEMMA TxEndInv ==
  ASSUME IInv, TxEnd
  PROVE  IInv'
<1> USE DEF IInv
<1>1. RxPos' = RxPos /\ WirePos' = WirePos
  BY DEF TxEnd, RxPos, WirePos, wire
<1>2. TypeOK'
  BY ReceiverAssumption DEF TxEnd, TypeOK, wire
<1>3. WireInv'
  BY DEF TxEnd, WireInv, LastSlot, wire
<1>4. RxShape' /\ Position'
  BY <1>1 DEF TxEnd, RxShape, Position, wire
<1> QED BY <1>2, <1>3, <1>4

\* Nothing happens.
LEMMA StutterInv ==
  ASSUME IInv, UNCHANGED vars
  PROVE  IInv'
<1> USE DEF IInv
<1>1. RxPos' = RxPos /\ WirePos' = WirePos
  BY DEF vars, wire, RxPos, WirePos
<1>2. TypeOK' /\ WireInv'
  BY DEF vars, wire, TypeOK, WireInv, LastSlot
<1>3. RxShape' /\ Position'
  BY <1>1 DEF vars, wire, RxShape, Position
<1> QED BY <1>2, <1>3

(***************************************************************************)
(* The inductive invariant: the receiver is never ahead of the wire.       *)
(***************************************************************************)
THEOREM Invariance == Spec => []IInv
<1>1. IInv /\ [Next]_vars => IInv'
  <2> SUFFICES ASSUME IInv, [Next]_vars PROVE IInv'
    OBVIOUS
  <2>1. CASE BeginFrame BY <2>1, BeginFrameInv
  <2>2. CASE NextPulse BY <2>2, NextPulseInv
  <2>3. CASE Rise BY <2>3, RiseInv
  <2>4. CASE Abandon BY <2>4, AbandonInv
  <2>5. CASE ReceivePoll BY <2>5, ReceivePollInv
  <2>6. CASE TxBegin BY <2>6, TxBeginInv
  <2>7. CASE TxEnd BY <2>7, TxEndInv
  <2>8. CASE UNCHANGED vars BY <2>8, StutterInv
  <2> QED BY <2>1, <2>2, <2>3, <2>4, <2>5, <2>6, <2>7, <2>8 DEF Next
<1> QED BY <1>1, InitInv, PTL DEF Spec

(***************************************************************************)
(* The variables keep their types: in particular rx.byte never passes      *)
(* CEC_FRAME_MAX_LEN and rx.bit never passes 8 (cec_rx_isr).               *)
(***************************************************************************)
THEOREM TypeCorrect == Spec => []TypeOK
<1>1. IInv => TypeOK
  BY DEF IInv
<1> QED BY <1>1, Invariance, PTL

(***************************************************************************)
(* The ISR never stores a data bit outside rx.data, for all frames of at   *)
(* most CEC_FRAME_MAX_LEN bytes and any timing within its tolerances, even *)
(* where a poll in the middle of a frame makes it take a later bit for a   *)
(* start bit.                                                              *)
(***************************************************************************)
THEOREM BufferSafe == Spec => []StoresInsideTheBuffer
<1>1. IInv => StoresInsideTheBuffer
  <2> SUFFICES ASSUME IInv, rx.state = "DATA_HIGH", irq # {}
               PROVE  rx.byte < FrameMax /\ rx.bit < 8
    BY DEF StoresInsideTheBuffer
  <2>1. rx.byte < FrameMax
    BY ByteInside
  <2>2. rx.bit < 8
    BY DEF IInv, RxShape
  <2> QED BY <2>1, <2>2
<1> QED BY <1>1, Invariance, PTL
================================================================================
