------------------------ MODULE CecReceiverFrameProofs ------------------------
(***************************************************************************)
(* Theorems about what the receiver takes from the wire and what it does   *)
(* to it, on top of the invariant of CecReceiverProofs.                    *)
(*                                                                         *)
(* WholeInv follows a frame that nothing cuts into: the state of the ISR   *)
(* is that of the slot on the wire, and every pulse passes its tests.      *)
(* FrameInv is for all the others, of initiators whose bits do not alias:  *)
(* a reception that is past the start bit began with the start bit of the  *)
(* frame on the wire, counts its pulses exactly, and holds its bytes.  The *)
(* one exception is that of Position: a start bit taken for an ACK slot.   *)
(***************************************************************************)
EXTENDS CecReceiverProofs

(* The initiator's side.                                                       *)

\* The times of the pulse on the wire are those the initiator chose it from.
PulseInv ==
  /\ low /\ slot # 0 => lowUs \in LowTimes(blk, slot) /\ lowUs + highUs \in BitTotal
  /\ low /\ slot = 0 => lowUs + highUs \in StartTotal
  /\ slot = 0 => blk = 0

\* If the wire rose now, the next bit would not rise as a start bit does.
Apart == ~idle => \A l \in OneLow \cup ZeroLow : ~StartLowOk(highUs + l)

(* The receiver's side.                                                        *)

\* What is taken for a start bit is one, or will fail the test of its low time.
StartInv ==
  irq # {} /\ rx.state = "START_HIGH" =>
    /\ ~low => since = 0
    /\ low => \/ since = 0 /\ slot = 0
              \/ since = MaxSince
              \/ ~StartLowOk(since + lowUs)

\* The ISR is where the wire is.
Sync ==
  irq # {} =>
    /\ rx.state \in LowStates => ~low
    /\ rx.state = "DATA_LOW" => \/ rx.byte = blk /\ rx.bit = slot
                                \/ rx.byte = blk + 1 /\ rx.bit = 0 /\ slot = 10
    /\ rx.state = "DATA_HIGH" => rx.byte = blk /\ rx.bit + 1 = slot
    /\ rx.state = "EOM_LOW" => rx.byte = blk /\ rx.bit = 8 /\ slot = 8
    /\ rx.state \in {"EOM_HIGH", "ACK_LOW"} => rx.byte = blk + 1 /\ slot = 9
    /\ rx.state = "ACK_HIGH" /\ slot # 0 => rx.byte = blk + 1 /\ slot = 10

OfThisFrame ==
  /\ irq # {} /\ rx.state \in LowStates \cup HighStates
  /\ rx.state = "ACK_HIGH" => slot # 0

\* What was stored is what the frame on the wire says.
Received ==
  OfThisFrame =>
    /\ \A b \in 0..(rx.byte - 1) : rx.data[b] = frame.data[b]
    /\ \A i \in 0..(rx.bit - 1) : rx.data[rx.byte][i] = frame.data[rx.byte][i]

EomInv ==
  OfThisFrame /\ rx.state \in {"ACK_LOW", "ACK_HIGH"} => (rx.eom <=> blk = frame.len - 1)

\* What the ISR drives, it drives for the slot that is on the wire.
AckInv ==
  /\ AckNeverHitsData
  /\ driving /\ irq # {} => rx.state \in {"ACK_HIGH", "START_LOW"}

FrameInv ==
  IInv /\ PulseInv /\ Apart /\ StartInv /\ Sync /\ Received /\ EomInv /\ AckInv

(* A frame nothing cuts into.                                                  *)

LowState(s) ==
  CASE s = 0 -> "START_HIGH"
    [] s \in 1..8 -> "DATA_HIGH"
    [] s = 9 -> "EOM_HIGH"
    [] s = 10 -> "ACK_HIGH"

HighState(s) ==
  CASE s = 8 -> "EOM_LOW" [] s = 9 -> "ACK_LOW" [] OTHER -> "DATA_LOW"

WholeInv ==
  heard = "whole" /\ ~idle =>
    /\ irq # {}
    /\ low => since = 0 /\ rx.state = LowState(slot)
    /\ ~low => /\ rx.state = HighState(slot) /\ (rx.first <=> slot = 0)
               /\ since + highUs \in IF slot = 0 THEN StartTotal ELSE BitTotal
    /\ low /\ slot # 0 => ~rx.first
    /\ low /\ slot \in 1..9 => ~driving
    /\ rx.state = "DATA_LOW" => rx.bit = IF slot = 10 THEN 0 ELSE slot
    /\ rx.state = "DATA_HIGH" => rx.bit = slot - 1
    /\ rx.state \in {"ACK_LOW", "ACK_HIGH"} => (rx.eom <=> blk = frame.len - 1)

WInv == IInv /\ PulseInv /\ WholeInv

--------------------------------------------------------------------------------
(* What an edge does to the receiver, state by state.                          *)

FallIgnored(t) ==
  /\ "fall" \notin irq
  /\ rx' = rx /\ irq' = irq /\ since' = t /\ driving' = FALSE

FallStarts ==
  /\ irq # {} /\ rx.state = "START_LOW"
  /\ rx'.state = "START_HIGH" /\ irq' = {"rise"} /\ since' = 0 /\ driving' = FALSE

FallAborts(t) ==
  /\ irq # {} /\ rx.state \in {"DATA_LOW", "EOM_LOW"} /\ ~BitTimeOk(t)
  /\ irq' = {} /\ driving' = FALSE

FallData(t) ==
  /\ irq # {} /\ rx.state = "DATA_LOW" /\ BitTimeOk(t)
  /\ rx'.state = "DATA_HIGH" /\ ~rx'.first
  /\ rx'.byte = rx.byte /\ rx'.bit = rx.bit /\ rx'.data = rx.data
  /\ irq' = {"rise"} /\ since' = 0 /\ driving' = FALSE

FallEom(t) ==
  /\ irq # {} /\ rx.state = "EOM_LOW" /\ BitTimeOk(t)
  /\ rx'.state = "EOM_HIGH" /\ ~rx'.first
  /\ rx'.byte = rx.byte + 1 /\ rx'.bit = 0 /\ rx'.data = rx.data
  /\ irq' = {"rise"} /\ since' = 0 /\ driving' = FALSE

FallAck ==
  /\ irq # {} /\ rx.state = "ACK_LOW"
  /\ rx'.state = "ACK_HIGH" /\ rx'.first = rx.first /\ rx'.eom = rx.eom
  /\ rx'.byte = rx.byte /\ rx'.bit = rx.bit /\ rx'.data = rx.data
  /\ irq' = {"rise"} /\ since' = 0 /\ driving' = AddressedToUs

RiseIgnored(t) ==
  "rise" \notin irq /\ rx' = rx /\ irq' = irq /\ since' = t

\* The end of a low phase is taken for the beginning of a start bit.
RiseMistaken ==
  /\ irq # {} /\ rx.state = "START_LOW"
  /\ rx'.state = "START_HIGH" /\ irq' = {"rise"} /\ since' = 0

RiseAborts(t) ==
  /\ irq # {} /\ irq' = {}
  /\ \/ rx.state = "START_HIGH" /\ ~StartLowOk(t)
     \/ rx.state \in HighStates /\ ~IsOne(t) /\ ~IsZero(t)

RiseStart(t) ==
  /\ irq # {} /\ rx.state = "START_HIGH" /\ StartLowOk(t)
  /\ rx'.state = "DATA_LOW" /\ rx'.first /\ rx'.byte = 0 /\ rx'.bit = 0
  /\ irq' = {"fall"} /\ since' = t

RiseData(t) ==
  /\ irq # {} /\ rx.state = "DATA_HIGH"
  /\ \E v \in Bit :
       /\ IF v = 1 THEN IsOne(t) ELSE IsZero(t)
       /\ rx'.data = [rx.data EXCEPT ![rx.byte] = [rx.data[rx.byte] EXCEPT ![rx.bit] = v]]
  /\ rx'.state = IF rx.bit = 7 THEN "EOM_LOW" ELSE "DATA_LOW"
  /\ rx'.first = rx.first /\ rx'.byte = rx.byte /\ rx'.bit = rx.bit + 1
  /\ irq' = {"fall"} /\ since' = t

RiseEom(t) ==
  /\ irq # {} /\ rx.state = "EOM_HIGH" /\ (IsOne(t) \/ IsZero(t))
  /\ rx'.state = "ACK_LOW" /\ (rx'.eom <=> IsOne(t)) /\ rx'.first = rx.first
  /\ rx'.byte = rx.byte /\ rx'.bit = rx.bit /\ rx'.data = rx.data
  /\ irq' = {"fall"} /\ since' = t

RiseAck(t) ==
  /\ irq # {} /\ rx.state = "ACK_HIGH" /\ ~rx.eom /\ (IsOne(t) \/ IsZero(t))
  /\ rx'.state = "DATA_LOW" /\ rx'.first = rx.first
  /\ rx'.byte = rx.byte /\ rx'.bit = rx.bit /\ rx'.data = rx.data
  /\ irq' = {"fall"} /\ since' = t

RiseDone(t) ==
  /\ irq # {} /\ rx.state = "ACK_HIGH" /\ rx.eom /\ (IsOne(t) \/ IsZero(t))
  /\ rx'.frameReady /\ rx'.len = rx.byte /\ rx'.data = rx.data
  /\ irq' = {}

\* A falling edge does one of these, and reports no frame.
LEMMA FallCases ==
  ASSUME IInv, ~low, NEW t \in 0..MaxSince, FallingEdge(t)
  PROVE  /\ low' = TRUE /\ address' = address /\ main' = main
         /\ rx'.frameReady = rx.frameReady
         /\ FallIgnored(t) \/ FallStarts \/ FallAborts(t) \/ FallData(t) \/ FallEom(t) \/ FallAck
<1>1. /\ low' = TRUE /\ address' = address /\ main' = main /\ Edge("fall", t)
      /\ driving' = ("fall" \in irq /\ rx.state = "ACK_LOW" /\ AddressedToUs)
  BY DEF FallingEdge
<1>2. rx \in RxType /\ irq \subseteq {"rise", "fall"} /\ RxShape
  BY DEF IInv, TypeOK
<1>3. CASE "fall" \notin irq
  <2>1. rx' = rx /\ irq' = irq /\ since' = t
    BY <1>1, <1>3 DEF Edge
  <2>2. driving' = FALSE
    BY <1>1, <1>3
  <2> QED BY <1>1, <1>3, <2>1, <2>2 DEF FallIgnored
<1>4. CASE "fall" \in irq
  <2>1. Isr(t) /\ irq # {}
    BY <1>1, <1>4 DEF Edge
  <2>2. /\ irq' = IrqFor(rx'.state)
        /\ since' = IF rx'.state \in HighStates \cup {"START_HIGH"} THEN 0 ELSE t
    BY <2>1 DEF Isr, HighStates
  <2>3. rx.state \in {"START_LOW"} \cup LowStates
    BY <1>2, <1>4 DEF RxShape, RxType, RxStates, LowStates, HighStates
  <2>4. rx.state # "ACK_LOW" => driving' = FALSE
    BY <1>1
  <2>5. CASE rx.state = "START_LOW"
    <3>1. IsrStartLow
      BY <2>1, <2>5 DEF Isr, IsrStartHigh, IsrDataLow, IsrEomLow,
         IsrDataHigh, IsrEomHigh, IsrAckLow, IsrAckHigh
    <3>2. rx' = [rx EXCEPT !.state = "START_HIGH"]
      BY <3>1 DEF IsrStartLow
    <3>3. rx'.state = "START_HIGH" /\ rx'.frameReady = rx.frameReady
      BY <1>2, <3>2 DEF RxType
    <3>4. irq' = {"rise"} /\ since' = 0
      BY <2>2, <3>3, IrqForIs
    <3>5. FallStarts
      BY <2>1, <2>4, <2>5, <3>3, <3>4 DEF FallStarts
    <3> QED BY <1>1, <3>3, <3>5
  <2>6. CASE rx.state = "DATA_LOW"
    <3>1. IsrDataLow(t)
      BY <2>1, <2>6 DEF Isr, IsrStartLow, IsrStartHigh, IsrEomLow,
         IsrDataHigh, IsrEomHigh, IsrAckLow, IsrAckHigh
    <3>2. CASE BitTimeOk(t)
      <4>1. rx' = [rx EXCEPT !.state = "DATA_HIGH", !.first = FALSE]
        BY <3>1, <3>2 DEF IsrDataLow
      <4>2. /\ rx'.state = "DATA_HIGH" /\ rx'.first = FALSE /\ rx'.byte = rx.byte
            /\ rx'.bit = rx.bit /\ rx'.data = rx.data /\ rx'.frameReady = rx.frameReady
        BY <1>2, <4>1 DEF RxType
      <4>3. irq' = {"rise"} /\ since' = 0
        BY <2>2, <4>2, IrqForIs DEF HighStates
      <4>4. FallData(t)
        BY <2>1, <2>4, <2>6, <3>2, <4>2, <4>3 DEF FallData
      <4> QED BY <1>1, <4>2, <4>4
    <3>3. CASE ~BitTimeOk(t)
      <4>1. rx' = [rx EXCEPT !.state = "ABORT"]
        BY <3>1, <3>3 DEF IsrDataLow, Abort
      <4>2. rx'.state = "ABORT" /\ rx'.frameReady = rx.frameReady
        BY <1>2, <4>1 DEF RxType
      <4>3. irq' = {}
        BY <2>2, <4>2, IrqForIs
      <4>4. FallAborts(t)
        BY <2>1, <2>4, <2>6, <3>3, <4>3 DEF FallAborts
      <4> QED BY <1>1, <4>2, <4>4
    <3> QED BY <3>2, <3>3
  <2>7. CASE rx.state = "EOM_LOW"
    <3>1. IsrEomLow(t)
      BY <2>1, <2>7 DEF Isr, IsrStartLow, IsrStartHigh, IsrDataLow,
         IsrDataHigh, IsrEomHigh, IsrAckLow, IsrAckHigh
    <3>2. CASE BitTimeOk(t)
      <4>1. rx' = [rx EXCEPT !.byte = @ + 1, !.bit = 0, !.first = FALSE, !.state = "EOM_HIGH"]
        BY <3>1, <3>2 DEF IsrEomLow
      <4>2. /\ rx'.state = "EOM_HIGH" /\ rx'.first = FALSE /\ rx'.byte = rx.byte + 1
            /\ rx'.bit = 0 /\ rx'.data = rx.data /\ rx'.frameReady = rx.frameReady
        BY <1>2, <4>1 DEF RxType
      <4>3. irq' = {"rise"} /\ since' = 0
        BY <2>2, <4>2, IrqForIs DEF HighStates
      <4>4. FallEom(t)
        BY <2>1, <2>4, <2>7, <3>2, <4>2, <4>3 DEF FallEom
      <4> QED BY <1>1, <4>2, <4>4
    <3>3. CASE ~BitTimeOk(t)
      <4>1. rx' = [rx EXCEPT !.byte = @ + 1, !.bit = 0, !.first = @, !.state = "ABORT"]
        BY <3>1, <3>3 DEF IsrEomLow
      <4>2. rx'.state = "ABORT" /\ rx'.frameReady = rx.frameReady
        BY <1>2, <4>1 DEF RxType
      <4>3. irq' = {}
        BY <2>2, <4>2, IrqForIs
      <4>4. FallAborts(t)
        BY <2>1, <2>4, <2>7, <3>3, <4>3 DEF FallAborts
      <4> QED BY <1>1, <4>2, <4>4
    <3> QED BY <3>2, <3>3
  <2>8. CASE rx.state = "ACK_LOW"
    <3>1. IsrAckLow
      BY <2>1, <2>8 DEF Isr, IsrStartLow, IsrStartHigh, IsrDataLow,
         IsrEomLow, IsrDataHigh, IsrEomHigh, IsrAckHigh
    <3>2. rx' = [rx EXCEPT !.state = "ACK_HIGH"]
      BY <3>1 DEF IsrAckLow
    <3>3. /\ rx'.state = "ACK_HIGH" /\ rx'.first = rx.first /\ rx'.eom = rx.eom
          /\ rx'.byte = rx.byte /\ rx'.bit = rx.bit /\ rx'.data = rx.data
          /\ rx'.frameReady = rx.frameReady
      BY <1>2, <3>2 DEF RxType
    <3>4. irq' = {"rise"} /\ since' = 0
      BY <2>2, <3>3, IrqForIs DEF HighStates
    <3>5. driving' = AddressedToUs
      BY <1>1, <1>4, <2>8 DEF AddressedToUs
    <3>6. FallAck
      BY <2>1, <2>8, <3>3, <3>4, <3>5 DEF FallAck
    <3> QED BY <1>1, <3>3, <3>6
  <2> QED BY <2>3, <2>5, <2>6, <2>7, <2>8 DEF LowStates
<1> QED BY <1>3, <1>4

\* A rising edge does one of these, and only the last of them reports a frame.
LEMMA RiseCases ==
  ASSUME IInv, NEW t \in 0..MaxSince, Edge("rise", t)
  PROVE  \/ RiseDone(t)
         \/ /\ rx'.frameReady = rx.frameReady
            /\ \/ RiseIgnored(t) \/ RiseMistaken \/ RiseAborts(t)
               \/ RiseStart(t) \/ RiseData(t) \/ RiseEom(t) \/ RiseAck(t)
<1>1. rx \in RxType /\ irq \subseteq {"rise", "fall"} /\ RxShape
  BY DEF IInv, TypeOK
<1>2. CASE "rise" \notin irq
  BY <1>2 DEF Edge, RiseIgnored
<1>3. CASE "rise" \in irq
  <2>1. Isr(t) /\ irq # {}
    BY <1>3 DEF Edge
  <2>2. /\ irq' = IrqFor(rx'.state)
        /\ since' = IF rx'.state \in HighStates \cup {"START_HIGH"} THEN 0 ELSE t
    BY <2>1 DEF Isr, HighStates
  <2>3. rx.state \in {"START_LOW", "START_HIGH"} \cup HighStates
    BY <1>1, <1>3 DEF RxShape, RxType, RxStates, LowStates, HighStates
  <2>4. rx'.state = "ABORT" => irq' = {}
    BY <2>2, IrqForIs
  <2>5. rx'.state \in LowStates => irq' = {"fall"} /\ since' = t
    BY <2>2, IrqForIs DEF LowStates, HighStates
  <2>6. ASSUME Abort
        PROVE  irq' = {} /\ rx'.frameReady = rx.frameReady
    <3>1. rx' = [rx EXCEPT !.state = "ABORT"]
      BY <2>6 DEF Abort
    <3>2. rx'.state = "ABORT" /\ rx'.frameReady = rx.frameReady
      BY <1>1, <3>1 DEF RxType
    <3> QED BY <2>4, <3>2
  <2>7. CASE rx.state = "START_LOW"
    <3>1. IsrStartLow
      BY <2>1, <2>7 DEF Isr, IsrStartHigh, IsrDataLow, IsrEomLow,
         IsrDataHigh, IsrEomHigh, IsrAckLow, IsrAckHigh
    <3>2. rx' = [rx EXCEPT !.state = "START_HIGH"]
      BY <3>1 DEF IsrStartLow
    <3>3. rx'.state = "START_HIGH" /\ rx'.frameReady = rx.frameReady
      BY <1>1, <3>2 DEF RxType
    <3>4. irq' = {"rise"} /\ since' = 0
      BY <2>2, <3>3, IrqForIs
    <3> QED BY <2>1, <2>7, <3>3, <3>4 DEF RiseMistaken
  <2>8. CASE rx.state = "START_HIGH"
    <3>1. IsrStartHigh(t)
      BY <2>1, <2>8 DEF Isr, IsrStartLow, IsrDataLow, IsrEomLow,
         IsrDataHigh, IsrEomHigh, IsrAckLow, IsrAckHigh
    <3>2. CASE ~StartLowOk(t)
      BY <2>1, <2>6, <2>8, <3>1, <3>2 DEF IsrStartHigh, RiseAborts
    <3>3. CASE StartLowOk(t)
      <4>1. rx' = [rx EXCEPT !.state = "DATA_LOW", !.first = TRUE, !.byte = 0, !.bit = 0]
        BY <3>1, <3>3 DEF IsrStartHigh
      <4>2. /\ rx'.state = "DATA_LOW" /\ rx'.first = TRUE /\ rx'.byte = 0 /\ rx'.bit = 0
            /\ rx'.frameReady = rx.frameReady
        BY <1>1, <4>1 DEF RxType
      <4>3. RiseStart(t)
        BY <2>1, <2>5, <2>8, <3>3, <4>2 DEF RiseStart, LowStates
      <4> QED BY <4>2, <4>3
    <3> QED BY <3>2, <3>3
  <2>9. CASE rx.state = "DATA_HIGH"
    <3>1. IsrDataHigh(t)
      BY <2>1, <2>9 DEF Isr, IsrStartLow, IsrStartHigh, IsrDataLow, IsrEomLow,
         IsrEomHigh, IsrAckLow, IsrAckHigh
    <3>2. CASE ~IsOne(t) /\ ~IsZero(t)
      BY <2>1, <2>6, <2>9, <3>1, <3>2 DEF IsrDataHigh, RiseAborts, HighStates
    <3>3. CASE IsOne(t) \/ IsZero(t)
      <4>1. PICK v \in Bit : (IF v = 1 THEN IsOne(t) ELSE IsZero(t)) /\ rx' = StoreBit(v)
        BY <3>1, <3>3 DEF IsrDataHigh, Bit
      <4>2. /\ rx'.data = [rx.data EXCEPT ![rx.byte] = [rx.data[rx.byte] EXCEPT ![rx.bit] = v]]
            /\ rx'.bit = rx.bit + 1 /\ rx'.byte = rx.byte /\ rx'.first = rx.first
            /\ rx'.frameReady = rx.frameReady
            /\ rx'.state = IF rx.bit + 1 > 7 THEN "EOM_LOW" ELSE "DATA_LOW"
        <5> DEFINE new == [rx.data EXCEPT ![rx.byte] = [rx.data[rx.byte] EXCEPT ![rx.bit] = v]]
        <5>1. rx' = [rx EXCEPT !.data = new, !.bit = rx.bit + 1,
                       !.state = IF rx.bit + 1 > 7 THEN "EOM_LOW" ELSE "DATA_LOW"]
          BY <1>1, <4>1 DEF StoreBit, RxType
        <5> HIDE DEF new
        <5>2. /\ rx'.data = new /\ rx'.bit = rx.bit + 1 /\ rx'.byte = rx.byte
              /\ rx'.first = rx.first /\ rx'.frameReady = rx.frameReady
              /\ rx'.state = IF rx.bit + 1 > 7 THEN "EOM_LOW" ELSE "DATA_LOW"
          BY <1>1, <5>1 DEF RxType
        <5> QED BY <5>2 DEF new
      <4>3. rx.bit \in 0..7
        BY <1>1, <2>1, <2>9 DEF RxShape, RxType
      <4>4. rx'.state = IF rx.bit = 7 THEN "EOM_LOW" ELSE "DATA_LOW"
        BY <4>2, <4>3
      <4>5. irq' = {"fall"} /\ since' = t
        BY <2>5, <4>4 DEF LowStates
      <4>6. RiseData(t)
        BY <2>1, <2>9, <4>1, <4>2, <4>4, <4>5 DEF RiseData
      <4> QED BY <4>2, <4>6
    <3> QED BY <3>2, <3>3
  <2>10. CASE rx.state = "EOM_HIGH"
    <3>1. IsrEomHigh(t)
      BY <2>1, <2>10 DEF Isr, IsrStartLow, IsrStartHigh, IsrDataLow, IsrEomLow,
         IsrDataHigh, IsrAckLow, IsrAckHigh
    <3>2. CASE ~IsOne(t) /\ ~IsZero(t)
      BY <2>1, <2>6, <2>10, <3>1, <3>2 DEF IsrEomHigh, RiseAborts, HighStates
    <3>3. CASE IsOne(t) \/ IsZero(t)
      <4>1. rx' = [rx EXCEPT !.eom = IsOne(t), !.state = "ACK_LOW"]
        BY <3>1, <3>3 DEF IsrEomHigh
      <4>2. PICK e : e = IsOne(t)
        OBVIOUS
      <4>3. rx' = [rx EXCEPT !.eom = e, !.state = "ACK_LOW"]
        BY <4>1, <4>2
      <4>4. /\ rx'.state = "ACK_LOW" /\ rx'.eom = e /\ rx'.first = rx.first
            /\ rx'.byte = rx.byte /\ rx'.bit = rx.bit /\ rx'.data = rx.data
            /\ rx'.frameReady = rx.frameReady
        BY <1>1, <4>3 DEF RxType
      <4>5. rx'.eom = IsOne(t)
        BY <4>2, <4>4
      <4>6. rx'.eom <=> IsOne(t)
        BY <4>5
      <4>7. RiseEom(t)
        BY <2>1, <2>5, <2>10, <3>3, <4>4, <4>6 DEF RiseEom, LowStates
      <4> QED BY <4>4, <4>7
    <3> QED BY <3>2, <3>3
  <2>11. CASE rx.state = "ACK_HIGH"
    <3>1. IsrAckHigh(t)
      BY <2>1, <2>11 DEF Isr, IsrStartLow, IsrStartHigh, IsrDataLow, IsrEomLow,
         IsrDataHigh, IsrEomHigh, IsrAckLow
    <3>2. CASE ~IsOne(t) /\ ~IsZero(t)
      BY <2>1, <2>6, <2>11, <3>1, <3>2 DEF IsrAckHigh, RiseAborts, HighStates
    <3>3. CASE (IsOne(t) \/ IsZero(t)) /\ rx.eom
      <4>1. rx' = [rx EXCEPT !.state = "END", !.len = rx.byte, !.frameReady = TRUE]
        BY <3>1, <3>3 DEF IsrAckHigh, FrameDone
      <4>2. /\ rx'.state = "END" /\ rx'.len = rx.byte /\ rx'.frameReady = TRUE
            /\ rx'.data = rx.data
        BY <1>1, <4>1 DEF RxType
      <4>3. irq' = {}
        BY <2>2, <4>2, IrqForIs
      <4> QED BY <2>1, <2>11, <3>3, <4>2, <4>3 DEF RiseDone
    <3>4. CASE (IsOne(t) \/ IsZero(t)) /\ ~rx.eom
      <4>1. rx' = [rx EXCEPT !.state = "DATA_LOW"]
        BY <3>1, <3>4 DEF IsrAckHigh
      <4>2. /\ rx'.state = "DATA_LOW" /\ rx'.first = rx.first
            /\ rx'.byte = rx.byte /\ rx'.bit = rx.bit /\ rx'.data = rx.data
            /\ rx'.frameReady = rx.frameReady
        BY <1>1, <4>1 DEF RxType
      <4>3. RiseAck(t)
        BY <2>1, <2>5, <2>11, <3>4, <4>2 DEF RiseAck, LowStates
      <4> QED BY <4>2, <4>3
    <3> QED BY <3>2, <3>3, <3>4
  <2> QED BY <2>3, <2>7, <2>8, <2>9, <2>10, <2>11 DEF HighStates
<1> QED BY <1>2, <1>3

--------------------------------------------------------------------------------
(* The steps of the initiator.                                                 *)

\* The times the initiator chooses from.
LEMMA TimingIs ==
  /\ \A x \in StartTotal : x \in 4300..4700
  /\ \A x \in OneLow : x \in 400..800
  /\ \A x \in ZeroLow : x \in 1300..1700
  /\ \A x \in BitTotal : x \in 2050..2750
  BY ReceiverAssumption

\* The low time of a pulse tells what the pulse is.
LEMMA LowTimesAre ==
  ASSUME frame \in Frames, NEW b \in 0..(frame.len - 1), NEW s \in 1..10,
         NEW l \in LowTimes(b, s)
  PROVE  /\ l \in OneLow \cup ZeroLow
         /\ IsOne(l) \/ IsZero(l)
         /\ s \in 1..8 => /\ frame.data[b][s - 1] \in Bit
                          /\ IF frame.data[b][s - 1] = 1 THEN IsOne(l) ELSE IsZero(l)
         /\ s = 9 => (IsOne(l) <=> b = frame.len - 1)
<1>1. \A x \in OneLow : IsOne(x) /\ ~IsZero(x) /\ x \in 400..1700
  <2> SUFFICES ASSUME NEW x \in OneLow PROVE IsOne(x) /\ ~IsZero(x) /\ x \in 400..1700
    OBVIOUS
  <2>1. x \in 400..800
    BY TimingIs
  <2>2. x \in Int /\ x >= 400 /\ x <= 800
    BY <2>1
  <2> QED BY <2>2 DEF IsOne, IsZero
<1>2. \A x \in ZeroLow : IsZero(x) /\ ~IsOne(x) /\ x \in 400..1700
  <2> SUFFICES ASSUME NEW x \in ZeroLow PROVE IsZero(x) /\ ~IsOne(x) /\ x \in 400..1700
    OBVIOUS
  <2>1. x \in 1300..1700
    BY TimingIs
  <2>2. x \in Int /\ x >= 1300 /\ x <= 1700
    BY <2>1
  <2> QED BY <2>2 DEF IsOne, IsZero
<1>3. CASE s \in 1..8
  <2>1. l \in IF frame.data[b][s - 1] = 1 THEN OneLow ELSE ZeroLow
    BY <1>3 DEF LowTimes
  <2>2. b \in 0..(FrameMax - 1) /\ s - 1 \in 0..7
    BY <1>3, FrameType, ReceiverAssumption
  <2>3. frame.data[b][s - 1] \in Bit
    BY <2>2, FrameType DEF Bytes
  <2> QED BY <1>1, <1>2, <1>3, <2>1, <2>3
<1>4. CASE s = 9
  <2>1. l \in IF b = frame.len - 1 THEN OneLow ELSE ZeroLow
    BY <1>4 DEF LowTimes
  <2> QED BY <1>1, <1>2, <1>4, <2>1
<1>5. CASE s = 10
  <2>1. l \in OneLow \cup ZeroLow
    BY <1>5 DEF LowTimes
  <2> QED BY <1>1, <1>2, <1>5, <2>1
<1> QED BY <1>3, <1>4, <1>5

\* A low time outside the start bit.
LEMMA LowRange ==
  ASSUME NEW l \in OneLow \cup ZeroLow
  PROVE  l \in Nat /\ l >= 400 /\ l <= 1700
<1>1. CASE l \in OneLow
  <2>1. l \in 400..800
    BY <1>1, TimingIs
  <2> QED BY <2>1
<1>2. CASE l \in ZeroLow
  <2>1. l \in 1300..1700
    BY <1>2, TimingIs
  <2> QED BY <2>1
<1> QED BY <1>1, <1>2

\* No low time is that of both bits, and none of a start bit.
LEMMA Distinct ==
  ASSUME NEW t \in Nat
  PROVE  /\ ~(IsOne(t) /\ IsZero(t))
         /\ t >= 3500 => ~IsOne(t) /\ ~IsZero(t)
         /\ StartLowOk(t) <=> t \in 3500..3900
  BY DEF IsOne, IsZero, StartLowOk

\* Measured times are capped, and the cap is outside every window.
LEMMA CapIs ==
  ASSUME NEW t \in Nat
  PROVE  /\ Cap(t) \in 0..MaxSince
         /\ t <= 4700 => Cap(t) = t
         /\ t > 4700 => Cap(t) > 4700
         /\ Cap(t) = t \/ Cap(t) = MaxSince
  BY ReceiverAssumption DEF Cap

\* What a new frame begins with.
LEMMA BeginFrameIs ==
  ASSUME IInv, BeginFrame
  PROVE  /\ idle /\ ~low /\ ~idle' /\ blk' = 0 /\ slot' = 0
         /\ lowUs' \in 3500..3900 /\ highUs' \in 0..1200
         /\ lowUs' + highUs' \in StartTotal
         /\ MaxSince \in 0..MaxSince /\ FallingEdge(MaxSince) /\ ~BitTimeOk(MaxSince)
         /\ heard' = IF rx.state = "START_LOW" /\ "fall" \in irq THEN "whole" ELSE "no"
<1>1. PICK l \in StartLow, total \in StartTotal : lowUs' = l /\ highUs' = total - l
  BY DEF BeginFrame
<1>2. l \in 3500..3900 /\ total \in 4300..4700
  BY ReceiverAssumption
<1>3. lowUs' + highUs' = total
  BY <1>1, <1>2
<1>4. ~low
  BY DEF IInv, WireInv, BeginFrame
<1>5. MaxSince \in 0..MaxSince /\ ~BitTimeOk(MaxSince)
  BY ReceiverAssumption DEF BitTimeOk
<1> QED BY <1>1, <1>2, <1>3, <1>4, <1>5 DEF BeginFrame

\* What the next pulse of a frame is.
LEMMA NextPulseIs ==
  ASSUME IInv, NextPulse
  PROVE  /\ ~idle /\ ~low /\ ~idle' /\ ~LastSlot
         /\ frame' = frame /\ frame \in Frames /\ heard' = heard
         /\ slot \in 0..10 /\ blk \in 0..(frame.len - 1)
         /\ slot' = IF slot = 10 THEN 1 ELSE slot + 1
         /\ blk' = IF slot = 10 THEN blk + 1 ELSE blk
         /\ slot' \in 1..10 /\ blk' \in 0..(frame.len - 1)
         /\ lowUs' \in LowTimes(blk', slot') /\ lowUs' + highUs' \in BitTotal
         /\ Cap(since + highUs) \in 0..MaxSince /\ FallingEdge(Cap(since + highUs))
<1>1. /\ ~idle /\ ~low /\ ~LastSlot /\ idle' = FALSE /\ frame' = frame /\ heard' = heard
      /\ slot \in 0..10 /\ frame \in Frames /\ since \in Nat /\ highUs \in Nat
  BY ReceiverAssumption DEF IInv, TypeOK, WireInv, NextPulse
<1>2. frame.len \in 1..FrameMax /\ blk \in 0..(frame.len - 1)
  BY FrameType, ReceiverAssumption DEF IInv, TypeOK, WireInv
<1>3. /\ slot' = IF slot = 10 THEN 1 ELSE slot + 1
      /\ blk' = IF slot = 10 THEN blk + 1 ELSE blk
      /\ FallingEdge(Cap(since + highUs))
  BY DEF NextPulse
<1>4. slot' \in 1..10 /\ blk' \in 0..(frame.len - 1)
  BY <1>1, <1>2, <1>3, ReceiverAssumption DEF LastSlot
<1>5. PICK l \in LowTimes(blk', slot'), total \in BitTotal : lowUs' = l /\ highUs' = total - l
  BY DEF NextPulse
<1>6. l \in Nat /\ total \in Nat
  <2>1. l \in OneLow \cup ZeroLow
    BY <1>1, <1>4, LowTimesAre
  <2>2. total \in 2050..2750
    BY TimingIs
  <2>3. l \in Nat
    BY <2>1, LowRange
  <2> QED BY <2>2, <2>3
<1>7. lowUs' + highUs' = total
  BY <1>5, <1>6
<1>8. Cap(since + highUs) \in 0..MaxSince
  BY <1>1, CapIs
<1> QED BY <1>1, <1>2, <1>3, <1>4, <1>5, <1>7, <1>8

\* What the end of a low phase is.
LEMMA RiseIs ==
  ASSUME IInv, PulseInv, Rise
  PROVE  /\ low /\ ~idle /\ low' = FALSE /\ (idle' <=> LastSlot) /\ driving' = FALSE
         /\ frame' = frame /\ blk' = blk /\ slot' = slot /\ lowUs' = lowUs
         /\ address' = address /\ main' = main /\ heard' = heard
         /\ frame \in Frames /\ slot \in 0..10 /\ blk \in 0..(frame.len - 1)
         /\ lowUs \in Nat /\ highUs \in Nat
         /\ slot = 0 => Held \in 3500..3900 /\ Held = lowUs
         /\ slot # 0 => /\ Held \in 400..1700 /\ (IsOne(Held) \/ IsZero(Held))
                        /\ lowUs + highUs <= 2750
         /\ Held = lowUs \/ (driving /\ Held = 1500 /\ lowUs < 1500)
         /\ highUs' = highUs - (Held - lowUs)
         /\ Cap(since + Held) \in 0..MaxSince /\ Edge("rise", Cap(since + Held))
         /\ since = 0 => Cap(since + Held) = Held
<1>1. /\ low /\ ~idle /\ low' = FALSE /\ (idle' <=> LastSlot) /\ driving' = FALSE
      /\ frame' = frame /\ blk' = blk /\ slot' = slot /\ lowUs' = lowUs
      /\ address' = address /\ main' = main /\ heard' = heard
      /\ highUs' = highUs - (Held - lowUs) /\ Edge("rise", Cap(since + Held))
  BY DEF Rise, IInv, WireInv
<1>2. frame \in Frames /\ slot \in 0..10 /\ blk \in 0..(frame.len - 1)
  BY FrameType, ReceiverAssumption DEF IInv, TypeOK, WireInv
<1>3. lowUs \in Nat /\ highUs \in Nat /\ since \in Nat
  BY ReceiverAssumption DEF IInv, TypeOK
<1>4. Held = lowUs \/ (driving /\ Held = 1500 /\ lowUs < 1500)
  BY DEF Held
<1>5. slot = 0 => Held \in 3500..3900 /\ Held = lowUs
  BY <1>1, <1>4 DEF IInv, WireInv
<1>6. ASSUME slot # 0
      PROVE  /\ Held \in 400..1700 /\ (IsOne(Held) \/ IsZero(Held))
             /\ lowUs + highUs <= 2750
  <2>1. lowUs \in LowTimes(blk, slot) /\ lowUs + highUs \in BitTotal /\ slot \in 1..10
    BY <1>1, <1>2, <1>6 DEF PulseInv
  <2>2. lowUs \in OneLow \cup ZeroLow /\ (IsOne(lowUs) \/ IsZero(lowUs))
    BY <1>2, <2>1, LowTimesAre
  <2>3. IsZero(1500)
    BY DEF IsZero
  <2>4. Held \in 400..1700 /\ (IsOne(Held) \/ IsZero(Held))
    <3>1. lowUs \in Nat /\ lowUs >= 400 /\ lowUs <= 1700
      BY <2>2, LowRange
    <3> QED BY <1>4, <2>2, <2>3, <3>1
  <2>5. lowUs + highUs <= 2750
    <3>1. lowUs + highUs \in 2050..2750
      BY <2>1, TimingIs
    <3> QED BY <3>1
  <2> QED BY <2>4, <2>5
<1>7. Held \in Nat /\ Held <= 4700
  <2>1. CASE slot = 0
    <3>1. Held \in 3500..3900
      BY <1>5, <2>1
    <3> QED BY <3>1
  <2>2. CASE slot # 0
    <3>1. Held \in 400..1700
      BY <1>6, <2>2
    <3> QED BY <3>1
  <2> QED BY <2>1, <2>2
<1>8. Cap(since + Held) \in 0..MaxSince
  BY <1>3, <1>7, CapIs
<1>9. since = 0 => Cap(since + Held) = Held
  BY <1>3, <1>7, CapIs
<1> QED BY <1>1, <1>2, <1>3, <1>4, <1>5, <1>6, <1>8, <1>9

\* The actions that leave the wire alone.
LEMMA WireSame ==
  ASSUME UNCHANGED wire
  PROVE  /\ frame' = frame /\ blk' = blk /\ slot' = slot /\ low' = low
         /\ lowUs' = lowUs /\ highUs' = highUs /\ idle' = idle
  BY DEF wire

\* The times of the pulse on the wire stay what they are.
LEMMA PulseNext ==
  ASSUME IInv, PulseInv, [Next]_vars
  PROVE  PulseInv'
<1>1. CASE BeginFrame
  BY <1>1, BeginFrameIs DEF PulseInv
<1>2. CASE NextPulse
  <2>1. slot' # 0 /\ frame' = frame
    BY <1>2, NextPulseIs
  <2>2. lowUs' \in LowTimes(blk', slot') /\ lowUs' + highUs' \in BitTotal
    BY <1>2, NextPulseIs
  <2>3. LowTimes(blk, slot)' = LowTimes(blk', slot')
    BY <2>1 DEF LowTimes
  <2> QED BY <2>1, <2>2, <2>3 DEF PulseInv
<1>3. CASE Rise
  <2>1. low' = FALSE /\ slot' = slot /\ blk' = blk
    BY <1>3, RiseIs
  <2> QED BY <2>1 DEF PulseInv
<1>4. CASE Abandon
  BY <1>4 DEF PulseInv, Abandon
<1>5. CASE UNCHANGED wire
  <2>1. LowTimes(blk, slot)' = LowTimes(blk, slot)
    BY <1>5, WireSame DEF LowTimes
  <2> QED BY <1>5, <2>1, WireSame DEF PulseInv
<1>6. ReceivePoll \/ TxBegin \/ TxEnd \/ UNCHANGED vars => UNCHANGED wire
  BY DEF ReceivePoll, TxBegin, TxEnd, vars
<1> QED BY <1>1, <1>2, <1>3, <1>4, <1>5, <1>6 DEF Next

--------------------------------------------------------------------------------
(* A frame nothing cuts into.                                                  *)

\* The states of the ISR that belong to a slot.
LEMMA SlotStates ==
  ASSUME NEW s \in 0..10
  PROVE  /\ HighState(s) = IF s = 8 THEN "EOM_LOW" ELSE IF s = 9 THEN "ACK_LOW" ELSE "DATA_LOW"
         /\ LowState(s) = IF s = 0 THEN "START_HIGH" ELSE IF s <= 8 THEN "DATA_HIGH"
                          ELSE IF s = 9 THEN "EOM_HIGH" ELSE "ACK_HIGH"
  BY DEF HighState, LowState

\* It begins.
LEMMA BeginFrameWhole ==
  ASSUME WInv, BeginFrame
  PROVE  WholeInv'
<1> USE DEF WInv
<1>1. SUFFICES ASSUME heard' = "whole" PROVE WholeInv'
  BY DEF WholeInv
<1>2. rx.state = "START_LOW" /\ "fall" \in irq /\ slot' = 0
  BY <1>1, BeginFrameIs
<1>3. /\ low' = TRUE
      /\ \/ FallIgnored(MaxSince) \/ FallStarts \/ FallAborts(MaxSince)
         \/ FallData(MaxSince) \/ FallEom(MaxSince) \/ FallAck
  <2>1. ~low /\ MaxSince \in 0..MaxSince /\ FallingEdge(MaxSince)
    BY BeginFrameIs
  <2> QED BY <2>1, FallCases
<1>4. FallStarts
  BY <1>2, <1>3 DEF FallIgnored, FallAborts, FallData, FallEom, FallAck
<1>5. rx'.state = "START_HIGH" /\ irq' = {"rise"} /\ since' = 0
  BY <1>4 DEF FallStarts
<1>6. LowState(slot') = "START_HIGH"
  BY <1>2, SlotStates
<1> QED BY <1>2, <1>3, <1>5, <1>6 DEF WholeInv, LowState

\* It goes on.
LEMMA NextPulseWhole ==
  ASSUME WInv, NextPulse
  PROVE  WholeInv'
<1> USE DEF WInv
<1>1. SUFFICES ASSUME heard' = "whole" PROVE WholeInv'
  BY DEF WholeInv
<1>2. /\ ~idle /\ ~low /\ heard = "whole" /\ frame' = frame /\ slot \in 0..10
      /\ slot' = IF slot = 10 THEN 1 ELSE slot + 1
      /\ blk' = IF slot = 10 THEN blk + 1 ELSE blk
      /\ slot' \in 1..10
  BY <1>1, NextPulseIs
<1>3. /\ irq # {} /\ rx.state = HighState(slot) /\ (rx.first <=> slot = 0)
      /\ since + highUs \in IF slot = 0 THEN StartTotal ELSE BitTotal
      /\ rx.state = "DATA_LOW" => rx.bit = IF slot = 10 THEN 0 ELSE slot
      /\ rx.state = "ACK_LOW" => (rx.eom <=> blk = frame.len - 1)
  BY <1>2 DEF WholeInv
<1>4. rx.state = IF slot = 8 THEN "EOM_LOW" ELSE IF slot = 9 THEN "ACK_LOW" ELSE "DATA_LOW"
  BY <1>2, <1>3, SlotStates
<1>5. irq = {"fall"}
  BY <1>3, <1>4 DEF IInv, RxShape, LowStates
<1> DEFINE t == Cap(since + highUs)
<1>6. BitTimeOk(t)
  <2>1. since + highUs \in IF slot = 0 THEN 4300..4700 ELSE 2050..2750
    BY <1>3, TimingIs
  <2>2. since + highUs \in Nat /\ since + highUs <= 4700
    BY <2>1
  <2>3. t = since + highUs
    BY <2>2, CapIs
  <2> QED BY <1>3, <2>1, <2>3 DEF BitTimeOk
<1> HIDE DEF t
<1>7. /\ low' = TRUE
      /\ FallIgnored(t) \/ FallStarts \/ FallAborts(t) \/ FallData(t) \/ FallEom(t) \/ FallAck
  BY <1>2, NextPulseIs, FallCases DEF t
<1>8. ~FallIgnored(t) /\ ~FallStarts /\ ~FallAborts(t)
  BY <1>4, <1>5, <1>6 DEF FallIgnored, FallStarts, FallAborts
<1>9. LowState(slot)' = LowState(slot')
  BY DEF LowState
<1>10. LowState(slot') = IF slot' <= 8 THEN "DATA_HIGH" ELSE IF slot' = 9 THEN "EOM_HIGH" ELSE "ACK_HIGH"
  BY <1>2, SlotStates
<1>11. CASE FallData(t)
  <2>1. /\ rx.state = "DATA_LOW" /\ rx'.state = "DATA_HIGH" /\ ~rx'.first
        /\ rx'.bit = rx.bit /\ irq' = {"rise"} /\ since' = 0 /\ driving' = FALSE
    BY <1>11 DEF FallData
  <2>2. slot' <= 8 /\ rx.bit = slot' - 1
    BY <1>2, <1>3, <1>4, <2>1
  <2> QED BY <1>2, <1>7, <1>9, <1>10, <2>1, <2>2 DEF WholeInv
<1>12. CASE FallEom(t)
  <2>1. /\ rx.state = "EOM_LOW" /\ rx'.state = "EOM_HIGH" /\ ~rx'.first
        /\ irq' = {"rise"} /\ since' = 0 /\ driving' = FALSE
    BY <1>12 DEF FallEom
  <2>2. slot' = 9
    BY <1>2, <1>4, <2>1
  <2> QED BY <1>7, <1>9, <1>10, <2>1, <2>2 DEF WholeInv
<1>13. CASE FallAck
  <2>1. /\ rx.state = "ACK_LOW" /\ rx'.state = "ACK_HIGH" /\ rx'.first = rx.first
        /\ rx'.eom = rx.eom /\ irq' = {"rise"} /\ since' = 0
    BY <1>13 DEF FallAck
  <2>2. slot' = 10 /\ slot = 9 /\ blk' = blk
    BY <1>2, <1>4, <2>1
  <2>3. ~rx'.first /\ (rx'.eom <=> blk' = frame'.len - 1)
    BY <1>2, <1>3, <2>1, <2>2
  <2> QED BY <1>7, <1>9, <1>10, <2>1, <2>2, <2>3 DEF WholeInv
<1> QED BY <1>7, <1>8, <1>11, <1>12, <1>13

\* The end of its low phases, of which the last reports it.
LEMMA RiseWhole ==
  ASSUME WInv, Rise
  PROVE  /\ WholeInv'
         /\ heard = "whole" /\ LastSlot => rx'.frameReady
<1> USE DEF WInv
<1>1. SUFFICES ASSUME heard = "whole"
               PROVE  WholeInv' /\ (LastSlot => rx'.frameReady)
  <2>1. heard' = heard
    BY RiseIs
  <2>2. heard # "whole" => WholeInv'
    BY <2>1 DEF WholeInv
  <2> QED BY <2>2
<1>2. /\ low /\ ~idle /\ low' = FALSE /\ (idle' <=> LastSlot) /\ frame' = frame
      /\ blk' = blk /\ slot' = slot /\ slot \in 0..10 /\ blk \in 0..(frame.len - 1)
      /\ frame \in Frames /\ lowUs \in Nat /\ highUs \in Nat
      /\ highUs' = highUs - (Held - lowUs)
  BY RiseIs
<1>3. /\ irq # {} /\ since = 0 /\ rx.state = LowState(slot)
      /\ slot # 0 => ~rx.first
      /\ slot \in 1..9 => ~driving
      /\ rx.state = "DATA_HIGH" => rx.bit = slot - 1
      /\ rx.state = "ACK_HIGH" => (rx.eom <=> blk = frame.len - 1)
  BY <1>1, <1>2 DEF WholeInv
<1>4. rx.state = IF slot = 0 THEN "START_HIGH" ELSE IF slot <= 8 THEN "DATA_HIGH"
                 ELSE IF slot = 9 THEN "EOM_HIGH" ELSE "ACK_HIGH"
  BY <1>2, <1>3, SlotStates
<1>5. irq = {"rise"} /\ (rx.state = "ACK_HIGH" => rx.bit = 0)
  BY <1>3, <1>4 DEF IInv, RxShape, HighStates
<1>6. /\ slot = 0 => Held \in 3500..3900
      /\ slot # 0 => Held \in 400..1700 /\ (IsOne(Held) \/ IsZero(Held))
      /\ Cap(since + Held) = Held /\ Held \in 0..MaxSince /\ Edge("rise", Held)
  BY <1>3, RiseIs
<1>7. slot = 9 => (IsOne(Held) <=> blk = frame.len - 1)
  <2> SUFFICES ASSUME slot = 9 PROVE IsOne(Held) <=> blk = frame.len - 1
    OBVIOUS
  <2>1. Held = lowUs
    BY <1>3, RiseIs
  <2>2. lowUs \in LowTimes(blk, 9)
    BY <1>2 DEF PulseInv
  <2> QED BY <1>2, <2>1, <2>2, LowTimesAre
<1>8. Held + highUs' \in IF slot = 0 THEN StartTotal ELSE BitTotal
  <2>1. lowUs + highUs \in IF slot = 0 THEN StartTotal ELSE BitTotal
    BY <1>2 DEF PulseInv
  <2>2. Held + highUs' = lowUs + highUs
    BY <1>2, <1>6
  <2> QED BY <2>1, <2>2
<1>9. \/ RiseDone(Held) \/ RiseIgnored(Held) \/ RiseMistaken \/ RiseAborts(Held)
      \/ RiseStart(Held) \/ RiseData(Held) \/ RiseEom(Held) \/ RiseAck(Held)
  BY <1>6, RiseCases
<1>10. ~RiseIgnored(Held) /\ ~RiseMistaken
  BY <1>4, <1>5 DEF RiseIgnored, RiseMistaken
<1>11. ~RiseAborts(Held)
  BY <1>4, <1>6 DEF RiseAborts, StartLowOk, HighStates
<1>12. HighState(slot)' = HighState(slot)
  BY <1>2 DEF HighState
<1>13. HighState(slot) = IF slot = 8 THEN "EOM_LOW" ELSE IF slot = 9 THEN "ACK_LOW" ELSE "DATA_LOW"
  BY <1>2, SlotStates
<1>14. LastSlot => rx.state = "ACK_HIGH" /\ rx.eom
  BY <1>3, <1>4 DEF LastSlot
<1>15. CASE RiseDone(Held)
  <2>1. rx.state = "ACK_HIGH" /\ rx.eom /\ rx'.frameReady
    BY <1>15 DEF RiseDone
  <2>2. LastSlot
    BY <1>2, <1>3, <1>4, <2>1 DEF LastSlot
  <2>3. idle'
    BY <1>2, <2>2
  <2> QED BY <2>1, <2>3 DEF WholeInv
<1>16. CASE RiseStart(Held)
  <2>1. /\ rx.state = "START_HIGH" /\ rx'.state = "DATA_LOW" /\ rx'.first /\ rx'.bit = 0
        /\ irq' = {"fall"} /\ since' = Held
    BY <1>16 DEF RiseStart
  <2>2. slot = 0
    BY <1>2, <1>4, <2>1
  <2>3. WholeInv'
    BY <1>2, <1>8, <1>12, <1>13, <2>1, <2>2 DEF WholeInv
  <2> QED BY <1>14, <2>1, <2>3
<1>17. CASE RiseData(Held)
  <2>1. /\ rx.state = "DATA_HIGH" /\ rx'.state = IF rx.bit = 7 THEN "EOM_LOW" ELSE "DATA_LOW"
        /\ rx'.first = rx.first /\ rx'.bit = rx.bit + 1
        /\ irq' = {"fall"} /\ since' = Held
    BY <1>17 DEF RiseData
  <2>2. slot \in 1..8 /\ rx.bit = slot - 1
    BY <1>2, <1>3, <1>4, <2>1
  <2>3. rx'.state = HighState(slot) /\ rx'.bit = slot
    BY <1>13, <2>1, <2>2
  <2>4. WholeInv'
    BY <1>2, <1>3, <1>8, <1>12, <1>13, <2>1, <2>2, <2>3 DEF WholeInv
  <2> QED BY <1>14, <2>1, <2>4
<1>18. CASE RiseEom(Held)
  <2>1. /\ rx.state = "EOM_HIGH" /\ rx'.state = "ACK_LOW" /\ (rx'.eom <=> IsOne(Held))
        /\ rx'.first = rx.first /\ irq' = {"fall"} /\ since' = Held
    BY <1>18 DEF RiseEom
  <2>2. slot = 9
    BY <1>2, <1>4, <2>1
  <2>3. WholeInv'
    BY <1>2, <1>3, <1>7, <1>8, <1>12, <1>13, <2>1, <2>2 DEF WholeInv
  <2> QED BY <1>14, <2>1, <2>3
<1>19. CASE RiseAck(Held)
  <2>1. /\ rx.state = "ACK_HIGH" /\ rx'.state = "DATA_LOW" /\ ~rx.eom
        /\ rx'.first = rx.first /\ rx'.bit = rx.bit
        /\ irq' = {"fall"} /\ since' = Held
    BY <1>19 DEF RiseAck
  <2>2. slot = 10
    BY <1>2, <1>4, <2>1
  <2>3. WholeInv'
    BY <1>2, <1>3, <1>5, <1>8, <1>12, <1>13, <2>1, <2>2 DEF WholeInv
  <2> QED BY <1>14, <2>1, <2>3
<1> QED BY <1>9, <1>10, <1>11, <1>15, <1>16, <1>17, <1>18, <1>19

\* Whatever the main thread does to it.
LEMMA MainWhole ==
  ASSUME WInv, Abandon \/ ReceivePoll \/ TxBegin \/ TxEnd \/ UNCHANGED vars
  PROVE  WholeInv'
<1> USE DEF WInv
<1>1. CASE Abandon
  BY <1>1 DEF Abandon, WholeInv
<1>2. CASE ReceivePoll
  <2>1. heard' = "whole" => idle'
    BY <1>2 DEF ReceivePoll, wire
  <2> QED BY <2>1 DEF WholeInv
<1>3. CASE TxBegin
  <2>1. heard' = "whole" => idle'
    BY <1>3 DEF TxBegin, wire
  <2> QED BY <2>1 DEF WholeInv
<1>4. CASE UNCHANGED <<wire, rx, since, irq, driving, heard>>
  <2>1. /\ frame' = frame /\ blk' = blk /\ slot' = slot /\ low' = low /\ highUs' = highUs
        /\ idle' = idle /\ rx' = rx /\ since' = since /\ irq' = irq
        /\ driving' = driving /\ heard' = heard
    BY <1>4 DEF wire
  <2>2. LowState(slot)' = LowState(slot) /\ HighState(slot)' = HighState(slot)
    BY <2>1 DEF LowState, HighState
  <2> QED BY <2>1, <2>2 DEF WholeInv
<1>5. TxEnd \/ UNCHANGED vars => UNCHANGED <<wire, rx, since, irq, driving, heard>>
  BY DEF TxEnd, vars
<1> QED BY <1>1, <1>2, <1>3, <1>4, <1>5

\* The invariant of CecReceiverProofs, step by step.
LEMMA IInvNext ==
  ASSUME IInv, [Next]_vars
  PROVE  IInv'
<1>1. CASE BeginFrame BY <1>1, BeginFrameInv
<1>2. CASE NextPulse BY <1>2, NextPulseInv
<1>3. CASE Rise BY <1>3, RiseInv
<1>4. CASE Abandon BY <1>4, AbandonInv
<1>5. CASE ReceivePoll BY <1>5, ReceivePollInv
<1>6. CASE TxBegin BY <1>6, TxBeginInv
<1>7. CASE TxEnd BY <1>7, TxEndInv
<1>8. CASE UNCHANGED vars BY <1>8, StutterInv
<1> QED BY <1>1, <1>2, <1>3, <1>4, <1>5, <1>6, <1>7, <1>8 DEF Next

(***************************************************************************)
(* The ISR follows a frame that nothing cuts into, slot by slot.           *)
(***************************************************************************)
THEOREM WholeInvariance == Spec => []WInv
<1>1. Init => WInv
  <2> SUFFICES ASSUME Init PROVE WInv
    OBVIOUS
  <2>1. PulseInv /\ WholeInv
    BY DEF Init, PulseInv, WholeInv
  <2> QED BY <2>1, InitInv DEF WInv
<1>2. WInv /\ [Next]_vars => WInv'
  <2> SUFFICES ASSUME WInv, [Next]_vars PROVE WInv'
    OBVIOUS
  <2>1. IInv' /\ PulseInv'
    BY IInvNext, PulseNext DEF WInv
  <2>2. CASE BeginFrame BY <2>1, <2>2, BeginFrameWhole DEF WInv
  <2>3. CASE NextPulse BY <2>1, <2>3, NextPulseWhole DEF WInv
  <2>4. CASE Rise BY <2>1, <2>4, RiseWhole DEF WInv
  <2>5. CASE Abandon \/ ReceivePoll \/ TxBegin \/ TxEnd \/ UNCHANGED vars
    BY <2>1, <2>5, MainWhole DEF WInv
  <2> QED BY <2>2, <2>3, <2>4, <2>5 DEF Next
<1> QED BY <1>1, <1>2, PTL DEF Spec

(***************************************************************************)
(* A frame that was listened to from its start bit on, without a poll or a *)
(* transmission in between, is reported when it ends, for all frames and   *)
(* all timings within the receiver's tolerances, also where its own ACK    *)
(* lengthens the last pulse.                                               *)
(***************************************************************************)
THEOREM WholeFrameReported == Spec => UnpolledFrameIsReported
<1>1. WInv /\ [Next]_vars
        => [low /\ ~low' /\ LastSlot /\ heard = "whole" => rx'.frameReady]_vars
  <2> SUFFICES ASSUME WInv, [Next]_vars, low, ~low', LastSlot, heard = "whole"
               PROVE  rx'.frameReady
    OBVIOUS
  <2>1. Rise
    BY DEF Next, BeginFrame, NextPulse, Abandon, ReceivePoll, TxBegin, TxEnd,
       FallingEdge, vars, wire
  <2> QED BY <2>1, RiseWhole
<1> QED BY <1>1, WholeInvariance, PTL DEF Spec, UnpolledFrameIsReported

--------------------------------------------------------------------------------
(* Every frame, of initiators whose bits do not alias.                         *)

\* What is shorter than the start bit's low time is none.
LEMMA TooShort ==
  ASSUME NEW a \in Int, NEW b \in Int, a <= 1250, b <= 1700
  PROVE  ~StartLowOk(a + b)
<1>1. a + b <= 2950
  OBVIOUS
<1>2. a + b \in Int
  OBVIOUS
<1> QED BY <1>1, <1>2 DEF StartLowOk

\* The initiator's next bit never looks like a start bit from the last rise on.
LEMMA ApartNext ==
  ASSUME NoAliasing, IInv, PulseInv, Apart, [Next]_vars
  PROVE  Apart'
<1>1. CASE BeginFrame
  <2>1. highUs' \in 0..1200
    BY <1>1, BeginFrameIs
  <2>2. ASSUME NEW l \in OneLow \cup ZeroLow
        PROVE  ~StartLowOk(highUs' + l)
    <3>1. l \in Nat /\ l <= 1700
      BY LowRange
    <3>2. highUs' \in Int /\ highUs' <= 1250
      BY <2>1
    <3> QED BY <3>1, <3>2, TooShort
  <2> QED BY <2>2 DEF Apart
<1>2. CASE NextPulse
  <2>1. PICK h \in LowTimes(blk', slot'), total \in BitTotal : highUs' = total - h
    BY <1>2 DEF NextPulse
  <2>2. h \in OneLow \cup ZeroLow
    BY <1>2, NextPulseIs, LowTimesAre
  <2> QED BY <2>1, <2>2 DEF Apart, NoAliasing
<1>3. CASE Rise
  <2>1. CASE Held = lowUs
    <3>1. highUs' = highUs /\ ~idle
      BY <1>3, <2>1, RiseIs
    <3> QED BY <3>1 DEF Apart
  <2>2. CASE Held # lowUs
    <3>1. Held = 1500 /\ slot # 0 /\ lowUs + highUs <= 2750 /\ lowUs \in Nat /\ highUs \in Nat
          /\ highUs' = highUs - (Held - lowUs)
      BY <1>3, <2>2, RiseIs
    <3>2. highUs' \in Int /\ highUs' <= 1250
      BY <3>1
    <3>3. ASSUME NEW l \in OneLow \cup ZeroLow
          PROVE  ~StartLowOk(highUs' + l)
      <4>1. l \in Nat /\ l <= 1700
        BY LowRange
      <4> QED BY <3>2, <4>1, TooShort
    <3> QED BY <3>3 DEF Apart
  <2> QED BY <2>1, <2>2
<1>4. CASE Abandon
  BY <1>4 DEF Abandon, Apart
<1>5. CASE UNCHANGED wire
  BY <1>5, WireSame DEF Apart
<1>6. ReceivePoll \/ TxBegin \/ TxEnd \/ UNCHANGED vars => UNCHANGED wire
  BY DEF ReceivePoll, TxBegin, TxEnd, vars
<1> QED BY <1>1, <1>2, <1>3, <1>4, <1>5, <1>6 DEF Next

\* Where the receiver waits for a start bit, nothing is said of a frame.
LEMMA NoFrame ==
  ASSUME irq' # {} => rx'.state = "START_HIGH" \/ rx'.state = "START_LOW"
  PROVE  Sync' /\ Received' /\ EomInv'
<1>1. Sync'
  BY DEF Sync, LowStates
<1>2. ~OfThisFrame'
  BY DEF OfThisFrame, LowStates, HighStates
<1> QED BY <1>1, <1>2 DEF Received, EomInv

\* A falling edge the receiver ignores finds it in a start bit.
LEMMA IgnoredFall ==
  ASSUME IInv, ~low, NEW t, FallIgnored(t), irq # {}
  PROVE  rx.state = "START_HIGH" \/ rx.state = "START_LOW"
<1>1. rx.state \in RxStates /\ RxShape /\ "fall" \notin irq
  BY DEF IInv, TypeOK, RxType, FallIgnored
<1> QED BY <1>1 DEF RxShape, RxStates, LowStates, HighStates

\* A rising edge the receiver ignores does, too.
LEMMA IgnoredRise ==
  ASSUME IInv, Sync, low, NEW t, RiseIgnored(t), irq # {}
  PROVE  rx.state = "START_LOW"
<1>1. rx.state \in RxStates /\ RxShape /\ "rise" \notin irq
  BY DEF IInv, TypeOK, RxType, RiseIgnored
<1> QED BY <1>1 DEF Sync, RxShape, RxStates, LowStates, HighStates

\* A new frame: what the receiver still has of the last one is dropped.
LEMMA BeginFrameSync ==
  ASSUME FrameInv, BeginFrame
  PROVE  StartInv' /\ Sync' /\ Received' /\ EomInv' /\ AckInv'
<1> USE DEF FrameInv
<1>1. /\ ~low /\ slot' = 0 /\ MaxSince \in 0..MaxSince
      /\ FallingEdge(MaxSince) /\ ~BitTimeOk(MaxSince)
  BY BeginFrameIs
<1>2. /\ low' = TRUE
      /\ \/ FallIgnored(MaxSince) \/ FallStarts \/ FallAborts(MaxSince)
         \/ FallData(MaxSince) \/ FallEom(MaxSince) \/ FallAck
  BY <1>1, FallCases
<1>3. ~FallData(MaxSince) /\ ~FallEom(MaxSince)
  BY <1>1 DEF FallData, FallEom
<1>4. AckNeverHitsData'
  BY <1>1, <1>2 DEF AckNeverHitsData
<1>5. CASE FallIgnored(MaxSince)
  <2>1. rx' = rx /\ irq' = irq /\ since' = MaxSince /\ driving' = FALSE
    BY <1>5 DEF FallIgnored
  <2>2. irq' # {} => rx'.state = "START_HIGH" \/ rx'.state = "START_LOW"
    BY <1>1, <1>5, <2>1, IgnoredFall
  <2>3. StartInv'
    BY <1>2, <2>1 DEF StartInv
  <2> QED BY <1>4, <2>1, <2>2, <2>3, NoFrame DEF AckInv
<1>6. CASE FallStarts
  <2>1. rx'.state = "START_HIGH" /\ since' = 0 /\ driving' = FALSE
    BY <1>6 DEF FallStarts
  <2>2. StartInv'
    BY <1>1, <1>2, <2>1 DEF StartInv
  <2> QED BY <1>4, <2>1, <2>2, NoFrame DEF AckInv
<1>7. CASE FallAborts(MaxSince)
  <2>1. irq' = {}
    BY <1>7 DEF FallAborts
  <2>2. StartInv'
    BY <2>1 DEF StartInv
  <2> QED BY <1>4, <2>1, <2>2, NoFrame DEF AckInv
<1>8. CASE FallAck
  <2>1. rx'.state = "ACK_HIGH"
    BY <1>8 DEF FallAck
  <2>2. StartInv' /\ Sync'
    BY <1>1, <2>1 DEF StartInv, Sync, LowStates
  <2>3. ~OfThisFrame'
    BY <1>1, <2>1 DEF OfThisFrame
  <2>4. Received' /\ EomInv'
    BY <2>3 DEF Received, EomInv
  <2> QED BY <1>4, <2>1, <2>2, <2>4 DEF AckInv
<1> QED BY <1>2, <1>3, <1>5, <1>6, <1>7, <1>8

\* The same eight bits are the same byte.
LEMMA SameByte ==
  ASSUME NEW p \in Bytes, NEW q \in Bytes, \A i \in 0..7 : p[i] = q[i]
  PROVE  p = q
  BY DEF Bytes

\* The next pulse: the receiver counts it too, or gives up.
LEMMA NextPulseSync ==
  ASSUME FrameInv, NextPulse
  PROVE  StartInv' /\ Sync' /\ Received' /\ EomInv' /\ AckInv'
<1> USE DEF FrameInv
<1> DEFINE t == Cap(since + highUs)
<1>1. /\ ~idle /\ ~low /\ frame' = frame /\ frame \in Frames
      /\ slot \in 0..10 /\ blk \in 0..(frame.len - 1)
      /\ slot' = IF slot = 10 THEN 1 ELSE slot + 1
      /\ blk' = IF slot = 10 THEN blk + 1 ELSE blk
      /\ slot' \in 1..10 /\ blk' \in 0..(frame.len - 1)
      /\ t \in 0..MaxSince /\ FallingEdge(t)
  BY NextPulseIs
<1>2. lowUs' \in OneLow \cup ZeroLow
  <2>1. lowUs' \in LowTimes(blk', slot')
    BY NextPulseIs
  <2> QED BY <1>1, <2>1, LowTimesAre
<1>3. lowUs' \in Nat /\ lowUs' >= 400 /\ lowUs' <= 1700
  BY <1>2, LowRange
<1>4. since \in Nat /\ highUs \in Nat /\ rx \in RxType
  BY ReceiverAssumption DEF IInv, TypeOK
<1>5. t = since + highUs \/ t = MaxSince
  BY <1>4, CapIs
<1> HIDE DEF t
<1>6. /\ low' = TRUE /\ address' = address
      /\ FallIgnored(t) \/ FallStarts \/ FallAborts(t) \/ FallData(t) \/ FallEom(t) \/ FallAck
  BY <1>1, FallCases
<1>7. CASE FallIgnored(t)
  <2>1. rx' = rx /\ irq' = irq /\ since' = t /\ driving' = FALSE
    BY <1>7 DEF FallIgnored
  <2>2. irq' # {} => rx'.state = "START_HIGH" \/ rx'.state = "START_LOW"
    BY <1>1, <1>7, <2>1, IgnoredFall
  <2>3. StartInv'
    <3> SUFFICES ASSUME irq' # {}, rx'.state = "START_HIGH"
                 PROVE  since' = MaxSince \/ ~StartLowOk(since' + lowUs')
      BY <1>6 DEF StartInv
    <3>1. since = 0
      BY <1>1, <2>1 DEF StartInv
    <3>2. ~StartLowOk(highUs + lowUs')
      BY <1>1, <1>2 DEF Apart
    <3>3. CASE t = MaxSince BY <2>1, <3>3
    <3>4. CASE t = since + highUs
      <4>1. since' = highUs
        BY <1>4, <2>1, <3>1, <3>4
      <4> QED BY <3>2, <4>1
    <3> QED BY <1>5, <3>3, <3>4
  <2> QED BY <2>1, <2>2, <2>3, NoFrame DEF AckInv, AckNeverHitsData
<1>8. CASE FallStarts
  <2>1. rx'.state = "START_HIGH" /\ since' = 0 /\ driving' = FALSE
    BY <1>8 DEF FallStarts
  <2>2. ~StartLowOk(since' + lowUs')
    BY <1>3, <2>1, TooShort
  <2>3. StartInv'
    BY <1>6, <2>2 DEF StartInv
  <2> QED BY <2>1, <2>3, NoFrame DEF AckInv, AckNeverHitsData
<1>9. CASE FallAborts(t)
  <2>1. irq' = {} /\ driving' = FALSE
    BY <1>9 DEF FallAborts
  <2>2. StartInv'
    BY <2>1 DEF StartInv
  <2> QED BY <2>1, <2>2, NoFrame DEF AckInv, AckNeverHitsData
<1>10. CASE FallData(t)
  <2>1. /\ irq # {} /\ rx.state = "DATA_LOW" /\ rx'.state = "DATA_HIGH" /\ rx'.byte = rx.byte
        /\ rx'.bit = rx.bit /\ rx'.data = rx.data /\ driving' = FALSE
    BY <1>10 DEF FallData
  <2>2. \/ rx.byte = blk /\ rx.bit = slot
        \/ rx.byte = blk + 1 /\ rx.bit = 0 /\ slot = 10
    BY <2>1 DEF Sync
  <2>3. rx.bit < 8 /\ rx.bit \in Nat
    BY <1>4, <2>1 DEF IInv, RxShape, RxType
  <2>4. rx'.byte = blk' /\ rx'.bit + 1 = slot'
    BY <1>1, <2>1, <2>2, <2>3
  <2>5. Sync'
    BY <2>1, <2>4 DEF Sync, LowStates
  <2>6. Received'
    BY <1>1, <2>1 DEF Received, OfThisFrame, LowStates
  <2> QED BY <2>1, <2>5, <2>6 DEF StartInv, EomInv, AckInv, AckNeverHitsData
<1>11. CASE FallEom(t)
  <2>1. /\ irq # {} /\ rx.state = "EOM_LOW" /\ rx'.state = "EOM_HIGH"
        /\ rx'.byte = rx.byte + 1 /\ rx'.bit = 0 /\ rx'.data = rx.data /\ driving' = FALSE
    BY <1>11 DEF FallEom
  <2>2. rx.byte = blk /\ rx.bit = 8 /\ slot = 8
    BY <2>1 DEF Sync
  <2>3. rx'.byte = blk' + 1 /\ slot' = 9
    BY <1>1, <2>1, <2>2
  <2>4. Sync'
    BY <2>1, <2>3 DEF Sync, LowStates
  <2>5. OfThisFrame
    BY <2>1 DEF OfThisFrame, LowStates
  <2>6. /\ \A b \in 0..(rx.byte - 1) : rx.data[b] = frame.data[b]
        /\ \A i \in 0..(rx.bit - 1) : rx.data[rx.byte][i] = frame.data[rx.byte][i]
    BY <2>5 DEF Received
  <2>7. rx.data[rx.byte] = frame.data[rx.byte]
    <3>1. rx.byte \in 0..(FrameMax - 1)
      BY <1>1, <2>2, FrameType, ReceiverAssumption
    <3>2. rx.data[rx.byte] \in Bytes /\ frame.data[rx.byte] \in Bytes
      BY <1>1, <1>4, <3>1, FrameType DEF RxType
    <3>3. \A i \in 0..7 : rx.data[rx.byte][i] = frame.data[rx.byte][i]
      BY <2>2, <2>6
    <3> QED BY <3>2, <3>3, SameByte
  <2>8. \A b \in 0..(rx'.byte - 1) : rx'.data[b] = frame'.data[b]
    BY <1>1, <2>1, <2>2, <2>6, <2>7
  <2>9. Received'
    BY <2>1, <2>8 DEF Received
  <2> QED BY <2>1, <2>4, <2>9 DEF StartInv, EomInv, AckInv, AckNeverHitsData
<1>12. CASE FallAck
  <2>1. /\ irq # {} /\ rx.state = "ACK_LOW" /\ rx'.state = "ACK_HIGH" /\ rx'.eom = rx.eom
        /\ rx'.byte = rx.byte /\ rx'.bit = rx.bit /\ rx'.data = rx.data
        /\ driving' = AddressedToUs
    BY <1>12 DEF FallAck
  <2>2. rx.byte = blk + 1 /\ slot = 9
    BY <2>1 DEF Sync
  <2>3. blk' = blk /\ slot' = 10
    BY <1>1, <2>2
  <2>4. StartInv' /\ Sync'
    BY <2>1, <2>2, <2>3 DEF StartInv, Sync, LowStates
  <2>5. OfThisFrame
    BY <2>1 DEF OfThisFrame, LowStates
  <2>6. Received'
    BY <1>1, <2>1, <2>5 DEF Received
  <2>7. EomInv'
    BY <1>1, <2>1, <2>3, <2>5 DEF EomInv
  <2>8. rx.data[0] = frame.data[0]
    BY <1>1, <2>2, <2>5 DEF Received
  <2>9. AddressedToUs => Dest(frame.data) = address /\ address # Broadcast
    BY <2>8 DEF AddressedToUs, Dest
  <2>10. Dest(frame.data)' = Dest(frame.data)
    BY <1>1 DEF Dest
  <2>11. AckInv'
    BY <1>6, <2>1, <2>3, <2>9, <2>10 DEF AckInv, AckNeverHitsData
  <2> QED BY <2>4, <2>6, <2>7, <2>11
<1> QED BY <1>6, <1>7, <1>8, <1>9, <1>10, <1>11, <1>12

\* A pulse that a state past the start bit accepts is one of a frame's bits.
LEMMA RiseInSync ==
  ASSUME FrameInv, Rise, irq # {}, rx.state \in HighStates, NEW t,
         t = Cap(since + Held), IsOne(t) \/ IsZero(t)
  PROVE  slot # 0 /\ t = Held
<1> USE DEF FrameInv
<1>1. since = 0
  BY DEF IInv, RxShape
<1>2. t = Held /\ (slot = 0 => Held \in 3500..3900)
  BY <1>1, RiseIs
<1>3. slot # 0
  BY <1>2, StartIsNoBit
<1> QED BY <1>2, <1>3

\* The end of a low phase: the receiver stores what the wire says.
LEMMA RiseSync ==
  ASSUME FrameInv, Rise
  PROVE  /\ StartInv' /\ Sync' /\ Received' /\ EomInv' /\ AckInv'
         /\ rx'.frameReady /\ ~rx.frameReady =>
              /\ LastSlot /\ low /\ ~low'
              /\ rx'.len = frame.len
              /\ \A b \in 0..(frame.len - 1) : rx'.data[b] = frame.data[b]
<1> USE DEF FrameInv
<1> DEFINE t == Cap(since + Held)
<1>1. /\ low /\ low' = FALSE /\ driving' = FALSE /\ frame' = frame /\ blk' = blk
      /\ slot' = slot /\ frame \in Frames /\ slot \in 0..10 /\ blk \in 0..(frame.len - 1)
      /\ t \in 0..MaxSince /\ Edge("rise", t)
  BY RiseIs
<1>2. ASSUME irq # {}, rx.state \in HighStates, IsOne(t) \/ IsZero(t)
      PROVE  slot # 0 /\ t = Held
  BY <1>2, RiseInSync
<1>3. rx.state \in {"START_HIGH", "DATA_HIGH", "EOM_HIGH"} /\ irq # {} => Held = lowUs
  <2>1. ~driving \/ irq = {} \/ rx.state \in {"ACK_HIGH", "START_LOW"}
    BY DEF AckInv
  <2>2. Held = lowUs \/ driving
    BY RiseIs
  <2> QED BY <2>1, <2>2
<1>4. lowUs \in Nat /\ since \in Nat /\ rx \in RxType /\ t \in Nat
  BY <1>1, ReceiverAssumption DEF IInv, TypeOK
<1>5. since + Held \in Nat => t = since + Held \/ t = MaxSince
  BY CapIs
<1> HIDE DEF t
<1>6. \/ RiseDone(t)
      \/ /\ rx'.frameReady = rx.frameReady
         /\ \/ RiseIgnored(t) \/ RiseMistaken \/ RiseAborts(t)
            \/ RiseStart(t) \/ RiseData(t) \/ RiseEom(t) \/ RiseAck(t)
  BY <1>1, RiseCases
<1>7. AckNeverHitsData'
  BY <1>1 DEF AckNeverHitsData
<1>8. AckInv'
  BY <1>1, <1>7 DEF AckInv
<1>9. CASE RiseIgnored(t)
  <2>1. rx' = rx /\ irq' = irq
    BY <1>9 DEF RiseIgnored
  <2>2. irq' # {} => rx'.state = "START_LOW"
    BY <1>1, <1>9, <2>1, IgnoredRise
  <2>3. StartInv'
    BY <2>2 DEF StartInv
  <2> QED BY <1>8, <2>1, <2>2, <2>3, NoFrame
<1>10. CASE RiseMistaken /\ rx'.frameReady = rx.frameReady
  <2>1. rx'.state = "START_HIGH" /\ since' = 0
    BY <1>10 DEF RiseMistaken
  <2>2. StartInv'
    BY <1>1, <2>1 DEF StartInv
  <2> QED BY <1>8, <1>10, <2>1, <2>2, NoFrame
<1>11. CASE RiseAborts(t) /\ rx'.frameReady = rx.frameReady
  <2>1. irq' = {}
    BY <1>11 DEF RiseAborts
  <2>2. StartInv'
    BY <2>1 DEF StartInv
  <2> QED BY <1>8, <1>11, <2>1, <2>2, NoFrame
<1>12. CASE RiseStart(t) /\ rx'.frameReady = rx.frameReady
  <2>1. /\ irq # {} /\ rx.state = "START_HIGH" /\ StartLowOk(t) /\ rx'.state = "DATA_LOW"
        /\ rx'.byte = 0 /\ rx'.bit = 0
    BY <1>12 DEF RiseStart
  <2>2. t \in 3500..3900 /\ t # MaxSince
    BY <2>1, ReceiverAssumption DEF StartLowOk
  <2>3. since + lowUs = since + Held
    BY <1>3, <2>1
  <2>4. since # MaxSince
    <3> SUFFICES ASSUME since = MaxSince PROVE FALSE
      OBVIOUS
    <3>1. since + lowUs > 4700
      BY <1>4, ReceiverAssumption
    <3>2. t > 4700
      BY <1>4, <2>3, <3>1, CapIs DEF t
    <3> QED BY <2>2, <3>2
  <2>5. t = since + lowUs
    BY <1>4, <1>5, <2>2, <2>3
  <2>6. slot = 0
    BY <1>1, <2>1, <2>4, <2>5 DEF StartInv
  <2>7. blk = 0
    BY <2>6 DEF PulseInv
  <2>8. Sync'
    BY <1>1, <2>1, <2>6, <2>7 DEF Sync, LowStates
  <2>9. Received'
    BY <2>1 DEF Received
  <2> QED BY <1>8, <1>12, <2>1, <2>8, <2>9 DEF StartInv, EomInv
<1>13. CASE RiseData(t) /\ rx'.frameReady = rx.frameReady
  <2>1. /\ irq # {} /\ rx.state = "DATA_HIGH"
        /\ rx'.state = IF rx.bit = 7 THEN "EOM_LOW" ELSE "DATA_LOW"
        /\ rx'.byte = rx.byte /\ rx'.bit = rx.bit + 1
    BY <1>13 DEF RiseData
  <2>2. PICK v \in Bit :
          /\ IF v = 1 THEN IsOne(t) ELSE IsZero(t)
          /\ rx'.data = [rx.data EXCEPT ![rx.byte] = [rx.data[rx.byte] EXCEPT ![rx.bit] = v]]
    BY <1>13 DEF RiseData
  <2>3. rx.byte = blk /\ rx.bit + 1 = slot /\ rx.bit \in 0..7
    BY <1>4, <2>1 DEF Sync, IInv, RxShape, RxType
  <2>4. slot \in 1..8 /\ rx.bit = slot - 1
    BY <1>1, <2>3
  <2>5. t = lowUs
    BY <1>2, <1>3, <2>1, <2>2 DEF HighStates
  <2>6. v = frame.data[blk][rx.bit]
    <3>1. lowUs \in LowTimes(blk, slot)
      BY <1>1, <2>4 DEF PulseInv
    <3>2. /\ frame.data[blk][slot - 1] \in Bit
          /\ IF frame.data[blk][slot - 1] = 1 THEN IsOne(t) ELSE IsZero(t)
      BY <1>1, <2>4, <2>5, <3>1, LowTimesAre
    <3>3. ~(IsOne(t) /\ IsZero(t))
      BY <1>4, Distinct
    <3>4. frame.data[blk][slot - 1] = v
      BY <2>2, <3>2, <3>3 DEF Bit
    <3> QED BY <2>4, <3>4
  <2>7. blk \in 0..(FrameMax - 1)
    BY <1>1, FrameType, ReceiverAssumption
  <2>8. OfThisFrame
    BY <2>1 DEF OfThisFrame, HighStates
  <2>9. /\ \A b \in 0..(rx.byte - 1) : rx.data[b] = frame.data[b]
        /\ \A i \in 0..(rx.bit - 1) : rx.data[rx.byte][i] = frame.data[rx.byte][i]
    BY <2>8 DEF Received
  <2>10. rx.data \in [0..(FrameMax - 1) -> Bytes] /\ rx.data[blk] \in Bytes
    BY <1>4, <2>7 DEF RxType
  <2>11. rx'.data[blk] = [rx.data[blk] EXCEPT ![rx.bit] = v]
    BY <2>2, <2>3, <2>7, <2>10
  <2>12. \A b \in 0..(rx'.byte - 1) : rx'.data[b] = frame'.data[b]
    BY <1>1, <2>1, <2>2, <2>3, <2>7, <2>9, <2>10
  <2>13. \A i \in 0..(rx'.bit - 1) : rx'.data[rx'.byte][i] = frame'.data[rx'.byte][i]
    <3> SUFFICES ASSUME NEW i \in 0..(rx'.bit - 1)
                 PROVE  rx'.data[blk][i] = frame.data[blk][i]
      BY <1>1, <2>1, <2>3
    <3>1. i \in 0..7
      BY <2>1, <2>3
    <3>2. CASE i = rx.bit
      <4>1. rx'.data[blk][i] = v
        BY <2>10, <2>11, <3>1, <3>2 DEF Bytes
      <4> QED BY <2>6, <3>2, <4>1
    <3>3. CASE i # rx.bit
      <4>1. i \in 0..(rx.bit - 1)
        BY <2>1, <2>3, <3>3
      <4>2. rx'.data[blk][i] = rx.data[blk][i]
        BY <2>10, <2>11, <3>1, <3>3 DEF Bytes
      <4> QED BY <2>3, <2>9, <4>1, <4>2
    <3> QED BY <3>2, <3>3
  <2>14. Received'
    BY <2>12, <2>13 DEF Received
  <2>15. Sync'
    BY <1>1, <2>1, <2>3, <2>4 DEF Sync, LowStates
  <2>16. rx'.state \in {"EOM_LOW", "DATA_LOW"}
    BY <2>1
  <2> QED BY <1>8, <1>13, <2>14, <2>15, <2>16 DEF StartInv, EomInv
<1>14. CASE RiseEom(t) /\ rx'.frameReady = rx.frameReady
  <2>1. /\ irq # {} /\ rx.state = "EOM_HIGH" /\ (IsOne(t) \/ IsZero(t))
        /\ rx'.state = "ACK_LOW" /\ (rx'.eom <=> IsOne(t))
        /\ rx'.byte = rx.byte /\ rx'.bit = rx.bit /\ rx'.data = rx.data
    BY <1>14 DEF RiseEom
  <2>2. rx.byte = blk + 1 /\ slot = 9
    BY <2>1 DEF Sync
  <2>3. t = lowUs
    BY <1>2, <1>3, <2>1 DEF HighStates
  <2>4. lowUs \in LowTimes(blk, 9)
    BY <1>1, <2>2 DEF PulseInv
  <2>5. IsOne(t) <=> blk = frame.len - 1
    BY <1>1, <2>3, <2>4, LowTimesAre
  <2>6. Sync'
    BY <1>1, <2>1, <2>2 DEF Sync, LowStates
  <2>7. EomInv'
    BY <1>1, <2>1, <2>5 DEF EomInv
  <2>8. OfThisFrame
    BY <2>1 DEF OfThisFrame, HighStates
  <2>9. Received'
    BY <1>1, <2>1, <2>8 DEF Received
  <2> QED BY <1>8, <1>14, <2>1, <2>6, <2>7, <2>9 DEF StartInv
<1>15. CASE RiseAck(t) /\ rx'.frameReady = rx.frameReady
  <2>1. /\ irq # {} /\ rx.state = "ACK_HIGH" /\ (IsOne(t) \/ IsZero(t))
        /\ rx'.state = "DATA_LOW"
        /\ rx'.byte = rx.byte /\ rx'.bit = rx.bit /\ rx'.data = rx.data
    BY <1>15 DEF RiseAck
  <2>2. slot # 0
    BY <1>2, <2>1 DEF HighStates
  <2>3. rx.byte = blk + 1 /\ slot = 10 /\ rx.bit = 0
    BY <2>1, <2>2 DEF Sync, IInv, RxShape
  <2>4. Sync'
    BY <1>1, <2>1, <2>3 DEF Sync, LowStates
  <2>5. OfThisFrame
    BY <2>1, <2>2 DEF OfThisFrame, HighStates
  <2>6. Received'
    BY <1>1, <2>1, <2>5 DEF Received
  <2> QED BY <1>8, <1>15, <2>1, <2>4, <2>6 DEF StartInv, EomInv
<1>16. CASE RiseDone(t)
  <2>1. /\ irq # {} /\ irq' = {} /\ rx.state = "ACK_HIGH" /\ rx.eom
        /\ (IsOne(t) \/ IsZero(t)) /\ rx'.len = rx.byte /\ rx'.data = rx.data
    BY <1>16 DEF RiseDone
  <2>2. slot # 0
    BY <1>2, <2>1 DEF HighStates
  <2>3. rx.byte = blk + 1 /\ slot = 10
    BY <2>1, <2>2 DEF Sync
  <2>4. OfThisFrame
    BY <2>1, <2>2 DEF OfThisFrame, HighStates
  <2>5. blk = frame.len - 1
    BY <2>1, <2>4 DEF EomInv
  <2>6. LastSlot /\ rx'.len = frame.len
    BY <1>1, <2>1, <2>3, <2>5, FrameType DEF LastSlot
  <2>7. \A b \in 0..(frame.len - 1) : rx'.data[b] = frame.data[b]
    BY <2>1, <2>3, <2>4, <2>5 DEF Received
  <2>8. StartInv'
    BY <2>1 DEF StartInv
  <2> QED BY <1>1, <1>8, <2>1, <2>6, <2>7, <2>8, NoFrame
<1> QED BY <1>6, <1>9, <1>10, <1>11, <1>12, <1>13, <1>14, <1>15, <1>16

\* What the main thread does, and an initiator that gives up.
LEMMA MainSync ==
  ASSUME FrameInv, Abandon \/ ReceivePoll \/ TxBegin \/ TxEnd \/ UNCHANGED vars
  PROVE  /\ StartInv' /\ Sync' /\ Received' /\ EomInv' /\ AckInv'
         /\ rx'.frameReady => rx.frameReady
<1> USE DEF FrameInv
<1>1. CASE ReceivePoll
  <2>1. rx' = [rx EXCEPT !.state = "START_LOW", !.frameReady = FALSE,
                         !.len = 0, !.data = Blank]
    BY <1>1 DEF ReceivePoll, RxStart
  <2>2. rx'.state = "START_LOW" /\ ~rx'.frameReady
    BY <2>1 DEF IInv, TypeOK, RxType
  <2>3. UNCHANGED <<wire, address, driving>>
    BY <1>1 DEF ReceivePoll
  <2>4. AckNeverHitsData'
    <3>1. Dest(frame.data)' = Dest(frame.data)
      BY <2>3, WireSame DEF Dest
    <3> QED BY <2>3, <3>1, WireSame DEF AckInv, AckNeverHitsData
  <2> QED BY <2>2, <2>4, NoFrame DEF StartInv, AckInv
<1>2. CASE TxBegin
  <2>1. irq' = {} /\ rx' = rx /\ UNCHANGED <<wire, address, driving>>
    BY <1>2 DEF TxBegin
  <2>2. AckNeverHitsData'
    <3>1. Dest(frame.data)' = Dest(frame.data)
      BY <2>1, WireSame DEF Dest
    <3> QED BY <2>1, <3>1, WireSame DEF AckInv, AckNeverHitsData
  <2> QED BY <2>1, <2>2, NoFrame DEF StartInv, AckInv
<1>3. CASE /\ UNCHANGED <<frame, blk, slot, low, lowUs, rx, since, irq, driving>>
           /\ address' = address \/ ~driving
  <2>1. /\ frame' = frame /\ blk' = blk /\ slot' = slot /\ low' = low /\ lowUs' = lowUs
        /\ rx' = rx /\ since' = since /\ irq' = irq /\ driving' = driving
    BY <1>3
  <2>2. StartInv' /\ Sync'
    BY <2>1 DEF StartInv, Sync
  <2>3. OfThisFrame' <=> OfThisFrame
    BY <2>1 DEF OfThisFrame
  <2>4. Received' /\ EomInv'
    BY <2>1, <2>3 DEF Received, EomInv
  <2>5. AckInv'
    <3>1. Dest(frame.data)' = Dest(frame.data)
      BY <2>1 DEF Dest
    <3> QED BY <1>3, <2>1, <3>1 DEF AckInv, AckNeverHitsData
  <2> QED BY <2>1, <2>2, <2>4, <2>5
<1>4. Abandon \/ TxEnd \/ UNCHANGED vars
        => /\ UNCHANGED <<frame, blk, slot, low, lowUs, rx, since, irq, driving>>
           /\ address' = address \/ ~driving
  BY DEF Abandon, TxEnd, vars, wire
<1> QED BY <1>1, <1>2, <1>3, <1>4

\* No falling edge reports a frame.
LEMMA FallSilent ==
  ASSUME IInv, BeginFrame \/ NextPulse
  PROVE  rx'.frameReady = rx.frameReady
<1>1. CASE BeginFrame
  <2>1. ~low /\ MaxSince \in 0..MaxSince /\ FallingEdge(MaxSince)
    BY <1>1, BeginFrameIs
  <2> QED BY <2>1, FallCases
<1>2. CASE NextPulse
  <2>1. /\ ~low /\ Cap(since + highUs) \in 0..MaxSince
        /\ FallingEdge(Cap(since + highUs))
    BY <1>2, NextPulseIs
  <2> QED BY <2>1, FallCases
<1> QED BY <1>1, <1>2

(***************************************************************************)
(* Of initiators whose bits do not alias, the receiver either counts the   *)
(* pulses of the frame on the wire exactly, or has dropped it.             *)
(***************************************************************************)
THEOREM FrameInvariance ==
  ASSUME NoAliasing
  PROVE  Spec => []FrameInv
<1>1. Init => FrameInv
  <2> SUFFICES ASSUME Init PROVE FrameInv
    OBVIOUS
  <2>1. rx.state = "START_LOW" /\ ~driving /\ idle /\ ~low /\ blk = 0
    BY DEF Init
  <2>2. PulseInv /\ Apart /\ StartInv /\ Sync /\ AckInv
    BY <2>1 DEF PulseInv, Apart, StartInv, Sync, AckInv, AckNeverHitsData, LowStates
  <2>3. ~OfThisFrame
    BY <2>1 DEF OfThisFrame, LowStates, HighStates
  <2>4. Received /\ EomInv
    BY <2>3 DEF Received, EomInv
  <2> QED BY <2>2, <2>4, InitInv DEF FrameInv
<1>2. FrameInv /\ [Next]_vars => FrameInv'
  <2> SUFFICES ASSUME FrameInv, [Next]_vars PROVE FrameInv'
    OBVIOUS
  <2>1. IInv' /\ PulseInv' /\ Apart'
    BY IInvNext, PulseNext, ApartNext, NoAliasing DEF FrameInv
  <2>2. CASE BeginFrame BY <2>1, <2>2, BeginFrameSync DEF FrameInv
  <2>3. CASE NextPulse BY <2>1, <2>3, NextPulseSync DEF FrameInv
  <2>4. CASE Rise BY <2>1, <2>4, RiseSync DEF FrameInv
  <2>5. CASE Abandon \/ ReceivePoll \/ TxBegin \/ TxEnd \/ UNCHANGED vars
    BY <2>1, <2>5, MainSync DEF FrameInv
  <2> QED BY <2>2, <2>3, <2>4, <2>5 DEF Next
<1> QED BY <1>1, <1>2, PTL DEF Spec

(***************************************************************************)
(* The ACK the ISR drives is in the ACK slot of a frame to this address or *)
(* under the start bit of the next frame, wherever polls, transmissions    *)
(* and initiators that give up cut into the reception.                     *)
(***************************************************************************)
THEOREM AckIsOurs ==
  ASSUME NoAliasing
  PROVE  Spec => []AckNeverHitsData
<1>1. FrameInv => AckNeverHitsData
  BY DEF FrameInv, AckInv
<1>2. Spec => []FrameInv
  BY FrameInvariance, NoAliasing
<1> QED BY <1>1, <1>2, PTL

(***************************************************************************)
(* A frame the ISR reports is the one that ends on the wire, with its      *)
(* length and all its bytes.                                               *)
(***************************************************************************)
THEOREM FrameIsOnTheWire ==
  ASSUME NoAliasing
  PROVE  Spec => AcceptsTheFrameOnTheWire
<1>1. FrameInv /\ [Next]_vars
        => [~rx.frameReady /\ rx'.frameReady =>
              /\ LastSlot /\ low /\ ~low'
              /\ rx'.len = frame.len
              /\ \A b \in 0..(frame.len - 1) : rx'.data[b] = frame.data[b]]_vars
  <2> SUFFICES ASSUME FrameInv, [Next]_vars, ~rx.frameReady, rx'.frameReady
               PROVE  /\ LastSlot /\ low /\ ~low'
                      /\ rx'.len = frame.len
                      /\ \A b \in 0..(frame.len - 1) : rx'.data[b] = frame.data[b]
    OBVIOUS
  <2>1. ~(BeginFrame \/ NextPulse)
    BY FallSilent DEF FrameInv
  <2>2. ~(Abandon \/ ReceivePoll \/ TxBegin \/ TxEnd \/ UNCHANGED vars)
    BY MainSync
  <2>3. Rise
    BY <2>1, <2>2 DEF Next
  <2> QED BY <2>3, RiseSync
<1>2. Spec => []FrameInv
  BY FrameInvariance, NoAliasing
<1> QED BY <1>1, <1>2, PTL DEF Spec, AcceptsTheFrameOnTheWire

================================================================================
