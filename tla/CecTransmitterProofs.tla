------------------------- MODULE CecTransmitterProofs -------------------------
(***************************************************************************)
(* Proofs about CecTransmitter, for every set of frames, any lateness of   *)
(* the alarm callbacks and any behaviour of the rest of the bus.           *)
(*                                                                         *)
(* The first invariant, TypeInv, holds whatever the callbacks do, also     *)
(* with one left over after a time-out.  The second, TxInv(L), is about    *)
(* the transmissions themselves and holds where no callback is more than L *)
(* late and the longest frame, with all the lateness the model allows,     *)
(* still fits into the 200 ms of the time-out: the hypothesis that         *)
(* cec_frame_send_raw relies on.                                           *)
(***************************************************************************)
EXTENDS CecTransmitter, TLAPS

--------------------------------------------------------------------------------
(* The frames of a poll.                                                       *)

LEMMA NibbleBits ==
  ASSUME NEW v \in 0..15
  PROVE  Nibble(v) = [i \in 0..3 |-> IF i = 0 THEN (v \div 8) % 2
                                     ELSE IF i = 1 THEN (v \div 4) % 2
                                     ELSE IF i = 2 THEN (v \div 2) % 2
                                     ELSE v % 2]
  <1>1. 2^3 = 8 /\ 2^2 = 4 /\ 2^1 = 2 /\ 2^0 = 1
    OBVIOUS
  <1>2. ASSUME NEW i \in 0..3
        PROVE  (v \div 2^(3 - i)) % 2 = IF i = 0 THEN (v \div 8) % 2
                                        ELSE IF i = 1 THEN (v \div 4) % 2
                                        ELSE IF i = 2 THEN (v \div 2) % 2
                                        ELSE v % 2
    <2>1. CASE i = 0  BY <1>1, <2>1
    <2>2. CASE i = 1  BY <1>1, <2>2
    <2>3. CASE i = 2  BY <1>1, <2>3
    <2>4. CASE i = 3  BY <1>1, <2>4
    <2> QED BY <2>1, <2>2, <2>3, <2>4
  <1> QED BY <1>2 DEF Nibble

LEMMA NibbleType ==
  ASSUME NEW v \in 0..15
  PROVE  Nibble(v) \in [0..3 -> Bit]
  <1>1. ASSUME NEW i \in 0..3 PROVE Nibble(v)[i] \in Bit
    BY NibbleBits DEF Bit
  <1> QED BY <1>1, NibbleBits

LEMMA CandidateType ==
  ASSUME NEW i \in 1..4
  PROVE  /\ Candidates[i] \in {4, 8, 11, 15}
         /\ Candidates[i] = Unregistered <=> i = 4
  BY DEF Candidates, Unregistered

LEMMA PollType ==
  ASSUME NEW a \in 0..15
  PROVE  PollMsg(a) \in Frame /\ PollMsg(a).len = 1
  <1>1. [i \in 0..7 |-> Nibble(a)[i % 4]] \in Bytes
    <2>1. ASSUME NEW i \in 0..7 PROVE Nibble(a)[i % 4] \in Bit
      BY NibbleType
    <2> QED BY <2>1 DEF Bytes
  <1>2. BlankByte \in Bytes
    BY DEF BlankByte, Bytes, Bit
  <1> QED BY <1>1, <1>2, TransmitterAssumption DEF PollMsg, Frame

\* A poll is addressed to the address it asks for.
LEMMA PollDest ==
  ASSUME NEW a \in {4, 8, 11, 15}
  PROVE  Dest(PollMsg(a)) = a
  <1>1. \A v \in 0..15 : /\ Nibble(v)[0] = (v \div 8) % 2
                         /\ Nibble(v)[1] = (v \div 4) % 2
                         /\ Nibble(v)[2] = (v \div 2) % 2
                         /\ Nibble(v)[3] = v % 2
    BY NibbleBits
  <1>2. PollMsg(a).data[0] = [i \in 0..7 |-> Nibble(a)[i % 4]]
    BY TransmitterAssumption DEF PollMsg
  <1> QED BY <1>1, <1>2 DEF Dest

--------------------------------------------------------------------------------
(* A step of the callback, on time or late.                                    *)

\* The callback runs, l after it was due.
Fires(l) ==
  /\ alarm # NoAlarm
  /\ l \in Nat
  /\ \/ l = 0 /\ late' = late
     \/ l \in Lateness /\ late < MaxLate /\ late' = late + 1
  /\ main = "sending" /\ ~tx.done => elapsed + alarm + l <= TimeoutUs
  /\ ackHigh # NoAlarm => elapsed + alarm + l <= ackHigh
  /\ Callback(alarm + l)
  /\ slipped' = (slipped \/ l > 200)
  /\ UNCHANGED <<mainVars, devices, talk, ackHigh, clash>>

LEMMA CallbackFires ==
  ASSUME TypeOK, CecTxAlarm \/ \E l \in Lateness : LateCecTxAlarm(l)
  PROVE  \E l \in Nat : Fires(l)
  <1>1. CASE CecTxAlarm
    <2>1. alarm + 0 = alarm /\ elapsed + alarm + 0 = elapsed + alarm
      BY <1>1 DEF TypeOK, CecTxAlarm
    <2>2. slipped' = (slipped \/ 0 > 200)
      BY <1>1 DEF TypeOK, CecTxAlarm
    <2>3. Fires(0)
      BY <1>1, <2>1, <2>2 DEF CecTxAlarm, Fires
    <2> QED BY <2>3
  <1>2. CASE \E l \in Lateness : LateCecTxAlarm(l)
    <2>1. PICK l \in Lateness : LateCecTxAlarm(l)
      BY <1>2
    <2>2. l \in Nat
      BY TransmitterAssumption
    <2>3. Fires(l)
      BY <2>1, <2>2 DEF LateCecTxAlarm, Fires
    <2> QED BY <2>2, <2>3
  <1> QED BY <1>1, <1>2

--------------------------------------------------------------------------------
(* Types, whatever the callbacks do.                                           *)

Started == {"START_LOW", "START_HIGH"}
Bits == {"DATA_LOW", "DATA_HIGH"}

(***************************************************************************)
(* A pending callback finds tx.byte and tx.bit in range: bit 255, to which *)
(* tx.bit wraps, is gone before the next data bit.                         *)
(***************************************************************************)
Shape ==
  alarm # NoAlarm =>
    /\ tx.state \in Started \cup Bits => tx.byte < tx.len /\ tx.bit \in 0..7
    /\ tx.state \notin Started \cup Bits => tx.byte \in 1..tx.len

TypeInv == TypeOK /\ Shape

TxType == [state : TxStates, byte : 0..FrameMax, bit : 0..7 \cup {255},
           len : 0..FrameMax, ack : BOOLEAN, broadcast : BOOLEAN, done : BOOLEAN]

\* The variables a callback changes.
CallbackTypeOK ==
  /\ tx \in TxType
  /\ alarm \in Nat \cup {NoAlarm} /\ elapsed \in Nat
  /\ drives \in BOOLEAN /\ acks \in BOOLEAN
  /\ pulses \in Nat /\ faithful \in BOOLEAN /\ heldThen \in BOOLEAN
  /\ acked \subseteq 0..(FrameMax - 1)

\* The variables it leaves to the main thread and to the environment.
MainTypeOK ==
  /\ main \in {"ready", "idle", "sending"}
  /\ op \in {"transmit", "claim"}
  /\ frame \in Frame
  /\ attempt \in Nat /\ retries \in Nat
  /\ cand \in 1..3 /\ idleHigh \in 0..6 /\ samples \in 0..20
  /\ address \in {0} \cup {4, 8, 11, 15}
  /\ result \in {"none", "ok", "nack"}
  /\ devices \subseteq {4, 8, 11}
  /\ talk \in Talks \cup {NoTalk} /\ ackHigh \in {NoAlarm} \cup AckRest /\ clash \in BOOLEAN
  /\ late \in 0..MaxLate /\ slipped \in BOOLEAN

LEMMA TypeParts == TypeOK <=> CallbackTypeOK /\ MainTypeOK
  BY DEF TypeOK, CallbackTypeOK, MainTypeOK, TxType

\* The fields that TxDataHigh counts.
LEMMA BitCount ==
  ASSUME NEW b \in 0..7
  PROVE  (b - 1) % 256 = IF b = 0 THEN 255 ELSE b - 1
  OBVIOUS

LEMMA CallbackType ==
  ASSUME TypeInv, NEW l \in Nat, Fires(l)
  PROVE  CallbackTypeOK' /\ Shape'
  <1> DEFINE s == alarm + l
             Wire == /\ elapsed \in Nat /\ drives \in BOOLEAN /\ acks \in BOOLEAN
                     /\ pulses \in Nat /\ faithful \in BOOLEAN /\ heldThen \in BOOLEAN
                     /\ acked \subseteq 0..(FrameMax - 1)
             Alarm == alarm \in Nat \cup {NoAlarm}
  <1>1. /\ s \in Nat /\ Callback(s)
        /\ CallbackTypeOK
    BY TypeParts DEF TypeInv, Fires, CallbackTypeOK, NoAlarm
  <1>2. FrameMax \in Nat
    BY TransmitterAssumption
  <1>3. Wire /\ tx \in TxType
    BY <1>1 DEF CallbackTypeOK
  <1>4. /\ tx.state \in {"START_LOW", "START_HIGH", "DATA_LOW", "DATA_HIGH"} =>
             tx.byte < tx.len /\ tx.bit \in 0..7
        /\ tx.state \notin {"START_LOW", "START_HIGH", "DATA_LOW", "DATA_HIGH"} =>
             tx.byte \in 1..tx.len
    BY DEF TypeInv, Shape, Fires, Started, Bits
  <1> HIDE DEF s, Wire, Alarm
  <1> SUFFICES tx' \in TxType /\ Wire' /\ Alarm' /\ Shape'
    BY DEF CallbackTypeOK, Wire, Alarm
  <1>5. CASE TxStartLow(s)
    <2>1. tx' \in TxType
      BY <1>5, <1>3 DEF TxStartLow, TxType, TxStates
    <2>4. Wire'
      <3>1. drives' = TRUE /\ elapsed' = elapsed + s
        BY <1>5 DEF TxStartLow, StartPulse
      <3>2. faithful' \in BOOLEAN
        BY <1>5 DEF TxStartLow, FallHistory
      <3>3. pulses' = pulses /\ heldThen' = heldThen /\ acks' = acks /\ acked' = acked
        BY <1>5 DEF TxStartLow, FallHistory
      <3> QED BY <1>1, <1>3, <3>1, <3>2, <3>3 DEF Wire
    <2>5. Alarm'
      BY <1>5, <1>1 DEF TxStartLow, StartPulse, Alarm, NoAlarm
    <2>6. Shape'
      BY <1>5, <1>3, <1>4 DEF TxStartLow, Shape, Started, Bits, TxType, TxStates
    <2> QED BY <2>1, <2>4, <2>5, <2>6
  <1>6. CASE TxStartHigh(s)
    <2>1. tx' \in TxType
      BY <1>6, <1>3 DEF TxStartHigh, TxType, TxStates
    <2>4. Wire'
      <3>1. drives' = FALSE /\ elapsed' = elapsed
        BY <1>6 DEF TxStartHigh, EndPulse
      <3>2. faithful' \in BOOLEAN
        BY <1>6 DEF TxStartHigh, FallHistory
      <3>3. pulses' = pulses /\ heldThen' = heldThen /\ acks' = acks /\ acked' = acked
        BY <1>6 DEF TxStartHigh, FallHistory
      <3> QED BY <1>1, <1>3, <3>1, <3>2, <3>3 DEF Wire
    <2>5. Alarm'
      BY <1>6, <1>1 DEF TxStartHigh, EndPulse, Until, Alarm, NoAlarm
    <2>6. Shape'
      BY <1>6, <1>3, <1>4 DEF TxStartHigh, Shape, Started, Bits, TxType, TxStates
    <2> QED BY <2>1, <2>4, <2>5, <2>6
  <1>7. CASE TxDataLow(s)
    <2>1. tx' \in TxType
      BY <1>7, <1>3 DEF TxDataLow, TxType, TxStates
    <2>4. Wire'
      <3>1. drives' = TRUE /\ elapsed' = elapsed + s
        BY <1>7 DEF TxDataLow, StartPulse
      <3>2. faithful' \in BOOLEAN
        BY <1>7 DEF TxDataLow, FallHistory
      <3>3. pulses' = pulses /\ heldThen' = heldThen /\ acks' = acks /\ acked' = acked
        BY <1>7 DEF TxDataLow, FallHistory
      <3> QED BY <1>1, <1>3, <3>1, <3>2, <3>3 DEF Wire
    <2>5. Alarm'
      BY <1>7, <1>1 DEF TxDataLow, StartPulse, Alarm, NoAlarm
    <2>6. Shape'
      BY <1>7, <1>3, <1>4 DEF TxDataLow, Shape, Started, Bits, TxType, TxStates
    <2> QED BY <2>1, <2>4, <2>5, <2>6
  <1>8. CASE TxDataHigh(s)
    <2>1. tx.bit \in 0..7 /\ (tx.bit - 1) % 256 = IF tx.bit = 0 THEN 255 ELSE tx.bit - 1
      BY <1>8, <1>4, BitCount DEF TxDataHigh
    <2>2. tx.byte + 1 \in 0..FrameMax /\ tx.byte < tx.len /\ tx.byte \in Nat /\ tx.len \in Nat
      BY <1>8, <1>2, <1>3, <1>4 DEF TxDataHigh, TxType
    <2>3. ASSUME tx.bit = 0 PROVE tx' \in TxType /\ Shape'
      <3>1. tx' = [tx EXCEPT !.bit = 255, !.byte = tx.byte + 1, !.state = "EOM_LOW"]
        <4>1. (tx.bit - 1) % 256 = 255
          BY <2>1, <2>3
        <4> QED BY <1>8, <2>3, <4>1 DEF TxDataHigh
      <3>2. tx' \in TxType
        <4>1. tx.byte + 1 \in 0..FrameMax
          BY <2>2
        <4>2. 255 \in 0..7 \cup {255}
          OBVIOUS
        <4>3. "EOM_LOW" \in TxStates
          BY DEF TxStates
        <4> QED BY <1>3, <3>1, <4>1, <4>2, <4>3, ZenonT(30) DEF TxType
      <3>3. tx'.state = "EOM_LOW" /\ tx'.byte = tx.byte + 1 /\ tx'.len = tx.len
        BY <1>3, <3>1 DEF TxType
      <3>4. tx'.byte \in 1..tx'.len /\ tx'.state \notin Started \cup Bits
        BY <2>2, <3>3 DEF Started, Bits
      <3>5. Shape'
        BY <3>2, <3>4 DEF Shape, Started, Bits
      <3> QED BY <3>2, <3>5
    <2>4. ASSUME tx.bit # 0 PROVE tx' \in TxType /\ Shape'
      <3>1. tx' = [tx EXCEPT !.bit = tx.bit - 1, !.byte = tx.byte, !.state = "DATA_LOW"]
        <4>1. (tx.bit - 1) % 256 = tx.bit - 1
          BY <2>1, <2>4
        <4>2. tx' = [tx EXCEPT !.bit = (tx.bit - 1) % 256,
                               !.byte = IF tx.bit = 0 THEN tx.byte + 1 ELSE tx.byte,
                               !.state = IF tx.bit = 0 THEN "EOM_LOW" ELSE "DATA_LOW"]
          BY <1>8 DEF TxDataHigh
        <4> QED BY <2>4, <4>1, <4>2
      <3>2. tx.bit - 1 \in 0..7
        BY <2>1, <2>4
      <3>3. tx' \in TxType
        BY <1>3, <3>1, <3>2 DEF TxType, TxStates
      <3>4. tx'.state = "DATA_LOW" /\ tx'.byte = tx.byte /\ tx'.len = tx.len /\ tx'.bit = tx.bit - 1
        BY <1>3, <3>1 DEF TxType
      <3>5. tx'.byte < tx'.len /\ tx'.bit \in 0..7 /\ tx'.state \in Started \cup Bits
        BY <2>2, <3>2, <3>4 DEF Started, Bits
      <3>6. Shape'
        BY <3>5 DEF Shape, Started, Bits
      <3> QED BY <3>3, <3>6
    <2>5. Wire'
      <3>1. drives' = FALSE /\ elapsed' = elapsed
        BY <1>8 DEF TxDataHigh, EndPulse
      <3>2. faithful' \in BOOLEAN
        BY <1>8 DEF TxDataHigh, RiseHistory
      <3>3. pulses' = pulses + 1 /\ heldThen' = heldThen /\ acks' = acks /\ acked' = acked
        BY <1>8 DEF TxDataHigh, RiseHistory
      <3>4. pulses' \in Nat
        <4>1. pulses \in Nat
          BY <1>3 DEF Wire
        <4> QED BY <3>3, <4>1
      <3> QED BY <1>3, <3>1, <3>2, <3>3, <3>4 DEF Wire
    <2>6. Alarm'
      BY <1>8, <1>1 DEF TxDataHigh, EndPulse, Until, Alarm, NoAlarm
    <2> QED BY <2>3, <2>4, <2>5, <2>6
  <1>9. CASE TxEomLow(s)
    <2>1. tx' \in TxType
      BY <1>9, <1>3 DEF TxEomLow, TxType, TxStates
    <2>4. Wire'
      <3>1. drives' = TRUE /\ elapsed' = elapsed + s
        BY <1>9 DEF TxEomLow, StartPulse
      <3>2. faithful' \in BOOLEAN
        BY <1>9 DEF TxEomLow, FallHistory
      <3>3. pulses' = pulses /\ heldThen' = heldThen /\ acks' = acks /\ acked' = acked
        BY <1>9 DEF TxEomLow, FallHistory
      <3> QED BY <1>1, <1>3, <3>1, <3>2, <3>3 DEF Wire
    <2>5. Alarm'
      BY <1>9, <1>1 DEF TxEomLow, StartPulse, Alarm, NoAlarm
    <2>6. Shape'
      BY <1>9, <1>3, <1>4 DEF TxEomLow, Shape, Started, Bits, TxType, TxStates
    <2> QED BY <2>1, <2>4, <2>5, <2>6
  <1>10. CASE TxEomHigh(s)
    <2>1. tx' \in TxType
      BY <1>10, <1>3 DEF TxEomHigh, TxType, TxStates
    <2>4. Wire'
      <3>1. drives' = FALSE /\ elapsed' = elapsed
        BY <1>10 DEF TxEomHigh, EndPulse
      <3>2. faithful' \in BOOLEAN
        BY <1>10 DEF TxEomHigh, RiseHistory
      <3>3. pulses' = pulses + 1 /\ heldThen' = heldThen /\ acks' = acks /\ acked' = acked
        BY <1>10 DEF TxEomHigh, RiseHistory
      <3>4. pulses' \in Nat
        <4>1. pulses \in Nat
          BY <1>3 DEF Wire
        <4> QED BY <3>3, <4>1
      <3> QED BY <1>3, <3>1, <3>2, <3>3, <3>4 DEF Wire
    <2>5. Alarm'
      BY <1>10, <1>1 DEF TxEomHigh, EndPulse, Until, Alarm, NoAlarm
    <2>6. Shape'
      BY <1>10, <1>3, <1>4 DEF TxEomHigh, Shape, Started, Bits, TxType, TxStates
    <2> QED BY <2>1, <2>4, <2>5, <2>6
  <1>11. CASE TxAckLow(s)
    <2>1. tx' \in TxType
      BY <1>11, <1>3 DEF TxAckLow, TxType, TxStates
    <2>2. acks' \in BOOLEAN
      <3>1. CASE frame.len = 1
        <4>1. acks' = (Dest(frame) \in devices)
          BY <1>11, <3>1 DEF TxAckLow, MayAck
        <4> QED BY <4>1
      <3>2. CASE frame.len # 1
        BY <1>11, <3>2 DEF TxAckLow, MayAck
      <3> QED BY <3>1, <3>2
    <2>3. tx.byte - 1 \in 0..(FrameMax - 1) /\ acked' \subseteq acked \cup {tx.byte - 1}
      BY <1>11, <1>2, <1>3, <1>4 DEF TxAckLow, TxType
    <2>4. Wire'
      <3>1. drives' = TRUE /\ elapsed' = elapsed + s
        BY <1>11 DEF TxAckLow, StartPulse
      <3>2. faithful' \in BOOLEAN
        BY <1>11 DEF TxAckLow, FallHistory
      <3>3. pulses' = pulses /\ heldThen' = heldThen
        BY <1>11 DEF TxAckLow, FallHistory
      <3> QED BY <1>1, <1>3, <2>2, <2>3, <3>1, <3>2, <3>3 DEF Wire
    <2>5. Alarm'
      BY <1>11, <1>1 DEF TxAckLow, StartPulse, Alarm, NoAlarm
    <2>6. Shape'
      BY <1>11, <1>3, <1>4 DEF TxAckLow, Shape, Started, Bits, TxType, TxStates
    <2> QED BY <2>1, <2>4, <2>5, <2>6
  <1>12. CASE TxAckHigh(s)
    <2>1. ASSUME tx.byte < tx.len PROVE tx' \in TxType /\ Shape'
      <3>1. tx' = [tx EXCEPT !.bit = 7, !.state = "DATA_LOW"]
        <4>1. ~(tx.byte >= tx.len)
          BY <1>2, <1>3, <2>1 DEF TxType
        <4> QED BY <1>12, <4>1 DEF TxAckHigh
      <3>2. tx' \in TxType
        <4>1. 7 \in 0..7 \cup {255} /\ "DATA_LOW" \in TxStates
          BY DEF TxStates
        <4> QED BY <1>3, <3>1, <4>1 DEF TxType
      <3>3. tx'.state = "DATA_LOW" /\ tx'.bit = 7 /\ tx'.byte = tx.byte /\ tx'.len = tx.len
        BY <1>3, <3>1 DEF TxType
      <3>4. tx'.byte < tx'.len /\ tx'.bit \in 0..7 /\ tx'.state \in Started \cup Bits
        BY <2>1, <3>3 DEF Started, Bits
      <3> QED BY <3>2, <3>4 DEF Shape, Started, Bits
    <2>2. ASSUME tx.byte >= tx.len PROVE tx' \in TxType /\ Shape'
      <3>1. tx' = [tx EXCEPT !.state = "ACK_WAIT"]
        BY <1>12, <1>2, <1>3, <2>2 DEF TxAckHigh, TxType
      <3>2. tx' \in TxType
        BY <1>3, <3>1 DEF TxType, TxStates
      <3>3. tx'.state = "ACK_WAIT" /\ tx'.byte = tx.byte /\ tx'.len = tx.len
        BY <1>3, <3>1 DEF TxType
      <3>4. tx.byte \in 1..tx.len
        BY <1>12, <1>4 DEF TxAckHigh
      <3>5. tx'.byte \in 1..tx'.len /\ tx'.state \notin Started \cup Bits
        BY <3>3, <3>4 DEF Started, Bits
      <3> QED BY <3>2, <3>5 DEF Shape, Started, Bits
    <2>3. tx' \in TxType /\ Shape'
      BY <1>2, <1>3, <2>1, <2>2 DEF TxType
    <2>4. EndPulse(s, 2400) \/ EndPulse(s, 1050)
      BY <1>12 DEF TxAckHigh
    <2>5. Wire'
      <3>1. drives' = FALSE /\ elapsed' = elapsed
        BY <1>12 DEF TxAckHigh, EndPulse
      <3>2. faithful' \in BOOLEAN
        BY <1>12 DEF TxAckHigh, RiseHistory
      <3>3. pulses' = pulses + 1 /\ heldThen' = heldThen /\ acks' = acks /\ acked' = acked
        BY <1>12 DEF TxAckHigh, RiseHistory
      <3>4. pulses' \in Nat
        <4>1. pulses \in Nat
          BY <1>3 DEF Wire
        <4> QED BY <3>3, <4>1
      <3> QED BY <1>3, <3>1, <3>2, <3>3, <3>4 DEF Wire
    <2>6. Alarm'
      BY <1>1, <2>4 DEF EndPulse, Until, Alarm, NoAlarm
    <2> QED BY <2>3, <2>5, <2>6
  <1>13. CASE TxAckWait(s)
    <2>1. heldThen' \in BOOLEAN
      BY <1>13 DEF TxAckWait
    <2>2. PICK a \in BOOLEAN : tx' = [tx EXCEPT !.ack = a, !.state = "END"]
      <3>1. SampleAck(s, heldThen') \in BOOLEAN
        BY <2>1 DEF SampleAck, WireLow
      <3>2. tx' = [tx EXCEPT !.ack = SampleAck(s, heldThen'), !.state = "END"]
        BY <1>13 DEF TxAckWait
      <3> QED BY <3>1, <3>2
    <2>3. tx' \in TxType
      <3>1. "END" \in TxStates
        BY DEF TxStates
      <3> QED BY <1>3, <2>2, <3>1, ZenonT(30) DEF TxType
    <2>4. Wire'
      BY <1>13, <1>3, <2>1 DEF TxAckWait, Wire
    <2>5. Alarm'
      BY <1>13, <1>1 DEF TxAckWait, Until, Alarm, NoAlarm
    <2>6. Shape'
      <3>1. tx'.state = "END" /\ tx'.byte = tx.byte /\ tx'.len = tx.len
        BY <1>3, <2>2 DEF TxType
      <3>2. tx.byte \in 1..tx.len
        BY <1>13, <1>4 DEF TxAckWait
      <3> QED BY <3>1, <3>2 DEF Shape, Started, Bits
    <2> QED BY <2>3, <2>4, <2>5, <2>6
  <1>14. CASE TxEnd
    <2>1. tx' \in TxType
      BY <1>14, <1>3 DEF TxEnd, TxType, TxStates
    <2>4. Wire'
      BY <1>14, <1>3 DEF TxEnd, Wire
    <2>5. Alarm'
      BY <1>14, <1>1 DEF TxEnd, Alarm, NoAlarm
    <2>6. Shape'
      BY <1>14, <1>3, <1>4 DEF TxEnd, Shape, Started, Bits, TxType, TxStates
    <2> QED BY <2>1, <2>4, <2>5, <2>6
  <1> QED BY <1>1, <1>5, <1>6, <1>7, <1>8, <1>9, <1>10, <1>11, <1>12, <1>13, <1>14 DEF Callback

LEMMA WaitForIdleType ==
  ASSUME NEW f \in Frame, NEW k \in Nat, WaitForIdle(f, k)
  PROVE  /\ main' \in {"ready", "idle", "sending"} /\ frame' \in Frame /\ attempt' \in Nat
         /\ idleHigh' \in 0..6 /\ samples' \in 0..20 /\ result' \in {"none", "ok", "nack"}
         /\ acks' \in BOOLEAN /\ elapsed' \in Nat /\ pulses' \in Nat /\ faithful' \in BOOLEAN
         /\ acked' \subseteq 0..(FrameMax - 1) /\ heldThen' \in BOOLEAN
         /\ clash' \in BOOLEAN /\ late' \in 0..MaxLate /\ slipped' \in BOOLEAN
         /\ talk' \in Talks \cup {NoTalk}
  <1>1. 0 \in 0..MaxLate
    BY TransmitterAssumption
  <1>2. /\ main' \in {"ready", "idle", "sending"} /\ frame' \in Frame /\ attempt' \in Nat
        /\ idleHigh' \in 0..6 /\ samples' \in 0..20 /\ result' \in {"none", "ok", "nack"}
        /\ elapsed' \in Nat /\ pulses' \in Nat /\ acked' \subseteq 0..(FrameMax - 1)
        /\ late' \in 0..MaxLate /\ talk' \in Talks \cup {NoTalk}
    BY <1>1 DEF WaitForIdle
  <1>3. /\ acks' \in BOOLEAN /\ faithful' \in BOOLEAN /\ heldThen' \in BOOLEAN
        /\ clash' \in BOOLEAN /\ slipped' \in BOOLEAN
    BY DEF WaitForIdle
  <1> QED BY <1>2, <1>3

LEMMA NextTypeInv ==
  ASSUME TypeInv, [Next]_vars
  PROVE  TypeInv'
  <1>1. TypeOK /\ Shape
    BY DEF TypeInv
  <1>2. FrameMax \in Nat \ {0} /\ Frames \subseteq Frame /\ Retries \subseteq Nat
    BY TransmitterAssumption
  <1>3. ASSUME TypeOK', tx'.len = tx.len, tx'.byte = tx.byte, tx'.bit = tx.bit,
               tx'.state = tx.state, alarm' = alarm
        PROVE  TypeInv'
    BY <1>1, <1>3 DEF TypeInv, Shape, Started, Bits, NoAlarm
  <1>4. CASE Transmit
    <2>1. PICK f \in Frames : WaitForIdle(f, 0)
      BY <1>4 DEF Transmit
    <2>2. TypeOK'
      BY <1>1, <1>2, <1>4, <2>1, WaitForIdleType DEF Transmit, TypeOK
    <2> QED BY <1>3, <1>4, <2>2 DEF Transmit
  <1>5. CASE Claim
    <2>1. PollMsg(Candidates[1]) \in Frame
      BY PollType, CandidateType
    <2>2. TypeOK'
      BY <1>1, <1>5, <2>1, WaitForIdleType DEF Claim, TypeOK
    <2> QED BY <1>3, <1>5, <2>2 DEF Claim
  <1>6. CASE IdleSample
    <2>1. PICK high \in Samples :
             IF high = 7 \/ 2400 * (samples + 1) > 50000
             THEN StartSending
             ELSE /\ idleHigh' = high /\ samples' = samples + 1
                  /\ UNCHANGED <<main, tx, alarm, drives, talk, ackHigh, clash>>
      BY <1>6 DEF IdleSample
    <2>2. UNCHANGED <<op, frame, attempt, retries, cand, address, result,
                      elapsed, acks, devices, pulses, faithful, acked, heldThen, late, slipped>>
      BY <1>6 DEF IdleSample
    <2>3. CASE StartSending
      <3>1. tx' \in TxType
        <4>1. frame.len \in 0..FrameMax
          BY <1>1, <1>2 DEF TypeOK, Frame
        <4> QED BY <1>2, <2>3, <4>1 DEF StartSending, TxType, TxStates
      <3>2. Shape'
        <4>1. frame.len \in 1..FrameMax
          BY <1>1, <1>2 DEF TypeOK, Frame
        <4>2. tx'.state = "START_LOW" /\ tx'.byte = 0 /\ tx'.bit = 7 /\ tx'.len = frame.len
          BY <2>3 DEF StartSending
        <4>3. tx'.byte < tx'.len /\ tx'.bit \in 0..7 /\ tx'.state \in Started \cup Bits
          BY <4>1, <4>2 DEF Started, Bits
        <4> QED BY <4>3 DEF Shape, Started, Bits
      <3>3. /\ main' = "sending" /\ idleHigh' = 0 /\ samples' = 0 /\ alarm' = 0
            /\ talk' = NoTalk /\ clash' \in BOOLEAN /\ drives' \in BOOLEAN
        BY <2>3 DEF StartSending
      <3>4. ackHigh' \in {NoAlarm} \cup AckRest
        BY <2>3 DEF StartSending
      <3> QED BY <1>1, <2>2, <3>1, <3>2, <3>3, <3>4 DEF TypeInv, TypeOK, TxType
    <2>4. CASE ~StartSending
      <3>1. /\ high # 7 /\ 2400 * (samples + 1) <= 50000
            /\ idleHigh' = high /\ samples' = samples + 1
            /\ UNCHANGED <<main, tx, alarm, drives, talk, ackHigh, clash>>
        BY <1>1, <2>1, <2>4 DEF TypeOK
      <3>2. idleHigh' \in 0..6 /\ samples' \in 0..20
        BY <1>1, <2>1, <3>1 DEF TypeOK, Samples
      <3>3. TypeOK'
        BY <1>1, <2>2, <3>1, <3>2 DEF TypeOK
      <3> QED BY <1>3, <3>1, <3>3
    <2> QED BY <2>3, <2>4
  <1>7. CASE TxTimeout
    <2>1. /\ tx' = [tx EXCEPT !.done = TRUE, !.ack = FALSE] /\ tx \in TxType
          /\ drives' = FALSE /\ alarm' = alarm
      BY <1>1, <1>7 DEF TxTimeout, TypeOK, TxType
    <2>2. tx' \in TxType
      BY <2>1, ZenonT(30) DEF TxType
    <2>3. /\ tx'.len = tx.len /\ tx'.byte = tx.byte /\ tx'.bit = tx.bit
          /\ tx'.state = tx.state
      BY <2>1 DEF TxType
    <2>4. UNCHANGED <<mainVars, elapsed, acks, devices, talk, ackHigh, history>>
      BY <1>7 DEF TxTimeout
    <2>5. TypeOK'
      <3>1. CallbackTypeOK /\ MainTypeOK
        BY <1>1, TypeParts
      <3>2. CallbackTypeOK'
        BY <2>1, <2>2, <2>4, <3>1 DEF CallbackTypeOK, history
      <3>3. MainTypeOK'
        BY <2>4, <3>1 DEF MainTypeOK, mainVars, history
      <3> QED BY <3>2, <3>3, TypeParts, PTL
    <2> QED BY <1>3, <2>1, <2>3, <2>5
  <1>8. CASE TransmitOk
    <2>1. TypeOK'
      BY <1>1, <1>8 DEF TransmitOk, TypeOK, Line, history
    <2> QED BY <1>3, <1>8, <2>1 DEF TransmitOk, Line
  <1>9. CASE TransmitRetry
    <2>1. WaitForIdle(frame, attempt + 1) /\ frame \in Frame /\ attempt + 1 \in Nat
      BY <1>1, <1>9 DEF TransmitRetry, TypeOK
    <2>2. TypeOK'
      BY <1>1, <1>9, <2>1, WaitForIdleType DEF TransmitRetry, TypeOK, Line
    <2> QED BY <1>3, <1>9, <2>2 DEF TransmitRetry, Line
  <1>10. CASE TransmitNack
    <2>1. TypeOK'
      BY <1>1, <1>10 DEF TransmitNack, TypeOK, Line, history
    <2> QED BY <1>3, <1>10, <2>1 DEF TransmitNack, Line
  <1>11. CASE ClaimNext
    <2>1. cand + 1 \in 1..3 /\ PollMsg(Candidates[cand + 1]) \in Frame
      <3>1. cand + 1 \in 1..4 /\ cand + 1 # 4
        BY <1>1, <1>11, CandidateType DEF ClaimNext, TypeOK
      <3> QED BY <3>1, CandidateType, PollType
    <2>2. WaitForIdle(PollMsg(Candidates[cand + 1]), 0)
      BY <1>11 DEF ClaimNext
    <2>3. TypeOK'
      BY <1>1, <1>11, <2>1, <2>2, WaitForIdleType DEF ClaimNext, TypeOK, Line
    <2> QED BY <1>3, <1>11, <2>3 DEF ClaimNext, Line
  <1>12. CASE ClaimDone
    <2>1. address' \in {0} \cup {4, 8, 11, 15}
      BY <1>1, <1>12, CandidateType DEF ClaimDone, TypeOK, Unregistered
    <2>2. TypeOK'
      BY <1>1, <1>12, <2>1 DEF ClaimDone, TypeOK, Line, history
    <2> QED BY <1>3, <1>12, <2>2 DEF ClaimDone, Line
  <1>13. CASE CecTxAlarm \/ \E l \in Lateness : LateCecTxAlarm(l)
    <2>1. PICK l \in Nat : Fires(l)
      BY <1>1, <1>13, CallbackFires
    <2>2. CallbackTypeOK' /\ Shape'
      BY <2>1, CallbackType
    <2>3. MainTypeOK'
      <3>1. MainTypeOK /\ Lateness \subseteq Nat /\ MaxLate \in Nat
        BY <1>1, TypeParts, TransmitterAssumption
      <3>2. late' \in 0..MaxLate
        BY <2>1, <3>1 DEF Fires, MainTypeOK
      <3>3. slipped' \in BOOLEAN
        BY <2>1 DEF Fires
      <3>4. UNCHANGED <<mainVars, devices, talk, ackHigh, clash>>
        BY <2>1 DEF Fires
      <3> QED BY <3>1, <3>2, <3>3, <3>4 DEF MainTypeOK, mainVars
    <2>4. TypeOK'
      BY <2>2, <2>3, TypeParts, PTL
    <2> QED BY <2>2, <2>4 DEF TypeInv
  <1>14. CASE AckHigh
    <2>1. TypeOK'
      <3>1. CallbackTypeOK /\ MainTypeOK
        BY <1>1, TypeParts
      <3>2. ackHigh' = NoAlarm /\ drives' = FALSE /\ faithful' \in BOOLEAN
        BY <1>14 DEF AckHigh
      <3>3. UNCHANGED <<mainVars, tx, alarm, elapsed, acks, devices, talk,
                        pulses, acked, heldThen, clash, late, slipped>>
        BY <1>14 DEF AckHigh
      <3>4. CallbackTypeOK'
        BY <3>1, <3>2, <3>3 DEF CallbackTypeOK
      <3>5. MainTypeOK'
        BY <3>1, <3>2, <3>3 DEF MainTypeOK, mainVars
      <3> QED BY <3>4, <3>5, TypeParts, PTL
    <2> QED BY <1>3, <1>14, <2>1 DEF AckHigh
  <1>15. CASE UNCHANGED vars
    <2>1. TypeOK'
      BY <1>1, <1>15 DEF TypeOK, vars, mainVars, history
    <2> QED BY <1>3, <1>15, <2>1 DEF vars
  <1> QED
    BY <1>4, <1>5, <1>6, <1>7, <1>8, <1>9, <1>10, <1>11, <1>12, <1>13, <1>14, <1>15
    DEF Next, MainStep

LEMMA InitTypeInv ==
  ASSUME Init
  PROVE  TypeInv
  <1>1. PollMsg(0) \in Frame
    BY PollType
  <1>2. TypeOK
    <2>1. CallbackTypeOK
      <3>1. tx \in TxType
        BY TransmitterAssumption DEF Init, TxType, TxStates
      <3> QED BY <3>1 DEF Init, CallbackTypeOK
    <2>2. MainTypeOK
      <3>1. devices \subseteq {4, 8, 11}
        <4>1. devices \in DeviceSets /\ DeviceSets \subseteq SUBSET {4, 8, 11}
          BY TransmitterAssumption DEF Init
        <4> QED BY <4>1
      <3>2. 0 \in 0..MaxLate
        BY TransmitterAssumption
      <3>3. /\ main = "ready" /\ op = "claim" /\ frame \in Frame /\ attempt = 0 /\ retries = 0
            /\ cand = 1 /\ idleHigh = 0 /\ samples = 0 /\ address = 0 /\ result = "none"
            /\ talk = NoTalk /\ ackHigh = NoAlarm /\ late = 0
        BY <1>1 DEF Init
      <3>4. clash \in BOOLEAN /\ slipped \in BOOLEAN
        BY DEF Init
      <3> QED BY <3>1, <3>2, <3>3, <3>4 DEF MainTypeOK
    <2> QED BY <2>1, <2>2, TypeParts
  <1>3. Shape
    BY DEF Init, Shape
  <1> QED BY <1>2, <1>3 DEF TypeInv

\* The callbacks leave every variable in its type, also one that is left over
\* from a transmission the time-out ended.
THEOREM TxTypeCorrect == Spec => []TypeOK
  <1>1. Spec => []TypeInv
    <2>1. TypeInv /\ [Next]_vars => TypeInv'
      BY NextTypeInv
    <2> QED BY <2>1, InitTypeInv, PTL DEF Spec
  <1>2. TypeInv => TypeOK
    BY DEF TypeInv
  <1> QED BY <1>1, <1>2, PTL

--------------------------------------------------------------------------------
(* The transmissions, where every frame fits into the time-out.                *)

Rises == {"DATA_HIGH", "EOM_HIGH", "ACK_HIGH"}
Sampled == {"ACK_WAIT", "END"}

\* The bound that FramesFit speaks of.
Fits(L) ==
  /\ L \in Nat
  /\ \A l \in Lateness : l <= L
  /\ \A n \in {1} \cup {f.len : f \in Frames} :
       FrameUs(n) + (MaxLate + 1) * L <= TimeoutUs

\* The history starts anew with every try.
Fresh ==
  main = "idle" =>
    /\ elapsed = 0 /\ pulses = 0 /\ faithful /\ acked = {} /\ ~heldThen
    /\ ~clash /\ late = 0 /\ ~slipped /\ ~acks

\* A callback is pending only during the transmission it belongs to.
Pending == alarm # NoAlarm => main = "sending" /\ ~tx.done

\* The adapter's own acknowledgement ends before the start bit does.
AckRestInv ==
  ackHigh # NoAlarm =>
    /\ main = "sending" /\ ~tx.done /\ clash
    /\ \/ tx.state = "START_LOW" /\ alarm = 0 /\ elapsed = 0
       \/ tx.state = "START_HIGH" /\ alarm = 3700

Released ==
  drives => /\ main = "sending" /\ ~tx.done
            /\ ackHigh # NoAlarm \/ tx.state \in Rises \cup {"START_HIGH"}

\* The struct tx is about the frame of this transmission.
OwnFrame == main = "sending" => tx.len = frame.len /\ tx.broadcast = (Dest(frame) = 15)

\* Where in the frame the callbacks are, and how many pulses they have made.
Position ==
  main = "sending" =>
    /\ tx.state \in Started => tx.byte = 0 /\ tx.bit = 7 /\ pulses = 0
    /\ tx.state \in Bits => /\ tx.byte < tx.len /\ tx.bit \in 0..7
                            /\ pulses = 10 * tx.byte + 7 - tx.bit
    /\ tx.state \in {"EOM_LOW", "EOM_HIGH"} =>
         tx.byte \in 1..tx.len /\ pulses = 10 * tx.byte - 2
    /\ tx.state \in {"ACK_LOW", "ACK_HIGH"} =>
         tx.byte \in 1..tx.len /\ pulses = 10 * tx.byte - 1
    /\ tx.state \in Sampled => tx.byte = tx.len /\ pulses = 10 * tx.byte

\* When the callback is due.
Due ==
  alarm # NoAlarm =>
    /\ tx.state = "START_LOW" => alarm = 0
    /\ tx.state = "START_HIGH" => alarm = 3700
    /\ tx.state = "DATA_HIGH" =>
         alarm = IF frame.data[tx.byte][7 - tx.bit] = 1 THEN 600 ELSE 1500
    /\ tx.state = "EOM_HIGH" => alarm = IF tx.byte < tx.len THEN 1500 ELSE 600
    /\ tx.state = "ACK_HIGH" => alarm = 600
    /\ tx.state = "ACK_WAIT" => alarm = 1050
    /\ tx.state \in {"DATA_LOW", "EOM_LOW", "ACK_LOW", "END"} =>
         alarm = IF pulses = 0 THEN 4500 ELSE 2400

\* How far the frame may have got: lateness moves every later pulse.
Clock(L) ==
  alarm # NoAlarm =>
    elapsed + (IF tx.state \in Rises THEN 0 ELSE IF pulses = 0 THEN 4500 ELSE 2400)
      <= 4500 + 2400 * pulses + late * L

\* What reached the wire is the frame so far.
Judged == main = "sending" /\ ~clash /\ ~slipped => faithful

\* Only a callback later than a receiver tolerates loses its alarm.
Lost ==
  main = "sending" /\ ~slipped => alarm # NoAlarm \/ (tx.done /\ tx.state = "END")

\* acks is about the byte before tx.byte, and acked about those before that.
AckedInv ==
  main = "sending" =>
    /\ tx.state \in {"EOM_LOW", "EOM_HIGH", "ACK_LOW"} => acked \subseteq 0..(tx.byte - 2)
    /\ acked \subseteq 0..(tx.byte - 1)
    /\ tx.state \in Sampled \cup {"ACK_HIGH"} =>
         /\ acks <=> (tx.byte - 1) \in acked
         /\ frame.len = 1 => acks = (Dest(frame) \in devices)

\* tx.ack is set by the sample alone, and means what it says.
Answer ==
  main = "sending" =>
    /\ tx.ack => /\ tx.state = "END"
                 /\ IF tx.broadcast THEN ~heldThen /\ (acks => slipped) ELSE heldThen \/ acks
    /\ tx.state = "END" /\ ~tx.ack /\ ~slipped =>
         IF tx.broadcast THEN heldThen \/ acks ELSE ~heldThen /\ ~acks

\* What is being sent.
Polls == op = "claim" /\ main # "ready" => frame = PollMsg(Candidates[cand])
FrameFits(L) == main # "ready" => FrameUs(frame.len) + (MaxLate + 1) * L <= TimeoutUs

TxInv(L) ==
  /\ TypeInv /\ Fresh /\ Pending /\ AckRestInv /\ Released
  /\ OwnFrame /\ Position /\ Due /\ Clock(L)
  /\ Judged /\ Lost /\ AckedInv /\ Answer /\ Polls /\ FrameFits(L)

--------------------------------------------------------------------------------
(* What each state of the callback does to the struct tx.                      *)

Moves(state, byte, bit) ==
  /\ tx'.state = state /\ tx'.byte = byte /\ tx'.bit = bit
  /\ tx'.len = tx.len /\ tx'.broadcast = tx.broadcast
  /\ tx'.ack = tx.ack /\ tx'.done = tx.done

LEMMA CallbackMoves ==
  ASSUME TypeInv, alarm # NoAlarm, NEW s \in Nat
  PROVE  /\ TxStartLow(s) => Moves("START_HIGH", tx.byte, tx.bit)
         /\ TxStartHigh(s) => Moves("DATA_LOW", tx.byte, tx.bit)
         /\ TxDataLow(s) => Moves("DATA_HIGH", tx.byte, tx.bit)
         /\ TxDataHigh(s) /\ tx.bit = 0 => Moves("EOM_LOW", tx.byte + 1, 255)
         /\ TxDataHigh(s) /\ tx.bit # 0 => Moves("DATA_LOW", tx.byte, tx.bit - 1)
         /\ TxEomLow(s) => Moves("EOM_HIGH", tx.byte, tx.bit)
         /\ TxEomHigh(s) => Moves("ACK_LOW", tx.byte, tx.bit)
         /\ TxAckLow(s) => Moves("ACK_HIGH", tx.byte, tx.bit)
         /\ TxAckHigh(s) /\ tx.byte < tx.len => Moves("DATA_LOW", tx.byte, 7)
         /\ TxAckHigh(s) /\ ~(tx.byte < tx.len) => Moves("ACK_WAIT", tx.byte, tx.bit)
         /\ TxAckWait(s) => /\ tx'.state = "END" /\ tx'.byte = tx.byte /\ tx'.bit = tx.bit
                            /\ tx'.len = tx.len /\ tx'.broadcast = tx.broadcast
                            /\ tx'.done = tx.done
                            /\ tx'.ack = SampleAck(s, heldThen')
         /\ TxEnd => /\ tx'.state = "END" /\ tx'.byte = tx.byte /\ tx'.bit = tx.bit
                     /\ tx'.len = tx.len /\ tx'.broadcast = tx.broadcast
                     /\ tx'.ack = tx.ack /\ tx'.done = TRUE
  <1>1. tx \in TxType
    BY DEF TypeInv, TypeOK, TxType
  <1>2. tx.state \in {"START_LOW", "START_HIGH", "DATA_LOW", "DATA_HIGH"} =>
          tx.byte < tx.len /\ tx.bit \in 0..7
    BY DEF TypeInv, Shape, Started, Bits
  <1>3. TxStartLow(s) => Moves("START_HIGH", tx.byte, tx.bit)
    BY <1>1 DEF TxStartLow, Moves, TxType
  <1>4. TxStartHigh(s) => Moves("DATA_LOW", tx.byte, tx.bit)
    BY <1>1 DEF TxStartHigh, Moves, TxType
  <1>5. TxDataLow(s) => Moves("DATA_HIGH", tx.byte, tx.bit)
    BY <1>1 DEF TxDataLow, Moves, TxType
  <1>6. ASSUME TxDataHigh(s)
        PROVE  IF tx.bit = 0 THEN Moves("EOM_LOW", tx.byte + 1, 255)
                             ELSE Moves("DATA_LOW", tx.byte, tx.bit - 1)
    <2>1. tx.bit \in 0..7 /\ (tx.bit - 1) % 256 = IF tx.bit = 0 THEN 255 ELSE tx.bit - 1
      BY <1>2, <1>6, BitCount DEF TxDataHigh
    <2>2. tx' = [tx EXCEPT !.bit = (tx.bit - 1) % 256,
                           !.byte = IF tx.bit = 0 THEN tx.byte + 1 ELSE tx.byte,
                           !.state = IF tx.bit = 0 THEN "EOM_LOW" ELSE "DATA_LOW"]
      BY <1>6 DEF TxDataHigh
    <2>3. /\ tx'.bit = (tx.bit - 1) % 256
          /\ tx'.byte = IF tx.bit = 0 THEN tx.byte + 1 ELSE tx.byte
          /\ tx'.state = IF tx.bit = 0 THEN "EOM_LOW" ELSE "DATA_LOW"
          /\ tx'.len = tx.len /\ tx'.broadcast = tx.broadcast
          /\ tx'.ack = tx.ack /\ tx'.done = tx.done
      BY <1>1, <2>2 DEF TxType
    <2> QED BY <2>1, <2>3 DEF Moves
  <1>7. TxEomLow(s) => Moves("EOM_HIGH", tx.byte, tx.bit)
    BY <1>1 DEF TxEomLow, Moves, TxType
  <1>8. TxEomHigh(s) => Moves("ACK_LOW", tx.byte, tx.bit)
    BY <1>1 DEF TxEomHigh, Moves, TxType
  <1>9. TxAckLow(s) => Moves("ACK_HIGH", tx.byte, tx.bit)
    BY <1>1 DEF TxAckLow, Moves, TxType
  <1>10. ASSUME TxAckHigh(s)
         PROVE  IF tx.byte < tx.len THEN Moves("DATA_LOW", tx.byte, 7)
                                    ELSE Moves("ACK_WAIT", tx.byte, tx.bit)
    <2>1. tx.byte \in Nat /\ tx.len \in Nat
      BY <1>1, TransmitterAssumption DEF TxType
    <2>2. IF tx.byte < tx.len THEN tx' = [tx EXCEPT !.bit = 7, !.state = "DATA_LOW"]
                              ELSE tx' = [tx EXCEPT !.state = "ACK_WAIT"]
      BY <1>10, <2>1 DEF TxAckHigh
    <2>3. CASE tx.byte < tx.len
      <3>1. tx' = [tx EXCEPT !.bit = 7, !.state = "DATA_LOW"]
        BY <2>2, <2>3
      <3>2. Moves("DATA_LOW", tx.byte, 7)
        BY <1>1, <3>1 DEF Moves, TxType
      <3> QED BY <2>3, <3>2
    <2>4. CASE ~(tx.byte < tx.len)
      BY <1>1, <2>2, <2>4 DEF Moves, TxType
    <2> QED BY <2>3, <2>4
  <1>11. ASSUME TxAckWait(s)
         PROVE  /\ tx'.state = "END" /\ tx'.byte = tx.byte /\ tx'.bit = tx.bit
                /\ tx'.len = tx.len /\ tx'.broadcast = tx.broadcast
                /\ tx'.done = tx.done
                /\ tx'.ack = SampleAck(s, heldThen')
    <2>1. tx' = [tx EXCEPT !.ack = SampleAck(s, heldThen'), !.state = "END"]
      BY <1>11 DEF TxAckWait
    <2> QED BY <1>1, <2>1 DEF TxType
  <1>12. ASSUME TxEnd
         PROVE  /\ tx'.state = "END" /\ tx'.byte = tx.byte /\ tx'.bit = tx.bit
                /\ tx'.len = tx.len /\ tx'.broadcast = tx.broadcast
                /\ tx'.ack = tx.ack /\ tx'.done = TRUE
    <2>1. tx' = [tx EXCEPT !.done = TRUE] /\ tx.state = "END"
      BY <1>12 DEF TxEnd
    <2> QED BY <1>1, <2>1 DEF TxType
  <1> QED BY <1>3, <1>4, <1>5, <1>6, <1>7, <1>8, <1>9, <1>10, <1>11, <1>12

LEMMA FiresFacts ==
  ASSUME TypeInv, Pending, NEW l \in Nat, Fires(l)
  PROVE  /\ alarm \in Nat /\ alarm + l \in Nat /\ alarm # NoAlarm
         /\ main = "sending" /\ ~tx.done
         /\ Callback(alarm + l)
         /\ UNCHANGED <<main, op, frame, cand, devices, ackHigh, clash>>
  <1>1. alarm # NoAlarm /\ alarm \in Nat
    BY DEF TypeInv, TypeOK, Fires
  <1>2. UNCHANGED mainVars
    BY DEF Fires
  <1> QED BY <1>1, <1>2 DEF Fires, Pending, mainVars

LEMMA TxNumbers ==
  ASSUME TypeInv
  PROVE  /\ tx.byte \in Nat /\ tx.len \in Nat /\ tx.bit \in Nat
         /\ tx.state \in TxStates /\ tx.ack \in BOOLEAN /\ tx.broadcast \in BOOLEAN
         /\ pulses \in Nat /\ elapsed \in Nat /\ late \in Nat
         /\ frame.len \in Nat \ {0} /\ frame \in Frame
  BY TransmitterAssumption DEF TypeInv, TypeOK, Frame

LEMMA CallbackPosition ==
  ASSUME TypeInv, Pending, OwnFrame, Position, NEW l \in Nat, Fires(l)
  PROVE  OwnFrame' /\ Position'
  <1> DEFINE s == alarm + l
  <1>1. /\ s \in Nat /\ alarm # NoAlarm /\ main = "sending" /\ Callback(s)
        /\ main' = main /\ frame' = frame
    BY FiresFacts
  <1> HIDE DEF s
  <1>2. tx.byte \in Nat /\ tx.len \in Nat /\ tx.bit \in Nat /\ pulses \in Nat
    BY TxNumbers
  <1>3. tx'.len = tx.len /\ tx'.broadcast = tx.broadcast
    BY <1>1, CallbackMoves DEF Callback, Moves
  <1>4. OwnFrame'
    BY <1>1, <1>3 DEF OwnFrame
  <1>5. CASE TxStartLow(s)
    <2>1. pulses' = pulses /\ Moves("START_HIGH", tx.byte, tx.bit)
      BY <1>1, <1>5, CallbackMoves DEF TxStartLow, FallHistory
    <2> QED BY <1>1, <1>2, <1>3, <1>4, <1>5, <2>1 DEF TxStartLow, Position, Started, Bits, Sampled, Moves
  <1>6. CASE TxStartHigh(s)
    <2>1. pulses' = pulses /\ Moves("DATA_LOW", tx.byte, tx.bit)
      BY <1>1, <1>6, CallbackMoves DEF TxStartHigh, FallHistory
    <2>2. tx.byte < tx.len /\ tx.byte = 0 /\ tx.bit = 7 /\ pulses = 0
      BY <1>1, <1>6, TxNumbers DEF TxStartHigh, Position, Started, OwnFrame
    <2> QED BY <1>1, <1>2, <1>3, <1>4, <2>1, <2>2 DEF Position, Started, Bits, Sampled, Moves
  <1>7. CASE TxDataLow(s)
    <2>1. pulses' = pulses /\ Moves("DATA_HIGH", tx.byte, tx.bit)
      BY <1>1, <1>7, CallbackMoves DEF TxDataLow, FallHistory
    <2> QED BY <1>1, <1>2, <1>3, <1>4, <1>7, <2>1 DEF TxDataLow, Position, Started, Bits, Sampled, Moves
  <1>8. CASE TxEomLow(s)
    <2>1. pulses' = pulses /\ Moves("EOM_HIGH", tx.byte, tx.bit)
      BY <1>1, <1>8, CallbackMoves DEF TxEomLow, FallHistory
    <2> QED BY <1>1, <1>2, <1>3, <1>4, <1>8, <2>1 DEF TxEomLow, Position, Started, Bits, Sampled, Moves
  <1>9. CASE TxEomHigh(s)
    <2>1. pulses' = pulses + 1 /\ Moves("ACK_LOW", tx.byte, tx.bit)
      BY <1>1, <1>9, CallbackMoves DEF TxEomHigh, RiseHistory
    <2> QED BY <1>1, <1>2, <1>3, <1>4, <1>9, <2>1 DEF TxEomHigh, Position, Started, Bits, Sampled, Moves
  <1>10. CASE TxAckLow(s)
    <2>1. pulses' = pulses /\ Moves("ACK_HIGH", tx.byte, tx.bit)
      BY <1>1, <1>10, CallbackMoves DEF TxAckLow, FallHistory
    <2> QED BY <1>1, <1>2, <1>3, <1>4, <1>10, <2>1 DEF TxAckLow, Position, Started, Bits, Sampled, Moves
  <1>11. CASE TxDataHigh(s)
    <2>1. pulses' = pulses + 1 /\ tx.state = "DATA_HIGH"
      BY <1>11 DEF TxDataHigh, RiseHistory
    <2>2. IF tx.bit = 0 THEN Moves("EOM_LOW", tx.byte + 1, 255)
                        ELSE Moves("DATA_LOW", tx.byte, tx.bit - 1)
      BY <1>1, <1>11, CallbackMoves
    <2>3. tx.byte < tx.len /\ tx.bit \in 0..7 /\ pulses = 10 * tx.byte + 7 - tx.bit
      BY <1>1, <2>1 DEF Position, Bits
    <2>4. CASE tx.bit = 0
      BY <1>1, <1>2, <1>3, <1>4, <2>1, <2>2, <2>3, <2>4 DEF Position, Started, Bits, Sampled, Moves
    <2>5. CASE tx.bit # 0
      BY <1>1, <1>2, <1>3, <1>4, <2>1, <2>2, <2>3, <2>5 DEF Position, Started, Bits, Sampled, Moves
    <2> QED BY <2>4, <2>5
  <1>12. CASE TxAckHigh(s)
    <2>1. pulses' = pulses + 1 /\ tx.state = "ACK_HIGH"
      BY <1>12 DEF TxAckHigh, RiseHistory
    <2>2. IF tx.byte < tx.len THEN Moves("DATA_LOW", tx.byte, 7)
                              ELSE Moves("ACK_WAIT", tx.byte, tx.bit)
      BY <1>1, <1>12, CallbackMoves
    <2>3. tx.byte \in 1..tx.len /\ pulses = 10 * tx.byte - 1
      BY <1>1, <2>1 DEF Position
    <2>4. CASE tx.byte < tx.len
      BY <1>1, <1>2, <1>3, <1>4, <2>1, <2>2, <2>3, <2>4 DEF Position, Started, Bits, Sampled, Moves
    <2>5. CASE ~(tx.byte < tx.len)
      BY <1>1, <1>2, <1>3, <1>4, <2>1, <2>2, <2>3, <2>5 DEF Position, Started, Bits, Sampled, Moves
    <2> QED BY <2>4, <2>5
  <1>13. CASE TxAckWait(s)
    <2>1. pulses' = pulses /\ tx.state = "ACK_WAIT"
      BY <1>13 DEF TxAckWait
    <2>2. tx'.state = "END" /\ tx'.byte = tx.byte
      BY <1>1, <1>13, CallbackMoves
    <2> QED BY <1>1, <1>2, <1>3, <1>4, <2>1, <2>2 DEF Position, Started, Bits, Sampled, Moves
  <1>14. CASE TxEnd
    <2>1. /\ pulses' = pulses /\ tx.state = "END"
          /\ tx'.state = "END" /\ tx'.byte = tx.byte
      BY <1>1, <1>14, CallbackMoves DEF TxEnd
    <2> QED BY <1>1, <1>2, <1>3, <1>4, <2>1 DEF Position, Started, Bits, Sampled, Moves
  <1> QED BY <1>1, <1>5, <1>6, <1>7, <1>8, <1>9, <1>10, <1>11, <1>12, <1>13, <1>14 DEF Callback

LEMMA CallbackDue ==
  ASSUME TypeInv, Pending, OwnFrame, Position, NEW l \in Nat, Fires(l)
  PROVE  Due'
  <1> DEFINE s == alarm + l
  <1>1. /\ s \in Nat /\ alarm \in Nat /\ alarm # NoAlarm /\ main = "sending" /\ ~tx.done
        /\ Callback(s) /\ main' = main /\ frame' = frame /\ ackHigh' = ackHigh
    BY FiresFacts
  <1> HIDE DEF s
  <1>2. tx.byte \in Nat /\ tx.len \in Nat /\ tx.bit \in Nat /\ pulses \in Nat
    BY TxNumbers
  <1>3. CASE TxStartLow(s)
    <2>1. Moves("START_HIGH", tx.byte, tx.bit) /\ pulses' = pulses
      BY <1>1, <1>3, CallbackMoves DEF TxStartLow, FallHistory
    <2>2. alarm' = 3700
      BY <1>3 DEF TxStartLow, StartPulse
    <2> QED BY <1>1, <1>2, <2>1, <2>2 DEF Due, Moves
  <1>4. CASE TxStartHigh(s)
    <2>1. Moves("DATA_LOW", tx.byte, tx.bit) /\ pulses' = pulses
      BY <1>1, <1>4, CallbackMoves DEF TxStartHigh, FallHistory
    <2>2. alarm' \in {4500, NoAlarm}
      BY <1>4 DEF TxStartHigh, EndPulse, Until
    <2>3. pulses = 0
      BY <1>1, <1>4 DEF TxStartHigh, Position, Started
    <2> QED BY <1>1, <1>2, <2>1, <2>2, <2>3 DEF Due, Moves
  <1>5. CASE TxDataLow(s)
    <2>1. Moves("DATA_HIGH", tx.byte, tx.bit) /\ pulses' = pulses
      BY <1>1, <1>5, CallbackMoves DEF TxDataLow, FallHistory
    <2>2. alarm' = IF frame.data[tx.byte][7 - tx.bit] = 1 THEN 600 ELSE 1500
      BY <1>5 DEF TxDataLow, StartPulse
    <2> QED BY <1>1, <1>2, <2>1, <2>2 DEF Due, Moves
  <1>6. CASE TxEomLow(s)
    <2>1. Moves("EOM_HIGH", tx.byte, tx.bit) /\ pulses' = pulses
      BY <1>1, <1>6, CallbackMoves DEF TxEomLow, FallHistory
    <2>2. alarm' = IF tx.byte < tx.len THEN 1500 ELSE 600
      BY <1>6 DEF TxEomLow, StartPulse
    <2> QED BY <1>1, <1>2, <2>1, <2>2 DEF Due, Moves
  <1>7. CASE TxEomHigh(s)
    <2>1. Moves("ACK_LOW", tx.byte, tx.bit) /\ pulses' = pulses + 1
      BY <1>1, <1>7, CallbackMoves DEF TxEomHigh, RiseHistory
    <2>2. alarm' \in {2400, NoAlarm}
      BY <1>7 DEF TxEomHigh, EndPulse, Until
    <2> QED BY <1>1, <1>2, <2>1, <2>2 DEF Due, Moves
  <1>8. CASE TxAckLow(s)
    <2>1. Moves("ACK_HIGH", tx.byte, tx.bit) /\ pulses' = pulses
      BY <1>1, <1>8, CallbackMoves DEF TxAckLow, FallHistory
    <2>2. alarm' = 600
      BY <1>8 DEF TxAckLow, StartPulse
    <2> QED BY <1>1, <1>2, <2>1, <2>2 DEF Due, Moves
  <1>9. CASE TxDataHigh(s)
    <2>1. IF tx.bit = 0 THEN Moves("EOM_LOW", tx.byte + 1, 255)
                        ELSE Moves("DATA_LOW", tx.byte, tx.bit - 1)
      BY <1>1, <1>9, CallbackMoves
    <2>2. alarm' \in {2400, NoAlarm} /\ pulses' = pulses + 1
      BY <1>9 DEF TxDataHigh, EndPulse, Until, RiseHistory
    <2>3. tx'.state \in {"EOM_LOW", "DATA_LOW"}
      BY <2>1 DEF Moves
    <2> QED BY <1>2, <2>2, <2>3 DEF Due
  <1>10. CASE TxAckHigh(s)
    <2>1. /\ pulses' = pulses + 1
          /\ \/ tx.byte < tx.len /\ alarm' \in {2400, NoAlarm}
             \/ ~(tx.byte < tx.len) /\ alarm' \in {1050, NoAlarm}
      BY <1>2, <1>10 DEF TxAckHigh, EndPulse, Until, RiseHistory
    <2>2. CASE tx.byte < tx.len
      <3>1. tx'.state = "DATA_LOW"
        BY <1>1, <1>10, <2>2, CallbackMoves DEF Moves
      <3> QED BY <1>2, <2>1, <2>2, <3>1 DEF Due
    <2>3. CASE ~(tx.byte < tx.len)
      <3>1. tx'.state = "ACK_WAIT"
        BY <1>1, <1>10, <2>3, CallbackMoves DEF Moves
      <3> QED BY <2>1, <2>3, <3>1 DEF Due
    <2> QED BY <2>2, <2>3
  <1>11. CASE TxAckWait(s)
    <2>1. alarm' \in {2400, NoAlarm} /\ pulses' = pulses /\ tx.state = "ACK_WAIT"
      BY <1>11 DEF TxAckWait, Until
    <2>2. tx'.state = "END"
      BY <1>1, <1>11, CallbackMoves
    <2>3. pulses = 10 * tx.byte /\ tx.byte = tx.len /\ tx.len \in Nat \ {0}
      BY <1>1, <2>1, TxNumbers DEF Position, Sampled, OwnFrame
    <2> QED BY <2>1, <2>2, <2>3 DEF Due
  <1>12. CASE TxEnd
    BY <1>12 DEF TxEnd, Due, NoAlarm
  <1> QED BY <1>1, <1>3, <1>4, <1>5, <1>6, <1>7, <1>8, <1>9, <1>10, <1>11, <1>12 DEF Callback

LEMMA CallbackWire ==
  ASSUME TypeInv, Pending, AckRestInv, Released, NEW l \in Nat, Fires(l)
  PROVE  Pending' /\ AckRestInv' /\ Released'
  <1> DEFINE s == alarm + l
  <1>1. /\ s \in Nat /\ alarm \in Nat /\ alarm # NoAlarm /\ main = "sending" /\ ~tx.done
        /\ Callback(s) /\ main' = main /\ frame' = frame /\ ackHigh' = ackHigh
    BY FiresFacts
  <1> HIDE DEF s
  <1>2. tx.byte \in Nat /\ tx.len \in Nat /\ tx.bit \in Nat /\ pulses \in Nat
    BY TxNumbers
  <1>3. clash' = clash /\ (ackHigh # NoAlarm => elapsed + alarm + l <= ackHigh)
    BY FiresFacts DEF Fires
  <1>4. elapsed \in Nat /\ (ackHigh # NoAlarm => ackHigh \in 1..1500)
    <2>1. elapsed \in Nat /\ ackHigh \in {NoAlarm} \cup AckRest
      BY DEF TypeInv, TypeOK
    <2>2. \A r \in AckRest : r \in 1..1500
      BY TransmitterAssumption
    <2>3. CASE ackHigh \in AckRest
      BY <2>1, <2>2, <2>3
    <2>4. CASE ackHigh = NoAlarm
      BY <2>1, <2>4
    <2> QED BY <2>1, <2>3, <2>4
  <1>5. ackHigh # NoAlarm => TxStartLow(s)
    <2>1. SUFFICES ASSUME ackHigh # NoAlarm PROVE TxStartLow(s)
      OBVIOUS
    <2>2. tx.state # "START_HIGH"
      BY <1>1, <1>3, <1>4, <2>1 DEF AckRestInv
    <2>3. tx.state = "START_LOW"
      BY <2>1, <2>2 DEF AckRestInv
    <2> QED
      BY <1>1, <2>3
      DEF Callback, TxStartHigh, TxDataLow, TxDataHigh, TxEomLow, TxEomHigh, TxAckLow,
          TxAckHigh, TxAckWait, TxEnd
  <1>6. CASE TxStartLow(s)
    <2>1. Moves("START_HIGH", tx.byte, tx.bit)
      BY <1>1, <1>6, CallbackMoves
    <2>2. drives' = TRUE /\ alarm' = 3700
      BY <1>6 DEF TxStartLow, StartPulse
    <2> QED BY <1>1, <1>3, <2>1, <2>2 DEF Pending, AckRestInv, Released, Moves, NoAlarm
  <1>7. CASE TxStartHigh(s)
    <2>1. Moves("DATA_LOW", tx.byte, tx.bit)
      BY <1>1, <1>7, CallbackMoves
    <2>2. drives' = FALSE
      BY <1>7 DEF TxStartHigh, EndPulse
    <2>3. ackHigh = NoAlarm
      BY <1>5, <1>7 DEF TxStartHigh, TxStartLow
    <2> QED BY <1>1, <2>1, <2>2, <2>3 DEF Pending, AckRestInv, Released, Moves
  <1>8. CASE TxDataLow(s)
    <2>1. Moves("DATA_HIGH", tx.byte, tx.bit)
      BY <1>1, <1>8, CallbackMoves
    <2>2. drives' = TRUE /\ alarm' = IF frame.data[tx.byte][7 - tx.bit] = 1 THEN 600 ELSE 1500
      BY <1>8 DEF TxDataLow, StartPulse
    <2>3. ackHigh = NoAlarm
      BY <1>5, <1>8 DEF TxDataLow, TxStartLow
    <2> QED BY <1>1, <2>1, <2>2, <2>3 DEF Pending, AckRestInv, Released, Rises, Moves
  <1>9. CASE TxEomLow(s)
    <2>1. Moves("EOM_HIGH", tx.byte, tx.bit)
      BY <1>1, <1>9, CallbackMoves
    <2>2. drives' = TRUE /\ alarm' = IF tx.byte < tx.len THEN 1500 ELSE 600
      BY <1>9 DEF TxEomLow, StartPulse
    <2>3. ackHigh = NoAlarm
      BY <1>5, <1>9 DEF TxEomLow, TxStartLow
    <2> QED BY <1>1, <2>1, <2>2, <2>3 DEF Pending, AckRestInv, Released, Rises, Moves
  <1>10. CASE TxEomHigh(s)
    <2>1. Moves("ACK_LOW", tx.byte, tx.bit)
      BY <1>1, <1>10, CallbackMoves
    <2>2. drives' = FALSE
      BY <1>10 DEF TxEomHigh, EndPulse
    <2>3. ackHigh = NoAlarm
      BY <1>5, <1>10 DEF TxEomHigh, TxStartLow
    <2> QED BY <1>1, <2>1, <2>2, <2>3 DEF Pending, AckRestInv, Released, Moves
  <1>11. CASE TxAckLow(s)
    <2>1. Moves("ACK_HIGH", tx.byte, tx.bit)
      BY <1>1, <1>11, CallbackMoves
    <2>2. drives' = TRUE /\ alarm' = 600
      BY <1>11 DEF TxAckLow, StartPulse
    <2>3. ackHigh = NoAlarm
      BY <1>5, <1>11 DEF TxAckLow, TxStartLow
    <2> QED BY <1>1, <2>1, <2>2, <2>3 DEF Pending, AckRestInv, Released, Rises, Moves
  <1>12. CASE TxDataHigh(s)
    <2>1. tx'.done = tx.done
      BY <1>1, <1>12, CallbackMoves DEF Moves
    <2>2. drives' = FALSE
      BY <1>12 DEF TxDataHigh, EndPulse
    <2>3. ackHigh = NoAlarm
      BY <1>5, <1>12 DEF TxDataHigh, TxStartLow
    <2> QED BY <1>1, <2>1, <2>2, <2>3 DEF Pending, AckRestInv, Released
  <1>13. CASE TxAckHigh(s)
    <2>1. tx'.done = tx.done
      BY <1>1, <1>13, CallbackMoves DEF Moves
    <2>2. drives' = FALSE
      BY <1>13 DEF TxAckHigh, EndPulse
    <2>3. ackHigh = NoAlarm
      BY <1>5, <1>13 DEF TxAckHigh, TxStartLow
    <2> QED BY <1>1, <2>1, <2>2, <2>3 DEF Pending, AckRestInv, Released
  <1>14. CASE TxAckWait(s)
    <2>1. tx'.done = tx.done
      BY <1>1, <1>14, CallbackMoves
    <2>2. ackHigh = NoAlarm
      BY <1>5, <1>14 DEF TxAckWait, TxStartLow
    <2>3. drives' = drives /\ ~drives
      BY <1>14, <2>2 DEF TxAckWait, Released, Rises
    <2> QED BY <1>1, <2>1, <2>2, <2>3 DEF Pending, AckRestInv, Released
  <1>15. CASE TxEnd
    <2>1. ackHigh = NoAlarm
      BY <1>5, <1>15 DEF TxEnd, TxStartLow
    <2>2. drives' = drives /\ ~drives /\ alarm' = NoAlarm
      BY <1>15, <2>1 DEF TxEnd, Released, Rises
    <2> QED BY <1>1, <2>1, <2>2 DEF Pending, AckRestInv, Released, NoAlarm
  <1> QED BY <1>1, <1>6, <1>7, <1>8, <1>9, <1>10, <1>11, <1>12, <1>13, <1>14, <1>15 DEF Callback

--------------------------------------------------------------------------------
(* Time.                                                                       *)

LEMMA LateTimes ==
  ASSUME NEW L \in Nat, NEW n \in Nat, NEW m \in Nat, n <= m
  PROVE  /\ n * L \in Nat /\ m * L \in Nat /\ n * L <= m * L
         /\ (n + 1) * L = n * L + L /\ (m + 1) * L = m * L + L
  OBVIOUS

\* A late callback uses up one of the delays that are allowed for.
LEMMA LateStep ==
  ASSUME TypeInv, NEW L, Fits(L), NEW l \in Nat, Fires(l)
  PROVE  /\ late * L \in Nat /\ late' * L \in Nat
         /\ late * L + l <= late' * L /\ l <= L
  <1>1. L \in Nat /\ late \in Nat
    BY TxNumbers DEF Fits
  <1>2. (l = 0 /\ late' = late) \/ (l <= L /\ late' = late + 1)
    <2>1. (l = 0 /\ late' = late) \/ (l \in Lateness /\ late' = late + 1)
      BY DEF Fires
    <2>2. \A k \in Lateness : k <= L
      BY DEF Fits
    <2> QED BY <2>1, <2>2
  <1>3. late * L \in Nat /\ (late + 1) * L = late * L + L
    BY <1>1, LateTimes
  <1>4. CASE l = 0 /\ late' = late
    BY <1>1, <1>3, <1>4
  <1>5. CASE l <= L /\ late' = late + 1
    BY <1>1, <1>3, <1>5
  <1> QED BY <1>2, <1>4, <1>5

LEMMA CallbackClock ==
  ASSUME TypeInv, Pending, OwnFrame, Position, Due, NEW L, Fits(L), Clock(L),
         NEW l \in Nat, Fires(l)
  PROVE  Clock(L)'
  <1> DEFINE s == alarm + l
             A == late * L
             B == late' * L
  <1>1. /\ s \in Nat /\ alarm \in Nat /\ alarm # NoAlarm /\ main = "sending" /\ ~tx.done
        /\ Callback(s)
    BY FiresFacts
  <1>2. s = alarm + l
    OBVIOUS
  <1>3. A \in Nat /\ B \in Nat /\ A + l <= B
    BY LateStep
  <1>4. pulses \in Nat /\ elapsed \in Nat
    BY TxNumbers
  <1>5. elapsed + (IF tx.state \in Rises THEN 0 ELSE IF pulses = 0 THEN 4500 ELSE 2400)
          <= 4500 + 2400 * pulses + A
    BY <1>1 DEF Clock
  <1>6. SUFFICES ASSUME alarm' # NoAlarm
                 PROVE  elapsed' + (IF tx'.state \in Rises THEN 0
                                    ELSE IF pulses' = 0 THEN 4500 ELSE 2400)
                          <= 4500 + 2400 * pulses' + B
    BY DEF Clock, Rises, NoAlarm
  <1> HIDE DEF s, A, B
  <1>7. CASE TxStartLow(s)
    <2>1. tx.state = "START_LOW" /\ pulses' = pulses
      BY <1>7 DEF TxStartLow, FallHistory
    <2>2. elapsed' = elapsed + s
      BY <1>7 DEF TxStartLow, StartPulse
    <2>3. tx'.state \in {"START_HIGH"}
      BY <1>1, <1>7, CallbackMoves DEF Moves
    <2>4. alarm = 0 /\ pulses = 0
      BY <1>1, <2>1 DEF Due, Position, Started
    <2> QED BY <1>2, <1>3, <1>4, <1>5, <2>1, <2>2, <2>3, <2>4 DEF Rises
  <1>8. CASE TxStartHigh(s)
    <2>1. tx.state = "START_HIGH" /\ pulses' = pulses
      BY <1>8 DEF TxStartHigh, FallHistory
    <2>2. elapsed' = elapsed
      BY <1>8 DEF TxStartHigh, EndPulse
    <2>3. tx'.state \in {"DATA_LOW"}
      BY <1>1, <1>8, CallbackMoves DEF Moves
    <2>4. pulses = 0
      BY <1>1, <2>1 DEF Position, Started
    <2> QED BY <1>2, <1>3, <1>4, <1>5, <2>1, <2>2, <2>3, <2>4 DEF Rises
  <1>9. CASE TxDataLow(s)
    <2>1. tx.state = "DATA_LOW" /\ pulses' = pulses
      BY <1>9 DEF TxDataLow, FallHistory
    <2>2. elapsed' = elapsed + s
      BY <1>9 DEF TxDataLow, StartPulse
    <2>3. tx'.state \in {"DATA_HIGH"}
      BY <1>1, <1>9, CallbackMoves DEF Moves
    <2>4. alarm = IF pulses = 0 THEN 4500 ELSE 2400
      BY <1>1, <2>1 DEF Due
    <2> QED BY <1>2, <1>3, <1>4, <1>5, <2>1, <2>2, <2>3, <2>4 DEF Rises
  <1>10. CASE TxEomLow(s)
    <2>1. tx.state = "EOM_LOW" /\ pulses' = pulses
      BY <1>10 DEF TxEomLow, FallHistory
    <2>2. elapsed' = elapsed + s
      BY <1>10 DEF TxEomLow, StartPulse
    <2>3. tx'.state \in {"EOM_HIGH"}
      BY <1>1, <1>10, CallbackMoves DEF Moves
    <2>4. alarm = IF pulses = 0 THEN 4500 ELSE 2400
      BY <1>1, <2>1 DEF Due
    <2> QED BY <1>2, <1>3, <1>4, <1>5, <2>1, <2>2, <2>3, <2>4 DEF Rises
  <1>11. CASE TxEomHigh(s)
    <2>1. tx.state = "EOM_HIGH" /\ pulses' = pulses + 1
      BY <1>11 DEF TxEomHigh, RiseHistory
    <2>2. elapsed' = elapsed
      BY <1>11 DEF TxEomHigh, EndPulse
    <2>3. tx'.state \in {"ACK_LOW"}
      BY <1>1, <1>11, CallbackMoves DEF Moves
    <2> QED BY <1>2, <1>3, <1>4, <1>5, <2>1, <2>2, <2>3 DEF Rises
  <1>12. CASE TxAckLow(s)
    <2>1. tx.state = "ACK_LOW" /\ pulses' = pulses
      BY <1>12 DEF TxAckLow, FallHistory
    <2>2. elapsed' = elapsed + s
      BY <1>12 DEF TxAckLow, StartPulse
    <2>3. tx'.state \in {"ACK_HIGH"}
      BY <1>1, <1>12, CallbackMoves DEF Moves
    <2>4. alarm = IF pulses = 0 THEN 4500 ELSE 2400
      BY <1>1, <2>1 DEF Due
    <2> QED BY <1>2, <1>3, <1>4, <1>5, <2>1, <2>2, <2>3, <2>4 DEF Rises
  <1>13. CASE TxDataHigh(s)
    <2>1. tx.state = "DATA_HIGH" /\ pulses' = pulses + 1
      BY <1>13 DEF TxDataHigh, RiseHistory
    <2>2. elapsed' = elapsed
      BY <1>13 DEF TxDataHigh, EndPulse
    <2>3. tx'.state \in {"EOM_LOW", "DATA_LOW"}
      BY <1>1, <1>13, CallbackMoves DEF Moves
    <2> QED BY <1>2, <1>3, <1>4, <1>5, <2>1, <2>2, <2>3 DEF Rises
  <1>14. CASE TxAckHigh(s)
    <2>1. tx.state = "ACK_HIGH" /\ pulses' = pulses + 1
      BY <1>14 DEF TxAckHigh, RiseHistory
    <2>2. elapsed' = elapsed
      BY <1>14 DEF TxAckHigh, EndPulse
    <2>3. tx'.state \in {"DATA_LOW", "ACK_WAIT"}
      BY <1>1, <1>14, CallbackMoves DEF Moves
    <2> QED BY <1>2, <1>3, <1>4, <1>5, <2>1, <2>2, <2>3 DEF Rises
  <1>15. CASE TxAckWait(s)
    <2>1. tx.state = "ACK_WAIT" /\ pulses' = pulses /\ elapsed' = elapsed
      BY <1>15 DEF TxAckWait
    <2>2. tx'.state = "END"
      BY <1>1, <1>15, CallbackMoves
    <2> QED BY <1>2, <1>3, <1>4, <1>5, <2>1, <2>2 DEF Rises
  <1>16. CASE TxEnd
    BY <1>6, <1>16 DEF TxEnd
  <1> QED BY <1>1, <1>7, <1>8, <1>9, <1>10, <1>11, <1>12, <1>13, <1>14, <1>15, <1>16 DEF Callback

\* No callback is due after the time-out.
LEMMA InTime ==
  ASSUME TypeInv, Pending, OwnFrame, Position, Due, NEW L, Fits(L), Clock(L), FrameFits(L),
         alarm # NoAlarm, NEW l \in Nat, l <= L
  PROVE  elapsed + alarm + l <= TimeoutUs
  <1> DEFINE A == late * L
             M == MaxLate * L
             N == (MaxLate + 1) * L
  <1>1. main = "sending" /\ alarm \in Nat
    BY DEF Pending, TypeInv, TypeOK
  <1>2. A \in Nat /\ M \in Nat /\ N = M + L /\ A <= M
    <2>1. late \in Nat /\ MaxLate \in Nat /\ late <= MaxLate /\ L \in Nat
      BY TransmitterAssumption DEF TypeInv, TypeOK, Fits
    <2> QED BY <2>1, LateTimes
  <1>3. /\ tx.byte \in Nat /\ pulses \in Nat /\ elapsed \in Nat /\ tx.state \in TxStates
        /\ tx.len \in Nat \ {0} /\ frame.len = tx.len /\ L \in Nat
    BY <1>1, TxNumbers DEF OwnFrame, Fits
  <1>4. 4500 + 24000 * tx.len + N <= TimeoutUs
    BY <1>1, <1>3 DEF FrameFits, FrameUs
  <1>5. elapsed + (IF tx.state \in Rises THEN 0 ELSE IF pulses = 0 THEN 4500 ELSE 2400)
          <= 4500 + 2400 * pulses + A
    BY DEF Clock
  <1> HIDE DEF A, M, N
  <1>6. CASE tx.state \in Rises
    <2>1. alarm <= 1500
      BY <1>6 DEF Due, Rises
    <2>2. pulses + 1 <= 10 * tx.len
      BY <1>1, <1>3, <1>6 DEF Position, Rises, Bits
    <2> QED BY <1>1, <1>2, <1>3, <1>4, <1>5, <1>6, <2>1, <2>2 DEF TimeoutUs
  <1>7. CASE tx.state \notin Rises
    <2>1. alarm <= IF pulses = 0 THEN 4500 ELSE 2400
      <3>1. CASE tx.state \in Started
        BY <1>1, <3>1 DEF Due, Started, Position
      <3>2. CASE tx.state = "ACK_WAIT"
        BY <3>2 DEF Due
      <3>3. CASE tx.state \in {"DATA_LOW", "EOM_LOW", "ACK_LOW", "END"}
        BY <3>3 DEF Due
      <3> QED BY <1>3, <1>7, <3>1, <3>2, <3>3 DEF TxStates, Started, Rises
    <2>2. pulses <= 10 * tx.len
      BY <1>1, <1>3, <1>7 DEF Position, Started, Bits, Sampled, Rises, TxStates
    <2> QED BY <1>1, <1>2, <1>3, <1>4, <1>5, <1>7, <2>1, <2>2 DEF TimeoutUs
  <1> QED BY <1>6, <1>7

--------------------------------------------------------------------------------
(* What reaches the wire.                                                      *)

LEMMA PulseNumber ==
  ASSUME NEW b \in Nat, NEW k \in 0..9, pulses = 10 * b + k
  PROVE  pulses \div 10 = b /\ pulses % 10 = k
  <1>1. (10 * b + k) \div 10 = b /\ (10 * b + k) % 10 = k
    OBVIOUS
  <1> QED BY <1>1

LEMMA CallbackJudged ==
  ASSUME TypeInv, Pending, OwnFrame, Position, Due, Judged, Lost, NEW l \in Nat, Fires(l)
  PROVE  Judged' /\ Lost'
  <1> DEFINE s == alarm + l
  <1>1. /\ s \in Nat /\ alarm \in Nat /\ alarm # NoAlarm /\ main = "sending" /\ ~tx.done
        /\ Callback(s) /\ main' = main /\ clash' = clash
    BY FiresFacts
  <1>2. s = alarm + l
    OBVIOUS
  <1>3. slipped' = (slipped \/ l > 200)
    BY DEF Fires
  <1>4. /\ pulses \in Nat /\ tx.byte \in Nat /\ tx.len \in Nat \ {0} /\ tx.len = frame.len
    BY <1>1, TxNumbers DEF OwnFrame
  <1>5. SUFFICES ASSUME l <= 200
                 PROVE  /\ faithful => faithful'
                        /\ alarm' # NoAlarm \/ (tx'.done /\ tx'.state = "END")
    <2>1. CASE l <= 200
      <3>1. /\ faithful => faithful'
            /\ alarm' # NoAlarm \/ (tx'.done /\ tx'.state = "END")
        BY <1>5, <2>1
      <3> QED BY <1>1, <1>3, <3>1 DEF Judged, Lost, NoAlarm
    <2>2. CASE ~(l <= 200)
      <3>1. slipped'
        <4>1. l > 200
          BY <2>2
        <4> QED BY <1>3, <4>1, Zenon
      <3> QED BY <3>1 DEF Judged, Lost
    <2> QED BY <2>1, <2>2
  <1> HIDE DEF s
  <1>6. CASE TxStartLow(s)
    <2>1. tx.state = "START_LOW"
      BY <1>6 DEF TxStartLow
    <2>2. faithful => faithful'
      <3>1. faithful' = (faithful /\ TRUE)
        BY <1>6 DEF TxStartLow, FallHistory
      <3> QED BY <3>1, Zenon
    <2>3. alarm' # NoAlarm
      BY <1>6 DEF TxStartLow, StartPulse, NoAlarm
    <2> QED BY <2>2, <2>3
  <1>7. CASE TxDataLow(s)
    <2>1. tx.state = "DATA_LOW"
      BY <1>7 DEF TxDataLow
    <2>2. faithful' = (faithful /\ PeriodOk(s))
      BY <1>7 DEF TxDataLow, FallHistory
    <2>3. alarm' # NoAlarm
      BY <1>7 DEF TxDataLow, StartPulse, NoAlarm
    <2>4. alarm = IF pulses = 0 THEN 4500 ELSE 2400
      BY <1>1, <2>1 DEF Due
    <2>5. PeriodOk(s)
      BY <1>1, <1>2, <1>4, <1>5, <2>4 DEF PeriodOk
    <2> QED BY <2>2, <2>3, <2>5
  <1>8. CASE TxEomLow(s)
    <2>1. tx.state = "EOM_LOW"
      BY <1>8 DEF TxEomLow
    <2>2. faithful' = (faithful /\ PeriodOk(s))
      BY <1>8 DEF TxEomLow, FallHistory
    <2>3. alarm' # NoAlarm
      BY <1>8 DEF TxEomLow, StartPulse, NoAlarm
    <2>4. alarm = IF pulses = 0 THEN 4500 ELSE 2400
      BY <1>1, <2>1 DEF Due
    <2>5. PeriodOk(s)
      BY <1>1, <1>2, <1>4, <1>5, <2>4 DEF PeriodOk
    <2> QED BY <2>2, <2>3, <2>5
  <1>9. CASE TxAckLow(s)
    <2>1. tx.state = "ACK_LOW"
      BY <1>9 DEF TxAckLow
    <2>2. faithful' = (faithful /\ PeriodOk(s))
      BY <1>9 DEF TxAckLow, FallHistory
    <2>3. alarm' # NoAlarm
      BY <1>9 DEF TxAckLow, StartPulse, NoAlarm
    <2>4. alarm = IF pulses = 0 THEN 4500 ELSE 2400
      BY <1>1, <2>1 DEF Due
    <2>5. PeriodOk(s)
      BY <1>1, <1>2, <1>4, <1>5, <2>4 DEF PeriodOk
    <2> QED BY <2>2, <2>3, <2>5
  <1>10. CASE TxStartHigh(s)
    <2>1. tx.state = "START_HIGH"
      BY <1>10 DEF TxStartHigh
    <2>2. faithful' = (faithful /\ s \in 3500..3900)
      BY <1>10 DEF TxStartHigh, FallHistory
    <2>3. alarm = 3700
      BY <1>1, <2>1 DEF Due
    <2>4. EndPulse(s, 4500)
      BY <1>10 DEF TxStartHigh
    <2>5. alarm' # NoAlarm
      BY <1>1, <1>2, <1>5, <2>3, <2>4 DEF EndPulse, Until, NoAlarm
    <2>6. s \in 3500..3900
      BY <1>1, <1>2, <1>5, <2>3
    <2>7. faithful => faithful'
      <3> DEFINE P == s \in 3500..3900
      <3>1. faithful' = (faithful /\ P) /\ P
        BY <2>2, <2>6
      <3> HIDE DEF P
      <3> QED BY <3>1
    <2> QED BY <2>5, <2>7
  <1>11. CASE TxDataHigh(s)
    <2>1. tx.state = "DATA_HIGH"
      BY <1>11 DEF TxDataHigh
    <2>2. faithful' = (faithful /\ PulseOk(s))
      BY <1>11 DEF TxDataHigh, RiseHistory
    <2>3. /\ tx.byte < tx.len /\ tx.bit \in 0..7 /\ pulses = 10 * tx.byte + (7 - tx.bit)
          /\ alarm = IF frame.data[tx.byte][7 - tx.bit] = 1 THEN 600 ELSE 1500
      BY <1>1, <1>4, <2>1 DEF Due, Position, Bits
    <2>4. EndPulse(s, 2400)
      BY <1>11 DEF TxDataHigh
    <2>5. alarm' # NoAlarm
      BY <1>1, <1>2, <1>5, <2>3, <2>4 DEF EndPulse, Until, NoAlarm
    <2>6. pulses \div 10 = tx.byte /\ pulses % 10 = 7 - tx.bit /\ 7 - tx.bit \in 0..7
      <3>1. PICK k \in 0..7 : k = 7 - tx.bit
        BY <2>3
      <3>2. pulses = 10 * tx.byte + k /\ k \in 0..9
        BY <2>3, <3>1
      <3>3. pulses \div 10 = tx.byte /\ pulses % 10 = k
        BY <1>4, <3>2, PulseNumber
      <3> QED BY <3>1, <3>3
    <2>7. Expected(pulses) = frame.data[tx.byte][7 - tx.bit]
      BY <2>6 DEF Expected
    <2>8. PulseOk(s)
      BY <1>1, <1>2, <1>4, <1>5, <2>3, <2>7 DEF PulseOk
    <2> QED BY <2>2, <2>5, <2>8
  <1>12. CASE TxEomHigh(s)
    <2>1. tx.state = "EOM_HIGH"
      BY <1>12 DEF TxEomHigh
    <2>2. faithful' = (faithful /\ PulseOk(s))
      BY <1>12 DEF TxEomHigh, RiseHistory
    <2>3. /\ tx.byte \in 1..tx.len /\ pulses = 10 * tx.byte - 2
          /\ alarm = IF tx.byte < tx.len THEN 1500 ELSE 600
      BY <1>1, <1>4, <2>1 DEF Due, Position
    <2>4. EndPulse(s, 2400)
      BY <1>12 DEF TxEomHigh
    <2>5. alarm' # NoAlarm
      BY <1>1, <1>2, <1>5, <2>3, <2>4 DEF EndPulse, Until, NoAlarm
    <2>6. pulses \div 10 = tx.byte - 1 /\ pulses % 10 = 8
      <3>1. tx.byte - 1 \in Nat /\ pulses = 10 * (tx.byte - 1) + 8
        BY <1>4, <2>3
      <3> QED BY <3>1, PulseNumber
    <2>7. Expected(pulses) = IF tx.byte < tx.len THEN 0 ELSE 1
      BY <1>4, <2>3, <2>6 DEF Expected
    <2>8. PulseOk(s)
      BY <1>1, <1>2, <1>4, <1>5, <2>3, <2>7 DEF PulseOk
    <2> QED BY <2>2, <2>5, <2>8
  <1>13. CASE TxAckHigh(s)
    <2>1. tx.state = "ACK_HIGH"
      BY <1>13 DEF TxAckHigh
    <2>2. faithful' = (faithful /\ PulseOk(s))
      BY <1>13 DEF TxAckHigh, RiseHistory
    <2>3. /\ tx.byte \in 1..tx.len /\ pulses = 10 * tx.byte - 1 /\ alarm = 600
      BY <1>1, <1>4, <2>1 DEF Due, Position
    <2>4. EndPulse(s, 2400) \/ EndPulse(s, 1050)
      BY <1>13 DEF TxAckHigh
    <2>5. alarm' # NoAlarm
      BY <1>1, <1>2, <1>5, <2>3, <2>4 DEF EndPulse, Until, NoAlarm
    <2>6. pulses % 10 = 9
      <3>1. tx.byte - 1 \in Nat /\ pulses = 10 * (tx.byte - 1) + 9
        BY <1>4, <2>3
      <3> QED BY <3>1, PulseNumber
    <2>7. Expected(pulses) = 1
      BY <2>6 DEF Expected
    <2>8. PulseOk(s)
      BY <1>1, <1>2, <1>4, <1>5, <2>3, <2>7 DEF PulseOk
    <2> QED BY <2>2, <2>5, <2>8
  <1>14. CASE TxAckWait(s)
    <2>1. alarm = 1050 /\ faithful' = faithful
      BY <1>1, <1>14 DEF Due, TxAckWait
    <2>2. Until(s, 2400)
      BY <1>14 DEF TxAckWait
    <2>3. alarm' # NoAlarm
      BY <1>1, <1>2, <1>5, <2>1, <2>2 DEF Until, NoAlarm
    <2> QED BY <2>1, <2>3
  <1>15. CASE TxEnd
    <2>1. faithful' = faithful
      BY <1>15 DEF TxEnd
    <2>2. tx'.done /\ tx'.state = "END"
      BY <1>1, <1>15, CallbackMoves
    <2> QED BY <2>1, <2>2
  <1> QED BY <1>1, <1>6, <1>7, <1>8, <1>9, <1>10, <1>11, <1>12, <1>13, <1>14, <1>15 DEF Callback

--------------------------------------------------------------------------------
(* Acknowledgements.                                                           *)

\* All callbacks but the one that starts the acknowledgement bit.
LEMMA CallbackAcked ==
  ASSUME TypeInv, Pending, OwnFrame, Position, AckedInv, NEW l \in Nat, Fires(l)
  PROVE  AckedInv'
  <1> DEFINE s == alarm + l
  <1>1. /\ s \in Nat /\ alarm # NoAlarm /\ main = "sending"
        /\ Callback(s) /\ main' = main /\ frame' = frame /\ devices' = devices
    BY FiresFacts
  <1> HIDE DEF s
  <1>2. tx.byte \in Nat /\ acked \subseteq 0..(tx.byte - 1)
    BY <1>1, TxNumbers DEF AckedInv
  <1>3. CASE TxStartLow(s)
    <2>1. tx.state = "START_LOW" /\ acks' = acks /\ acked' = acked
      BY <1>3 DEF TxStartLow, FallHistory
    <2>2. tx'.state = "START_HIGH" /\ tx'.byte = tx.byte
      BY <1>1, <1>3, CallbackMoves DEF Moves
    <2> QED BY <1>1, <1>2, <2>1, <2>2 DEF AckedInv, Sampled
  <1>4. CASE TxStartHigh(s)
    <2>1. tx.state = "START_HIGH" /\ acks' = acks /\ acked' = acked
      BY <1>4 DEF TxStartHigh, FallHistory
    <2>2. tx'.state = "DATA_LOW" /\ tx'.byte = tx.byte
      BY <1>1, <1>4, CallbackMoves DEF Moves
    <2> QED BY <1>1, <1>2, <2>1, <2>2 DEF AckedInv, Sampled
  <1>5. CASE TxDataLow(s)
    <2>1. tx.state = "DATA_LOW" /\ acks' = acks /\ acked' = acked
      BY <1>5 DEF TxDataLow, FallHistory
    <2>2. tx'.state = "DATA_HIGH" /\ tx'.byte = tx.byte
      BY <1>1, <1>5, CallbackMoves DEF Moves
    <2> QED BY <1>1, <1>2, <2>1, <2>2 DEF AckedInv, Sampled
  <1>6. CASE TxEomLow(s)
    <2>1. tx.state = "EOM_LOW" /\ acks' = acks /\ acked' = acked
      BY <1>6 DEF TxEomLow, FallHistory
    <2>2. tx'.state = "EOM_HIGH" /\ tx'.byte = tx.byte
      BY <1>1, <1>6, CallbackMoves DEF Moves
    <2> QED BY <1>1, <1>2, <2>1, <2>2 DEF AckedInv, Sampled
  <1>7. CASE TxEomHigh(s)
    <2>1. tx.state = "EOM_HIGH" /\ acks' = acks /\ acked' = acked
      BY <1>7 DEF TxEomHigh, RiseHistory
    <2>2. tx'.state = "ACK_LOW" /\ tx'.byte = tx.byte
      BY <1>1, <1>7, CallbackMoves DEF Moves
    <2> QED BY <1>1, <1>2, <2>1, <2>2 DEF AckedInv, Sampled
  <1>8. CASE TxAckWait(s)
    <2>1. tx.state = "ACK_WAIT" /\ acks' = acks /\ acked' = acked
      BY <1>8 DEF TxAckWait
    <2>2. tx'.state = "END" /\ tx'.byte = tx.byte
      BY <1>1, <1>8, CallbackMoves DEF Moves
    <2> QED BY <1>1, <1>2, <2>1, <2>2 DEF AckedInv, Sampled
  <1>9. CASE TxEnd
    <2>1. tx.state = "END" /\ acks' = acks /\ acked' = acked
      BY <1>9 DEF TxEnd
    <2>2. tx'.state = "END" /\ tx'.byte = tx.byte
      BY <1>1, <1>9, CallbackMoves DEF Moves
    <2> QED BY <1>1, <1>2, <2>1, <2>2 DEF AckedInv, Sampled
  <1>10. CASE TxDataHigh(s)
    <2>1. acks' = acks /\ acked' = acked
      BY <1>10 DEF TxDataHigh, RiseHistory
    <2>2. \/ tx'.state = "EOM_LOW" /\ tx'.byte = tx.byte + 1
          \/ tx'.state = "DATA_LOW" /\ tx'.byte = tx.byte
      BY <1>1, <1>10, CallbackMoves DEF Moves
    <2> QED BY <1>1, <1>2, <2>1, <2>2 DEF AckedInv, Sampled
  <1>11. CASE TxAckHigh(s)
    <2>1. tx.state = "ACK_HIGH" /\ acks' = acks /\ acked' = acked
      BY <1>11 DEF TxAckHigh, RiseHistory
    <2>2. tx'.state \in {"DATA_LOW", "ACK_WAIT"} /\ tx'.byte = tx.byte
      BY <1>1, <1>11, CallbackMoves DEF Moves
    <2> QED BY <1>1, <1>2, <2>1, <2>2 DEF AckedInv, Sampled
  <1>12. CASE TxAckLow(s)
    <2>1. /\ tx.state = "ACK_LOW"
          /\ acked' = IF acks' THEN acked \cup {tx.byte - 1} ELSE acked
      BY <1>12 DEF TxAckLow
    <2>2. tx'.state = "ACK_HIGH" /\ tx'.byte = tx.byte
      BY <1>1, <1>12, CallbackMoves DEF Moves
    <2>3. /\ tx.byte - 1 \in Nat /\ acked \subseteq 0..(tx.byte - 2)
          /\ tx.byte \in Int /\ ~(tx.byte - 1 <= tx.byte - 2)
      BY <1>1, <1>2, <2>1, TxNumbers DEF Position, AckedInv
    <2>4. acks' <=> (tx.byte - 1) \in acked'
      <3>1. tx.byte - 1 \notin acked
        <4>1. tx.byte - 1 \notin 0..(tx.byte - 2)
          BY <2>3
        <4> QED BY <2>3, <4>1, Zenon
      <3>2. CASE acks'
        BY <2>1, <3>2
      <3>3. CASE ~acks'
        BY <2>1, <3>1, <3>3
      <3> QED BY <3>2, <3>3
    <2>5. acked' \subseteq 0..(tx.byte - 1)
      <3>1. acked' \subseteq acked \cup {tx.byte - 1}
        BY <2>1
      <3>2. tx.byte - 1 \in 0..(tx.byte - 1)
        BY <2>3
      <3> QED BY <1>2, <3>1, <3>2, Zenon
    <2>6. frame.len = 1 => acks' = (Dest(frame) \in devices)
      BY <1>12 DEF TxAckLow, MayAck
    <2>7. frame'.len = frame.len /\ Dest(frame)' = Dest(frame)
      BY <1>1 DEF Dest
    <2>8. /\ tx'.state \notin {"EOM_LOW", "EOM_HIGH", "ACK_LOW"}
          /\ acked' \subseteq 0..(tx'.byte - 1)
          /\ acks' <=> (tx'.byte - 1) \in acked'
      BY <2>2, <2>4, <2>5
    <2>9. frame'.len = 1 => acks' = (Dest(frame)' \in devices')
      BY <1>1, <2>6, <2>7
    <2> QED BY <2>8, <2>9 DEF AckedInv
  <1> QED BY <1>1, <1>3, <1>4, <1>5, <1>6, <1>7, <1>8, <1>9, <1>10, <1>11, <1>12 DEF Callback

LEMMA CallbackAnswer ==
  ASSUME TypeInv, Pending, Due, Answer, NEW l \in Nat, Fires(l)
  PROVE  Answer'
  <1> DEFINE s == alarm + l
  <1>1. /\ s \in Nat /\ alarm \in Nat /\ alarm # NoAlarm /\ main = "sending"
        /\ Callback(s) /\ main' = main
    BY FiresFacts
  <1>2. s = alarm + l
    OBVIOUS
  <1>3. slipped' = (slipped \/ l > 200)
    BY DEF Fires
  <1> HIDE DEF s
  <1>4. CASE TxStartLow(s)
    <2>1. tx'.state # "END" /\ tx'.ack = tx.ack
      BY <1>1, <1>4, CallbackMoves DEF Moves
    <2>2. ~tx.ack
      BY <1>1, <1>4 DEF TxStartLow, Answer
    <2> QED BY <2>1, <2>2 DEF Answer
  <1>5. CASE TxStartHigh(s)
    <2>1. tx'.state # "END" /\ tx'.ack = tx.ack
      BY <1>1, <1>5, CallbackMoves DEF Moves
    <2>2. ~tx.ack
      BY <1>1, <1>5 DEF TxStartHigh, Answer
    <2> QED BY <2>1, <2>2 DEF Answer
  <1>6. CASE TxDataLow(s)
    <2>1. tx'.state # "END" /\ tx'.ack = tx.ack
      BY <1>1, <1>6, CallbackMoves DEF Moves
    <2>2. ~tx.ack
      BY <1>1, <1>6 DEF TxDataLow, Answer
    <2> QED BY <2>1, <2>2 DEF Answer
  <1>7. CASE TxDataHigh(s)
    <2>1. tx'.state # "END" /\ tx'.ack = tx.ack
      BY <1>1, <1>7, CallbackMoves DEF Moves
    <2>2. ~tx.ack
      BY <1>1, <1>7 DEF TxDataHigh, Answer
    <2> QED BY <2>1, <2>2 DEF Answer
  <1>8. CASE TxEomLow(s)
    <2>1. tx'.state # "END" /\ tx'.ack = tx.ack
      BY <1>1, <1>8, CallbackMoves DEF Moves
    <2>2. ~tx.ack
      BY <1>1, <1>8 DEF TxEomLow, Answer
    <2> QED BY <2>1, <2>2 DEF Answer
  <1>9. CASE TxEomHigh(s)
    <2>1. tx'.state # "END" /\ tx'.ack = tx.ack
      BY <1>1, <1>9, CallbackMoves DEF Moves
    <2>2. ~tx.ack
      BY <1>1, <1>9 DEF TxEomHigh, Answer
    <2> QED BY <2>1, <2>2 DEF Answer
  <1>10. CASE TxAckLow(s)
    <2>1. tx'.state # "END" /\ tx'.ack = tx.ack
      BY <1>1, <1>10, CallbackMoves DEF Moves
    <2>2. ~tx.ack
      BY <1>1, <1>10 DEF TxAckLow, Answer
    <2> QED BY <2>1, <2>2 DEF Answer
  <1>11. CASE TxAckHigh(s)
    <2>1. tx'.state # "END" /\ tx'.ack = tx.ack
      BY <1>1, <1>11, CallbackMoves DEF Moves
    <2>2. ~tx.ack
      BY <1>1, <1>11 DEF TxAckHigh, Answer
    <2> QED BY <2>1, <2>2 DEF Answer
  <1>12. CASE TxAckWait(s)
    <2>1. alarm = 1050 /\ acks' = acks /\ heldThen' \in BOOLEAN
      BY <1>1, <1>12 DEF TxAckWait, Due
    <2>2. /\ tx'.state = "END" /\ tx'.broadcast = tx.broadcast
          /\ tx'.ack = SampleAck(s, heldThen')
      BY <1>1, <1>12, CallbackMoves
    <2>3. ~slipped' => s < FollowerLow
      <3>1. FollowerLow \in 1300..1700
        BY TransmitterAssumption
      <3>2. ~slipped' => ~(l > 200)
        BY <1>3
      <3> QED BY <1>2, <2>1, <3>1, <3>2
    <2>4. tx'.ack => IF tx.broadcast THEN ~heldThen' /\ (acks => slipped') ELSE heldThen' \/ acks
      BY <2>2, <2>3, Zenon DEF SampleAck, WireLow
    <2>5. ~tx'.ack /\ ~slipped' =>
            IF tx.broadcast THEN heldThen' \/ acks ELSE ~heldThen' /\ ~acks
      BY <2>2, <2>3, Zenon DEF SampleAck, WireLow
    <2> QED BY <2>1, <2>2, <2>4, <2>5 DEF Answer
  <1>13. CASE TxEnd
    <2>1. tx.state = "END" /\ acks' = acks /\ heldThen' = heldThen
      BY <1>13 DEF TxEnd
    <2>2. /\ tx'.state = "END" /\ tx'.broadcast = tx.broadcast /\ tx'.ack = tx.ack
      BY <1>1, <1>13, CallbackMoves
    <2>3. slipped => slipped'
      BY <1>3
    <2> QED BY <1>1, <2>1, <2>2, <2>3, Zenon DEF Answer
  <1> QED BY <1>1, <1>4, <1>5, <1>6, <1>7, <1>8, <1>9, <1>10, <1>11, <1>12, <1>13 DEF Callback

--------------------------------------------------------------------------------
(* The invariant of the transmissions.                                         *)

\* What is said of a transmission that is going on.
SendingInv(L) ==
  /\ Pending /\ AckRestInv /\ Released /\ OwnFrame /\ Position /\ Due /\ Clock(L)
  /\ Judged /\ Lost /\ AckedInv /\ Answer

LEMMA CallbackTxInv ==
  ASSUME NEW L, Fits(L), TxInv(L), TypeInv', NEW l \in Nat, Fires(l)
  PROVE  TxInv(L)'
  <1>1. /\ TypeInv /\ Pending /\ AckRestInv /\ Released /\ OwnFrame /\ Position /\ Due /\ Clock(L)
        /\ Judged /\ Lost /\ AckedInv /\ Answer /\ Polls /\ FrameFits(L)
    BY DEF TxInv
  <1>2. main = "sending" /\ UNCHANGED <<main, op, frame, cand>>
    BY <1>1, FiresFacts
  <1>3. Fresh'
    BY <1>2 DEF Fresh
  <1>4. Polls'
    BY <1>1, <1>2 DEF Polls
  <1>5. FrameFits(L)'
    BY <1>1, <1>2 DEF FrameFits
  <1>6. Pending' /\ AckRestInv' /\ Released'
    BY <1>1, CallbackWire
  <1>7. OwnFrame' /\ Position'
    BY <1>1, CallbackPosition
  <1>8. Due'
    BY <1>1, CallbackDue
  <1>9. Clock(L)'
    BY <1>1, CallbackClock
  <1>10. Judged' /\ Lost'
    BY <1>1, CallbackJudged
  <1>11. AckedInv'
    BY <1>1, CallbackAcked
  <1>12. Answer'
    BY <1>1, CallbackAnswer
  <1> QED
    BY <1>3, <1>4, <1>5, <1>6, <1>7, <1>8, <1>9, <1>10, <1>11, <1>12 DEF TxInv

\* Nothing of it is left when the main thread is somewhere else.
LEMMA QuietSending ==
  ASSUME NEW L, main' # "sending", alarm' = NoAlarm, ackHigh' = NoAlarm, ~drives'
  PROVE  SendingInv(L)'
  BY DEF SendingInv, Pending, AckRestInv, Released, OwnFrame, Position, Due, Clock,
         Judged, Lost, AckedInv, Answer, NoAlarm

LEMMA QuietLine ==
  ASSUME NEW L, TxInv(L), main # "sending" \/ tx.done
  PROVE  alarm = NoAlarm /\ ackHigh = NoAlarm /\ ~drives
  BY DEF TxInv, Pending, AckRestInv, Released

LEMMA WaitForIdleTxInv ==
  ASSUME NEW L, Fits(L), TxInv(L), TypeInv', main # "sending" \/ tx.done,
         NEW f, NEW k, WaitForIdle(f, k), UNCHANGED <<alarm, drives, ackHigh>>,
         FrameUs(f.len) + (MaxLate + 1) * L <= TimeoutUs,
         op' = "claim" => f = PollMsg(Candidates[cand'])
  PROVE  TxInv(L)'
  <1>1. main' = "idle" /\ frame' = f
    BY DEF WaitForIdle
  <1>2. alarm' = NoAlarm /\ ackHigh' = NoAlarm /\ ~drives'
    BY QuietLine
  <1>3. SendingInv(L)'
    BY <1>1, <1>2, QuietSending
  <1>4. Fresh'
    BY DEF Fresh, WaitForIdle
  <1>5. Polls'
    BY <1>1 DEF Polls
  <1>6. FrameFits(L)'
    BY <1>1 DEF FrameFits
  <1> QED BY <1>3, <1>4, <1>5, <1>6 DEF TxInv, SendingInv

LEMMA ReadyTxInv ==
  ASSUME NEW L, TxInv(L), TypeInv', main # "sending" \/ tx.done,
         main' = "ready", UNCHANGED <<alarm, drives, ackHigh>>
  PROVE  TxInv(L)'
  <1>1. alarm' = NoAlarm /\ ackHigh' = NoAlarm /\ ~drives'
    BY QuietLine
  <1>2. SendingInv(L)'
    BY <1>1, QuietSending
  <1>3. Fresh' /\ Polls' /\ FrameFits(L)'
    BY DEF Fresh, Polls, FrameFits
  <1> QED BY <1>2, <1>3 DEF TxInv, SendingInv

LEMMA SameTxInv ==
  ASSUME NEW L, TxInv(L), TypeInv',
         UNCHANGED <<main, op, frame, cand, tx, alarm, elapsed, drives, acks, devices,
                     ackHigh, history>>
  PROVE  TxInv(L)'
  <1>1. Pending' /\ AckRestInv' /\ Released'
    BY DEF TxInv, Pending, AckRestInv, Released, history
  <1>2. OwnFrame' /\ Position'
    BY DEF TxInv, OwnFrame, Position, Dest, history
  <1>3. Due' /\ Clock(L)'
    BY DEF TxInv, Due, Clock, history
  <1>4. Judged' /\ Lost' /\ Answer' /\ Fresh'
    BY DEF TxInv, Judged, Lost, Answer, Fresh, history
  <1>5. AckedInv'
    BY DEF TxInv, AckedInv, Dest, history
  <1>6. Polls' /\ FrameFits(L)'
    BY DEF TxInv, Polls, FrameFits
  <1> QED BY <1>1, <1>2, <1>3, <1>4, <1>5, <1>6 DEF TxInv

LEMMA StartSendingTxInv ==
  ASSUME NEW L, Fits(L), TxInv(L), TypeInv', main = "idle", StartSending,
         UNCHANGED <<op, frame, attempt, retries, cand, address, result,
                     elapsed, acks, devices, pulses, faithful, acked, heldThen, late, slipped>>
  PROVE  TxInv(L)'
  <1>1. /\ elapsed = 0 /\ pulses = 0 /\ faithful /\ acked = {} /\ ~heldThen
        /\ late = 0 /\ ~slipped /\ ~acks /\ L \in Nat
    BY DEF TxInv, Fresh, Fits
  <1>2. /\ main' = "sending" /\ alarm' = 0 /\ clash' = (talk # NoTalk)
        /\ tx'.state = "START_LOW" /\ tx'.byte = 0 /\ tx'.bit = 7 /\ tx'.len = frame.len
        /\ tx'.broadcast = (Dest(frame) = 15) /\ tx'.ack = FALSE /\ tx'.done = FALSE
    BY DEF StartSending
  <1>3. ackHigh' # NoAlarm => clash'
    <2>1. CASE talk = NoTalk
      BY <2>1 DEF StartSending
    <2>2. CASE talk # NoTalk
      BY <1>2, <2>2
    <2> QED BY <2>1, <2>2
  <1>4. drives' = (ackHigh' # NoAlarm)
    BY DEF StartSending
  <1>5. Pending' /\ AckRestInv' /\ Released'
    BY <1>1, <1>2, <1>3, <1>4 DEF Pending, AckRestInv, Released
  <1>6. OwnFrame' /\ Position'
    BY <1>1, <1>2 DEF OwnFrame, Position, Dest, Started, Bits, Sampled
  <1>7. Due'
    BY <1>2 DEF Due
  <1>8. Clock(L)'
    <2>1. late' * L = 0
      BY <1>1
    <2> QED BY <1>1, <1>2, <2>1 DEF Clock, Rises
  <1>9. Judged' /\ Lost'
    BY <1>1, <1>2 DEF Judged, Lost, NoAlarm
  <1>10. AckedInv'
    BY <1>1, <1>2 DEF AckedInv, Sampled
  <1>11. Answer'
    BY <1>2 DEF Answer
  <1>12. Fresh' /\ Polls' /\ FrameFits(L)'
    BY <1>2 DEF TxInv, Fresh, Polls, FrameFits
  <1> QED BY <1>5, <1>6, <1>7, <1>8, <1>9, <1>10, <1>11, <1>12 DEF TxInv

\* The time-out never overtakes a callback: it ends a transmission whose alarm is lost.
LEMMA TxTimeoutTxInv ==
  ASSUME NEW L, Fits(L), TxInv(L), TypeInv', TxTimeout
  PROVE  TxInv(L)'
  <1>1. main = "sending" /\ ~tx.done /\ ackHigh = NoAlarm
    BY DEF TxTimeout
  <1>2. alarm = NoAlarm
    <2>1. SUFFICES ASSUME alarm # NoAlarm PROVE FALSE
      OBVIOUS
    <2>2. PICK l \in Lateness \cup {0} : elapsed + alarm + l > TimeoutUs
      BY <2>1 DEF TxTimeout
    <2>3. l \in Nat /\ l <= L
      BY TransmitterAssumption DEF Fits
    <2>4. elapsed + alarm + l <= TimeoutUs
      BY <2>1, <2>3, InTime DEF TxInv
    <2>5. elapsed \in Nat /\ alarm \in Int
      BY DEF TxInv, TypeInv, TypeOK, NoAlarm
    <2> QED BY <2>2, <2>3, <2>4, <2>5 DEF TimeoutUs
  <1>3. slipped
    BY <1>1, <1>2 DEF TxInv, Lost
  <1>4. /\ tx' = [tx EXCEPT !.done = TRUE, !.ack = FALSE] /\ drives' = FALSE
        /\ UNCHANGED <<mainVars, alarm, elapsed, acks, devices, talk, ackHigh, history>>
    BY DEF TxTimeout
  <1>5. tx \in TxType
    BY DEF TxInv, TypeInv, TypeOK, TxType
  <1>6. /\ tx'.state = tx.state /\ tx'.byte = tx.byte /\ tx'.bit = tx.bit /\ tx'.len = tx.len
        /\ tx'.broadcast = tx.broadcast /\ tx'.ack = FALSE
    BY <1>4, <1>5 DEF TxType
  <1>7. UNCHANGED <<main, op, frame, cand, alarm, elapsed, acks, devices, ackHigh, pulses,
                    faithful, acked, heldThen, clash, late, slipped>>
    BY <1>4 DEF mainVars, history
  <1>8. Pending' /\ AckRestInv' /\ Released'
    BY <1>1, <1>2, <1>4, <1>7 DEF Pending, AckRestInv, Released, NoAlarm
  <1>9. OwnFrame' /\ Position'
    BY <1>6, <1>7 DEF TxInv, OwnFrame, Position, Dest
  <1>10. Due' /\ Clock(L)'
    BY <1>2, <1>7 DEF Due, Clock, NoAlarm
  <1>11. Judged' /\ Lost' /\ Answer'
    BY <1>3, <1>6, <1>7 DEF Judged, Lost, Answer
  <1>12. AckedInv'
    BY <1>6, <1>7 DEF TxInv, AckedInv, Dest
  <1>13. Fresh' /\ Polls' /\ FrameFits(L)'
    BY <1>1, <1>7 DEF TxInv, Fresh, Polls, FrameFits
  <1> QED BY <1>8, <1>9, <1>10, <1>11, <1>12, <1>13 DEF TxInv

LEMMA AckHighTxInv ==
  ASSUME NEW L, TxInv(L), TypeInv', AckHigh
  PROVE  TxInv(L)'
  <1>1. /\ ackHigh' = NoAlarm /\ drives' = FALSE
        /\ UNCHANGED <<mainVars, tx, alarm, elapsed, acks, devices, talk,
                       pulses, acked, heldThen, clash, late, slipped>>
    BY DEF AckHigh
  <1>2. UNCHANGED <<main, op, frame, cand, tx>>
    BY <1>1 DEF mainVars
  <1>3. main = "sending" /\ clash
    BY DEF TxInv, AckRestInv, AckHigh
  <1>4. Pending' /\ AckRestInv' /\ Released'
    BY <1>1, <1>2 DEF TxInv, Pending, AckRestInv, Released, NoAlarm
  <1>5. OwnFrame' /\ Position'
    BY <1>1, <1>2 DEF TxInv, OwnFrame, Position, Dest
  <1>6. Due' /\ Clock(L)'
    BY <1>1, <1>2 DEF TxInv, Due, Clock
  <1>7. Judged' /\ Lost' /\ Answer'
    BY <1>1, <1>2, <1>3 DEF TxInv, Judged, Lost, Answer
  <1>8. AckedInv'
    BY <1>1, <1>2 DEF TxInv, AckedInv, Dest
  <1>9. Fresh' /\ Polls' /\ FrameFits(L)'
    BY <1>2, <1>3 DEF TxInv, Fresh, Polls, FrameFits
  <1> QED BY <1>4, <1>5, <1>6, <1>7, <1>8, <1>9 DEF TxInv

LEMMA NextTxInv ==
  ASSUME NEW L, Fits(L), TxInv(L), [Next]_vars
  PROVE  TxInv(L)'
  <1>1. TypeInv /\ TypeInv'
    BY NextTypeInv DEF TxInv
  <1>2. CASE Transmit
    <2>1. PICK f \in Frames : WaitForIdle(f, 0)
      BY <1>2 DEF Transmit
    <2>2. main # "sending" /\ op' # "claim" /\ UNCHANGED <<alarm, drives, ackHigh>>
      BY <1>2 DEF Transmit
    <2>3. FrameUs(f.len) + (MaxLate + 1) * L <= TimeoutUs
      BY DEF Fits
    <2> QED BY <1>1, <2>1, <2>2, <2>3, WaitForIdleTxInv
  <1>3. CASE Claim
    <2>1. /\ main # "sending" /\ cand' = 1 /\ UNCHANGED <<alarm, drives, ackHigh>>
          /\ WaitForIdle(PollMsg(Candidates[1]), 0)
      BY <1>3 DEF Claim
    <2>2. FrameUs(PollMsg(Candidates[1]).len) + (MaxLate + 1) * L <= TimeoutUs
      BY CandidateType, PollType DEF Fits
    <2> QED BY <1>1, <2>1, <2>2, WaitForIdleTxInv
  <1>4. CASE IdleSample
    <2>1. PICK high \in Samples :
             IF high = 7 \/ 2400 * (samples + 1) > 50000
             THEN StartSending
             ELSE /\ idleHigh' = high /\ samples' = samples + 1
                  /\ UNCHANGED <<main, tx, alarm, drives, talk, ackHigh, clash>>
      BY <1>4 DEF IdleSample
    <2>2. /\ main = "idle"
          /\ UNCHANGED <<op, frame, attempt, retries, cand, address, result,
                         elapsed, acks, devices, pulses, faithful, acked, heldThen, late, slipped>>
      BY <1>4 DEF IdleSample
    <2>3. CASE StartSending
      BY <1>1, <2>2, <2>3, StartSendingTxInv
    <2>4. CASE ~StartSending
      <3>1. UNCHANGED <<main, tx, alarm, drives, talk, ackHigh, clash>>
        BY <2>1, <2>4
      <3>2. UNCHANGED <<main, op, frame, cand, tx, alarm, elapsed, drives, acks, devices,
                        ackHigh, history>>
        BY <2>2, <3>1 DEF history
      <3> QED BY <1>1, <3>2, SameTxInv
    <2> QED BY <2>3, <2>4
  <1>5. CASE TxTimeout
    BY <1>1, <1>5, TxTimeoutTxInv
  <1>6. CASE TransmitOk \/ TransmitNack \/ ClaimDone
    <2>1. tx.done /\ main' = "ready" /\ UNCHANGED <<alarm, drives, ackHigh>>
      BY <1>6 DEF TransmitOk, TransmitNack, ClaimDone, Sent, Line
    <2> QED BY <1>1, <2>1, ReadyTxInv
  <1>7. CASE TransmitRetry
    <2>1. /\ tx.done /\ op' # "claim" /\ UNCHANGED <<alarm, drives, ackHigh>>
          /\ WaitForIdle(frame, attempt + 1)
      BY <1>7 DEF TransmitRetry, Sent, Line
    <2>2. FrameUs(frame.len) + (MaxLate + 1) * L <= TimeoutUs
      BY <1>7 DEF TransmitRetry, Sent, TxInv, FrameFits
    <2> QED BY <1>1, <2>1, <2>2, WaitForIdleTxInv
  <1>8. CASE ClaimNext
    <2>1. /\ tx.done /\ cand' = cand + 1 /\ UNCHANGED <<alarm, drives, ackHigh>>
          /\ WaitForIdle(PollMsg(Candidates[cand + 1]), 0)
      BY <1>8 DEF ClaimNext, Sent, Line
    <2>2. FrameUs(PollMsg(Candidates[cand + 1]).len) + (MaxLate + 1) * L <= TimeoutUs
      <3>1. cand + 1 \in 1..4
        BY <1>1 DEF TypeInv, TypeOK
      <3> QED BY <3>1, CandidateType, PollType DEF Fits
    <2> QED BY <1>1, <2>1, <2>2, WaitForIdleTxInv
  <1>9. CASE CecTxAlarm \/ \E l \in Lateness : LateCecTxAlarm(l)
    <2>1. PICK l \in Nat : Fires(l)
      BY <1>1, <1>9, CallbackFires DEF TypeInv
    <2> QED BY <1>1, <2>1, CallbackTxInv
  <1>10. CASE AckHigh
    BY <1>1, <1>10, AckHighTxInv
  <1>11. CASE UNCHANGED vars
    <2>1. UNCHANGED <<main, op, frame, cand, tx, alarm, elapsed, drives, acks, devices,
                      ackHigh, history>>
      BY <1>11 DEF vars, mainVars
    <2> QED BY <1>1, <2>1, SameTxInv
  <1> QED
    BY <1>2, <1>3, <1>4, <1>5, <1>6, <1>7, <1>8, <1>9, <1>10, <1>11 DEF Next, MainStep

LEMMA InitTxInv ==
  ASSUME NEW L, Init
  PROVE  TxInv(L)
  <1>1. TypeInv
    BY InitTypeInv
  <1>2. main = "ready" /\ alarm = NoAlarm /\ ackHigh = NoAlarm /\ ~drives
    BY DEF Init
  <1>3. SendingInv(L)
    BY <1>2 DEF SendingInv, Pending, AckRestInv, Released, OwnFrame, Position, Due, Clock,
                Judged, Lost, AckedInv, Answer
  <1>4. Fresh /\ Polls /\ FrameFits(L)
    BY <1>2 DEF Fresh, Polls, FrameFits
  <1> QED BY <1>1, <1>3, <1>4 DEF TxInv, SendingInv

--------------------------------------------------------------------------------
(* The theorems.                                                               *)

LEMMA FitsSome ==
  ASSUME FramesFit
  PROVE  \E L : Fits(L)
  <1>1. PICK L \in Lateness \cup {0} :
          /\ \A l \in Lateness : l <= L
          /\ \A n \in {1} \cup {f.len : f \in Frames} :
               FrameUs(n) + (MaxLate + 1) * L <= TimeoutUs
    BY DEF FramesFit
  <1>2. L \in Nat
    BY TransmitterAssumption
  <1> QED BY <1>1, <1>2 DEF Fits

LEMMA TxInvariance ==
  ASSUME NEW L, Fits(L)
  PROVE  Spec => []TxInv(L)
  <1>1. Init => TxInv(L)
    BY InitTxInv
  <1>2. TxInv(L) /\ [Next]_vars => TxInv(L)'
    BY NextTxInv
  <1> QED BY <1>1, <1>2, PTL DEF Spec

\* Where the frames fit into 200 ms, no alarm of cec_tx_alarm is pending when
\* cec_frame_send_raw returns, though its time-out cancels none.
THEOREM NoStray == ASSUME FramesFit PROVE Spec => []NoStrayCallback
  <1>1. PICK L : Fits(L)
    BY FitsSome
  <1>2. Spec => []TxInv(L)
    BY <1>1, TxInvariance
  <1>3. TxInv(L) => NoStrayCallback
    BY DEF TxInv, Pending, NoStrayCallback
  <1> QED BY <1>2, <1>3, PTL

\* Between transmissions the adapter does not hold the wire low.
THEOREM WireIsReleased == ASSUME FramesFit PROVE Spec => []WireReleased
  <1>1. PICK L : Fits(L)
    BY FitsSome
  <1>2. Spec => []TxInv(L)
    BY <1>1, TxInvariance
  <1>3. TxInv(L) => WireReleased
    BY DEF TxInv, Released, WireReleased
  <1> QED BY <1>2, <1>3, PTL

LEMMA SampledByte ==
  ASSUME NEW L, TxInv(L), main = "sending", tx.state = "END"
  PROVE  /\ tx.byte = frame.len /\ pulses = 10 * frame.len
         /\ tx.broadcast <=> Dest(frame) = 15
         /\ acks <=> (frame.len - 1) \in acked
         /\ frame.len = 1 => acks = (Dest(frame) \in devices)
  <1>1. tx.byte = frame.len /\ pulses = 10 * frame.len
    BY DEF TxInv, Position, OwnFrame, Sampled
  <1>2. tx.broadcast <=> Dest(frame) = 15
    BY DEF TxInv, OwnFrame
  <1>3. /\ acks <=> (tx.byte - 1) \in acked
        /\ frame.len = 1 => acks = (Dest(frame) \in devices)
    BY DEF TxInv, AckedInv, Sampled
  <1> QED BY <1>1, <1>2, <1>3

\* Unless a callback was too late, a transmission over without tx.ack was sampled.
LEMMA UnansweredSample ==
  ASSUME NEW L, TxInv(L), Sent, ~tx.ack, ~slipped
  PROVE  /\ tx.state = "END"
         /\ IF tx.broadcast THEN heldThen \/ acks ELSE ~heldThen /\ ~acks
  <1>1. main = "sending" /\ tx.done
    BY DEF Sent
  <1>2. tx.state = "END"
    BY <1>1 DEF TxInv, Pending, Lost
  <1> QED BY <1>1, <1>2 DEF TxInv, Answer

\* What the callbacks put on the wire is the frame, with every pulse in time.
THEOREM WireCarriesTheFrame == ASSUME FramesFit PROVE Spec => FrameOnTheWire
  <1>1. PICK L : Fits(L)
    BY FitsSome
  <1>2. Spec => []TxInv(L)
    BY <1>1, TxInvariance
  <1>3. TxInv(L) /\ [Next]_vars =>
          [main = "sending" /\ ~tx.done /\ tx'.done /\ tx.state = "END" /\ alarm # NoAlarm
             /\ ~slipped /\ ~clash
             => pulses = 10 * frame.len /\ faithful]_vars
    <2>1. ASSUME TxInv(L), main = "sending", tx.state = "END", ~slipped, ~clash
          PROVE  pulses = 10 * frame.len /\ faithful
      <3>1. faithful
        BY <2>1 DEF TxInv, Judged
      <3> QED BY <2>1, <3>1, SampledByte
    <2> QED BY <2>1
  <1> QED BY <1>2, <1>3, PTL DEF Spec, FrameOnTheWire

\* CEC_TX_OK says that the last byte was acknowledged, or a broadcast not refused.
THEOREM OkIsAnswered == ASSUME FramesFit PROVE Spec => OkMeansAnswered
  <1>1. PICK L : Fits(L)
    BY FitsSome
  <1>2. Spec => []TxInv(L)
    BY <1>1, TxInvariance
  <1>3. TxInv(L) /\ [Next]_vars =>
          [TransmitOk =>
             IF Dest(frame) = 15
             THEN ~heldThen /\ (acks => slipped)
             ELSE heldThen \/ (frame.len - 1) \in acked]_vars
    <2>1. ASSUME TxInv(L), TransmitOk
          PROVE  IF Dest(frame) = 15
                 THEN ~heldThen /\ (acks => slipped)
                 ELSE heldThen \/ (frame.len - 1) \in acked
      <3>1. main = "sending" /\ tx.ack
        BY <2>1 DEF TransmitOk, Sent
      <3>2. /\ tx.state = "END"
            /\ IF tx.broadcast THEN ~heldThen /\ (acks => slipped) ELSE heldThen \/ acks
        BY <2>1, <3>1 DEF TxInv, Answer
      <3>3. /\ tx.broadcast <=> Dest(frame) = 15
            /\ acks <=> (frame.len - 1) \in acked
        BY <2>1, <3>1, <3>2, SampledByte
      <3> QED BY <3>2, <3>3
    <2> QED BY <2>1
  <1> QED BY <1>2, <1>3, PTL DEF Spec, OkMeansAnswered

\* A frame that was acknowledged is not sent again.
THEOREM RetryIsUnanswered == ASSUME FramesFit PROVE Spec => RetryMeansUnanswered
  <1>1. PICK L : Fits(L)
    BY FitsSome
  <1>2. Spec => []TxInv(L)
    BY <1>1, TxInvariance
  <1>3. TxInv(L) /\ [Next]_vars =>
          [TransmitRetry /\ ~slipped =>
             IF Dest(frame) = 15
             THEN heldThen \/ acks
             ELSE (frame.len - 1) \notin acked]_vars
    <2>1. ASSUME TxInv(L), TransmitRetry, ~slipped
          PROVE  IF Dest(frame) = 15
                 THEN heldThen \/ acks
                 ELSE (frame.len - 1) \notin acked
      <3>1. main = "sending" /\ Sent /\ ~tx.ack
        BY <2>1 DEF TransmitRetry, Sent
      <3>2. /\ tx.state = "END"
            /\ IF tx.broadcast THEN heldThen \/ acks ELSE ~heldThen /\ ~acks
        BY <2>1, <3>1, UnansweredSample
      <3>3. /\ tx.broadcast <=> Dest(frame) = 15
            /\ acks <=> (frame.len - 1) \in acked
        BY <2>1, <3>1, <3>2, SampledByte
      <3> QED BY <3>2, <3>3
    <2> QED BY <2>1
  <1> QED BY <1>2, <1>3, PTL DEF Spec, RetryMeansUnanswered

\* The logical address taken is not one that another device answers for.
THEOREM ClaimIsFree == ASSUME FramesFit PROVE Spec => ClaimAvoidsUsed
  <1>1. PICK L : Fits(L)
    BY FitsSome
  <1>2. Spec => []TxInv(L)
    BY <1>1, TxInvariance
  <1>3. TxInv(L) /\ [Next]_vars => [ClaimDone => address' \notin devices \/ slipped]_vars
    <2>1. ASSUME TxInv(L), ClaimDone, ~slipped
          PROVE  address' \notin devices
      <3>1. /\ main = "sending" /\ Sent /\ op = "claim" /\ cand \in 1..4
            /\ devices \subseteq {4, 8, 11}
        BY <2>1 DEF ClaimDone, Sent, TxInv, TypeInv, TypeOK
      <3>2. CASE address' = Unregistered
        BY <3>1, <3>2 DEF Unregistered
      <3>3. CASE ~tx.ack /\ address' = Candidates[cand] /\ address' # Unregistered
        <4>1. /\ tx.state = "END"
              /\ IF tx.broadcast THEN heldThen \/ acks ELSE ~heldThen /\ ~acks
          BY <2>1, <3>1, <3>3, UnansweredSample
        <4>2. frame = PollMsg(Candidates[cand])
          BY <2>1, <3>1 DEF TxInv, Polls
        <4>3. Candidates[cand] \in {4, 8, 11}
          BY <3>1, <3>3, CandidateType DEF Unregistered
        <4>4. frame.len = 1 /\ Dest(frame) = Candidates[cand]
          BY <4>2, <4>3, PollType, PollDest
        <4>5. /\ tx.broadcast <=> Dest(frame) = 15
              /\ frame.len = 1 => acks = (Dest(frame) \in devices)
          BY <2>1, <3>1, <4>1, SampledByte
        <4>6. ~acks
          BY <4>1, <4>3, <4>4, <4>5
        <4> QED BY <3>3, <4>4, <4>5, <4>6
      <3>4. \/ ~tx.ack /\ address' = Candidates[cand]
            \/ address' = Unregistered
        BY <2>1 DEF ClaimDone
      <3> QED BY <3>2, <3>3, <3>4
    <2> QED BY <2>1
  <1> QED BY <1>2, <1>3, PTL DEF Spec, ClaimAvoidsUsed

================================================================================
