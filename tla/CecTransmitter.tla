---------------------------- MODULE CecTransmitter ----------------------------
(***************************************************************************)
(* The transmit half of firmware/cec_transceiver.c: cec_frame_send_raw     *)
(* with its wait for an idle bus and its 200 ms time-out, the alarm        *)
(* callback cec_tx_alarm that drives the wire meanwhile, the retries of    *)
(* cec_transmit and cec_claim_logical_address.                             *)
(*                                                                         *)
(* Times are in microseconds.  The callback is due `alarm' after tx.start  *)
(* and may run late, by a member of Lateness, at most MaxLate times in one *)
(* frame.  A callback that returns 0 is not called again.                  *)
(*                                                                         *)
(* The environment is the rest of the bus: followers that acknowledge a    *)
(* byte by holding the wire low for FollowerLow, a device that may hold    *)
(* the wire low at any moment at which the code looks at it, and another   *)
(* initiator that may be in the middle of a frame during the whole wait    *)
(* for an idle bus; it may be to this adapter, whose receiver, still on,   *)
(* acknowledges it until ack_high.                                         *)
(***************************************************************************)
EXTENDS Integers

CONSTANTS
  Frames,       \* the frames main.c hands to cec_transmit
  Retries,      \* the values of max_retries it passes
  FrameMax,     \* CEC_FRAME_MAX_LEN
  Lateness,     \* how late an alarm callback may run
  MaxLate,      \* bound on the number of late callbacks in a frame
  DeviceSets,   \* the sets of logical addresses other devices may use
  FollowerLow,  \* how long a follower holds the wire to acknowledge
  Talks,        \* another initiator's bits: their period, and where in one it is
  AckRest       \* how much of its own acknowledgement the adapter may have left

Bit == {0, 1}
Bytes == [0..7 -> Bit]    \* most significant bit first
BlankByte == [i \in 0..7 |-> 0]
Frame == [len : 1..FrameMax, data : [0..(FrameMax - 1) -> Bytes]]
Unregistered == 15
Candidates == <<4, 8, 11, Unregistered>>
NoAlarm == -1
NoTalk == [period |-> 0, at |-> 0]

ASSUME TransmitterAssumption ==
  /\ FrameMax \in Nat \ {0}
  /\ Frames \subseteq Frame
  /\ Retries \subseteq Nat
  /\ Lateness \subseteq Nat \ {0}
  /\ MaxLate \in Nat
  /\ DeviceSets \subseteq SUBSET {4, 8, 11}
  /\ FollowerLow \in 1300..1700
  /\ Talks \subseteq [period : 2050..2750, at : 0..2749]
  /\ AckRest \subseteq 1..1500

VARIABLES
  main,       \* where the main thread is: ready, idle, sending
  op,         \* the function it is in: transmit or claim
  frame,      \* the frame it sends
  attempt,    \* number of the try, from 0
  retries,    \* max_retries
  cand,       \* index into candidates[]
  idleHigh,   \* i: consecutive samples of an idle bus
  samples,    \* samples taken, 2400 us apart
  tx,         \* the static struct tx, without data and start
  alarm,      \* when the callback is due, after tx.start, or NoAlarm
  elapsed,    \* tx.start - tx_start
  drives,     \* the adapter holds the wire low
  address,    \* rx.address
  result,     \* what cec_transmit returned, none while it runs
  acks,       \* a follower acknowledges the byte just sent
  devices,    \* the logical addresses other devices use and answer for
  talk,       \* the other initiator during the wait
  ackHigh     \* when ack_high is due, after tx_start, or NoAlarm

VARIABLES     \* history of the frame on the wire
  pulses,     \* pulses completed after the start bit
  faithful,   \* all of them were in time and what the frame asked for
  acked,      \* the bytes a follower acknowledged
  heldThen,   \* the wire was held low when the acknowledgement was sampled
  clash,      \* the other initiator was not done when this one started
  late,       \* late callbacks
  slipped     \* one of them by more than a receiver tolerates

mainVars == <<main, op, frame, attempt, retries, cand, idleHigh, samples,
              address, result>>
history == <<pulses, faithful, acked, heldThen, clash, late, slipped>>
vars == <<mainVars, tx, alarm, elapsed, drives, acks, devices, talk, ackHigh, history>>

TxStates == {"START_LOW", "START_HIGH", "DATA_LOW", "DATA_HIGH", "EOM_LOW",
             "EOM_HIGH", "ACK_LOW", "ACK_HIGH", "ACK_WAIT", "END"}

Dest(f) == 8 * f.data[0][4] + 4 * f.data[0][5] + 2 * f.data[0][6] + f.data[0][7]
Nibble(v) == [i \in 0..3 |-> (v \div 2^(3 - i)) % 2]
\* HEADER0(a, a), alone
PollMsg(a) ==
  [len |-> 1, data |-> [b \in 0..(FrameMax - 1) |->
                          IF b = 0 THEN [i \in 0..7 |-> Nibble(a)[i % 4]]
                                   ELSE BlankByte]]

--------------------------------------------------------------------------------
(* The alarm callback.  s is the time since tx.start at which it runs.         *)

\* cec_output_low() and tx.start = now; the callback runs again d later.
StartPulse(s, d) ==
  /\ drives' = TRUE
  /\ elapsed' = elapsed + s
  /\ alarm' = d

\* return time_until(tx.start, d)
Until(s, d) == alarm' = IF d > s THEN d ELSE NoAlarm

EndPulse(s, d) ==
  /\ drives' = FALSE
  /\ Until(s, d)
  /\ UNCHANGED elapsed

\* History: what the frame asks of a pulse, and the judgement of a receiver.
Expected(p) ==
  LET b == p \div 10
  IN  CASE p % 10 < 8 -> frame.data[b][p % 10]
        [] p % 10 = 8 -> IF b = frame.len - 1 THEN 1 ELSE 0
        [] p % 10 = 9 -> 1

PulseOk(s) ==
  /\ pulses < 10 * frame.len
  /\ IF Expected(pulses) = 1 THEN s \in 400..800 ELSE s \in 1300..1700

PeriodOk(s) == IF pulses = 0 THEN s \in 4300..4700 ELSE s \in 2050..2750

FallHistory(ok) ==
  /\ faithful' = (faithful /\ ok)
  /\ UNCHANGED <<pulses, heldThen>>

RiseHistory(s) ==
  /\ faithful' = (faithful /\ PulseOk(s))
  /\ pulses' = pulses + 1
  /\ UNCHANGED <<acks, acked, heldThen>>

TxStartLow(s) ==
  /\ tx.state = "START_LOW"
  /\ tx' = [tx EXCEPT !.state = "START_HIGH"]
  /\ StartPulse(s, 3700)
  /\ FallHistory(TRUE) /\ UNCHANGED <<acks, acked>>

TxStartHigh(s) ==
  /\ tx.state = "START_HIGH"
  /\ tx' = [tx EXCEPT !.state = "DATA_LOW"]
  /\ EndPulse(s, 4500)
  /\ FallHistory(s \in 3500..3900) /\ UNCHANGED <<acks, acked>>

TxDataLow(s) ==
  /\ tx.state = "DATA_LOW"
  /\ tx' = [tx EXCEPT !.state = "DATA_HIGH"]
  /\ StartPulse(s, IF frame.data[tx.byte][7 - tx.bit] = 1 THEN 600 ELSE 1500)
  /\ FallHistory(PeriodOk(s)) /\ UNCHANGED <<acks, acked>>

\* if (tx.bit--): the uint8_t wraps to 255 after bit 0.
TxDataHigh(s) ==
  /\ tx.state = "DATA_HIGH"
  /\ tx' = [tx EXCEPT !.bit = (@ - 1) % 256,
                      !.byte = IF tx.bit = 0 THEN @ + 1 ELSE @,
                      !.state = IF tx.bit = 0 THEN "EOM_LOW" ELSE "DATA_LOW"]
  /\ EndPulse(s, 2400)
  /\ RiseHistory(s)

\* Mutant: EOM as if tx.byte were still the index of the byte just sent.
TxEomLowEarly(s) ==
  /\ tx.state = "EOM_LOW"
  /\ tx' = [tx EXCEPT !.state = "EOM_HIGH"]
  /\ StartPulse(s, IF tx.byte + 1 < tx.len THEN 1500 ELSE 600)
  /\ FallHistory(PeriodOk(s)) /\ UNCHANGED <<acks, acked>>

\* tx.byte has moved on already: it is the number of bytes sent.
TxEomLow(s) ==
  /\ tx.state = "EOM_LOW"
  /\ tx' = [tx EXCEPT !.state = "EOM_HIGH"]
  /\ StartPulse(s, IF tx.byte < tx.len THEN 1500 ELSE 600)
  /\ FallHistory(PeriodOk(s)) /\ UNCHANGED <<acks, acked>>

TxEomHigh(s) ==
  /\ tx.state = "EOM_HIGH"
  /\ tx' = [tx EXCEPT !.state = "ACK_LOW"]
  /\ EndPulse(s, 2400)
  /\ RiseHistory(s)

\* A poll is answered by the device that has the address, and by it alone.  Of any
\* other frame a follower may acknowledge, or refuse, a byte and not another.
MayAck == IF frame.len = 1 THEN {Dest(frame) \in devices} ELSE BOOLEAN

TxAckLow(s) ==
  /\ tx.state = "ACK_LOW"
  /\ tx' = [tx EXCEPT !.state = "ACK_HIGH"]
  /\ StartPulse(s, 600)
  /\ FallHistory(PeriodOk(s))
  /\ acks' \in MayAck
  /\ acked' = IF acks' THEN acked \cup {tx.byte - 1} ELSE acked

\* Mutant: the wire is not released before the acknowledgement is sampled.
TxAckHighHolds(s) ==
  /\ tx.state = "ACK_HIGH"
  /\ \/ /\ tx.byte < tx.len
        /\ tx' = [tx EXCEPT !.bit = 7, !.state = "DATA_LOW"]
        /\ EndPulse(s, 2400)
     \/ /\ tx.byte >= tx.len
        /\ tx' = [tx EXCEPT !.state = "ACK_WAIT"]
        /\ Until(s, 1050) /\ UNCHANGED <<drives, elapsed>>
  /\ RiseHistory(s)

\* Mutant: 850 + 1250 / 2, the acknowledgement is over when it is sampled.
TxAckHighLate(s) ==
  /\ tx.state = "ACK_HIGH"
  /\ \/ /\ tx.byte < tx.len
        /\ tx' = [tx EXCEPT !.bit = 7, !.state = "DATA_LOW"]
        /\ EndPulse(s, 2400)
     \/ /\ tx.byte >= tx.len
        /\ tx' = [tx EXCEPT !.state = "ACK_WAIT"]
        /\ EndPulse(s, 1475)
  /\ RiseHistory(s)

\* (850 + 1250) / 2 is where the acknowledgement of the last byte is sampled.
TxAckHigh(s) ==
  /\ tx.state = "ACK_HIGH"
  /\ \/ /\ tx.byte < tx.len
        /\ tx' = [tx EXCEPT !.bit = 7, !.state = "DATA_LOW"]
        /\ EndPulse(s, 2400)
     \/ /\ tx.byte >= tx.len
        /\ tx' = [tx EXCEPT !.state = "ACK_WAIT"]
        /\ EndPulse(s, 1050)
  /\ RiseHistory(s)

WireLow(s, h) == h \/ (acks /\ s < FollowerLow)

\* Mutant: the logic of a broadcast is not inverted.
SampleAckPlain(s, h) == WireLow(s, h)

SampleAck(s, h) == IF tx.broadcast THEN ~WireLow(s, h) ELSE WireLow(s, h)

TxAckWait(s) ==
  /\ tx.state = "ACK_WAIT"
  /\ heldThen' \in BOOLEAN
  /\ tx' = [tx EXCEPT !.ack = SampleAck(s, heldThen'), !.state = "END"]
  /\ Until(s, 2400)
  /\ UNCHANGED <<elapsed, drives, acks, acked, pulses, faithful>>

TxEnd ==
  /\ tx.state = "END"
  /\ tx' = [tx EXCEPT !.done = TRUE]
  /\ alarm' = NoAlarm
  /\ UNCHANGED <<elapsed, drives, acks, acked, pulses, faithful, heldThen>>

Callback(s) ==
  \/ TxStartLow(s)
  \/ TxStartHigh(s)
  \/ TxDataLow(s)
  \/ TxDataHigh(s)
  \/ TxEomLow(s)
  \/ TxEomHigh(s)
  \/ TxAckLow(s)
  \/ TxAckHigh(s)
  \/ TxAckWait(s)
  \/ TxEnd

\* Mutant: a limit shorter than the longest frame.
TimeoutShort == 50000

\* The limit of while (!tx.done).
TimeoutUs == 200000

\* While it spins, main() notices the time-out before any callback after it.
CecTxAlarm ==
  /\ alarm # NoAlarm
  /\ main = "sending" /\ ~tx.done => elapsed + alarm <= TimeoutUs
  /\ ackHigh # NoAlarm => elapsed + alarm <= ackHigh
  /\ Callback(alarm)
  /\ UNCHANGED <<mainVars, devices, talk, ackHigh, clash, late, slipped>>

\* 200 us is what separates the nominal times from a receiver's limits.
LateCecTxAlarm(l) ==
  /\ late < MaxLate
  /\ alarm # NoAlarm
  /\ main = "sending" /\ ~tx.done => elapsed + alarm + l <= TimeoutUs
  /\ ackHigh # NoAlarm => elapsed + alarm + l <= ackHigh
  /\ Callback(alarm + l)
  /\ late' = late + 1
  /\ slipped' = (slipped \/ l > 200)
  /\ UNCHANGED <<mainVars, devices, talk, ackHigh, clash>>

\* The receiver's acknowledgement ends, in the start bit if that has begun.
AckHigh ==
  /\ ackHigh # NoAlarm
  /\ alarm # NoAlarm => ackHigh <= elapsed + alarm
  /\ ackHigh' = NoAlarm /\ drives' = FALSE
  /\ faithful' = (faithful /\ tx.state = "START_LOW")
  /\ UNCHANGED <<mainVars, tx, alarm, elapsed, acks, devices, talk,
                 pulses, acked, heldThen, clash, late, slipped>>

--------------------------------------------------------------------------------
(* The main thread: cec_frame_send_raw and its callers.                        *)

\* Entering cec_frame_send_raw(f, ...); the history starts anew.
WaitForIdle(f, k) ==
  /\ main' = "idle"
  /\ frame' = f /\ attempt' = k /\ result' = "none"
  /\ idleHigh' = 0 /\ samples' = 0
  /\ acks' = FALSE /\ elapsed' = 0
  /\ pulses' = 0 /\ faithful' = TRUE /\ acked' = {} /\ heldThen' = FALSE
  /\ clash' = FALSE /\ late' = 0 /\ slipped' = FALSE
  /\ talk' \in Talks \cup {NoTalk}

Transmit ==
  /\ main = "ready" /\ address # 0
  /\ op' = "transmit"
  /\ retries' \in Retries
  /\ \E f \in Frames : WaitForIdle(f, 0)
  /\ UNCHANGED <<cand, address, tx, alarm, drives, devices, ackHigh>>

Claim ==
  /\ main = "ready"
  /\ op' = "claim" /\ cand' = 1 /\ retries' = 0
  /\ WaitForIdle(PollMsg(Candidates[1]), 0)
  /\ UNCHANGED <<address, tx, alarm, drives, devices, ackHigh>>

\* The receiver is switched off and the first callback runs at once.  The
\* counters of the wait are dead.
StartSending ==
  /\ main' = "sending" /\ idleHigh' = 0 /\ samples' = 0
  /\ tx' = [state |-> "START_LOW", byte |-> 0, bit |-> 7, len |-> frame.len,
            ack |-> FALSE, broadcast |-> Dest(frame) = 15, done |-> FALSE]
  /\ alarm' = 0
  /\ clash' = (talk # NoTalk) /\ talk' = NoTalk
  /\ ackHigh' \in {NoAlarm} \cup IF talk = NoTalk THEN {} ELSE AckRest
  /\ drives' = (ackHigh' # NoAlarm)

\* What a sample may read: a bit of the other initiator begins with 600 us or more of
\* low, and anything may hold the wire.
Samples ==
  {0} \cup IF talk # NoTalk /\ (talk.at + 2400 * (samples + 1)) % talk.period < 600
           THEN {} ELSE {idleHigh + 1}

\* Mutant: the wait for an idle bus is not limited to 50 ms.
IdleSampleForEver ==
  /\ main = "idle"
  /\ \E high \in Samples :
        IF high = 7
        THEN StartSending
        ELSE /\ idleHigh' = high
             /\ samples' = IF samples < 20 THEN samples + 1 ELSE samples
             /\ UNCHANGED <<main, tx, alarm, drives, talk, ackHigh, clash>>
  /\ UNCHANGED <<op, frame, attempt, retries, cand, address, result,
                 elapsed, acks, devices, pulses, faithful, acked, heldThen, late, slipped>>

\* One sample of the wait for seven idle bit times, given up after 50 ms: some
\* device may hold the wire at each of them.
IdleSample ==
  /\ main = "idle"
  /\ \E high \in Samples :
        IF high = 7 \/ 2400 * (samples + 1) > 50000
        THEN StartSending
        ELSE /\ idleHigh' = high /\ samples' = samples + 1
             /\ UNCHANGED <<main, tx, alarm, drives, talk, ackHigh, clash>>
  /\ UNCHANGED <<op, frame, attempt, retries, cand, address, result,
                 elapsed, acks, devices, pulses, faithful, acked, heldThen, late, slipped>>

\* 200 ms have passed, because no callback is due or the next one is later.
TxTimeout ==
  /\ main = "sending" /\ ~tx.done /\ ackHigh = NoAlarm
  /\ \/ alarm = NoAlarm
     \/ \E l \in Lateness \cup {0} : elapsed + alarm + l > TimeoutUs
  /\ tx' = [tx EXCEPT !.done = TRUE, !.ack = FALSE]
  /\ drives' = FALSE
  /\ UNCHANGED <<mainVars, alarm, elapsed, acks, devices, talk, ackHigh, history>>

Sent == main = "sending" /\ tx.done

Line == <<tx, alarm, drives, devices, ackHigh>>

TransmitOk ==
  /\ Sent /\ op = "transmit" /\ tx.ack
  /\ main' = "ready" /\ result' = "ok"
  /\ UNCHANGED <<op, frame, attempt, retries, cand, idleHigh, samples, address, Line,
                 elapsed, acks, talk, history>>

TransmitRetry ==
  /\ Sent /\ op = "transmit" /\ ~tx.ack /\ attempt < retries
  /\ WaitForIdle(frame, attempt + 1)
  /\ UNCHANGED <<op, retries, cand, address, Line>>

TransmitNack ==
  /\ Sent /\ op = "transmit" /\ ~tx.ack /\ attempt >= retries
  /\ main' = "ready" /\ result' = "nack"
  /\ UNCHANGED <<op, frame, attempt, retries, cand, idleHigh, samples, address, Line,
                 elapsed, acks, talk, history>>

\* Mutant: the unregistered address is polled like the others.
ClaimNextPollsAll ==
  /\ Sent /\ op = "claim" /\ tx.ack
  /\ cand' = cand + 1
  /\ WaitForIdle(PollMsg(Candidates[cand + 1]), 0)
  /\ UNCHANGED <<op, retries, address, Line>>

\* Somebody answered the poll: try the next address, if there is one to poll.
ClaimNext ==
  /\ Sent /\ op = "claim" /\ tx.ack
  /\ Candidates[cand + 1] # Unregistered
  /\ cand' = cand + 1
  /\ WaitForIdle(PollMsg(Candidates[cand + 1]), 0)
  /\ UNCHANGED <<op, retries, address, Line>>

\* Mutant: the loop has moved on when it takes the address.
ClaimDoneLate ==
  /\ Sent /\ op = "claim"
  /\ tx.ack => Candidates[cand + 1] = Unregistered
  /\ address' = Candidates[cand + 1]
  /\ main' = "ready"
  /\ UNCHANGED <<op, frame, attempt, retries, cand, idleHigh, samples, result, Line,
                 elapsed, acks, talk, history>>

ClaimDone ==
  /\ Sent /\ op = "claim"
  /\ \/ ~tx.ack /\ address' = Candidates[cand]
     \/ tx.ack /\ Candidates[cand + 1] = Unregistered /\ address' = Unregistered
  /\ main' = "ready"
  /\ UNCHANGED <<op, frame, attempt, retries, cand, idleHigh, samples, result, Line,
                 elapsed, acks, talk, history>>

Init ==
  /\ main = "ready" /\ op = "claim" /\ frame = PollMsg(0)
  /\ attempt = 0 /\ retries = 0 /\ cand = 1 /\ idleHigh = 0 /\ samples = 0
  /\ tx = [state |-> "START_LOW", byte |-> 0, bit |-> 0, len |-> 0,
           ack |-> FALSE, broadcast |-> FALSE, done |-> FALSE]
  /\ alarm = NoAlarm /\ elapsed = 0 /\ drives = FALSE
  /\ address = 0 /\ result = "none"
  /\ acks = FALSE /\ devices \in DeviceSets /\ talk = NoTalk /\ ackHigh = NoAlarm
  /\ pulses = 0 /\ faithful = TRUE /\ acked = {} /\ heldThen = FALSE
  /\ clash = FALSE /\ late = 0 /\ slipped = FALSE

MainStep ==
  \/ IdleSample
  \/ TxTimeout
  \/ TransmitOk
  \/ TransmitRetry
  \/ TransmitNack
  \/ ClaimNext
  \/ ClaimDone

Next ==
  \/ Transmit
  \/ Claim
  \/ MainStep
  \/ CecTxAlarm
  \/ \E l \in Lateness : LateCecTxAlarm(l)
  \/ AckHigh

\* The main thread and the timer run; neither waits for another device.
Fairness == WF_vars(MainStep) /\ WF_vars(CecTxAlarm) /\ WF_vars(AckHigh)

Spec == Init /\ [][Next]_vars /\ Fairness

--------------------------------------------------------------------------------
(* Properties.                                                                 *)

\* How long a frame of n bytes takes, with callbacks that run in time.
FrameUs(n) == 4500 + 24000 * n

(***************************************************************************)
(* What the 200 ms of cec_frame_send_raw rely on: with all the lateness    *)
(* there is, and the next callback late too, a frame of the callers or a   *)
(* poll ends in time.                                                      *)
(***************************************************************************)
FramesFit ==
  \E L \in Lateness \cup {0} :
    /\ \A l \in Lateness : l <= L
    /\ \A n \in {1} \cup {f.len : f \in Frames} :
         FrameUs(n) + (MaxLate + 1) * L <= TimeoutUs

(***************************************************************************)
(* Types of the variables.  tx.bit wraps to 255 after the last bit of a    *)
(* byte and keeps that value after the last byte (cec_tx_alarm).           *)
(***************************************************************************)
TypeOK ==
  /\ main \in {"ready", "idle", "sending"}
  /\ op \in {"transmit", "claim"}
  /\ frame \in Frame
  /\ attempt \in Nat /\ retries \in Nat
  /\ cand \in 1..3 /\ idleHigh \in 0..6 /\ samples \in 0..20
  /\ tx \in [state : TxStates, byte : 0..FrameMax, bit : 0..7 \cup {255},
             len : 0..FrameMax, ack : BOOLEAN, broadcast : BOOLEAN,
             done : BOOLEAN]
  /\ alarm \in Nat \cup {NoAlarm} /\ elapsed \in Nat
  /\ drives \in BOOLEAN /\ acks \in BOOLEAN
  /\ address \in {0} \cup {4, 8, 11, 15}
  /\ result \in {"none", "ok", "nack"}
  /\ devices \subseteq {4, 8, 11}
  /\ pulses \in Nat /\ faithful \in BOOLEAN
  /\ acked \subseteq 0..(FrameMax - 1)
  /\ talk \in Talks \cup {NoTalk} /\ ackHigh \in {NoAlarm} \cup AckRest /\ clash \in BOOLEAN
  /\ heldThen \in BOOLEAN /\ late \in 0..MaxLate /\ slipped \in BOOLEAN

(***************************************************************************)
(* What is on the wire when the callbacks end a transmission is the frame: *)
(* ten pulses a byte, each bit with the low time of its value, EOM on the  *)
(* last byte and on no other, and every pulse within a receiver's limits,  *)
(* unless a callback ran later than those limits allow (cec_tx_alarm) or   *)
(* the transmission began in the middle of another initiator's frame.      *)
(***************************************************************************)
FrameOnTheWire ==
  [][main = "sending" /\ ~tx.done /\ tx'.done /\ tx.state = "END" /\ alarm # NoAlarm
       /\ ~slipped /\ ~clash
       => pulses = 10 * frame.len /\ faithful]_vars

(***************************************************************************)
(* When cec_frame_send_raw returns, no callback is pending: one left over  *)
(* would go on with the struct tx, and the wire, of the next transmission. *)
(* The time-out cancels no alarm; what rules it out is that no frame the   *)
(* callers send takes 200 ms (cec_frame_send_raw lines 394-403).           *)
(***************************************************************************)
NoStrayCallback == main # "sending" => alarm = NoAlarm

(***************************************************************************)
(* Between transmissions the adapter does not hold the wire low, also      *)
(* where an alarm was lost and the time-out ended the last one.            *)
(***************************************************************************)
WireReleased == main # "sending" => ~drives

(***************************************************************************)
(* CEC_TX_OK is never stale or inverted: on the last try a follower        *)
(* acknowledged the last byte of a direct frame, or the wire was held low; *)
(* nobody refused a broadcast, as far as a sample in time can tell         *)
(* (cec_tx_alarm ACK_WAIT, cec_transmit).                                  *)
(***************************************************************************)
OkMeansAnswered ==
  [][TransmitOk =>
       IF Dest(frame) = 15
       THEN ~heldThen /\ (acks => slipped)
       ELSE heldThen \/ (frame.len - 1) \in acked]_vars

(***************************************************************************)
(* A frame is sent again only if it was not answered: no follower          *)
(* acknowledged the last byte of a direct frame, and somebody refused a    *)
(* broadcast, or held the wire, unless a callback ran late enough to miss  *)
(* it.  The TV does not get a frame twice that it has acknowledged         *)
(* (cec_tx_alarm ACK_WAIT, cec_transmit lines 755-765).                    *)
(***************************************************************************)
RetryMeansUnanswered ==
  [][TransmitRetry /\ ~slipped =>
       IF Dest(frame) = 15
       THEN heldThen \/ acks
       ELSE (frame.len - 1) \notin acked]_vars

(***************************************************************************)
(* The logical address claimed is not one another device answered for,     *)
(* unless a callback ran so late that the answer was missed                *)
(* (cec_claim_logical_address).                                            *)
(***************************************************************************)
ClaimAvoidsUsed == [][ClaimDone => address' \notin devices \/ slipped]_vars

(***************************************************************************)
(* Every call returns: the bus may stay low for ever, alarms may be lost,  *)
(* and the address may be taken (the 50 ms and 200 ms limits).             *)
(***************************************************************************)
EveryCallReturns == main # "ready" ~> main = "ready"

(***************************************************************************)
(* What cec_transceiver.h line 115 says of cec_transmit: the ACK bit is    *)
(* sampled after each byte.  The code samples that of the last byte only.  *)
(***************************************************************************)
EveryByteAcknowledged ==
  [][TransmitOk /\ Dest(frame) # 15 =>
       heldThen \/ acked = 0..(frame.len - 1)]_vars

(***************************************************************************)
(* What cec_transceiver.h lines 110-111 say of cec_transmit: it waits for  *)
(* an idle bus, with no activity for three bit times.  Seven samples that  *)
(* read high, 2400 us apart, the nominal length of a bit, may all be in    *)
(* the high ends of another initiator's bits.  (A wait that was given up   *)
(* after 50 ms is not meant: its comment says so.)                         *)
(***************************************************************************)
StartsOnAnIdleBus ==
  [][main = "idle" /\ main' = "sending" /\ idleHigh = 6 => talk = NoTalk]_vars
================================================================================
