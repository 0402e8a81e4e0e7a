------------------------------ MODULE CecReceiver ------------------------------
(***************************************************************************)
(* The receive half of firmware/cec_transceiver.c: the edge-interrupt      *)
(* driven state machine cec_rx_isr, the ACK it drives and the alarm        *)
(* ack_high that ends it, cec_rx_start, and cec_receive_poll, which the    *)
(* main loop calls at any moment between two edges.                        *)
(*                                                                         *)
(* The rest of the bus is the environment: some other initiator puts a     *)
(* frame on the wire one pulse at a time, and may stop in the middle.  A   *)
(* pulse is a low phase and a high phase; its durations are in             *)
(* microseconds, as the code measures them.  A falling edge starts a pulse *)
(* and a rising edge ends its low phase.                                   *)
(*                                                                         *)
(* rx.ack and rx.abort are written but never read in the code and are left *)
(* out.  rx.data[rx.byte] is shifted left by one bit per data bit: after   *)
(* eight shifts bit number i of the byte (most significant first) is the   *)
(* i-th bit received, so the model stores it at data[byte][i].             *)
(***************************************************************************)
EXTENDS Integers

CONSTANTS
  Frames,      \* the frames other initiators send
  FrameMax,    \* CEC_FRAME_MAX_LEN: bytes in rx.data
  Claimable,   \* the logical addresses cec_claim_logical_address hands out
  StartLow,    \* how long an initiator holds the start bit low
  StartTotal,  \* from the start bit's falling edge to the first data bit's
  OneLow,      \* low phase of a bit 1
  ZeroLow,     \* low phase of a bit 0, and of an ACK asserted by a follower
  BitTotal,    \* from one data bit's falling edge to the next
  MaxSince     \* bound on the measured time; longer times are all alike

Bit == {0, 1}
Bytes == [0..7 -> Bit]
BlankByte == [i \in 0..7 |-> 0]
Blank == [b \in 0..(FrameMax - 1) |-> BlankByte]
Frame == [len : 1..FrameMax, data : [0..(FrameMax - 1) -> Bytes]]

(***************************************************************************)
(* The initiators keep within the timing the receiver itself accepts, and  *)
(* address 15 stands for broadcast.                                        *)
(***************************************************************************)
ASSUME ReceiverAssumption ==
  /\ FrameMax \in Nat \ {0}
  /\ Frames \subseteq Frame
  /\ Claimable \subseteq 0..15
  /\ StartLow \subseteq 3500..3900
  /\ StartTotal \subseteq 4300..4700
  /\ OneLow \subseteq 400..800
  /\ ZeroLow \subseteq 1300..1700
  /\ BitTotal \subseteq 2050..2750
  /\ MaxSince \in Nat /\ MaxSince > 4700

VARIABLES
  frame,     \* the frame on the wire, or the last one that was
  blk,       \* index of the byte being sent
  slot,      \* 0 start bit, 1..8 data bits, 9 EOM, 10 ACK
  low,       \* the wire is low
  lowUs,     \* low time the initiator chose for this pulse
  highUs,    \* high time left for it
  idle,      \* no frame is in progress
  rx,        \* the static struct rx, without address and start
  address,   \* rx.address
  since,     \* now - rx.start at the last edge, at most MaxSince
  irq,       \* the edges for which the GPIO interrupt is enabled
  driving,   \* the ISR pulls the wire low and the alarm ack_high is pending
  main,      \* what the main thread does: boot, loop, tx, after
  heard      \* history: how the frame on the wire was listened to

wire == <<frame, blk, slot, low, lowUs, highUs, idle>>
vars == <<wire, rx, address, since, irq, driving, main, heard>>

RxStates == {"START_LOW", "START_HIGH", "DATA_LOW", "DATA_HIGH", "EOM_LOW",
             "EOM_HIGH", "ACK_LOW", "ACK_HIGH", "END", "ABORT"}

Cap(t) == IF t > MaxSince THEN MaxSince ELSE t

\* The low nibble of the first byte: rx.data[0] & 0x0f.
Dest(d) == 8 * d[0][4] + 4 * d[0][5] + 2 * d[0][6] + d[0][7]
Broadcast == 15

--------------------------------------------------------------------------------
(* The interrupt service routine.  t is now - rx.start, now an edge time.      *)

StartLowOk(t) == t \in 3500..3900
\* Mutant: an upper limit at the nominal bit time.
BitTimeTight(t) == IF rx.first THEN t \in 4300..4700 ELSE t \in 2050..2400

BitTimeOk(t) == IF rx.first THEN t \in 4300..4700 ELSE t \in 2050..2750
IsOne(t) == t \in 400..800
IsZero(t) == t \in 1300..1700

\* Mutant: the test for a broadcast is dropped.
AddressedToUsOrAll == Dest(rx.data) = address

AddressedToUs == Dest(rx.data) # Broadcast /\ Dest(rx.data) = address

\* The edges each state of the switch leaves enabled when it returns.
IrqFor(s) ==
  CASE s \in {"DATA_LOW", "EOM_LOW", "ACK_LOW"} -> {"fall"}
    [] s \in {"START_HIGH", "DATA_HIGH", "EOM_HIGH", "ACK_HIGH"} -> {"rise"}
    [] OTHER -> {}

Abort == rx' = [rx EXCEPT !.state = "ABORT"]

IsrStartLow ==
  /\ rx.state = "START_LOW"
  /\ rx' = [rx EXCEPT !.state = "START_HIGH"]

\* Mutant: the byte counter keeps its value from the frame before.
IsrStartHighKeepsByte(t) ==
  /\ rx.state = "START_HIGH"
  /\ IF StartLowOk(t)
     THEN rx' = [rx EXCEPT !.state = "DATA_LOW", !.first = TRUE, !.bit = 0]
     ELSE Abort

IsrStartHigh(t) ==
  /\ rx.state = "START_HIGH"
  /\ IF StartLowOk(t)
     THEN rx' = [rx EXCEPT !.state = "DATA_LOW", !.first = TRUE,
                           !.byte = 0, !.bit = 0]
     ELSE Abort

IsrDataLow(t) ==
  /\ rx.state = "DATA_LOW"
  /\ IF BitTimeOk(t)
     THEN rx' = [rx EXCEPT !.state = "DATA_HIGH", !.first = FALSE]
     ELSE Abort

\* Mutant: the bit counter is not reset for the next byte.
IsrEomLowKeepsBit(t) ==
  /\ rx.state = "EOM_LOW"
  /\ rx' = [rx EXCEPT !.byte = @ + 1,
              !.first = IF BitTimeOk(t) THEN FALSE ELSE @,
              !.state = IF BitTimeOk(t) THEN "EOM_HIGH" ELSE "ABORT"]

\* The byte counter moves on before the bit time is checked.
IsrEomLow(t) ==
  /\ rx.state = "EOM_LOW"
  /\ rx' = [rx EXCEPT !.byte = @ + 1, !.bit = 0,
              !.first = IF BitTimeOk(t) THEN FALSE ELSE @,
              !.state = IF BitTimeOk(t) THEN "EOM_HIGH" ELSE "ABORT"]

StoreBit(v) ==
  [rx EXCEPT !.data[rx.byte][rx.bit] = v, !.bit = @ + 1,
             !.state = IF rx.bit + 1 > 7 THEN "EOM_LOW" ELSE "DATA_LOW"]

IsrDataHigh(t) ==
  /\ rx.state = "DATA_HIGH"
  /\ \/ IsOne(t) /\ rx' = StoreBit(1)
     \/ IsZero(t) /\ rx' = StoreBit(0)
     \/ ~IsOne(t) /\ ~IsZero(t) /\ Abort

IsrEomHigh(t) ==
  /\ rx.state = "EOM_HIGH"
  /\ \/ /\ IsOne(t) \/ IsZero(t)
        /\ rx' = [rx EXCEPT !.eom = IsOne(t), !.state = "ACK_LOW"]
     \/ ~IsOne(t) /\ ~IsZero(t) /\ Abort

IsrAckLow ==
  /\ rx.state = "ACK_LOW"
  /\ rx' = [rx EXCEPT !.state = "ACK_HIGH"]

FrameDone(r) == [r EXCEPT !.state = "END", !.len = r.byte, !.frameReady = TRUE]

\* ACK_HIGH falls through to ACK_END, and on the last byte to END.
IsrAckHigh(t) ==
  /\ rx.state = "ACK_HIGH"
  /\ IF IsOne(t) \/ IsZero(t)
     THEN rx' = IF rx.eom THEN FrameDone(rx)
                          ELSE [rx EXCEPT !.state = "DATA_LOW"]
     ELSE Abort

Isr(t) ==
  /\ \/ IsrStartLow
     \/ IsrStartHigh(t)
     \/ IsrDataLow(t)
     \/ IsrEomLow(t)
     \/ IsrDataHigh(t)
     \/ IsrEomHigh(t)
     \/ IsrAckLow
     \/ IsrAckHigh(t)
  /\ irq' = IrqFor(rx'.state)
  \* rx.start = now where a pulse that is being timed begins
  /\ since' = IF rx'.state \in {"START_HIGH", "DATA_HIGH", "EOM_HIGH", "ACK_HIGH"}
              THEN 0 ELSE t

\* An edge: the ISR runs if that edge is enabled; t is the time since rx.start.
Edge(e, t) ==
  IF e \in irq
  THEN Isr(t)
  ELSE since' = t /\ UNCHANGED <<rx, irq>>

--------------------------------------------------------------------------------
(* The wire.                                                                   *)

\* A falling edge.  In state ACK_LOW the ISR starts to drive an ACK of its own.
FallingEdge(t) ==
  /\ Edge("fall", t)
  /\ driving' = ("fall" \in irq /\ rx.state = "ACK_LOW" /\ AddressedToUs)
  /\ low' = TRUE
  /\ UNCHANGED <<address, main>>

BeginFrame ==
  /\ idle
  /\ idle' = FALSE
  /\ frame' \in Frames
  /\ blk' = 0 /\ slot' = 0
  /\ \E l \in StartLow, total \in StartTotal : lowUs' = l /\ highUs' = total - l
  /\ FallingEdge(MaxSince)
  /\ heard' = IF rx.state = "START_LOW" /\ "fall" \in irq THEN "whole" ELSE "no"

\* The low times an initiator, or a follower in the ACK slot, may produce.
LowTimes(b, s) ==
  CASE s \in 1..8 -> IF frame.data[b][s - 1] = 1 THEN OneLow ELSE ZeroLow
    [] s = 9 -> IF b = frame.len - 1 THEN OneLow ELSE ZeroLow
    [] s = 10 -> OneLow \cup ZeroLow

NextPulse ==
  /\ ~idle /\ ~low
  /\ slot' = IF slot = 10 THEN 1 ELSE slot + 1
  /\ blk' = IF slot = 10 THEN blk + 1 ELSE blk
  /\ \E l \in LowTimes(blk', slot'), total \in BitTotal :
        lowUs' = l /\ highUs' = total - l
  /\ FallingEdge(Cap(since + highUs))
  /\ UNCHANGED <<frame, idle, heard>>

LastSlot == blk = frame.len - 1 /\ slot = 10

\* 1500 us after it started, ack_high stops driving the wire.
Held == IF driving /\ lowUs < 1500 THEN 1500 ELSE lowUs

Rise ==
  /\ low
  /\ low' = FALSE
  /\ highUs' = highUs - (Held - lowUs)
  /\ idle' = LastSlot
  /\ Edge("rise", Cap(since + Held))
  /\ driving' = FALSE
  /\ UNCHANGED <<frame, blk, slot, lowUs, address, main, heard>>

\* The initiator gives the frame up: not acknowledged, outbid, switched off.
Abandon ==
  /\ ~idle /\ ~low
  /\ idle' = TRUE
  /\ UNCHANGED <<frame, blk, slot, low, lowUs, highUs,
                 rx, address, since, irq, driving, main, heard>>

--------------------------------------------------------------------------------
(* The main thread.                                                            *)

\* Mutant: re-arming clears the buffer but not the state.
RxStartKeepsState ==
  /\ rx' = [rx EXCEPT !.frameReady = FALSE, !.len = 0, !.data = Blank]
  /\ irq' = irq \cup {"fall"}

\* cec_rx_start; the GPIO SDK adds the falling edge to those already enabled.
RxStart ==
  /\ rx' = [rx EXCEPT !.state = "START_LOW", !.frameReady = FALSE,
                      !.len = 0, !.data = Blank]
  /\ irq' = irq \cup {"fall"}

\* Mutant: the poll re-arms only when it took a frame.
ReceivePollNoRearm ==
  /\ main \in {"loop", "after"}
  /\ main' = "loop"
  /\ IF rx.frameReady THEN RxStart ELSE UNCHANGED <<rx, irq>>
  /\ heard' = IF idle \/ heard = "no" THEN heard ELSE "polled"
  /\ UNCHANGED <<wire, address, since, driving>>

ReceivePoll ==
  /\ main \in {"loop", "after"}
  /\ main' = "loop"
  /\ RxStart
  /\ heard' = IF idle \/ heard = "no" THEN heard ELSE "polled"
  /\ UNCHANGED <<wire, address, since, driving>>

\* cec_frame_send_raw disables both edges for as long as it transmits, and
\* nothing enables them again before the next poll.
TxBegin ==
  /\ main \in {"boot", "loop"}
  /\ main' = "tx"
  /\ irq' = {}
  /\ heard' = IF idle THEN heard ELSE "no"
  /\ UNCHANGED <<wire, rx, address, since, driving>>

\* The first transmissions claim the logical address; SET_PA may change it later.
\* The shortest transmission outlasts an ACK the ISR had begun to drive.
TxEnd ==
  /\ main = "tx" /\ ~driving
  /\ main' = "after"
  /\ address' \in Claimable
  /\ UNCHANGED <<wire, rx, since, irq, driving, heard>>

--------------------------------------------------------------------------------
Init ==
  /\ frame \in Frames /\ blk = 0 /\ slot = 0
  /\ low = FALSE /\ lowUs = 0 /\ highUs = 0 /\ idle = TRUE
  /\ rx = [state |-> "START_LOW", byte |-> 0, bit |-> 0, eom |-> FALSE,
           first |-> FALSE, data |-> Blank, len |-> 0, frameReady |-> FALSE]
  /\ address = 0
  /\ since = MaxSince
  /\ irq = {"fall"}
  /\ driving = FALSE
  /\ main = "boot"
  /\ heard = "no"

Next ==
  \/ BeginFrame
  \/ NextPulse
  \/ Rise
  \/ Abandon
  \/ ReceivePoll
  \/ TxBegin
  \/ TxEnd

\* The main loop polls for ever, and a transmission ends at the latest after
\* its 200 ms time-out: neither waits for the bus.  At boot main() always goes
\* on to the transmission that claims the logical address.  An ACK the ISR
\* drives ends by the alarm ack_high.
BootClaim == main = "boot" /\ TxBegin

AckReleased == driving /\ Rise

Fairness ==
  /\ WF_vars(ReceivePoll)
  /\ WF_vars(TxEnd)
  /\ WF_vars(BootClaim)
  /\ WF_vars(AckReleased)

Spec == Init /\ [][Next]_vars /\ Fairness

--------------------------------------------------------------------------------
(* Properties.                                                                 *)

(***************************************************************************)
(* Types of the variables.  rx.bit stays at 8 between the last data bit    *)
(* and the EOM bit; rx.byte reaches FrameMax only after the last byte.     *)
(***************************************************************************)
RxType ==
  [state : RxStates, byte : 0..FrameMax, bit : 0..8, eom : BOOLEAN,
   first : BOOLEAN, data : [0..(FrameMax - 1) -> Bytes], len : 0..FrameMax,
   frameReady : BOOLEAN]

TypeOK ==
  /\ frame \in Frames
  /\ blk \in 0..(FrameMax - 1)
  /\ slot \in 0..10
  /\ low \in BOOLEAN /\ idle \in BOOLEAN
  /\ lowUs \in Nat /\ highUs \in Nat
  /\ rx \in RxType
  /\ address \in 0..15
  /\ since \in 0..MaxSince
  /\ irq \subseteq {"rise", "fall"}
  /\ driving \in BOOLEAN
  /\ main \in {"boot", "loop", "tx", "after"}
  /\ heard \in {"no", "whole", "polled"}

(***************************************************************************)
(* Nothing is received that was not sent: when the ISR reports a frame,    *)
(* the wire is at the end of a frame with exactly those bytes, wherever    *)
(* polls and transmissions cut into the reception (cec_rx_isr,             *)
(* cec_rx_start).  It needs initiators that are not too slow: a poll in    *)
(* the low phase of a bit leaves both edges enabled, the rising edge then  *)
(* passes for the start of a start bit, and the next bit for its end if    *)
(* the two rise 3500..3900 us apart.  The run with a bit time of 2600 us   *)
(* violates the property, against "complete, validated frame" in           *)
(* cec_transceiver.h lines 129-131.                                        *)
(***************************************************************************)
AcceptsTheFrameOnTheWire ==
  [][~rx.frameReady /\ rx'.frameReady =>
       /\ LastSlot /\ low /\ ~low'
       /\ rx'.len = frame.len
       /\ \A b \in 0..(frame.len - 1) : rx'.data[b] = frame.data[b]]_vars

\* Two consecutive bits never rise a start bit's low time apart: the first is low
\* for h of its t microseconds, the second for l.
NoAliasing ==
  \A t \in BitTotal, h \in OneLow \cup ZeroLow, l \in OneLow \cup ZeroLow :
     ~StartLowOk(t - h + l)

(***************************************************************************)
(* The ACK the ISR drives never lands in the data bits of a frame of       *)
(* somebody else: it is in the ACK slot of a frame to this address, or, if *)
(* the initiator gave up just before that slot, under the start bit of the *)
(* next frame (cec_rx_isr lines 218-231, where no time is checked).        *)
(***************************************************************************)
AckNeverHitsData ==
  driving => /\ low
             /\ \/ slot = 0
                \/ slot = 10 /\ Dest(frame.data) = address /\ address # Broadcast

(***************************************************************************)
(* The ISR stores data bits inside rx.data only, although it never         *)
(* compares rx.byte with CEC_FRAME_MAX_LEN: the frames on the wire are     *)
(* what bounds it.                                                         *)
(***************************************************************************)
StoresInsideTheBuffer ==
  rx.state = "DATA_HIGH" /\ irq # {} => rx.byte < FrameMax /\ rx.bit < 8

(***************************************************************************)
(* A frame the receiver was listening for from its start bit on, and that  *)
(* no poll or transmission interrupted, is reported when it ends.          *)
(***************************************************************************)
UnpolledFrameIsReported ==
  [][low /\ ~low' /\ LastSlot /\ heard = "whole" => rx'.frameReady]_vars

(***************************************************************************)
(* The receiver never stays deaf: after an abort, a complete frame or a    *)
(* transmission, all of which leave the interrupt off, the poll of the     *)
(* main loop enables it again (cec_receive_poll line 798).                 *)
(***************************************************************************)
RxRearms == (irq = {}) ~> ("fall" \in irq)

(***************************************************************************)
(* What cec_transceiver.h lines 129-131 say of cec_receive_poll: it        *)
(* returns a frame if a complete one arrived since the last call.  A poll  *)
(* in the middle of a frame re-arms the receiver, and the frame is lost.   *)
(***************************************************************************)
EveryFrameIsReported ==
  [][low /\ ~low' /\ LastSlot /\ heard # "no" => rx'.frameReady]_vars

(***************************************************************************)
(* What the comment at cec_transceiver.c lines 269-270 says: rx.address is *)
(* set by cec_claim_logical_address or cec_transceiver_init, so the ISR    *)
(* acknowledges frames to an address this adapter was given.  init arms    *)
(* the receiver without setting it: until the first claim it is 0, the TV. *)
(***************************************************************************)
AcksOnlyItsOwnAddress == driving => address \in Claimable
================================================================================
