------------------------------- MODULE EdidProofs -------------------------------
(***************************************************************************)
(* Theorems about Edid for every set of displays and every way in which    *)
(* one byte of a block may be garbled.                                     *)
(*                                                                         *)
(* ClearInv is why nine pulses free the bus: the clocks that have gone by  *)
(* and those the display still needs add up to nine at most.               *)
(* UndisturbedInv says what a discovery nobody disturbs never sees, and    *)
(* ExplainedInv that a try that failed has left its reason behind.         *)
(*                                                                         *)
(* What the walk over the data blocks computes is left to TLC: WalkReads   *)
(* is the premise of the theorems about the result.                        *)
(***************************************************************************)
EXTENDS Edid, TLAPS

SlaveType == [hold : BOOLEAN, left : 0..9]

\* The types of everything but the result.
StateType ==
  /\ display \in Displays /\ step \in Steps
  /\ pulses \in 0..8 /\ offset \in {0, BlockSize} /\ attempt \in 0..2
  /\ error \in Reasons \cup {"ok", "not_run"} /\ explained \in BOOLEAN
  /\ sda \in BOOLEAN /\ noise \in Noise \cup {Clean}
  /\ slave \in SlaveType /\ disturbed \in BOOLEAN

ClearInv == IF step = "clear" THEN slave.left + pulses <= 9 ELSE pulses = 0

\* A garbled block is dropped with the try it belongs to.
NoiseInv == step # "stop" => noise = Clean

\* The extension is read only if the base block says that there is one.
HeaderInv == offset = BlockSize => display.header /\ display.extension

UndisturbedInv ==
  step \notin {"idle", "off", "clear"} /\ ~disturbed =>
    slave = Listening /\ noise = Clean /\ step \notin {"stop_failed", "give_up"}

ExplainedInv ==
  /\ step \notin {"idle", "off"} /\ error # "ok" => explained
  /\ step \in {"stop_failed", "give_up"} => explained

EInv ==
  /\ StateType /\ ClearInv /\ NoiseInv /\ HeaderInv /\ UndisturbedInv /\ ExplainedInv
  /\ FreedBeforeFirstStart

--------------------------------------------------------------------------------
(* The display, the noise and the reasons.                                     *)

\* A display has flags, and noise changes a byte.
LEMMA DisplayIs ==
  ASSUME NEW d \in Displays
  PROVE  d.header \in BOOLEAN /\ d.extension \in BOOLEAN /\ d.cta \in BOOLEAN
  BY EdidAssumption

\* Only an ungarbled block has the right sum.
LEMMA CleanIs ==
  ASSUME noise \in Noise \cup {Clean}
  PROVE  ChecksumOk <=> noise = Clean
<1>1. CASE noise = Clean
  <2>1. noise.by = 0
    BY <1>1 DEF Clean
  <2> QED BY <1>1, <2>1 DEF ChecksumOk
<1>2. CASE noise \in Noise
  <2>1. noise.by \in 1..255
    BY <1>2, EdidAssumption
  <2>2. noise.by % 256 = noise.by /\ noise.by # 0
    BY <2>1
  <2>3. noise # Clean
    BY <2>2 DEF Clean
  <2> QED BY <2>2, <2>3 DEF ChecksumOk
<1> QED BY <1>1, <1>2

\* A display that listens again is one.
LEMMA ListeningType ==
  /\ Listening \in SlaveType
  /\ Listening.hold = FALSE /\ Listening.left = 0
  BY DEF Listening, SlaveType

\* One that holds the line needs some clocks.
LEMMA HoldingType ==
  ASSUME NEW n \in 0..9
  PROVE  [hold |-> TRUE, left |-> n] \in SlaveType
  BY DEF SlaveType

\* Where a byte cut short leaves the display, it needs nine clocks at most.
LEMMA InterruptedType ==
  ASSUME slave \in SlaveType, NEW s \in Interrupted
  PROVE  s \in SlaveType
<1>1. CASE step = "bytes"
  <2>1. Interrupted = [hold : BOOLEAN, left : 1..8]
    BY <1>1 DEF Interrupted
  <2>2. s \in [hold : BOOLEAN, left : 1..8]
    BY <2>1
  <2> QED BY <2>2 DEF SlaveType
<1>2. CASE step = "read_address"
  <2>1. Interrupted = {Listening, [hold |-> TRUE, left |-> 9]}
    BY <1>2 DEF Interrupted
  <2>2. s = Listening \/ s = [hold |-> TRUE, left |-> 9]
    BY <2>1
  <2>3. 9 \in 0..9
    OBVIOUS
  <2>4. [hold |-> TRUE, left |-> 9] \in SlaveType
    BY <2>3, HoldingType
  <2> QED BY <2>2, <2>4, ListeningType
<1>3. CASE step \in {"address", "offset"}
  <2>1. Interrupted = {Listening, [hold |-> TRUE, left |-> 1]}
    BY <1>3 DEF Interrupted
  <2>2. s = Listening \/ s = [hold |-> TRUE, left |-> 1]
    BY <2>1
  <2>3. 1 \in 0..9
    OBVIOUS
  <2>4. [hold |-> TRUE, left |-> 1] \in SlaveType
    BY <2>3, HoldingType
  <2> QED BY <2>2, <2>4, ListeningType
<1>4. CASE step \notin {"bytes", "read_address", "address", "offset"}
  <2>1. Interrupted = {slave}
    BY <1>4 DEF Interrupted
  <2> QED BY <2>1
<1> QED BY <1>1, <1>2, <1>3, <1>4

\* One clock brings a display that needs any nearer to the end.
LEMMA ClockedType ==
  ASSUME slave \in SlaveType, NEW s \in Clocked
  PROVE  /\ s \in SlaveType
         /\ s.hold => s.left + 1 = slave.left
<1>1. CASE slave.left <= 1
  <2>1. s = Listening
    BY <1>1 DEF Clocked
  <2> QED BY <2>1, ListeningType
<1>2. CASE ~(slave.left <= 1)
  <2>1. s \in [hold : BOOLEAN, left : {slave.left - 1}]
    BY <1>2 DEF Clocked
  <2>2. slave.left \in 2..9
    BY <1>2 DEF SlaveType
  <2>3. slave.left - 1 \in 0..9 /\ s.left = slave.left - 1 /\ s.hold \in BOOLEAN
    BY <2>1, <2>2
  <2>4. s = [hold |-> s.hold, left |-> s.left]
    BY <2>1
  <2>5. s \in SlaveType
    BY <2>3, <2>4 DEF SlaveType
  <2> QED BY <2>2, <2>3, <2>5
<1> QED BY <1>1, <1>2

\* What a call that is refused, or meets a line that is stuck, leaves behind.
RefusedEffect ==
  /\ step' = "stop_failed" /\ pulses' = pulses /\ offset' = offset
  /\ attempt' = attempt /\ noise' = noise /\ result' = result
  /\ error' \in Reasons \cup {"ok", "not_run"} /\ explained' = TRUE

\* A line is stuck.
LEMMA StuckIs ==
  ASSUME NEW r \in {"sda_stuck_low", "scl_stuck_low"}, NEW acked, Refused(r, acked)
  PROVE  RefusedEffect
<1>1. /\ step' = "stop_failed" /\ pulses' = pulses /\ offset' = offset
      /\ attempt' = attempt /\ noise' = noise /\ result' = result
  BY DEF Refused
<1>2. Reason(r)
  BY DEF Refused
<1> QED BY <1>1, <1>2 DEF Reason, Reasons, RefusedEffect

\* A byte is not acknowledged.
LEMMA NotAckedIs ==
  ASSUME StateType, ExplainedInv, step \notin {"idle", "off"}, Refused("none", FALSE)
  PROVE  RefusedEffect
<1>1. /\ step' = "stop_failed" /\ pulses' = pulses /\ offset' = offset
      /\ attempt' = attempt /\ noise' = noise /\ result' = result
  BY DEF Refused
<1>2. CASE error # "ok"
  <2>1. error' = error /\ explained' = explained
    BY <1>2 DEF Refused
  <2>2. explained = TRUE
    BY <1>2 DEF ExplainedInv, StateType
  <2> QED BY <1>1, <2>1, <2>2 DEF StateType, RefusedEffect
<1>3. CASE error = "ok"
  <2>1. Reason("i2c_set_offset_failed")
    BY <1>3 DEF Refused
  <2> QED BY <1>1, <2>1 DEF Reason, Reasons, RefusedEffect
<1> QED BY <1>2, <1>3

\* The next try is the second or the third, and there is no fourth.
LEMMA NextAttemptIs ==
  ASSUME StateType, NextAttempt
  PROVE  /\ step' \in {"start", "give_up"} /\ attempt' \in 0..2
         /\ step' = "start" => attempt' # 0
         /\ noise' = Clean /\ pulses' = pulses /\ offset' = offset /\ result' = result
<1>1. attempt \in 0..2
  BY DEF StateType
<1> QED BY <1>1 DEF NextAttempt

--------------------------------------------------------------------------------
(* Every action preserves the invariant.                                       *)

\* A discovery begins, and with it the bus clear.
LEMMA DiscoverInv ==
  ASSUME EInv, Discover
  PROVE  EInv'
<1>1. /\ step \in {"idle", "off"} /\ step' = "clear" /\ error' = "ok"
      /\ explained' = FALSE /\ disturbed' = FALSE
      /\ UNCHANGED <<display, pulses, offset, attempt, sda, noise, slave>>
  BY DEF Discover
<1>2. StateType'
  BY <1>1 DEF EInv, StateType, Steps
<1>3. ClearInv'
  <2>1. pulses = 0 /\ slave.left \in 0..9
    BY <1>1 DEF EInv, ClearInv, StateType, SlaveType
  <2> QED BY <1>1, <2>1 DEF ClearInv
<1>4. NoiseInv'
  BY <1>1 DEF EInv, NoiseInv
<1>5. HeaderInv'
  BY <1>1 DEF EInv, HeaderInv
<1>6. UndisturbedInv' /\ ExplainedInv' /\ FreedBeforeFirstStart'
  BY <1>1 DEF UndisturbedInv, ExplainedInv, FreedBeforeFirstStart
<1> QED BY <1>2, <1>3, <1>4, <1>5, <1>6 DEF EInv

\* A pulse of the bus clear, of which the ninth is the last.
LEMMA ClearBusInv ==
  ASSUME EInv, ClearBus
  PROVE  EInv'
<1>1. PICK s \in Clocked : slave' = IF s.hold THEN s ELSE Listening
  BY DEF ClearBus
<1>2. /\ step = "clear"
      /\ UNCHANGED <<display, offset, attempt, error, sda, noise, disturbed, explained>>
      /\ IF slave'.hold /\ pulses + 1 < 9
         THEN pulses' = pulses + 1 /\ step' = step
         ELSE pulses' = 0 /\ step' = "start"
  BY DEF ClearBus, ClearPulses
<1>3. /\ slave \in SlaveType /\ slave.left \in 0..9
      /\ pulses \in 0..8 /\ slave.left + pulses <= 9
  BY <1>2 DEF EInv, StateType, ClearInv, SlaveType
<1>4. /\ s \in SlaveType /\ s.left \in 0..9
      /\ s.hold => s.left + 1 = slave.left
  <2>1. s \in SlaveType /\ (s.hold => s.left + 1 = slave.left)
    BY <1>3, ClockedType
  <2> QED BY <2>1 DEF SlaveType
<1>5. slave' \in SlaveType
  BY <1>1, <1>4, ListeningType
<1>6. ~slave'.hold => slave' = Listening
  BY <1>1, <1>4, ListeningType
<1>7. slave'.hold => slave'.left + 1 = slave.left
  BY <1>1, <1>4, ListeningType
<1>8. NoiseInv'
  BY <1>2 DEF EInv, NoiseInv
<1>9. HeaderInv'
  BY <1>2 DEF EInv, HeaderInv
<1>10. ExplainedInv'
  BY <1>2 DEF EInv, ExplainedInv
<1>11. CASE slave'.hold /\ pulses + 1 < 9
  <2>1. step' = "clear" /\ pulses' = pulses + 1
    BY <1>2, <1>11
  <2>2. pulses' \in 0..8
    BY <1>3, <1>11, <2>1
  <2>3. StateType'
    BY <1>2, <1>5, <2>1, <2>2 DEF EInv, StateType, Steps
  <2>4. slave'.left \in 0..9
    BY <1>5 DEF SlaveType
  <2>5. slave'.left + pulses' <= 9
    BY <1>3, <1>7, <1>11, <2>1, <2>4
  <2>6. ClearInv'
    BY <2>1, <2>5 DEF ClearInv
  <2> QED BY <1>8, <1>9, <1>10, <2>1, <2>3, <2>6
          DEF EInv, UndisturbedInv, FreedBeforeFirstStart
<1>12. CASE ~(slave'.hold /\ pulses + 1 < 9)
  <2>1. step' = "start" /\ pulses' = 0
    BY <1>2, <1>12
  <2>2. slave' = Listening
    <3> SUFFICES ASSUME slave'.hold PROVE FALSE
      BY <1>6
    <3>1. slave'.left + 1 = slave.left /\ pulses = 8
      BY <1>3, <1>7, <1>12
    <3>2. slave.left <= 1
      BY <1>3, <3>1
    <3>3. s = Listening
      BY <3>2 DEF Clocked
    <3> QED BY <1>1, <3>3, ListeningType
  <2>3. StateType'
    BY <1>2, <1>5, <2>1 DEF EInv, StateType, Steps
  <2>4. ClearInv'
    BY <2>1 DEF ClearInv
  <2>5. noise' = Clean
    BY <1>2 DEF EInv, NoiseInv
  <2> QED BY <1>8, <1>9, <1>10, <2>1, <2>2, <2>3, <2>4, <2>5
          DEF EInv, UndisturbedInv, FreedBeforeFirstStart
<1> QED BY <1>11, <1>12


\* A step that ends the discovery, or cuts it off.
LEMMA EndInv ==
  ASSUME EInv, step' \in {"idle", "off"}, step # "clear" \/ pulses' = 0,
         pulses' = pulses \/ pulses' = 0, offset' = 0, attempt' = 0, noise' = Clean,
         display' = display, sda' \in BOOLEAN, slave' \in SlaveType, disturbed' \in BOOLEAN,
         error' \in Reasons \cup {"ok", "not_run"}, explained' \in BOOLEAN
  PROVE  EInv'
<1>1. pulses' = 0
  BY DEF EInv, ClearInv
<1>2. StateType'
  <2>1. pulses' \in 0..8 /\ attempt' \in 0..2 /\ offset' \in {0, BlockSize}
    BY <1>1
  <2>2. step' \in Steps
    BY DEF Steps
  <2>3. display' \in Displays /\ noise' \in Noise \cup {Clean}
    BY DEF EInv, StateType
  <2> QED BY <2>1, <2>2, <2>3 DEF StateType
<1>3. HeaderInv'
  BY DEF HeaderInv, BlockSize
<1>4. ClearInv' /\ NoiseInv' /\ UndisturbedInv' /\ ExplainedInv' /\ FreedBeforeFirstStart'
  BY <1>1 DEF ClearInv, NoiseInv, UndisturbedInv, ExplainedInv, FreedBeforeFirstStart
<1> QED BY <1>2, <1>3, <1>4 DEF EInv

\* The reset of the Pico.
LEMMA ResetInv ==
  ASSUME EInv, Reset
  PROVE  EInv'
<1>1. /\ step' = "off" /\ sda' = FALSE /\ error' = "not_run" /\ noise' = Clean
      /\ explained' = FALSE /\ pulses' = 0 /\ offset' = 0 /\ attempt' = 0
      /\ disturbed' = FALSE /\ display' = display /\ slave' \in Interrupted
  BY DEF Reset
<1>2. slave' \in SlaveType
  BY <1>1, InterruptedType DEF EInv, StateType
<1> QED BY <1>1, <1>2, EndInv

\* A call that is refused, or meets a line that is stuck.
LEMMA RefusedInv ==
  ASSUME EInv, step \notin {"idle", "off", "clear", "stop"}, RefusedEffect,
         display' = display, sda' \in BOOLEAN, slave' \in SlaveType, disturbed' = TRUE
  PROVE  EInv'
<1>1. /\ step' = "stop_failed" /\ pulses' = pulses /\ offset' = offset
      /\ attempt' = attempt /\ noise' = noise
      /\ error' \in Reasons \cup {"ok", "not_run"} /\ explained' = TRUE
  BY DEF RefusedEffect
<1>2. pulses = 0 /\ noise = Clean
  BY DEF EInv, ClearInv, NoiseInv
<1>3. StateType'
  BY <1>1 DEF EInv, StateType, Steps
<1>4. HeaderInv'
  BY <1>1 DEF EInv, HeaderInv
<1>5. ClearInv' /\ NoiseInv' /\ UndisturbedInv' /\ ExplainedInv' /\ FreedBeforeFirstStart'
  BY <1>1, <1>2 DEF ClearInv, NoiseInv, UndisturbedInv, ExplainedInv, FreedBeforeFirstStart
<1> QED BY <1>3, <1>4, <1>5 DEF EInv

\* A call that succeeds.
LEMMA GoOnInv ==
  ASSUME EInv, step \notin {"idle", "off", "clear", "stop", "stop_failed", "give_up"},
         step' \in {"address", "offset", "restart", "read_address", "bytes"},
         UNCHANGED <<display, pulses, offset, attempt, error, noise, disturbed, explained>>,
         sda' \in BOOLEAN, slave' = slave \/ slave' = Listening
  PROVE  EInv'
<1>1. StateType'
  <2>1. slave' \in SlaveType
    BY ListeningType DEF EInv, StateType
  <2>2. step' \in Steps
    BY DEF Steps
  <2> QED BY <2>1, <2>2 DEF EInv, StateType
<1>2. ClearInv' /\ NoiseInv' /\ HeaderInv'
  BY DEF EInv, ClearInv, NoiseInv, HeaderInv
<1>3. UndisturbedInv'
  BY DEF EInv, UndisturbedInv
<1>4. ExplainedInv' /\ FreedBeforeFirstStart'
  BY DEF EInv, ExplainedInv, FreedBeforeFirstStart
<1> QED BY <1>1, <1>2, <1>3, <1>4 DEF EInv

\* ddc_start.
LEMMA StartInv ==
  ASSUME EInv, NEW from \in {"start", "restart"}, NEW to \in {"address", "read_address"},
         Start(from, to)
  PROVE  EInv'
<1>1. step = from /\ sda' = FALSE /\ display' = display /\ slave \in SlaveType
      /\ disturbed \in BOOLEAN
  BY DEF Start, EInv, StateType
<1>2. CASE slave.hold /\ Refused("sda_stuck_low", from = "restart") /\ UNCHANGED <<slave, disturbed>>
  <2>1. slave # Listening
    BY <1>2, ListeningType
  <2>2. disturbed' = TRUE
    BY <1>1, <1>2, <2>1 DEF EInv, UndisturbedInv
  <2>3. slave' \in SlaveType
    BY <1>1, <1>2
  <2>4. RefusedEffect
    BY <1>2, StuckIs
  <2> QED BY <1>1, <2>2, <2>3, <2>4, RefusedInv
<1>3. CASE Refused("scl_stuck_low", from = "restart") /\ disturbed' = TRUE /\ slave' = slave
  <2>1. RefusedEffect
    BY <1>3, StuckIs
  <2> QED BY <1>1, <1>3, <2>1, RefusedInv
<1>4. CASE /\ slave' = Listening /\ step' = to
           /\ UNCHANGED <<pulses, offset, attempt, error, noise, disturbed, explained>>
  BY <1>1, <1>4, GoOnInv
<1> QED BY <1>2, <1>3, <1>4 DEF Start

\* ddc_write_byte.
LEMMA WriteByteInv ==
  ASSUME EInv, NEW from \in {"address", "offset", "read_address"},
         NEW to \in {"offset", "restart", "bytes"}, WriteByte(from, to)
  PROVE  EInv'
<1>1. step = from /\ sda' \in BOOLEAN /\ display' = display /\ slave \in SlaveType
  BY DEF WriteByte, EInv, StateType
<1>2. CASE slave' \in Interrupted /\ Refused("scl_stuck_low", from # "address") /\ disturbed' = TRUE
  <2>1. slave' \in SlaveType
    BY <1>1, <1>2, InterruptedType
  <2>2. RefusedEffect
    BY <1>2, StuckIs
  <2> QED BY <1>1, <1>2, <2>1, <2>2, RefusedInv
<1>3. CASE Refused("none", FALSE) /\ disturbed' = TRUE /\ slave' = slave
  <2>1. RefusedEffect
    BY <1>1, <1>3, NotAckedIs DEF EInv
  <2> QED BY <1>1, <1>3, <2>1, RefusedInv
<1>4. CASE /\ step' = to
           /\ UNCHANGED <<pulses, offset, attempt, error, noise, result, env, explained>>
  <2>1. UNCHANGED <<display, pulses, offset, attempt, error, noise, disturbed, explained>>
        /\ slave' = slave
    BY <1>4 DEF env
  <2> QED BY <1>1, <1>4, <2>1, GoOnInv
<1> QED BY <1>2, <1>3, <1>4 DEF WriteByte

\* The loop over ddc_read_byte.
LEMMA ReadBytesInv ==
  ASSUME EInv, ReadBytes
  PROVE  EInv'
<1>1. step = "bytes" /\ UNCHANGED <<display, sda, pulses, offset, attempt>>
  BY DEF ReadBytes
<1>2. pulses = 0 /\ noise = Clean
  BY <1>1 DEF EInv, ClearInv, NoiseInv
<1>3. CASE /\ slave' \in Interrupted /\ step' = "stop_failed"
           /\ Reason("i2c_read_timeout") /\ disturbed' = TRUE /\ noise' = noise
  <2>1. slave' \in SlaveType
    BY <1>3, InterruptedType DEF EInv, StateType
  <2>2. error' \in Reasons \cup {"ok", "not_run"} /\ explained' = TRUE
    BY <1>3 DEF Reason, Reasons
  <2>3. StateType'
    BY <1>1, <1>3, <2>1, <2>2 DEF EInv, StateType, Steps
  <2>4. HeaderInv'
    BY <1>1 DEF EInv, HeaderInv
  <2>5. ClearInv' /\ NoiseInv' /\ UndisturbedInv' /\ ExplainedInv' /\ FreedBeforeFirstStart'
    BY <1>1, <1>2, <1>3, <2>2
       DEF ClearInv, NoiseInv, UndisturbedInv, ExplainedInv, FreedBeforeFirstStart
  <2> QED BY <2>3, <2>4, <2>5 DEF EInv
<1>4. CASE /\ step' = "stop" /\ noise' \in Noise \cup {Clean}
           /\ disturbed' = (disturbed \/ noise' # Clean)
           /\ UNCHANGED <<error, explained, slave>>
  <2>1. disturbed' \in BOOLEAN
    BY <1>4
  <2>2. StateType'
    BY <1>1, <1>4, <2>1 DEF EInv, StateType, Steps
  <2>3. HeaderInv'
    BY <1>1 DEF EInv, HeaderInv
  <2>4. ClearInv' /\ NoiseInv' /\ FreedBeforeFirstStart'
    BY <1>1, <1>2, <1>4 DEF ClearInv, NoiseInv, FreedBeforeFirstStart
  <2>5. UndisturbedInv'
    <3>1. ~disturbed' => ~disturbed /\ noise' = Clean
      BY <1>4
    <3> QED BY <1>1, <1>4, <3>1 DEF EInv, UndisturbedInv
  <2>6. ExplainedInv'
    BY <1>1, <1>4 DEF EInv, ExplainedInv
  <2> QED BY <2>2, <2>3, <2>4, <2>5, <2>6 DEF EInv
<1> QED BY <1>3, <1>4 DEF ReadBytes

\* A try that failed is followed by the next, or by the end.
LEMMA AgainInv ==
  ASSUME EInv, step \in {"stop", "stop_failed"}, NextAttempt,
         display' = display, sda' \in BOOLEAN, slave' \in SlaveType, disturbed' = TRUE,
         error' \in Reasons \cup {"ok", "not_run"}, explained' = TRUE
  PROVE  EInv'
<1>1. /\ step' \in {"start", "give_up"} /\ attempt' \in 0..2
      /\ step' = "start" => attempt' # 0
      /\ noise' = Clean /\ pulses' = pulses /\ offset' = offset
  BY NextAttemptIs DEF EInv
<1>2. pulses = 0
  BY DEF EInv, ClearInv
<1>3. StateType'
  <2>1. step' \in Steps
    BY <1>1 DEF Steps
  <2> QED BY <1>1, <2>1 DEF EInv, StateType
<1>4. HeaderInv'
  BY <1>1 DEF EInv, HeaderInv
<1>5. ClearInv' /\ NoiseInv' /\ UndisturbedInv' /\ ExplainedInv' /\ FreedBeforeFirstStart'
  BY <1>1, <1>2 DEF ClearInv, NoiseInv, UndisturbedInv, ExplainedInv, FreedBeforeFirstStart
<1> QED BY <1>3, <1>4, <1>5 DEF EInv

\* ddc_stop fails.
LEMMA StopFailsInv ==
  ASSUME EInv, StopFails
  PROVE  EInv'
<1>1. /\ step \in {"stop", "stop_failed"} /\ display' = display /\ slave' = slave
      /\ NextAttempt /\ slave \in SlaveType /\ disturbed \in BOOLEAN
  BY DEF StopFails, EInv, StateType
<1>2. CASE sda' = TRUE /\ Reason("scl_stuck_low") /\ disturbed' = TRUE
  <2>1. error' \in Reasons \cup {"ok", "not_run"} /\ explained' = TRUE
    BY <1>2 DEF Reason, Reasons
  <2> QED BY <1>1, <1>2, <2>1, AgainInv
<1>3. CASE sda' = FALSE /\ slave.hold /\ Reason("sda_stuck_low") /\ disturbed' = disturbed
  <2>1. error' \in Reasons \cup {"ok", "not_run"} /\ explained' = TRUE
    BY <1>3 DEF Reason, Reasons
  <2>2. slave # Listening
    BY <1>3, ListeningType
  <2>3. disturbed' = TRUE
    BY <1>1, <1>3, <2>2 DEF EInv, UndisturbedInv
  <2> QED BY <1>1, <1>3, <2>1, <2>3, AgainInv
<1> QED BY <1>2, <1>3 DEF StopFails

\* ddc_stop succeeds after a transaction that failed.
LEMMA StopFailedInv ==
  ASSUME EInv, StopFailed
  PROVE  EInv'
<1>1. /\ step = "stop_failed" /\ sda' = FALSE /\ slave' = Listening /\ NextAttempt
      /\ UNCHANGED <<display, error, disturbed, explained>>
  BY DEF StopFailed
<1>2. disturbed' = TRUE /\ explained' = TRUE
  BY <1>1 DEF EInv, StateType, UndisturbedInv, ExplainedInv
<1>3. error' \in Reasons \cup {"ok", "not_run"}
  BY <1>1 DEF EInv, StateType
<1> QED BY <1>1, <1>2, <1>3, AgainInv, ListeningType

\* What the two ways to return have in common.
LEMMA ReturnIs ==
  ASSUME StateType, NEW pa, Return(pa)
  PROVE  /\ step' = "idle" /\ sda' = FALSE /\ noise' = Clean /\ offset' = 0 /\ attempt' = 0
         /\ pulses' = pulses /\ explained' = explained
         /\ result' = IF pa = 0 THEN Unknown ELSE pa
         /\ error' \in Reasons \cup {"ok", "not_run"}
         /\ IF pa = 0 THEN error' # "ok" ELSE error' = "ok"
<1>1. error' = IF pa # 0 THEN "ok" ELSE IF error = "ok" THEN "pa_not_found" ELSE error
  BY DEF Return
<1>2. error' \in Reasons \cup {"ok", "not_run"}
  BY <1>1 DEF StateType, Reasons
<1> QED BY <1>1, <1>2 DEF Return

\* The other one always has a reason.
LEMMA ReturnBecauseIs ==
  ASSUME NEW e \in Reasons, ReturnBecause(e)
  PROVE  /\ step' = "idle" /\ sda' = FALSE /\ noise' = Clean /\ offset' = 0 /\ attempt' = 0
         /\ pulses' = pulses /\ explained' = TRUE
         /\ result' = Unknown /\ error' = e /\ error' # "ok"
  BY DEF ReturnBecause, Reason, Reasons

\* Three tries are over.
LEMMA GiveUpInv ==
  ASSUME EInv, GiveUp
  PROVE  /\ EInv'
         /\ step' = "idle" /\ result' = Unknown /\ explained' /\ error' # "ok"
         /\ disturbed' /\ display' = display
<1>1. step = "give_up" /\ Return(0) /\ display' = display /\ slave' = slave /\ disturbed' = disturbed
  BY DEF GiveUp, env
<1>2. /\ step' = "idle" /\ sda' = FALSE /\ noise' = Clean /\ offset' = 0 /\ attempt' = 0
      /\ pulses' = pulses /\ explained' = explained /\ result' = Unknown
      /\ error' \in Reasons \cup {"ok", "not_run"} /\ error' # "ok"
  BY <1>1, ReturnIs DEF EInv
<1>3. explained /\ disturbed
  BY <1>1 DEF EInv, ExplainedInv, UndisturbedInv
<1>4. EInv'
  <2>1. slave' \in SlaveType /\ disturbed' \in BOOLEAN /\ explained' \in BOOLEAN
    BY <1>1, <1>2 DEF EInv, StateType
  <2> QED BY <1>1, <1>2, <2>1, EndInv
<1> QED BY <1>1, <1>2, <1>3, <1>4

\* What ddc_stop is followed by when the block was read.
LEMMA StopIs ==
  ASSUME EInv, Stop
  PROVE  \/ /\ sda' = FALSE /\ Reason("bad_checksum") /\ NextAttempt /\ noise # Clean
         \/ /\ offset' = BlockSize /\ attempt' = 0 /\ step' = "start" /\ sda' = FALSE
            /\ noise' = Clean /\ display.header /\ display.extension
            /\ UNCHANGED <<pulses, error, result, explained>>
         \/ \E e \in Reasons : ReturnBecause(e) /\ ~(display.header /\ display.extension /\ display.cta)
         \/ /\ display.header /\ display.extension /\ display.cta /\ noise = Clean
            /\ \/ /\ Walk(Image(display, Clean)) = 0
                  /\ ReturnBecause("no_hdmi_vsdb")
               \/ /\ Walk(Image(display, Clean)) # 0
                  /\ Return(Walk(Image(display, Clean)))
<1>1. ChecksumOk <=> noise = Clean
  BY CleanIs DEF EInv, StateType
<1>2. /\ display.header \in BOOLEAN /\ display.extension \in BOOLEAN /\ display.cta \in BOOLEAN
      /\ offset \in {0, BlockSize} /\ BlockSize # 0
  BY DisplayIs DEF EInv, StateType, BlockSize
<1>3. CASE ~ChecksumOk
  BY <1>1, <1>3 DEF Stop
<1>4. CASE ChecksumOk /\ offset = 0
  <2>1. CASE ~display.header
    <3>1. ReturnBecause("bad_header")
      BY <1>2, <1>4, <2>1 DEF Stop
    <3> QED BY <2>1, <3>1 DEF Reasons
  <2>2. CASE display.header /\ ~display.extension
    <3>1. ReturnBecause("no_cta_extension")
      BY <1>2, <1>4, <2>2 DEF Stop
    <3> QED BY <2>2, <3>1 DEF Reasons
  <2>3. CASE display.header /\ display.extension
    BY <1>2, <1>4, <2>3 DEF Stop
  <2> QED BY <2>1, <2>2, <2>3
<1>5. CASE ChecksumOk /\ offset = BlockSize
  <2>1. display.header /\ display.extension
    BY <1>5 DEF EInv, HeaderInv
  <2>2. CASE ~display.cta
    <3>1. ReturnBecause("bad_cta_header")
      BY <1>2, <1>5, <2>2 DEF Stop
    <3> QED BY <2>2, <3>1 DEF Reasons
  <2>3. CASE display.cta
    <3>1. LET pa == Walk(Image(display, noise))
          IN  IF pa = 0 THEN ReturnBecause("no_hdmi_vsdb") ELSE Return(pa)
      BY <1>2, <1>5, <2>3 DEF Stop
    <3>2. noise = Clean
      BY <1>1, <1>5
    <3> QED BY <2>1, <2>3, <3>1, <3>2
  <2> QED BY <2>2, <2>3
<1> QED BY <1>2, <1>3, <1>4, <1>5

\* ddc_stop after the last byte of a block, and the checks on it.
LEMMA StopInv ==
  ASSUME EInv, Stop
  PROVE  EInv'
<1>1. step = "stop" /\ slave' = Listening /\ display' = display /\ disturbed' = disturbed
  BY DEF Stop
<1>2. slave' \in SlaveType /\ disturbed' \in BOOLEAN /\ pulses = 0
  BY <1>1, ListeningType DEF EInv, StateType, ClearInv
<1>3. CASE sda' = FALSE /\ Reason("bad_checksum") /\ NextAttempt /\ noise # Clean
  <2>1. error' \in Reasons \cup {"ok", "not_run"} /\ explained' = TRUE
    BY <1>3 DEF Reason, Reasons
  <2>2. disturbed' = TRUE
    BY <1>1, <1>2, <1>3 DEF EInv, UndisturbedInv
  <2> QED BY <1>1, <1>2, <1>3, <2>1, <2>2, AgainInv
<1>4. CASE /\ offset' = BlockSize /\ attempt' = 0 /\ step' = "start" /\ sda' = FALSE
           /\ noise' = Clean /\ display.header /\ display.extension
           /\ UNCHANGED <<pulses, error, result, explained>>
  <2>1. StateType'
    <3>1. step' \in Steps /\ offset' \in {0, BlockSize} /\ attempt' \in 0..2
      BY <1>4 DEF Steps
    <3> QED BY <1>1, <1>2, <1>4, <3>1 DEF EInv, StateType
  <2>2. ClearInv' /\ NoiseInv' /\ HeaderInv'
    BY <1>1, <1>2, <1>4 DEF ClearInv, NoiseInv, HeaderInv
  <2>3. UndisturbedInv' /\ FreedBeforeFirstStart'
    BY <1>1, <1>4 DEF UndisturbedInv, FreedBeforeFirstStart, BlockSize
  <2>4. ExplainedInv'
    BY <1>1, <1>4 DEF EInv, ExplainedInv
  <2> QED BY <2>1, <2>2, <2>3, <2>4 DEF EInv
<1>5. ASSUME NEW e \in Reasons, ReturnBecause(e)
      PROVE  EInv'
  <2>1. /\ step' = "idle" /\ sda' = FALSE /\ noise' = Clean /\ offset' = 0 /\ attempt' = 0
        /\ pulses' = pulses /\ explained' = TRUE /\ error' = e
    BY <1>5, ReturnBecauseIs
  <2> QED BY <1>1, <1>2, <2>1, EndInv
<1>6. ASSUME NEW pa, Return(pa)
      PROVE  EInv'
  <2>1. /\ step' = "idle" /\ sda' = FALSE /\ noise' = Clean /\ offset' = 0 /\ attempt' = 0
        /\ pulses' = pulses /\ explained' = explained
        /\ error' \in Reasons \cup {"ok", "not_run"}
    BY <1>6, ReturnIs DEF EInv
  <2>2. explained' \in BOOLEAN
    BY <2>1 DEF EInv, StateType
  <2> QED BY <1>1, <1>2, <2>1, <2>2, EndInv
<1>7. "no_hdmi_vsdb" \in Reasons
  BY DEF Reasons
<1> QED BY <1>3, <1>4, <1>5, <1>6, <1>7, StopIs

\* Nothing happens.
LEMMA StutterInv ==
  ASSUME EInv, UNCHANGED vars
  PROVE  EInv'
  BY DEF EInv, StateType, ClearInv, NoiseInv, HeaderInv, UndisturbedInv, ExplainedInv,
     FreedBeforeFirstStart, vars

\* After an initial state the bus is anybody's.
LEMMA InitInv == Init => EInv
<1> SUFFICES ASSUME Init PROVE EInv
  OBVIOUS
<1>1. StateType
  <2>1. 0 \in 0..8 /\ 0 \in 0..2 /\ "off" \in Steps
    BY DEF Steps
  <2> QED BY <2>1, ListeningType DEF Init, StateType
<1>2. ClearInv /\ NoiseInv /\ HeaderInv
  BY DEF Init, ClearInv, NoiseInv, HeaderInv, BlockSize
<1>3. UndisturbedInv /\ ExplainedInv /\ FreedBeforeFirstStart
  BY DEF Init, UndisturbedInv, ExplainedInv, FreedBeforeFirstStart
<1> QED BY <1>1, <1>2, <1>3 DEF EInv

(***************************************************************************)
(* How far the bus clear has come, what a disturbance and a failed try     *)
(* leave behind, and what is checked before the extension is read.         *)
(***************************************************************************)
THEOREM Invariance == Spec => []EInv
<1>1. EInv /\ [Next]_vars => EInv'
  <2> SUFFICES ASSUME EInv, [Next]_vars PROVE EInv'
    OBVIOUS
  <2>1. CASE Discover BY <2>1, DiscoverInv
  <2>2. CASE Reset BY <2>2, ResetInv
  <2>3. CASE UNCHANGED vars BY <2>3, StutterInv
  <2>4. CASE DiscoveryStep
    <3>1. CASE ClearBus BY <3>1, ClearBusInv
    <3>2. CASE Start("start", "address") BY <3>2, StartInv
    <3>3. CASE WriteByte("address", "offset") BY <3>3, WriteByteInv
    <3>4. CASE WriteByte("offset", "restart") BY <3>4, WriteByteInv
    <3>5. CASE Start("restart", "read_address") BY <3>5, StartInv
    <3>6. CASE WriteByte("read_address", "bytes") BY <3>6, WriteByteInv
    <3>7. CASE ReadBytes BY <3>7, ReadBytesInv
    <3>8. CASE Stop BY <3>8, StopInv
    <3>9. CASE StopFails BY <3>9, StopFailsInv
    <3>10. CASE StopFailed BY <3>10, StopFailedInv
    <3>11. CASE GiveUp BY <3>11, GiveUpInv
    <3> QED BY <2>4, <3>1, <3>2, <3>3, <3>4, <3>5, <3>6, <3>7, <3>8, <3>9, <3>10, <3>11
            DEF DiscoveryStep
  <2> QED BY <2>1, <2>2, <2>3, <2>4 DEF Next
<1> QED BY <1>1, InitInv, PTL DEF Spec

(***************************************************************************)
(* Nine pulses free the bus, wherever in a byte a reset or a failed        *)
(* discovery left the display: it listens when the first START is due.     *)
(***************************************************************************)
THEOREM BusIsFreed == Spec => []FreedBeforeFirstStart
<1>1. EInv => FreedBeforeFirstStart
  BY DEF EInv
<1> QED BY <1>1, Invariance, PTL

--------------------------------------------------------------------------------
(* The result, where the walk over an ungarbled block is right.                *)

\* How a discovery returns.
LEMMA Returns ==
  ASSUME EInv, DiscoveryStep, step' = "idle"
  PROVE  \/ /\ result' = Unknown /\ explained' /\ error' # "ok"
            /\ \/ disturbed' \/ ~(display.header /\ display.extension /\ display.cta)
               \/ Walk(Image(display, Clean)) = 0
         \/ /\ result' = Walk(Image(display, Clean)) /\ result' # 0 /\ error' = "ok"
            /\ display.header /\ display.extension /\ display.cta
<1>1. CASE GiveUp
  BY <1>1, GiveUpInv
<1>2. CASE Stop
  <2>1. CASE \E e \in Reasons : ReturnBecause(e) /\ ~(display.header /\ display.extension /\ display.cta)
    BY <2>1, ReturnBecauseIs
  <2>2. CASE Walk(Image(display, Clean)) = 0 /\ ReturnBecause("no_hdmi_vsdb")
    BY <2>2, ReturnBecauseIs DEF Reasons
  <2>3. CASE /\ display.header /\ display.extension /\ display.cta
             /\ Walk(Image(display, Clean)) # 0
             /\ Return(Walk(Image(display, Clean)))
    <3>1. result' = Walk(Image(display, Clean)) /\ error' = "ok"
      BY <2>3, ReturnIs DEF EInv
    <3> QED BY <2>3, <3>1
  <2>4. ~NextAttempt
    BY DEF NextAttempt
  <2> QED BY <1>2, <2>1, <2>2, <2>3, <2>4, StopIs
<1>3. ~ClearBus /\ ~ReadBytes /\ ~StopFails /\ ~StopFailed
  BY DEF ClearBus, ReadBytes, StopFails, StopFailed, NextAttempt
<1>4. ~Start("start", "address") /\ ~Start("restart", "read_address")
  BY DEF Start, Refused
<1>5. /\ ~WriteByte("address", "offset") /\ ~WriteByte("offset", "restart")
      /\ ~WriteByte("read_address", "bytes")
  BY DEF WriteByte, Refused
<1> QED BY <1>1, <1>2, <1>3, <1>4, <1>5 DEF DiscoveryStep

(***************************************************************************)
(* A discovery that returns an address returns the display's, whatever was *)
(* garbled, refused or interrupted in this discovery and before, and one   *)
(* that was not disturbed finds it.                                        *)
(***************************************************************************)
THEOREM AddressIsRight ==
  ASSUME WalkReads
  PROVE  Spec => AddressIsTheDisplays
<1>1. EInv /\ [Next]_vars
        => [DiscoveryStep /\ step' = "idle" =>
              /\ result' # Unknown =>
                   Readable(display) /\ result' = 256 * HdmiBlocks(display)[1][5]
              /\ ~disturbed' /\ Readable(display) => result' # Unknown]_vars
  <2> SUFFICES ASSUME EInv, DiscoveryStep, step' = "idle"
               PROVE  /\ result' # Unknown =>
                           Readable(display) /\ result' = 256 * HdmiBlocks(display)[1][5]
                      /\ ~disturbed' /\ Readable(display) => result' # Unknown
    OBVIOUS
  <2>1. display \in Displays
    BY DEF EInv, StateType
  <2>2. Unknown \notin 1..(Unknown - 1) /\ 0 \notin 1..(Unknown - 1)
    BY DEF Unknown
  <2>3. CASE HdmiBlocks(display) = <<>>
    <3>1. Walk(Image(display, Clean)) = 0 /\ ~Readable(display)
      BY <2>1, <2>3, WalkReads DEF WalkReads, Readable
    <3> QED BY <3>1, Returns
  <2>4. CASE HdmiBlocks(display) # <<>>
    <3>1. /\ Walk(Image(display, Clean)) = 256 * HdmiBlocks(display)[1][5]
          /\ Walk(Image(display, Clean)) \in 1..(Unknown - 1)
      BY <2>1, <2>4, WalkReads DEF WalkReads
    <3>2. Readable(display) <=> display.header /\ display.extension /\ display.cta
      BY <2>4 DEF Readable
    <3> QED BY <2>2, <3>1, <3>2, Returns
  <2> QED BY <2>3, <2>4
<1> QED BY <1>1, Invariance, PTL DEF Spec, AddressIsTheDisplays

\* The unknown address is a number.
LEMMA UnknownIs == Unknown \in Nat
BY DEF Unknown

\* The walk over the extension of a display finds an address that is known.
LEMMA WalkIs ==
  ASSUME WalkInRange, NEW d \in Displays
  PROVE  Walk(Image(d, Clean)) # Unknown /\ Walk(Image(d, Clean)) \in 0..Unknown
<1>1. Walk(Image(d, Clean)) \in 0..(Unknown - 1)
  BY WalkInRange DEF WalkInRange
<1> QED BY <1>1, UnknownIs

(***************************************************************************)
(* The reason a failed discovery reports was left by this discovery, and a *)
(* discovery that succeeds leaves none.                                    *)
(***************************************************************************)
THEOREM ReasonIsFresh ==
  ASSUME WalkInRange
  PROVE  Spec => ReasonIsOfThisDiscovery
<1>1. EInv /\ [Next]_vars
        => [DiscoveryStep /\ step' = "idle" =>
              IF result' = Unknown THEN explained' /\ error' # "ok" ELSE error' = "ok"]_vars
  <2> SUFFICES ASSUME EInv, DiscoveryStep, step' = "idle"
               PROVE  IF result' = Unknown THEN explained' /\ error' # "ok" ELSE error' = "ok"
    OBVIOUS
  <2>1. Walk(Image(display, Clean)) # Unknown
    BY WalkIs DEF EInv, StateType
  <2> QED BY <2>1, Returns
<1> QED BY <1>1, Invariance, PTL DEF Spec, ReasonIsOfThisDiscovery

\* The result is an address or the unknown one after every step.
LEMMA ResultNext ==
  ASSUME WalkInRange, EInv, result \in 0..Unknown, [Next]_vars
  PROVE  result' \in 0..Unknown
<1>1. Unknown \in 0..Unknown
  BY UnknownIs
<1>2. CASE Discover \/ Reset
  BY <1>1, <1>2 DEF Discover, Reset
<1>3. CASE DiscoveryStep /\ step' = "idle"
  <2>1. Walk(Image(display, Clean)) \in 0..Unknown
    BY WalkIs DEF EInv, StateType
  <2> QED BY <1>1, <1>3, <2>1, Returns
<1>4. CASE DiscoveryStep /\ step' # "idle"
  <2>1. ~GiveUp
    BY <1>4, GiveUpInv
  <2>2. ASSUME Stop PROVE result' = result
    <3>1. CASE NextAttempt BY <3>1 DEF NextAttempt
    <3>2. \A e : ~ReturnBecause(e)
      BY <1>4 DEF ReturnBecause
    <3>3. \A pa : ~Return(pa)
      BY <1>4 DEF Return
    <3> QED BY <2>2, <3>1, <3>2, <3>3, StopIs
  <2>3. ClearBus \/ ReadBytes \/ StopFails \/ StopFailed => result' = result
    BY DEF ClearBus, ReadBytes, StopFails, StopFailed, NextAttempt
  <2>4. Start("start", "address") \/ Start("restart", "read_address") => result' = result
    BY DEF Start, Refused
  <2>5. WriteByte("address", "offset") \/ WriteByte("offset", "restart")
          \/ WriteByte("read_address", "bytes") => result' = result
    BY DEF WriteByte, Refused
  <2> QED BY <1>4, <2>1, <2>2, <2>3, <2>4, <2>5 DEF DiscoveryStep
<1>5. CASE UNCHANGED vars
  BY <1>5 DEF vars
<1> QED BY <1>2, <1>3, <1>4, <1>5 DEF Next

(***************************************************************************)
(* The variables keep their types: in particular what                      *)
(* cec_discover_physical_address returns is a 16-bit address.              *)
(***************************************************************************)
THEOREM TypeCorrect ==
  ASSUME WalkInRange
  PROVE  Spec => []TypeOK
<1>1. Init => result \in 0..Unknown
  BY DEF Init, Unknown
<1>2. EInv /\ result \in 0..Unknown /\ [Next]_vars => (result \in 0..Unknown)'
  BY ResultNext, WalkInRange
<1>3. EInv /\ result \in 0..Unknown => TypeOK
  BY DEF EInv, StateType, SlaveType, TypeOK
<1> QED BY <1>1, <1>2, <1>3, Invariance, PTL DEF Spec
================================================================================
