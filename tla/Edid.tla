---------------------------------- MODULE Edid ----------------------------------
(***************************************************************************)
(* cec_discover_physical_address in firmware/cec_transceiver.c: the bus    *)
(* clear, the bit-banged DDC transactions with their retries, the checks   *)
(* on the two EDID blocks, the walk over the data blocks, and the reason   *)
(* left in last_discovery_error.                                           *)
(*                                                                         *)
(* A step is one call of ddc_start, ddc_write_byte or ddc_stop, one pulse  *)
(* of the bus clear, or the reading of a whole block.  The display is the  *)
(* environment: it may stretch the clock beyond 100 ms at any step, refuse *)
(* a byte, or have a byte of a block garbled.  It is a well-behaved I2C    *)
(* device: a START or a STOP makes it listen again, and in the middle of a *)
(* byte it holds SDA until SCL falls.  The Pico may be reset at any step.  *)
(***************************************************************************)
EXTENDS Integers, Sequences
LOCAL INSTANCE SequencesExt

CONSTANTS
  Displays,   \* what may be plugged in
  Noise       \* how a byte of a block may be garbled: [at, by]

BlockSize == 128
Unknown == 65535              \* CEC_PA_UNKNOWN
Clean == [at |-> 0, by |-> 0]
VsbHdr == <<3, 12, 0>>        \* 00-0C-03 as it is in memory

(***************************************************************************)
(* A display: whether its blocks have the right headers, whether there is  *)
(* an extension, and the data blocks of that, each a sequence of bytes of  *)
(* which the first holds the tag and the length of the rest.  They fit in  *)
(* the block, so that the DTD offset, which follows them, is inside too.   *)
(***************************************************************************)
DataBlock(tag, payload) == <<32 * tag + Len(payload)>> \o payload
IsDataBlock(b) == \E t \in 0..7 : Len(b) \in 1..32 /\ b[1] = 32 * t + Len(b) - 1

ASSUME EdidAssumption ==
  /\ \A d \in Displays :
       /\ {d.header, d.extension, d.cta} \subseteq BOOLEAN
       /\ \A i \in DOMAIN d.dbs : IsDataBlock(d.dbs[i])
       /\ Len(FlattenSeq(d.dbs)) < BlockSize - 4
  /\ Noise \subseteq [at : 0..(BlockSize - 1), by : 1..255]

VARIABLES
  display,
  step,       \* the call being made, idle once it returned, off after a reset
  pulses,     \* i of the bus clear
  offset,     \* of the block being read
  attempt,    \* of read_edid_block
  error,      \* last_discovery_error
  sda,        \* the Pico drives SDA low; SCL is released whenever it matters
  noise,      \* of the block just read
  result      \* what cec_discover_physical_address returned

VARIABLES
  slave,      \* the display holds SDA; it lets go after `left' clocks at most
  disturbed,  \* history: the display or the wires misbehaved in this discovery
  explained   \* history: error was set in this discovery

env == <<display, slave, disturbed>>
vars == <<display, step, pulses, offset, attempt, error, sda, noise, result,
          slave, disturbed, explained>>

Listening == [hold |-> FALSE, left |-> 0]

--------------------------------------------------------------------------------
(* The extension block as it is in memory, and the walk over it.               *)

Image(d, n) ==
  LET bytes == FlattenSeq(d.dbs)
      byte[i \in 0..(BlockSize - 1)] ==
        CASE i = 0 -> 2
          [] i = 1 -> IF d.cta THEN 3 ELSE 1
          [] i = 2 -> 4 + Len(bytes)
          [] i \in 4..(3 + Len(bytes)) -> bytes[i - 3]
          [] OTHER -> 0
  IN  [byte EXCEPT ![n.at] = (@ + n.by) % 256]

\* Byte 3 of the block is the end of the vendor id, so the low byte is always 0.
FindPhysicalAddressInBlock(m, i, len) ==
  IF len >= 4 /\ [k \in 1..3 |-> m[i + k]] = VsbHdr THEN 256 * m[i + 4] + m[i + 3] ELSE 0

\* Mutant: the header byte of a data block is not skipped.
WalkByLength(m) ==
  LET walk[i \in 0..255] ==
        IF i >= m[2] THEN 0
        ELSE LET len == m[i] % 32 IN
             IF len = 0 THEN walk[(i + 1) % 256]
             ELSE IF FindPhysicalAddressInBlock(m, i, len) # 0
                  THEN FindPhysicalAddressInBlock(m, i, len)
                  ELSE walk[(i + len) % 256]
  IN  walk[4]

Walk(m) ==
  LET walk[i \in 0..255] ==
        IF i >= m[2] THEN 0
        ELSE LET len == m[i] % 32 IN
             IF len = 0 THEN walk[(i + 1) % 256]
             ELSE IF FindPhysicalAddressInBlock(m, i, len) # 0
                  THEN FindPhysicalAddressInBlock(m, i, len)
                  ELSE walk[(i + len + 1) % 256]
  IN  walk[4]

--------------------------------------------------------------------------------
(* Errors, retries and the return.                                             *)

Reason(e) == error' = e /\ explained' = TRUE

Return(pa) ==
  /\ step' = "idle" /\ sda' = FALSE /\ noise' = Clean
  /\ result' = IF pa = 0 THEN Unknown ELSE pa
  /\ offset' = 0 /\ attempt' = 0
  /\ UNCHANGED <<pulses, explained>>
  /\ error' = IF pa # 0 THEN "ok" ELSE IF error = "ok" THEN "pa_not_found" ELSE error

ReturnBecause(e) ==
  /\ step' = "idle" /\ sda' = FALSE /\ noise' = Clean /\ result' = Unknown
  /\ offset' = 0 /\ attempt' = 0
  /\ Reason(e)
  /\ UNCHANGED pulses

\* Mutant: a try that read the whole block does not count.
NextAttemptFree ==
  /\ attempt' = IF step = "stop" THEN attempt ELSE attempt + 1
  /\ step' = IF attempt' < 3 THEN "start" ELSE "give_up"
  /\ noise' = Clean
  /\ UNCHANGED <<pulses, offset, result>>

\* Mutant: attempt <= 3.
NextAttemptOneMore ==
  /\ step' = IF attempt < 3 THEN "start" ELSE "give_up"
  /\ attempt' = IF attempt < 3 THEN attempt + 1 ELSE attempt
  /\ noise' = Clean
  /\ UNCHANGED <<pulses, offset, result>>

\* continue; the third failure is the end of the discovery.
NextAttempt ==
  /\ step' = IF attempt < 2 THEN "start" ELSE "give_up"
  /\ attempt' = IF attempt < 2 THEN attempt + 1 ELSE attempt
  /\ noise' = Clean
  /\ UNCHANGED <<pulses, offset, result>>

GiveUp == step = "give_up" /\ Return(0) /\ UNCHANGED env

\* Where a byte cut short leaves the display.
Interrupted ==
  CASE step = "bytes" -> [hold : BOOLEAN, left : 1..8]
    [] step = "read_address" -> {Listening, [hold |-> TRUE, left |-> 9]}
    [] step \in {"address", "offset"} -> {Listening, [hold |-> TRUE, left |-> 1]}
    [] OTHER -> {slave}

\* !ok before the first byte is read, because a line is stuck or, without a reason,
\* the byte is refused.  Only a reason that is still "ok" is replaced then.
Refused(reason, acked) ==
  /\ step' = "stop_failed"
  /\ CASE reason = "none" /\ error # "ok" -> UNCHANGED <<error, explained>>
       [] reason = "none" /\ error = "ok" ->
            Reason(IF acked THEN "ddc_start_failed" ELSE "i2c_set_offset_failed")
       [] OTHER -> Reason(reason)
  /\ UNCHANGED <<pulses, offset, attempt, noise, result>>

--------------------------------------------------------------------------------
(* The steps of a discovery.                                                   *)

\* Mutant: the reason of an earlier discovery is kept.
DiscoverKeepsReason ==
  /\ step \in {"idle", "off"}
  /\ step' = "clear"
  /\ explained' = FALSE /\ disturbed' = FALSE /\ result' = Unknown
  /\ UNCHANGED <<display, pulses, offset, attempt, sda, noise, slave, error>>

Discover ==
  /\ step \in {"idle", "off"}
  /\ step' = "clear"
  /\ error' = "ok"
  /\ explained' = FALSE /\ disturbed' = FALSE /\ result' = Unknown
  /\ UNCHANGED <<display, pulses, offset, attempt, sda, noise, slave>>

\* SCL falls: the display goes on to its next bit, and listens after the last.
Clocked == IF slave.left <= 1 THEN {Listening}
           ELSE [hold : BOOLEAN, left : {slave.left - 1}]

\* Mutant: the eight bits of a byte, without the one of its acknowledgement.
ClearPulses8 == 8

ClearPulses == 9

\* One pulse of the bus clear; once SDA is high, or after the last, SDA falls and
\* rises while SCL is high, which ends whatever was going on.
ClearBus ==
  /\ step = "clear"
  /\ slave' \in {IF s.hold THEN s ELSE Listening : s \in Clocked}
  /\ IF slave'.hold /\ pulses + 1 < ClearPulses
     THEN pulses' = pulses + 1 /\ UNCHANGED step
     ELSE pulses' = 0 /\ step' = "start"
  /\ UNCHANGED <<display, offset, attempt, error, sda, noise, result, disturbed, explained>>

\* ddc_start: SDA must be high, then SCL.
Start(from, to) ==
  /\ step = from
  /\ sda' = FALSE
  /\ UNCHANGED display
  /\ \/ /\ slave.hold
        /\ Refused("sda_stuck_low", from = "restart")
        /\ UNCHANGED <<slave, disturbed>>
     \/ /\ ~slave.hold
        /\ Refused("scl_stuck_low", from = "restart")
        /\ disturbed' = TRUE /\ UNCHANGED slave
     \/ /\ ~slave.hold
        /\ slave' = Listening /\ step' = to
        /\ UNCHANGED <<pulses, offset, attempt, error, noise, result, disturbed, explained>>

\* ddc_write_byte: of the address of the display, the offset, the address to read.
WriteByte(from, to) ==
  /\ step = from
  /\ UNCHANGED <<display, sda>>
  /\ \/ /\ slave' \in Interrupted
        /\ Refused("scl_stuck_low", from # "address")
        /\ disturbed' = TRUE
     \/ /\ Refused("none", FALSE)
        /\ disturbed' = TRUE /\ UNCHANGED slave
     \/ /\ step' = to
        /\ UNCHANGED <<pulses, offset, attempt, error, noise, result, env, explained>>

\* The loop over ddc_read_byte; the last byte is not acknowledged, so that the
\* display, which had begun to send, lets go of SDA.
ReadBytes ==
  /\ step = "bytes"
  /\ UNCHANGED <<display, sda, pulses, offset, attempt, result>>
  /\ \/ /\ slave' \in Interrupted
        /\ step' = "stop_failed"
        /\ Reason("i2c_read_timeout")
        /\ disturbed' = TRUE /\ UNCHANGED noise
     \/ /\ step' = "stop"
        /\ noise' \in Noise \cup {Clean}
        /\ disturbed' = (disturbed \/ noise' # Clean)
        /\ UNCHANGED <<error, explained, slave>>

\* ddc_stop after a transaction that failed, and one that fails itself.
StopFails ==
  /\ step \in {"stop", "stop_failed"}
  /\ UNCHANGED <<display, slave>>
  /\ \/ sda' = TRUE /\ Reason("scl_stuck_low") /\ disturbed' = TRUE
     \/ sda' = FALSE /\ slave.hold /\ Reason("sda_stuck_low") /\ UNCHANGED disturbed
  /\ NextAttempt

StopFailed ==
  /\ step = "stop_failed" /\ ~slave.hold
  /\ sda' = FALSE /\ slave' = Listening
  /\ NextAttempt
  /\ UNCHANGED <<display, error, disturbed, explained>>

\* Mutant: any sum will do.
ChecksumOkAlways == TRUE

\* The block as it is in the display has the sum 0.
ChecksumOk == noise.by % 256 = 0

\* ddc_stop after the last byte, the checksum, and then the checks on the block.
Stop ==
  /\ step = "stop" /\ ~slave.hold
  /\ slave' = Listening
  /\ UNCHANGED <<display, disturbed>>
  /\ IF ~ChecksumOk
     THEN sda' = FALSE /\ Reason("bad_checksum") /\ NextAttempt
     ELSE CASE offset = 0 /\ ~display.header -> ReturnBecause("bad_header")
            [] offset = 0 /\ display.header /\ ~display.extension ->
                 ReturnBecause("no_cta_extension")
            [] offset = 0 /\ display.header /\ display.extension ->
                 /\ offset' = BlockSize /\ attempt' = 0 /\ step' = "start"
                 /\ sda' = FALSE /\ noise' = Clean
                 /\ UNCHANGED <<pulses, error, result, explained>>
            [] offset = BlockSize /\ ~display.cta -> ReturnBecause("bad_cta_header")
            [] offset = BlockSize /\ display.cta ->
                 LET pa == Walk(Image(display, noise))
                 IN  IF pa = 0 THEN ReturnBecause("no_hdmi_vsdb") ELSE Return(pa)

\* The Pico is reset, or loses its power, while the display has not finished.
Reset ==
  /\ step \notin {"idle", "off"}
  /\ step' = "off" /\ sda' = FALSE /\ error' = "not_run" /\ noise' = Clean
  /\ result' = Unknown /\ explained' = FALSE
  /\ slave' \in Interrupted
  /\ pulses' = 0 /\ offset' = 0 /\ attempt' = 0
  /\ disturbed' = FALSE /\ UNCHANGED display

Init ==
  /\ display \in Displays
  /\ step = "off" /\ pulses = 0 /\ offset = 0 /\ attempt = 0
  /\ error = "not_run" /\ sda = FALSE /\ noise = Clean /\ result = Unknown
  /\ slave = Listening /\ disturbed = FALSE /\ explained = FALSE

DiscoveryStep ==
  \/ ClearBus
  \/ Start("start", "address")
  \/ WriteByte("address", "offset")
  \/ WriteByte("offset", "restart")
  \/ Start("restart", "read_address")
  \/ WriteByte("read_address", "bytes")
  \/ ReadBytes
  \/ Stop
  \/ StopFails
  \/ StopFailed
  \/ GiveUp

Next == Discover \/ DiscoveryStep \/ Reset

\* Every wait is bounded; nobody has to ask for a discovery.
Spec == Init /\ [][Next]_vars /\ WF_vars(DiscoveryStep)

--------------------------------------------------------------------------------
(* Properties.                                                                 *)

Steps == {"idle", "off", "clear", "start", "address", "offset", "restart",
          "read_address", "bytes", "stop", "stop_failed", "give_up"}
Reasons == {"sda_stuck_low", "scl_stuck_low", "i2c_set_offset_failed", "ddc_start_failed",
            "i2c_read_timeout", "bad_checksum", "bad_header", "no_cta_extension",
            "bad_cta_header", "no_hdmi_vsdb", "pa_not_found"}

\* Types of the variables.
TypeOK ==
  /\ display \in Displays /\ step \in Steps
  /\ pulses \in 0..8 /\ offset \in {0, BlockSize} /\ attempt \in 0..2
  /\ error \in Reasons \cup {"ok", "not_run"} /\ explained \in BOOLEAN
  /\ sda \in BOOLEAN /\ noise \in Noise \cup {Clean} /\ result \in 0..Unknown
  /\ slave \in [hold : BOOLEAN, left : 0..9] /\ disturbed \in BOOLEAN

\* Reference: the first HDMI vendor block in the list, without looking at memory.
HdmiBlocks(d) ==
  SelectSeq(d.dbs, LAMBDA b : Len(b) >= 6 /\ b[1] \div 32 = 3 /\ SubSeq(b, 2, 4) = VsbHdr)
Readable(d) == d.header /\ d.extension /\ d.cta /\ HdmiBlocks(d) # <<>>

\* What the walk over an ungarbled block finds is not the unknown address.
WalkInRange == \A d \in Displays : Walk(Image(d, Clean)) \in 0..(Unknown - 1)

\* The walk over an ungarbled block finds the reference's address, and the block
\* holds one that is not blank.
WalkReads ==
  \A d \in Displays :
    IF HdmiBlocks(d) = <<>> THEN Walk(Image(d, Clean)) = 0
    ELSE /\ Walk(Image(d, Clean)) = 256 * HdmiBlocks(d)[1][5]
         /\ Walk(Image(d, Clean)) \in 1..(Unknown - 1)

(***************************************************************************)
(* A discovery that returns an address returns that of the first HDMI      *)
(* vendor block of the display, up to the byte that the code leaves out,   *)
(* whatever was garbled, refused or interrupted on the way; and an         *)
(* undisturbed one returns it whenever there is one (read_edid_block, the  *)
(* walk of edid_get_physical_address).                                     *)
(***************************************************************************)
AddressIsTheDisplays ==
  [][DiscoveryStep /\ step' = "idle" =>
       /\ result' # Unknown =>
            Readable(display) /\ result' = 256 * HdmiBlocks(display)[1][5]
       /\ ~disturbed' /\ Readable(display) => result' # Unknown]_vars

(***************************************************************************)
(* A transaction that a reset or a failed discovery cut short does not     *)
(* spoil the next discovery: when the first START is due, the display has  *)
(* let go of SDA and listens, wherever in a byte it was (lines 659-679).   *)
(***************************************************************************)
FreedBeforeFirstStart ==
  step = "start" /\ offset = 0 /\ attempt = 0 => slave = Listening

(***************************************************************************)
(* The reason that DISCOVER_PA reports is one that occurred in this        *)
(* discovery, of whichever try; there is one for every failure, and none   *)
(* after a success, although tries that fail leave theirs behind.          *)
(***************************************************************************)
ReasonIsOfThisDiscovery ==
  [][DiscoveryStep /\ step' = "idle" =>
       IF result' = Unknown THEN explained' /\ error' # "ok" ELSE error' = "ok"]_vars

(***************************************************************************)
(* A discovery returns, however long the display stretches the clock and   *)
(* however often it refuses or garbles a byte: main() waits for it.        *)
(***************************************************************************)
DiscoveryReturns == step \notin {"idle", "off"} ~> step \in {"idle", "off"}

(***************************************************************************)
(* What cec_transceiver.h lines 80-82 say: the discovery extracts the      *)
(* 16-bit physical address field.  The code takes its low byte from the    *)
(* vendor id.                                                              *)
(***************************************************************************)
ExtractsTheAddress ==
  [][DiscoveryStep /\ step' = "idle" /\ result' # Unknown =>
       LET b == HdmiBlocks(display)[1] IN result' = 256 * b[5] + b[6]]_vars
================================================================================
