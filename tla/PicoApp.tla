-------------------------------- MODULE PicoApp --------------------------------
(***************************************************************************)
(* firmware/main.c: the single-threaded application on the Pico.  It boots *)
(* (physical address from flash, logical address claimed, TV woken), then  *)
(* loops over received CEC frames, the hot-plug pin, the 15 s poll of the  *)
(* TV and the serial commands of the PC.                                   *)
(*                                                                         *)
(* pc names the next step of main(); a handler that transmits more than    *)
(* one frame, or writes flash, takes several steps, between which the TV,  *)
(* the hot-plug pin and the power supply go their own ways.  `out' is the  *)
(* line the last step sent to the PC.                                      *)
(*                                                                         *)
(* cec_transmit and the reception of frames are seen from here: what they  *)
(* return is the environment's choice, but a TV that is dead acknowledges  *)
(* nothing.  CecTransmitter and CecReceiver model them.  The LED is left   *)
(* out, and so are the branches for cec_transceiver_init and               *)
(* cec_claim_logical_address returning false: neither ever does.           *)
(***************************************************************************)
EXTENDS Integers

CONSTANTS
  SettablePa,    \* physical addresses the PC sets
  DiscoverPa,    \* what cec_discover_physical_address may return
  Claimable,     \* what cec_claim_logical_address may return
  Torn,          \* Torn[pa]: what the field pa may hold when the erase or the
                 \* program of a page with that address is cut short
  BusFrames,     \* frames from other devices: [from, to, op]
  MaxCuts        \* bound on the number of power cuts

Unknown == 65535      \* CEC_PA_UNKNOWN
DefaultPa == 4096     \* 1.0.0.0
Tv == 0
Broadcast == 15
Erased == -1          \* no FLASH_CONFIG_MAGIC in the sector
Nothing == <<"", "">>    \* no line is sent
NoFrame == [from |-> 16, to |-> 16, op |-> "none"]
Opcodes == {"standby", "status_on", "status_standby", "active_source",
            "give_power_status", "other"}

PhysicalAddresses == 0..65535

ASSUME AppAssumption ==
  /\ SettablePa \subseteq PhysicalAddresses
  /\ DiscoverPa \subseteq PhysicalAddresses
  /\ Claimable \subseteq 1..15
  /\ Torn \in [SettablePa -> SUBSET PhysicalAddresses]
  /\ BusFrames \subseteq [from : 0..15, to : 0..15, op : Opcodes]
  /\ MaxCuts \in Nat

VARIABLES
  flash,      \* the pa field of the config sector, or Erased
  myPa,       \* g_my_pa
  myAddr,     \* g_my_logical_addr
  tvStatus,   \* g_tv_status
  lastHpd,    \* last_hpd
  pollDue,    \* 15 s have passed since g_last_tv_poll_us
  pc,         \* next step of main()
  cmd,        \* the command being handled, or none; BOOT is main's own do_pwr_on
  arg,        \* the physical address parsed from SET_PA
  rxFrame,    \* frame cec_receive_poll will return, or NoFrame
  out         \* the line sent by the last step, or Nothing

VARIABLES     \* the environment
  tv,         \* alive, if only in standby, or dead: without power or unplugged
  hpd,        \* the level of the hot-plug pin
  cuts        \* power cuts so far

VARIABLES     \* history
  toldOff,    \* of "TV is on" and "TV is in standby", the PC last heard the latter
  owed,       \* the PC has sent a command that is not answered
  lastSet,    \* address of the last SET_PA that reached the flash, or Erased
  whole       \* that write ran to its end, and nothing has cut into the page since

ram == <<myPa, myAddr, tvStatus, lastHpd, pollDue, cmd, arg, rxFrame>>
env == <<tv, hpd, cuts>>
saves == <<flash, lastSet, whole>>
vars == <<saves, ram, pc, out, env, toldOff, owed>>

Commands == {"PWR_ON", "PWR_OFF", "DISCOVER_PA", "PA", "SET_PA", "PING"}
Replies(c) ==
  CASE c = "PING" -> {<<"PONG", "PING">>}
    [] c = "PA" -> {<<"EVT", "READY">>, <<"NACK", "PA">>}
    [] c = "unknown" -> {<<"NACK", "unknown">>}
    [] c \in {"BOOT", "none"} -> {}
    [] OTHER -> {<<"ACK", c>>, <<"NACK", c>>}

--------------------------------------------------------------------------------
(* Serial output.                                                              *)

Say(line) ==
  /\ out' = line
  /\ toldOff' = IF line = <<"EVT", "CEC_TV_STANDBY">> THEN TRUE
                ELSE IF line \in {<<"EVT", "CEC_TV_ON">>, <<"ACK", "PWR_ON">>} THEN FALSE
                ELSE toldOff
  /\ owed' = (owed /\ line \notin Replies(cmd))

Silent == out' = Nothing /\ UNCHANGED <<toldOff, owed>>

\* The result of cec_transmit to the TV, and of a broadcast.
TvAcks == IF tv = "dead" THEN {FALSE} ELSE BOOLEAN

--------------------------------------------------------------------------------
(* Boot.                                                                       *)

\* Mutant: the magic is not checked.
ConfigLoadPaNoMagic == IF flash \notin {65535, 0} THEN flash ELSE Unknown

\* Mutant: 0.0.0.0 is taken for an address.
ConfigLoadPaZero == IF flash \notin {Erased, 65535} THEN flash ELSE Unknown

ConfigLoadPa == IF flash \notin {Erased, 65535, 0} THEN flash ELSE Unknown

BootLoad ==
  /\ pc = "boot"
  /\ myPa' = IF ConfigLoadPa = Unknown THEN DefaultPa ELSE ConfigLoadPa
  /\ Say(<<"EVT", "READY">>)
  /\ pc' = "claim" /\ cmd' = "BOOT"
  /\ UNCHANGED <<saves, myAddr, tvStatus, lastHpd, pollDue, arg, rxFrame, env>>

\* cec_claim_logical_address at boot and in the handlers of SET_PA and
\* DISCOVER_PA, which then acknowledge the command.
ClaimAddress ==
  /\ pc = "claim"
  /\ myAddr' \in Claimable
  /\ IF cmd = "BOOT"
     THEN pc' = "pwr_on" /\ Silent
     ELSE pc' = "receive" /\ Say(<<"ACK", cmd>>)
  /\ UNCHANGED <<saves, myPa, tvStatus, lastHpd, pollDue, cmd, arg, rxFrame, env>>

--------------------------------------------------------------------------------
(* do_pwr_on, do_pwr_off.                                                      *)

\* What main() or handle_command_line makes of the value do_pwr_on returns.
PwrOnReturns(ok) ==
  /\ pc' = "receive"
  /\ tvStatus' = IF ok THEN "ON" ELSE tvStatus
  /\ CASE cmd = "BOOT" /\ ok -> Silent
       [] cmd = "BOOT" /\ ~ok -> Say(<<"EVT", "AUTO_POWER_ON_FAILED">>)
       [] cmd # "BOOT" /\ ok -> Say(<<"ACK", "PWR_ON">>)
       [] cmd # "BOOT" /\ ~ok -> Say(<<"NACK", "PWR_ON">>)

Rest == UNCHANGED <<saves, myPa, myAddr, lastHpd, pollDue, cmd, arg, rxFrame, env>>

PwrOnPaUnknown ==
  /\ pc = "pwr_on" /\ myPa = Unknown
  /\ PwrOnReturns(FALSE)
  /\ Rest

\* Mutant: the physical address is not checked.
ImageViewOnAlways ==
  /\ pc = "pwr_on"
  /\ \E ok \in TvAcks :
        IF ok THEN pc' = "stream_path" /\ Silent /\ UNCHANGED tvStatus
              ELSE PwrOnReturns(FALSE)
  /\ Rest

ImageViewOn ==
  /\ pc = "pwr_on" /\ myPa # Unknown
  /\ \E ok \in TvAcks :
        IF ok THEN pc' = "stream_path" /\ Silent /\ UNCHANGED tvStatus
              ELSE PwrOnReturns(FALSE)
  /\ Rest

\* Its result is ignored.
SetStreamPath ==
  /\ pc = "stream_path"
  /\ pc' = "active_source"
  /\ Silent /\ UNCHANGED tvStatus
  /\ Rest

ActiveSource ==
  /\ pc = "active_source"
  /\ \E ok \in BOOLEAN : PwrOnReturns(ok)
  /\ Rest

\* <Standby> to all.  g_tv_status is not touched.
PwrOff ==
  /\ pc = "pwr_off"
  /\ pc' = "receive"
  /\ \/ Say(<<"ACK", "PWR_OFF">>)
     \/ Say(<<"NACK", "PWR_OFF">>)
  /\ UNCHANGED tvStatus
  /\ Rest

--------------------------------------------------------------------------------
(* SET_PA and DISCOVER_PA.                                                     *)

\* config_save_pa: the sector is erased, then the page programmed.
FlashErase ==
  /\ pc = "erase"
  /\ flash' = Erased
  /\ lastSet' = arg /\ whole' = FALSE
  /\ pc' = "program"
  /\ Silent
  /\ UNCHANGED <<ram, env>>

FlashProgram ==
  /\ pc = "program"
  /\ flash' = arg /\ whole' = TRUE
  /\ myPa' = arg
  /\ Say(<<"EVT", "READY">>)
  /\ pc' = "claim"
  /\ UNCHANGED <<lastSet, myAddr, tvStatus, lastHpd, pollDue, cmd, arg, rxFrame, env>>

\* Mutant: a failed discovery is refused in both functions.
DiscoverNacks ==
  /\ pc = "discover"
  /\ \E pa \in DiscoverPa :
        IF pa = Unknown
        THEN pc' = "discover_nack" /\ Say(<<"NACK", "DISCOVER_PA">>) /\ UNCHANGED myPa
        ELSE pc' = "claim" /\ myPa' = pa /\ Say(<<"EVT", "READY">>)
  /\ UNCHANGED <<saves, myAddr, tvStatus, lastHpd, pollDue, cmd, arg, rxFrame, env>>

\* The error event of a failed discovery, which the NACK follows.
Discover ==
  /\ pc = "discover"
  /\ \E pa \in DiscoverPa :
        IF pa = Unknown
        THEN pc' = "discover_nack" /\ Say(<<"EVT", "ERROR">>) /\ UNCHANGED myPa
        ELSE pc' = "claim" /\ myPa' = pa /\ Say(<<"EVT", "READY">>)
  /\ UNCHANGED <<saves, myAddr, tvStatus, lastHpd, pollDue, cmd, arg, rxFrame, env>>

DiscoverNack ==
  /\ pc = "discover_nack"
  /\ pc' = "receive"
  /\ Say(<<"NACK", "DISCOVER_PA">>)
  /\ UNCHANGED tvStatus
  /\ Rest

--------------------------------------------------------------------------------
(* The loop.                                                                   *)

\* Mutant: the event is sent although the TV is known to be off.
TvWentOffRepeats == tvStatus' = "OFF" /\ Say(<<"EVT", "CEC_TV_STANDBY">>)

\* Mutant: the status is not remembered.
TvWentOffForgets ==
  IF tvStatus # "OFF"
  THEN tvStatus' = tvStatus /\ Say(<<"EVT", "CEC_TV_STANDBY">>)
  ELSE UNCHANGED tvStatus /\ Silent

TvWentOff ==
  IF tvStatus # "OFF"
  THEN tvStatus' = "OFF" /\ Say(<<"EVT", "CEC_TV_STANDBY">>)
  ELSE UNCHANGED tvStatus /\ Silent

TvWentOn ==
  IF tvStatus # "ON"
  THEN tvStatus' = "ON" /\ Say(<<"EVT", "CEC_TV_ON">>)
  ELSE UNCHANGED tvStatus /\ Silent

ForUs(f) == f.to \in {myAddr, Broadcast}

\* handle_incoming_frame; a request for the power status is answered, whatever
\* cec_transmit returns.
HandleIncomingFrame(f) ==
  CASE ForUs(f) /\ f.from = Tv /\ f.op \in {"standby", "status_standby"} -> TvWentOff
    [] ForUs(f) /\ f.from = Tv /\ f.op = "status_on" -> TvWentOn
    [] ForUs(f) /\ f.op = "active_source" /\ f.from # myAddr ->
         Say(<<"EVT", "CEC_ACTIVE_SOURCE_LOST">>) /\ UNCHANGED tvStatus
    [] OTHER -> Silent /\ UNCHANGED tvStatus

Receive ==
  /\ pc = "receive"
  /\ rxFrame' = NoFrame
  /\ IF rxFrame = NoFrame
     THEN pc' = "hpd" /\ Silent /\ UNCHANGED tvStatus
     ELSE UNCHANGED pc /\ HandleIncomingFrame(rxFrame)
  /\ cmd' = "none" /\ arg' = Unknown
  /\ UNCHANGED <<saves, myPa, myAddr, lastHpd, pollDue, env>>

CheckHpd ==
  /\ pc = "hpd"
  /\ myPa' = IF hpd /\ ~lastHpd THEN Unknown ELSE myPa
  /\ lastHpd' = hpd
  /\ pc' = "poll"
  /\ Silent
  /\ UNCHANGED <<saves, myAddr, tvStatus, pollDue, cmd, arg, rxFrame, env>>

\* Mutant: the result of the poll is not looked at.
PollTvIgnoresNack ==
  /\ pc = "poll"
  /\ pc' = "serial"
  /\ pollDue' = FALSE
  /\ Silent /\ UNCHANGED tvStatus
  /\ UNCHANGED <<saves, myPa, myAddr, lastHpd, cmd, arg, rxFrame, env>>

\* <Give Device Power Status>, not acknowledged: the TV is taken to be off.
PollTv ==
  /\ pc = "poll"
  /\ pc' = "serial"
  /\ pollDue' = FALSE
  /\ \E acked \in IF pollDue THEN TvAcks ELSE {TRUE} :
        IF acked THEN Silent /\ UNCHANGED tvStatus ELSE TvWentOff
  /\ UNCHANGED <<saves, myPa, myAddr, lastHpd, cmd, arg, rxFrame, env>>

NoLine ==
  /\ pc = "serial"
  /\ pc' = "receive"
  /\ Silent /\ UNCHANGED tvStatus
  /\ Rest

\* The step handle_command_line goes to.  The line read is a command of the PC: a
\* line without CMD: is dropped, as if there were none, and one that is longer than
\* line_buf has lost its end, so that its command is unknown.
Dispatch(c) ==
  CASE c = "PWR_ON" -> "pwr_on"
    [] c = "PWR_OFF" -> "pwr_off"
    [] c = "DISCOVER_PA" -> "discover"
    [] OTHER -> "reply"

ReadLine(c) ==
  /\ pc = "serial"
  /\ cmd' = c
  /\ pc' = Dispatch(c)
  /\ owed' = TRUE /\ out' = Nothing
  /\ UNCHANGED <<saves, myPa, myAddr, tvStatus, lastHpd, pollDue, arg, rxFrame,
                 env, toldOff>>

ReadSetPa(pa) ==
  /\ pc = "serial"
  /\ cmd' = "SET_PA" /\ arg' = pa
  /\ pc' = "erase"
  /\ owed' = TRUE /\ out' = Nothing
  /\ UNCHANGED <<saves, myPa, myAddr, tvStatus, lastHpd, pollDue, rxFrame,
                 env, toldOff>>

\* Mutant: an address that does not parse gets no answer.
ReplyUnlessSetPa ==
  /\ pc = "reply"
  /\ pc' = "receive"
  /\ CASE cmd = "PING" -> Say(<<"PONG", "PING">>)
       [] cmd = "PA" -> Say(IF myPa # Unknown THEN <<"EVT", "READY">> ELSE <<"NACK", "PA">>)
       [] cmd = "SET_PA" -> Silent
       [] OTHER -> Say(<<"NACK", "unknown">>)
  /\ UNCHANGED tvStatus
  /\ Rest

\* The commands that answer at once; here SET_PA is one that did not parse.
Reply ==
  /\ pc = "reply"
  /\ pc' = "receive"
  /\ CASE cmd = "PING" -> Say(<<"PONG", "PING">>)
       [] cmd = "PA" -> Say(IF myPa # Unknown THEN <<"EVT", "READY">> ELSE <<"NACK", "PA">>)
       [] cmd = "SET_PA" -> Say(<<"NACK", "SET_PA">>)
       [] OTHER -> Say(<<"NACK", "unknown">>)
  /\ UNCHANGED tvStatus
  /\ Rest

--------------------------------------------------------------------------------
(* The environment.                                                            *)

\* A frame the receiver got hold of; a dead TV sends none.  A frame takes longer
\* on the wire than the handling of the one before it, so while (cec_receive_poll)
\* does not find another at once.
\* The receiver is off from a transmission to the next poll; a frame
\* that comes then stands for one that had come just before the transmission.
FrameArrives(f) ==
  /\ pc \notin {"boot", "receive"} /\ rxFrame = NoFrame
  /\ f.from = Tv => tv # "dead"
  /\ rxFrame' = f
  /\ out' = Nothing
  /\ UNCHANGED <<saves, myPa, myAddr, tvStatus, lastHpd, pollDue, cmd, arg, pc,
                 env, toldOff, owed>>

TvChanges ==
  /\ tv' \in {"alive", "dead"} \ {tv}
  /\ out' = Nothing
  /\ UNCHANGED <<saves, ram, pc, hpd, cuts, toldOff, owed>>

HpdChanges ==
  /\ hpd' = ~hpd
  /\ out' = Nothing
  /\ UNCHANGED <<saves, ram, pc, tv, cuts, toldOff, owed>>

PollTimer ==
  /\ ~pollDue /\ pc # "boot"
  /\ pollDue' = TRUE
  /\ out' = Nothing
  /\ UNCHANGED <<saves, myPa, myAddr, tvStatus, lastHpd, cmd, arg, rxFrame, pc,
                 env, toldOff, owed>>

\* The sector after a power cut.  Erasing and programming take their time: the page
\* may be left with the magic and an address of which some bits only are written.
SectorCut ==
  CASE pc = "erase" /\ flash # Erased ->
         /\ flash' \in {flash, Erased} \cup Torn[lastSet]
         /\ whole' = (whole /\ flash' = flash)
    [] pc = "program" -> flash' \in {Erased} \cup Torn[lastSet] /\ UNCHANGED whole
    [] OTHER -> UNCHANGED <<flash, whole>>

\* The power is cut, and comes back.  The PC loses the port and starts afresh.
PowerCut ==
  /\ cuts < MaxCuts
  /\ cuts' = cuts + 1
  /\ SectorCut
  /\ pc' = "boot"
  /\ myPa' = Unknown /\ myAddr' = Broadcast /\ tvStatus' = "UNKNOWN"
  /\ lastHpd' = TRUE /\ pollDue' = FALSE /\ cmd' = "BOOT" /\ arg' = Unknown
  /\ rxFrame' = NoFrame
  /\ out' = Nothing /\ toldOff' = FALSE /\ owed' = FALSE
  /\ UNCHANGED <<lastSet, tv, hpd>>

--------------------------------------------------------------------------------
Init ==
  /\ flash = Erased /\ lastSet = Erased /\ whole = FALSE
  /\ myPa = Unknown /\ myAddr = Broadcast /\ tvStatus = "UNKNOWN"
  /\ lastHpd = TRUE /\ pollDue = FALSE /\ cmd = "BOOT" /\ arg = Unknown
  /\ rxFrame = NoFrame
  /\ pc = "boot" /\ out = Nothing
  /\ tv \in {"alive", "dead"} /\ hpd \in BOOLEAN /\ cuts = 0
  /\ toldOff = FALSE /\ owed = FALSE

\* Every step of main() that does not wait for a line from the PC.
MainStep ==
  \/ BootLoad
  \/ ClaimAddress
  \/ PwrOnPaUnknown
  \/ ImageViewOn
  \/ SetStreamPath
  \/ ActiveSource
  \/ PwrOff
  \/ FlashErase
  \/ FlashProgram
  \/ Discover
  \/ DiscoverNack
  \/ Receive
  \/ CheckHpd
  \/ PollTv
  \/ NoLine
  \/ Reply

Next ==
  \/ MainStep
  \/ \E c \in Commands \cup {"unknown"} : ReadLine(c)
  \/ \E pa \in SettablePa : ReadSetPa(pa)
  \/ \E f \in BusFrames : FrameArrives(f)
  \/ TvChanges
  \/ HpdChanges
  \/ PollTimer
  \/ PowerCut

\* The loop never blocks, and the clock runs.
Fairness == WF_vars(MainStep) /\ WF_vars(PollTimer)

Spec == Init /\ [][Next]_vars /\ Fairness

--------------------------------------------------------------------------------
(* Properties.                                                                 *)

Pcs == {"boot", "claim", "pwr_on", "stream_path", "active_source", "pwr_off",
        "erase", "program", "discover", "discover_nack", "receive", "hpd",
        "poll", "serial", "reply"}

AnswerLines ==
  (UNION {Replies(c) : c \in Commands \cup {"unknown"}}) \ {<<"EVT", "READY">>}

HalfWritten == UNION {Torn[pa] : pa \in SettablePa}

\* Types of the variables of main.c.
TypeOK ==
  /\ flash \in {Erased} \cup SettablePa \cup HalfWritten
  /\ myPa \in {Unknown, DefaultPa} \cup SettablePa \cup DiscoverPa \cup HalfWritten
  /\ myAddr \in Claimable \cup {Broadcast}
  /\ tvStatus \in {"UNKNOWN", "ON", "OFF"}
  /\ lastHpd \in BOOLEAN /\ pollDue \in BOOLEAN
  /\ pc \in Pcs
  /\ cmd \in Commands \cup {"unknown", "BOOT", "none"}
  /\ arg \in {Unknown} \cup SettablePa
  /\ rxFrame \in BusFrames \cup {NoFrame}
  /\ tv \in {"alive", "dead"} /\ hpd \in BOOLEAN /\ cuts \in 0..MaxCuts
  /\ toldOff \in BOOLEAN /\ owed \in BOOLEAN /\ whole \in BOOLEAN
  /\ lastSet \in {Erased} \cup SettablePa

(***************************************************************************)
(* The PC suspends on EVT:CEC_TV_STANDBY.  What it last heard of the TV    *)
(* is standby exactly while g_tv_status is TV_OFF: no change is kept from  *)
(* it, whichever of the poll, a <Standby>, a <Report Power Status> or a    *)
(* PWR_ON made it.                                                         *)
(***************************************************************************)
PcKnowsStandby == toldOff <=> tvStatus = "OFF"

(***************************************************************************)
(* Nor is it told twice: between two standby events the PC has heard that  *)
(* the TV is on, or of its own PWR_ON (the tests of g_tv_status in         *)
(* handle_incoming_frame and main).  The poll finds a TV that stays off    *)
(* every 15 s, and each event would suspend a PC that the user woke.       *)
(***************************************************************************)
StandbySaidOnce == [][out' = <<"EVT", "CEC_TV_STANDBY">> => ~toldOff]_vars

(***************************************************************************)
(* The unknown physical address f.f.f.f is never broadcast, although the   *)
(* hot-plug pin may invalidate the address at any turn of the loop         *)
(* (do_pwr_on lines 192-194, main lines 421-430).                          *)
(***************************************************************************)
NeverBroadcastsUnknown == pc \in {"stream_path", "active_source"} => myPa # Unknown

(***************************************************************************)
(* The Pico boots with the address last set, if that write was whole and   *)
(* the address is one config_load_pa accepts, and otherwise with the       *)
(* default.  The page has no checksum: a write that was cut short may also *)
(* be taken for an address, but for what is left of that very one, never   *)
(* for an older address, and never for a blank field.                      *)
(***************************************************************************)
Accepted == PhysicalAddresses \ {0, Unknown}

BootAddresses ==
  CASE whole /\ lastSet \in Accepted -> {lastSet}
    [] ~whole /\ lastSet # Erased -> {DefaultPa} \cup (Torn[lastSet] \cap Accepted)
    [] OTHER -> {DefaultPa}

BootsWithLastSet == [][BootLoad => myPa' \in BootAddresses]_vars

(***************************************************************************)
(* A line that answers a command is sent once per command, while that very *)
(* command is the one being handled: the listener matches answers by name, *)
(* so a second one would answer the next command of that name.             *)
(***************************************************************************)
AnswersOnlyWhatIsAsked ==
  [][out' \in AnswerLines => owed /\ out' \in Replies(cmd)]_vars

(***************************************************************************)
(* Every command is answered, or the power is cut.                         *)
(***************************************************************************)
EveryCommandIsAnswered == owed ~> ~owed

(***************************************************************************)
(* A TV that stops answering for good is reported: g_tv_status ends at     *)
(* TV_OFF, and by PcKnowsStandby the PC has been told, even if no          *)
(* <Standby> was ever received (the poll of lines 435-450).                *)
(***************************************************************************)
DeadTvIsReported == <>[](tv = "dead") => <>[](tvStatus = "OFF")

(***************************************************************************)
(* What main.c line 15 says of SET_PA: saved to flash, survives reboot.    *)
(* config_load_pa takes 0.0.0.0 and 15.15.15.15 for an empty sector.       *)
(***************************************************************************)
SetPaSurvivesReboot == [][BootLoad /\ whole => myPa' = lastSet]_vars

(***************************************************************************)
(* What main.c lines 421-424 say: the hot-plug edge invalidates the        *)
(* address so that the next PWR_ON re-discovers it.  do_pwr_on fails.      *)
(***************************************************************************)
PwrOnRediscovers ==
  [][pc = "pwr_on" /\ cmd = "PWR_ON" /\ myPa = Unknown => pc' # "receive"]_vars
================================================================================
