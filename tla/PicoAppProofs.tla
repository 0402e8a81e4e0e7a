----------------------------- MODULE PicoAppProofs -----------------------------
(***************************************************************************)
(* Proofs about PicoApp for every set of addresses, frames and any number  *)
(* of power cuts: what the PC last heard agrees with g_tv_status, a        *)
(* standby is said once, the unknown address is never broadcast, a boot    *)
(* finds the address set last, whole or in part, and a command is answered *)
(* once.                                                                   *)
(***************************************************************************)
EXTENDS PicoApp, TLAPS

\* The steps of main()'s own do_pwr_on, whose success is not told to the PC.
BootPcs == {"claim", "pwr_on", "stream_path", "active_source"}

(***************************************************************************)
(* The part that makes PcKnowsStandby inductive: while the boot sequence   *)
(* runs no frame and no poll has set the status yet, so its silent TV_ON   *)
(* does not leave the PC with an old standby event.                        *)
(***************************************************************************)
BootInv ==
  pc = "boot" \/ (cmd = "BOOT" /\ pc \in BootPcs) => tvStatus = "UNKNOWN"

\* Which command the steps of SET_PA and DISCOVER_PA, and the claim, belong to.
CmdInv ==
  /\ pc \in {"erase", "program"} => cmd = "SET_PA"
  /\ pc = "discover" => cmd = "DISCOVER_PA"
  /\ pc = "claim" => cmd \in {"BOOT", "SET_PA", "DISCOVER_PA"}

IInv == PcKnowsStandby /\ NeverBroadcastsUnknown /\ BootInv /\ CmdInv

--------------------------------------------------------------------------------

\* The initial states.
LEMMA InitInv == Init => IInv
BY DEF Init, IInv, PcKnowsStandby, NeverBroadcastsUnknown, BootInv, CmdInv, Unknown

\* A step that says nothing and keeps the status keeps the agreement.
LEMMA SilentKeeps ==
  PcKnowsStandby /\ UNCHANGED <<toldOff, tvStatus>> => PcKnowsStandby'
BY DEF PcKnowsStandby

\* Lines that are not about the TV do not change what the PC believes.
LEMMA SayOther ==
  ASSUME NEW line, Say(line), PcKnowsStandby, UNCHANGED tvStatus,
         line \notin {<<"EVT", "CEC_TV_STANDBY">>, <<"EVT", "CEC_TV_ON">>,
                      <<"ACK", "PWR_ON">>}
  PROVE PcKnowsStandby'
BY DEF Say, PcKnowsStandby

\* What PWR_ON, at boot or as a command, does to status and belief.
LEMMA PwrOnReturnsInv ==
  ASSUME NEW ok \in BOOLEAN, PwrOnReturns(ok), IInv,
         pc \in {"pwr_on", "active_source"}, UNCHANGED <<myPa, cmd>>
  PROVE IInv'
<1>1. NeverBroadcastsUnknown' /\ BootInv' /\ CmdInv'
  BY DEF PwrOnReturns, NeverBroadcastsUnknown, BootInv, CmdInv, BootPcs
<1>2. PcKnowsStandby'
  <2>1. CASE cmd = "BOOT" /\ ok
    <3>1. tvStatus = "UNKNOWN" BY <2>1 DEF IInv, BootInv, CmdInv, BootPcs
    <3>2. ~toldOff BY <3>1 DEF IInv, PcKnowsStandby
    <3>3. tvStatus' = "ON" /\ UNCHANGED toldOff
      BY <2>1 DEF PwrOnReturns, Silent
    <3> QED BY <3>2, <3>3 DEF PcKnowsStandby
  <2>2. CASE cmd = "BOOT" /\ ~ok
    <3>1. tvStatus' = tvStatus /\ Say(<<"EVT", "AUTO_POWER_ON_FAILED">>)
      BY <2>2 DEF PwrOnReturns
    <3>2. UNCHANGED toldOff BY <3>1 DEF Say
    <3> QED BY <3>1, <3>2, SilentKeeps DEF IInv
  <2>3. CASE cmd # "BOOT" /\ ok
    <3>1. tvStatus' = "ON" /\ Say(<<"ACK", "PWR_ON">>)
      BY <2>3 DEF PwrOnReturns
    <3>2. toldOff' = FALSE BY <3>1 DEF Say
    <3> QED BY <3>1, <3>2 DEF PcKnowsStandby
  <2>4. CASE cmd # "BOOT" /\ ~ok
    <3>1. tvStatus' = tvStatus /\ Say(<<"NACK", "PWR_ON">>)
      BY <2>4 DEF PwrOnReturns
    <3>2. UNCHANGED toldOff BY <3>1 DEF Say
    <3> QED BY <3>1, <3>2, SilentKeeps DEF IInv
  <2> QED BY <2>1, <2>2, <2>3, <2>4
<1> QED BY <1>1, <1>2 DEF IInv

\* TvWentOff and TvWentOn keep status and belief together.
LEMMA StatusInv ==
  ASSUME PcKnowsStandby, TvWentOff \/ TvWentOn
  PROVE PcKnowsStandby'
<1>1. CASE TvWentOff BY <1>1 DEF TvWentOff, Say, Silent, PcKnowsStandby
<1>2. CASE TvWentOn BY <1>2 DEF TvWentOn, Say, Silent, PcKnowsStandby
<1> QED BY <1>1, <1>2

\* Every handler of main() keeps the invariant.
LEMMA MainStepInv == IInv /\ MainStep => IInv'
<1> SUFFICES ASSUME IInv, MainStep PROVE IInv' OBVIOUS
<1>a. PcKnowsStandby /\ NeverBroadcastsUnknown /\ BootInv /\ CmdInv BY DEF IInv
<1>1. CASE BootLoad
  <2>1. UNCHANGED tvStatus /\ Say(<<"EVT", "READY">>) /\ pc = "boot" /\ pc' = "claim"
        /\ cmd' = "BOOT"
    BY <1>1 DEF BootLoad
  <2>2. UNCHANGED toldOff BY <2>1 DEF Say
  <2> QED BY <1>a, <2>1, <2>2
    DEF IInv, PcKnowsStandby, NeverBroadcastsUnknown, BootInv, CmdInv, BootPcs
<1>2. CASE ClaimAddress
  <2>1. UNCHANGED <<tvStatus, cmd>> /\ pc = "claim" /\ pc' \in {"pwr_on", "receive"}
        /\ (cmd # "BOOT" => pc' = "receive")
    BY <1>2 DEF ClaimAddress
  <2>2. PcKnowsStandby'
    <3>1. CASE cmd = "BOOT"
      BY <1>2, <1>a, <3>1 DEF ClaimAddress, Silent, PcKnowsStandby
    <3>2. CASE cmd # "BOOT"
      <4>1. Say(<<"ACK", cmd>>) BY <1>2, <3>2 DEF ClaimAddress
      <4>2. cmd \in {"SET_PA", "DISCOVER_PA"} BY <2>1, <3>2, <1>a DEF CmdInv
      <4> QED BY <4>1, <4>2, <2>1, <1>a, SayOther
    <3> QED BY <3>1, <3>2
  <2> QED BY <1>a, <2>1, <2>2 DEF IInv, NeverBroadcastsUnknown, BootInv, CmdInv, BootPcs
<1>3. CASE PwrOnPaUnknown
  <2>1. PwrOnReturns(FALSE) /\ pc = "pwr_on" /\ UNCHANGED <<myPa, cmd>>
    BY <1>3 DEF PwrOnPaUnknown, Rest
  <2> QED BY <2>1, PwrOnReturnsInv
<1>4. CASE ImageViewOn
  <2>1. pc = "pwr_on" /\ myPa # Unknown /\ UNCHANGED <<myPa, cmd>>
    BY <1>4 DEF ImageViewOn, Rest
  <2>2. \/ PwrOnReturns(FALSE)
        \/ pc' = "stream_path" /\ Silent /\ UNCHANGED tvStatus
    BY <1>4 DEF ImageViewOn
  <2>3. CASE PwrOnReturns(FALSE) BY <2>1, <2>3, PwrOnReturnsInv
  <2>4. CASE pc' = "stream_path" /\ Silent /\ UNCHANGED tvStatus
    BY <1>a, <2>1, <2>4
    DEF Silent, IInv, PcKnowsStandby, NeverBroadcastsUnknown, BootInv, CmdInv, BootPcs
  <2> QED BY <2>2, <2>3, <2>4
<1>5. CASE SetStreamPath
  BY <1>a, <1>5 DEF SetStreamPath, Rest, Silent, IInv, PcKnowsStandby,
                    NeverBroadcastsUnknown, BootInv, CmdInv, BootPcs
<1>6. CASE ActiveSource
  <2>1. PICK ok \in BOOLEAN : PwrOnReturns(ok) BY <1>6 DEF ActiveSource
  <2>2. pc = "active_source" /\ UNCHANGED <<myPa, cmd>> BY <1>6 DEF ActiveSource, Rest
  <2> QED BY <2>1, <2>2, PwrOnReturnsInv
<1>7. CASE PwrOff
  <2>1. PcKnowsStandby' BY <1>a, <1>7 DEF PwrOff, Say, PcKnowsStandby
  <2> QED BY <1>7, <2>1 DEF PwrOff, IInv, NeverBroadcastsUnknown, BootInv, CmdInv, BootPcs
<1>8. CASE FlashErase
  BY <1>a, <1>8 DEF FlashErase, Silent, ram, IInv, PcKnowsStandby,
                    NeverBroadcastsUnknown, BootInv, CmdInv, BootPcs
<1>9. CASE FlashProgram
  BY <1>a, <1>9 DEF FlashProgram, Say, IInv, PcKnowsStandby,
                    NeverBroadcastsUnknown, BootInv, CmdInv, BootPcs
<1>10. CASE Discover
  BY <1>a, <1>10 DEF Discover, Say, IInv, PcKnowsStandby,
                     NeverBroadcastsUnknown, BootInv, CmdInv, BootPcs
<1>11. CASE DiscoverNack
  BY <1>a, <1>11 DEF DiscoverNack, Rest, Say, IInv, PcKnowsStandby,
                     NeverBroadcastsUnknown, BootInv, CmdInv, BootPcs
<1>12. CASE Receive
  <2>1. PcKnowsStandby'
    <3>1. CASE UNCHANGED tvStatus /\ Silent
      BY <1>a, <3>1 DEF Silent, PcKnowsStandby
    <3>2. CASE UNCHANGED tvStatus /\ Say(<<"EVT", "CEC_ACTIVE_SOURCE_LOST">>)
      BY <1>a, <3>2 DEF Say, PcKnowsStandby
    <3>3. CASE TvWentOff \/ TvWentOn BY <1>a, <3>3, StatusInv
    <3> QED BY <1>12, <3>1, <3>2, <3>3 DEF Receive, HandleIncomingFrame
  <2> QED BY <1>12, <2>1 DEF Receive, IInv, NeverBroadcastsUnknown, BootInv, CmdInv, BootPcs
<1>13. CASE CheckHpd
  BY <1>a, <1>13 DEF CheckHpd, Silent, IInv, PcKnowsStandby,
                     NeverBroadcastsUnknown, BootInv, CmdInv, BootPcs
<1>14. CASE PollTv
  <2>1. PcKnowsStandby'
    <3>1. CASE Silent /\ UNCHANGED tvStatus
      BY <1>a, <3>1 DEF Silent, PcKnowsStandby
    <3>2. CASE TvWentOff BY <1>a, <3>2, StatusInv
    <3> QED BY <1>14, <3>1, <3>2 DEF PollTv
  <2> QED BY <1>14, <2>1 DEF PollTv, IInv, NeverBroadcastsUnknown, BootInv, CmdInv, BootPcs
<1>15. CASE NoLine
  BY <1>a, <1>15 DEF NoLine, Rest, Silent, IInv, PcKnowsStandby,
                     NeverBroadcastsUnknown, BootInv, CmdInv, BootPcs
<1>16. CASE Reply
  <2>1. PcKnowsStandby' BY <1>a, <1>16 DEF Reply, Say, PcKnowsStandby
  <2> QED BY <1>16, <2>1 DEF Reply, IInv, NeverBroadcastsUnknown, BootInv, CmdInv, BootPcs
<1> QED
  BY <1>1, <1>2, <1>3, <1>4, <1>5, <1>6, <1>7, <1>8, <1>9, <1>10, <1>11, <1>12,
     <1>13, <1>14, <1>15, <1>16 DEF MainStep

\* So do the commands read and everything the environment does.
LEMMA OtherStepInv ==
  ASSUME IInv,
         \/ \E c \in Commands \cup {"unknown"} : ReadLine(c)
         \/ \E pa \in SettablePa : ReadSetPa(pa)
         \/ \E f \in BusFrames : FrameArrives(f)
         \/ TvChanges \/ HpdChanges \/ PollTimer \/ PowerCut
         \/ UNCHANGED vars
  PROVE IInv'
<1>a. PcKnowsStandby /\ NeverBroadcastsUnknown /\ BootInv /\ CmdInv BY DEF IInv
<1>1. CASE \E c \in Commands \cup {"unknown"} : ReadLine(c)
  <2>1. PICK c \in Commands \cup {"unknown"} : ReadLine(c) BY <1>1
  <2>2. c # "BOOT" BY DEF Commands
  <2>3. /\ pc' \in {"pwr_on", "pwr_off", "discover", "reply"}
        /\ pc' = "discover" => cmd' = "DISCOVER_PA"
    BY <2>1 DEF ReadLine, Dispatch
  <2> QED BY <1>a, <2>1, <2>2, <2>3 DEF ReadLine, IInv, PcKnowsStandby,
                                NeverBroadcastsUnknown, BootInv, CmdInv, BootPcs
<1>2. CASE \E pa \in SettablePa : ReadSetPa(pa)
  BY <1>a, <1>2 DEF ReadSetPa, IInv, PcKnowsStandby, NeverBroadcastsUnknown,
                    BootInv, CmdInv, BootPcs
<1>3. CASE \E f \in BusFrames : FrameArrives(f)
  BY <1>a, <1>3 DEF FrameArrives, IInv, PcKnowsStandby, NeverBroadcastsUnknown,
                    BootInv, CmdInv, BootPcs
<1>4. CASE TvChanges \/ HpdChanges \/ PollTimer
  BY <1>a, <1>4 DEF TvChanges, HpdChanges, PollTimer, ram, IInv, PcKnowsStandby,
                    NeverBroadcastsUnknown, BootInv, CmdInv, BootPcs
<1>5. CASE PowerCut
  BY <1>5 DEF PowerCut, IInv, PcKnowsStandby, NeverBroadcastsUnknown,
              BootInv, CmdInv, BootPcs
<1>6. CASE UNCHANGED vars
  BY <1>a, <1>6 DEF vars, ram, IInv, PcKnowsStandby, NeverBroadcastsUnknown,
                    BootInv, CmdInv, BootPcs
<1> QED BY <1>1, <1>2, <1>3, <1>4, <1>5, <1>6

(***************************************************************************)
(* The inductive invariant holds in every behaviour.                       *)
(***************************************************************************)
THEOREM Invariance == Spec => []IInv
<1>1. IInv /\ [Next]_vars => IInv'
  BY MainStepInv, OtherStepInv DEF Next
<1> QED BY InitInv, <1>1, PTL DEF Spec

(***************************************************************************)
(* The PC's last event about the TV and g_tv_status agree for ever (main,  *)
(* handle_incoming_frame, handle_command_line).                            *)
(***************************************************************************)
THEOREM StandbyKnown == Spec => []PcKnowsStandby
BY Invariance, PTL DEF IInv

\* Of all steps of main() only TvWentOff says that the TV is in standby.
LEMMA StandbyStep ==
  ASSUME Next, out' = <<"EVT", "CEC_TV_STANDBY">>
  PROVE  TvWentOff /\ tvStatus # "OFF"
<1>1. \A line : Say(line) => line = <<"EVT", "CEC_TV_STANDBY">> BY DEF Say
<1>2. ~Silent /\ out' # Nothing BY DEF Silent, Nothing
<1>3. \A ok : ~PwrOnReturns(ok) BY <1>1, <1>2 DEF PwrOnReturns
<1>4. ~TvWentOn BY <1>1, <1>2 DEF TvWentOn
<1>5. TvWentOff => tvStatus # "OFF" BY <1>2 DEF TvWentOff
<1>6. CASE Receive BY <1>1, <1>2, <1>4, <1>5, <1>6 DEF Receive, HandleIncomingFrame
<1>7. CASE PollTv BY <1>2, <1>5, <1>7 DEF PollTv
<1>8. CASE \/ BootLoad \/ ClaimAddress \/ PwrOnPaUnknown \/ ImageViewOn
           \/ SetStreamPath \/ ActiveSource
  BY <1>1, <1>2, <1>3, <1>8 DEF BootLoad, ClaimAddress, PwrOnPaUnknown, ImageViewOn,
                                SetStreamPath, ActiveSource
<1>9. CASE \/ PwrOff \/ FlashErase \/ FlashProgram \/ Discover \/ DiscoverNack
           \/ CheckHpd \/ NoLine \/ Reply
  BY <1>1, <1>2, <1>9 DEF PwrOff, FlashErase, FlashProgram, Discover, DiscoverNack,
                          CheckHpd, NoLine, Reply
<1>10. CASE \/ \E c \in Commands \cup {"unknown"} : ReadLine(c)
            \/ \E pa \in SettablePa : ReadSetPa(pa)
            \/ \E f \in BusFrames : FrameArrives(f)
            \/ TvChanges \/ HpdChanges \/ PollTimer \/ PowerCut
  BY <1>2, <1>10 DEF ReadLine, ReadSetPa, FrameArrives, TvChanges, HpdChanges,
                     PollTimer, PowerCut
<1> QED BY <1>6, <1>7, <1>8, <1>9, <1>10 DEF Next, MainStep

(***************************************************************************)
(* The PC is told of a standby once: not again before it has heard that    *)
(* the TV is on.                                                           *)
(***************************************************************************)
THEOREM StandbyOnce == Spec => StandbySaidOnce
<1>1. ASSUME IInv, [Next]_vars
      PROVE  [out' = <<"EVT", "CEC_TV_STANDBY">> => ~toldOff]_vars
  <2>1. CASE Next BY <1>1, <2>1, StandbyStep DEF IInv, PcKnowsStandby
  <2>2. CASE UNCHANGED vars BY <2>2
  <2> QED BY <1>1, <2>1, <2>2
<1>2. IInv /\ [Next]_vars => [out' = <<"EVT", "CEC_TV_STANDBY">> => ~toldOff]_vars
  BY <1>1
<1>3. Spec => []IInv BY Invariance
<1> QED BY <1>2, <1>3, PTL DEF Spec, StandbySaidOnce

(***************************************************************************)
(* do_pwr_on never broadcasts f.f.f.f.                                     *)
(***************************************************************************)
THEOREM UnknownNotBroadcast == Spec => []NeverBroadcastsUnknown
BY Invariance, PTL DEF IInv

--------------------------------------------------------------------------------
(* Types.                                                                      *)

LEMMA SayTypes ==
  ASSUME TypeOK, (\E line : Say(line)) \/ Silent
  PROVE  toldOff' \in BOOLEAN /\ owed' \in BOOLEAN
BY DEF Say, Silent, TypeOK

LEMMA PwrOnReturnsTypes ==
  ASSUME TypeOK, NEW ok \in BOOLEAN, PwrOnReturns(ok), Rest
  PROVE  TypeOK'
<1>1. toldOff' \in BOOLEAN /\ owed' \in BOOLEAN
  <2>1. (\E line : Say(line)) \/ Silent BY DEF PwrOnReturns
  <2> QED BY <2>1, SayTypes
<1>2. pc' = "receive" /\ tvStatus' \in {"UNKNOWN", "ON", "OFF"}
  BY DEF PwrOnReturns, TypeOK
<1> QED BY <1>1, <1>2 DEF TypeOK, Rest, Pcs, saves, env

(***************************************************************************)
(* The flash sector.  While main() is between the erase and the program    *)
(* the sector is blank.  A power cut before or after the program may leave *)
(* an address half written, and then it is the one set last.               *)
(***************************************************************************)
ArgInv == pc \in {"erase", "program"} => arg \in SettablePa

FlashInv ==
  /\ whole => flash = lastSet /\ lastSet \in SettablePa
  /\ ~whole => flash = Erased \/ (lastSet \in SettablePa /\ flash \in Torn[lastSet])
  /\ pc = "program" => ~whole /\ flash = Erased /\ lastSet = arg

(***************************************************************************)
(* A command waits for its answer from the line read to the answer sent,   *)
(* and each handler runs for its own command only.                         *)
(***************************************************************************)
OwedInv ==
  /\ pc \in {"claim", "pwr_on", "stream_path", "active_source"} => cmd = "BOOT" \/ owed
  /\ pc \in {"pwr_off", "erase", "program", "discover", "discover_nack", "reply"} => owed
  /\ pc \in {"pwr_on", "stream_path", "active_source"} => cmd \in {"BOOT", "PWR_ON"}
  /\ pc = "pwr_off" => cmd = "PWR_OFF"
  /\ pc = "discover_nack" => cmd = "DISCOVER_PA"
  /\ pc = "reply" => cmd \in {"PING", "PA", "SET_PA", "unknown"}

AppInv == TypeOK /\ ArgInv /\ FlashInv /\ CmdInv /\ OwedInv

LEMMA MainStepTypes == ASSUME TypeOK, ArgInv, MainStep PROVE TypeOK'
<1>t. \A line : Say(line) => toldOff' \in BOOLEAN /\ owed' \in BOOLEAN BY SayTypes
<1>s. Silent => toldOff' \in BOOLEAN /\ owed' \in BOOLEAN BY SayTypes
<1> USE <1>t, <1>s DEF TypeOK, Pcs, Commands, saves, env
<1>1. CASE BootLoad BY <1>1 DEF BootLoad, ConfigLoadPa
<1>2. CASE ClaimAddress BY <1>2 DEF ClaimAddress
<1>3. CASE PwrOnPaUnknown BY <1>3, PwrOnReturnsTypes DEF PwrOnPaUnknown
<1>4. CASE ImageViewOn
  <2>1. CASE PwrOnReturns(FALSE) BY <1>4, <2>1, PwrOnReturnsTypes DEF ImageViewOn
  <2>2. CASE pc' = "stream_path" /\ Silent /\ UNCHANGED tvStatus
    BY <1>4, <2>2 DEF ImageViewOn, Rest
  <2> QED BY <1>4, <2>1, <2>2 DEF ImageViewOn
<1>5. CASE SetStreamPath BY <1>5 DEF SetStreamPath, Rest
<1>6. CASE ActiveSource BY <1>6, PwrOnReturnsTypes DEF ActiveSource
<1>7. CASE PwrOff BY <1>7 DEF PwrOff, Rest
<1>8. CASE FlashErase
  <2>1. /\ toldOff' \in BOOLEAN /\ owed' \in BOOLEAN /\ whole' \in BOOLEAN
        /\ lastSet' \in {Erased} \cup SettablePa
        /\ flash' \in {Erased} \cup SettablePa \cup HalfWritten
        /\ pc' \in Pcs
    BY <1>8 DEF FlashErase, ArgInv
  <2>2. UNCHANGED <<ram, env>> BY <1>8 DEF FlashErase
  <2> QED BY <2>1, <2>2 DEF ram
<1>9. CASE FlashProgram BY <1>9 DEF FlashProgram, ArgInv
<1>10. CASE Discover BY <1>10 DEF Discover
<1>11. CASE DiscoverNack BY <1>11 DEF DiscoverNack, Rest
<1>12. CASE Receive BY <1>12 DEF Receive, HandleIncomingFrame, TvWentOff, TvWentOn
<1>13. CASE CheckHpd BY <1>13 DEF CheckHpd
<1>14. CASE PollTv
  <2>1. /\ tvStatus' \in {"UNKNOWN", "ON", "OFF"}
        /\ Silent \/ \E line : Say(line)
    BY <1>14 DEF PollTv, TvWentOff
  <2>2. toldOff' \in BOOLEAN /\ owed' \in BOOLEAN BY <2>1
  <2>3. pc' \in Pcs /\ pollDue' \in BOOLEAN BY <1>14 DEF PollTv
  <2>4. UNCHANGED <<saves, myPa, myAddr, lastHpd, cmd, arg, rxFrame, env>>
    BY <1>14 DEF PollTv
  <2> QED BY <2>1, <2>2, <2>3, <2>4
<1>15. CASE NoLine BY <1>15 DEF NoLine, Rest
<1>16. CASE Reply BY <1>16 DEF Reply, Rest
<1> QED
  BY <1>1, <1>2, <1>3, <1>4, <1>5, <1>6, <1>7, <1>8, <1>9, <1>10, <1>11, <1>12,
     <1>13, <1>14, <1>15, <1>16 DEF MainStep

LEMMA CutsBounded == MaxCuts \in Nat
BY AppAssumption

\* A power cut leaves the sector as it was, blank, or with part of the address set last.
LEMMA SectorCutInv ==
  ASSUME TypeOK, ArgInv, FlashInv, SectorCut, UNCHANGED lastSet
  PROVE  /\ flash' \in {Erased} \cup SettablePa \cup HalfWritten
         /\ whole' \in BOOLEAN
         /\ whole' => flash' = lastSet /\ lastSet \in SettablePa
         /\ ~whole' => flash' = Erased \/ (lastSet \in SettablePa /\ flash' \in Torn[lastSet])
<1>1. \A pa \in SettablePa : Torn[pa] \subseteq HalfWritten BY DEF HalfWritten
<1>2. CASE pc = "erase" /\ flash # Erased
  <2>1. /\ flash' \in {flash, Erased} \cup Torn[lastSet]
        /\ whole' = (whole /\ flash' = flash)
    BY <1>2 DEF SectorCut
  <2>2. lastSet \in SettablePa BY <1>2 DEF FlashInv
  <2> QED BY <1>1, <2>1, <2>2 DEF FlashInv, TypeOK
<1>3. CASE pc = "program"
  <2>1. flash' \in {Erased} \cup Torn[lastSet] /\ UNCHANGED whole
    BY <1>3 DEF SectorCut
  <2>2. lastSet \in SettablePa /\ ~whole BY <1>3 DEF ArgInv, FlashInv
  <2> QED BY <1>1, <2>1, <2>2 DEF TypeOK
<1>4. CASE ~(pc = "erase" /\ flash # Erased) /\ pc # "program"
  <2>1. UNCHANGED <<flash, whole>> BY <1>4 DEF SectorCut
  <2> QED BY <2>1 DEF FlashInv, TypeOK
<1> QED BY <1>2, <1>3, <1>4

LEMMA OtherStepTypes ==
  ASSUME TypeOK, ArgInv, FlashInv,
         \/ \E c \in Commands \cup {"unknown"} : ReadLine(c)
         \/ \E pa \in SettablePa : ReadSetPa(pa)
         \/ \E f \in BusFrames : FrameArrives(f)
         \/ TvChanges \/ HpdChanges \/ PollTimer \/ PowerCut
         \/ UNCHANGED vars
  PROVE  TypeOK'
<1> USE DEF TypeOK, Pcs, Commands, saves, env, ram
<1>1. CASE \E c \in Commands \cup {"unknown"} : ReadLine(c)
  BY <1>1 DEF ReadLine, Dispatch
<1>2. CASE \E pa \in SettablePa : ReadSetPa(pa) BY <1>2 DEF ReadSetPa
<1>3. CASE \E f \in BusFrames : FrameArrives(f) BY <1>3 DEF FrameArrives
<1>4. CASE TvChanges BY <1>4 DEF TvChanges
<1>5. CASE HpdChanges BY <1>5 DEF HpdChanges
<1>6. CASE PollTimer BY <1>6 DEF PollTimer
<1>7. CASE PowerCut
  <2>a. cuts \in 0..MaxCuts /\ cuts < MaxCuts /\ cuts' = cuts + 1 BY <1>7 DEF PowerCut
  <2>b. MaxCuts \in Nat BY CutsBounded
  <2>1. cuts' \in 0..MaxCuts BY <2>a, <2>b
  <2>2. flash' \in {Erased} \cup SettablePa \cup HalfWritten /\ whole' \in BOOLEAN
    BY <1>7, SectorCutInv DEF PowerCut
  <2> QED BY <1>7, <2>1, <2>2 DEF PowerCut
<1>8. CASE UNCHANGED vars BY <1>8 DEF vars
<1> QED BY <1>1, <1>2, <1>3, <1>4, <1>5, <1>6, <1>7, <1>8

\* The flash: only a write changes it, and the power cut that interrupts one.
LEMMA FlashStep == ASSUME AppInv, [Next]_vars PROVE ArgInv' /\ FlashInv'
<1> USE DEF AppInv, ArgInv, FlashInv
<1>1. CASE FlashErase BY <1>1 DEF FlashErase, ram
<1>2. CASE FlashProgram BY <1>2 DEF FlashProgram
<1>3. CASE PowerCut
  <2>1. pc' = "boot" /\ SectorCut /\ UNCHANGED lastSet BY <1>3 DEF PowerCut
  <2>2. /\ whole' => flash' = lastSet /\ lastSet \in SettablePa
        /\ ~whole' => flash' = Erased \/ (lastSet \in SettablePa /\ flash' \in Torn[lastSet])
    BY <2>1, SectorCutInv
  <2> QED BY <2>1, <2>2
<1>4. CASE \E pa \in SettablePa : ReadSetPa(pa) BY <1>4 DEF ReadSetPa, saves
<1>5. ASSUME UNCHANGED saves, pc' \in {"erase", "program"} => UNCHANGED <<pc, arg>>
      PROVE  ArgInv' /\ FlashInv'
  BY <1>5 DEF saves
<1>6. CASE \/ TvChanges \/ HpdChanges \/ PollTimer \/ UNCHANGED vars
           \/ \E f \in BusFrames : FrameArrives(f)
  BY <1>5, <1>6 DEF TvChanges, HpdChanges, PollTimer, vars, FrameArrives, saves, ram
<1>7. CASE \E c \in Commands \cup {"unknown"} : ReadLine(c)
  BY <1>5, <1>7 DEF ReadLine, Dispatch, saves
<1>8. CASE \/ BootLoad \/ ClaimAddress \/ PwrOnPaUnknown \/ ImageViewOn
           \/ SetStreamPath \/ ActiveSource \/ PwrOff \/ Discover \/ DiscoverNack
           \/ Receive \/ CheckHpd \/ PollTv \/ NoLine \/ Reply
  <2>1. pc' \notin {"erase", "program"}
    BY <1>8 DEF BootLoad, ClaimAddress, PwrOnPaUnknown, ImageViewOn, SetStreamPath,
                ActiveSource, PwrOff, Discover, DiscoverNack, Receive, CheckHpd, PollTv,
                NoLine, Reply, PwrOnReturns
  <2>2. UNCHANGED saves
    BY <1>8 DEF BootLoad, ClaimAddress, PwrOnPaUnknown, ImageViewOn, SetStreamPath,
                ActiveSource, PwrOff, Discover, DiscoverNack, Receive, CheckHpd, PollTv,
                NoLine, Reply, Rest
  <2> QED BY <1>5, <2>1, <2>2
<1> QED BY <1>1, <1>2, <1>3, <1>4, <1>6, <1>7, <1>8 DEF Next, MainStep

--------------------------------------------------------------------------------
(* Commands and their answers.                                                 *)

LEMMA RepliesAre ==
  /\ Replies("PING") = {<<"PONG", "PING">>}
  /\ Replies("PA") = {<<"EVT", "READY">>, <<"NACK", "PA">>}
  /\ Replies("unknown") = {<<"NACK", "unknown">>}
  /\ Replies("BOOT") = {}
  /\ \A c \in {"PWR_ON", "PWR_OFF", "DISCOVER_PA", "SET_PA"} :
       Replies(c) = {<<"ACK", c>>, <<"NACK", c>>}
BY DEF Replies

\* Events, EVT:READY apart, and silence answer no command.
LEMMA EventsAnswerNothing ==
  /\ \A w, c : c \in Commands \cup {"unknown"} /\ <<"EVT", w>> \in Replies(c) =>
                <<"EVT", w>> = <<"EVT", "READY">>
  /\ \A w : <<"EVT", w>> \notin AnswerLines
  /\ Nothing \notin AnswerLines
<1>1. ASSUME NEW w, NEW c \in Commands \cup {"unknown"}, <<"EVT", w>> \in Replies(c)
      PROVE  <<"EVT", w>> = <<"EVT", "READY">>
  <2>1. CASE c = "PING" BY <2>1, <1>1, RepliesAre
  <2>2. CASE c = "PA" BY <2>2, <1>1, RepliesAre
  <2>3. CASE c = "unknown" BY <2>3, <1>1, RepliesAre
  <2>4. CASE c \in {"PWR_ON", "PWR_OFF", "DISCOVER_PA", "SET_PA"}
    BY <2>4, <1>1, RepliesAre
  <2> QED BY <2>1, <2>2, <2>3, <2>4 DEF Commands
<1>2. ASSUME NEW c \in Commands \cup {"unknown"} PROVE Nothing \notin Replies(c)
  <2>1. CASE c = "PING" BY <2>1, RepliesAre DEF Nothing
  <2>2. CASE c = "PA" BY <2>2, RepliesAre DEF Nothing
  <2>3. CASE c = "unknown" BY <2>3, RepliesAre DEF Nothing
  <2>4. CASE c \in {"PWR_ON", "PWR_OFF", "DISCOVER_PA", "SET_PA"}
    <3>1. Replies(c) = {<<"ACK", c>>, <<"NACK", c>>} BY <2>4, RepliesAre
    <3>2. Nothing[1] = "" BY DEF Nothing
    <3>3. <<"ACK", c>>[1] = "ACK" /\ <<"NACK", c>>[1] = "NACK" OBVIOUS
    <3> QED BY <3>1, <3>2, <3>3
  <2> QED BY <2>1, <2>2, <2>3, <2>4 DEF Commands
<1> QED BY <1>1, <1>2 DEF AnswerLines

\* Lines that are no answers leave a command waiting.
LEMMA StillOwed ==
  ASSUME owed \in BOOLEAN, NEW line, Say(line), line \notin Replies(cmd)
  PROVE  owed' = owed /\ out' = line
BY DEF Say

\* What PWR_ON answers.
LEMMA PwrOnAnswers ==
  ASSUME OwedInv, NEW ok \in BOOLEAN, PwrOnReturns(ok),
         pc \in {"pwr_on", "active_source"}
  PROVE  out' \in AnswerLines => owed /\ out' \in Replies(cmd)
<1>1. cmd \in {"BOOT", "PWR_ON"} /\ (cmd = "BOOT" \/ owed) BY DEF OwedInv
<1>2. CASE cmd = "PWR_ON"
  <2>1. out' \in {<<"ACK", "PWR_ON">>, <<"NACK", "PWR_ON">>}
    BY <1>2 DEF PwrOnReturns, Say
  <2> QED BY <2>1, <1>1, <1>2, RepliesAre
<1>3. CASE cmd = "BOOT"
  <2>1. out' = Nothing \/ out' = <<"EVT", "AUTO_POWER_ON_FAILED">>
    BY <1>3 DEF PwrOnReturns, Say, Silent
  <2> QED BY <2>1, EventsAnswerNothing
<1> QED BY <1>1, <1>2, <1>3

\* A command waits while its handler runs.
LEMMA OwedStep == ASSUME TypeOK, CmdInv, OwedInv, [Next]_vars PROVE OwedInv'
<1>o. owed \in BOOLEAN BY DEF TypeOK
<1> USE DEF OwedInv
<1>1. CASE BootLoad BY <1>1 DEF BootLoad
<1>2. CASE ClaimAddress BY <1>2 DEF ClaimAddress
<1>3. CASE PwrOnPaUnknown \/ ActiveSource
  BY <1>3 DEF PwrOnPaUnknown, ActiveSource, PwrOnReturns
<1>4. CASE ImageViewOn
  <2>1. CASE PwrOnReturns(FALSE) BY <2>1 DEF PwrOnReturns
  <2>2. CASE pc' = "stream_path" /\ Silent
    BY <1>4, <2>2 DEF ImageViewOn, Silent, Rest
  <2> QED BY <1>4, <2>1, <2>2 DEF ImageViewOn
<1>5. CASE SetStreamPath BY <1>5 DEF SetStreamPath, Silent, Rest
<1>6. CASE \/ PwrOff \/ DiscoverNack \/ Receive \/ CheckHpd \/ PollTv \/ NoLine \/ Reply
  BY <1>6 DEF PwrOff, DiscoverNack, Receive, CheckHpd, PollTv, NoLine, Reply
<1>7. CASE FlashErase BY <1>7 DEF FlashErase, Silent, ram
<1>8. CASE FlashProgram
  <2>1. cmd = "SET_PA" BY <1>8 DEF CmdInv, FlashProgram
  <2>2. <<"EVT", "READY">> \notin Replies(cmd) BY <2>1, RepliesAre
  <2>3. owed' = owed BY <1>o, <1>8, <2>2, StillOwed DEF FlashProgram
  <2> QED BY <1>8, <2>3 DEF FlashProgram
<1>9. CASE Discover
  <2>1. cmd = "DISCOVER_PA" BY <1>9 DEF CmdInv, Discover
  <2>2. /\ <<"EVT", "READY">> \notin Replies(cmd)
        /\ <<"EVT", "ERROR">> \notin Replies(cmd)
    BY <2>1, RepliesAre
  <2>3. owed' = owed BY <1>o, <1>9, <2>2, StillOwed DEF Discover
  <2> QED BY <1>9, <2>1, <2>3 DEF Discover
<1>10. CASE \E c \in Commands \cup {"unknown"} : ReadLine(c)
  BY <1>10 DEF ReadLine, Dispatch, Commands
<1>11. CASE \E pa \in SettablePa : ReadSetPa(pa) BY <1>11 DEF ReadSetPa
<1>12. CASE \/ TvChanges \/ HpdChanges \/ PollTimer \/ UNCHANGED vars
            \/ \E f \in BusFrames : FrameArrives(f)
  BY <1>12 DEF TvChanges, HpdChanges, PollTimer, FrameArrives, vars, ram
<1>13. CASE PowerCut BY <1>13 DEF PowerCut
<1> QED
  BY <1>1, <1>2, <1>3, <1>4, <1>5, <1>6, <1>7, <1>8, <1>9, <1>10, <1>11, <1>12,
     <1>13 DEF Next, MainStep

\* A line that answers a command answers the one being handled, which waits.
LEMMA AnswerStep ==
  ASSUME TypeOK, CmdInv, OwedInv, Next, out' \in AnswerLines
  PROVE  owed /\ out' \in Replies(cmd)
<1>1. out' # Nothing /\ \A w : out' # <<"EVT", w>> BY EventsAnswerNothing
<1>2. ~Silent BY <1>1 DEF Silent
<1>3. \A line : Say(line) => out' = line BY DEF Say
<1>4. CASE ClaimAddress
  <2>1. cmd # "BOOT" /\ out' = <<"ACK", cmd>> BY <1>2, <1>3, <1>4 DEF ClaimAddress
  <2>2. cmd \in {"SET_PA", "DISCOVER_PA"} /\ owed
    BY <1>4, <2>1 DEF ClaimAddress, CmdInv, OwedInv
  <2> QED BY <2>1, <2>2, RepliesAre
<1>5. CASE PwrOnPaUnknown BY <1>5, PwrOnAnswers DEF PwrOnPaUnknown
<1>6. CASE ImageViewOn
  <2>1. PwrOnReturns(FALSE) /\ pc = "pwr_on" BY <1>2, <1>6 DEF ImageViewOn
  <2> QED BY <2>1, PwrOnAnswers
<1>7. CASE ActiveSource BY <1>7, PwrOnAnswers DEF ActiveSource
<1>8. CASE PwrOff
  <2>1. cmd = "PWR_OFF" /\ owed BY <1>8 DEF PwrOff, OwedInv
  <2>2. out' \in {<<"ACK", "PWR_OFF">>, <<"NACK", "PWR_OFF">>} BY <1>3, <1>8 DEF PwrOff
  <2> QED BY <2>1, <2>2, RepliesAre
<1>9. CASE DiscoverNack
  <2>1. cmd = "DISCOVER_PA" /\ owed BY <1>9 DEF DiscoverNack, OwedInv
  <2>2. out' = <<"NACK", "DISCOVER_PA">> BY <1>3, <1>9 DEF DiscoverNack
  <2> QED BY <2>1, <2>2, RepliesAre
<1>10. CASE Reply
  <2>1. cmd \in {"PING", "PA", "SET_PA", "unknown"} /\ owed
    BY <1>10 DEF Reply, OwedInv
  <2>2. /\ cmd = "PING" => out' = <<"PONG", "PING">>
        /\ cmd = "PA" => out' \in {<<"EVT", "READY">>, <<"NACK", "PA">>}
        /\ cmd = "SET_PA" => out' = <<"NACK", "SET_PA">>
        /\ cmd = "unknown" => out' = <<"NACK", "unknown">>
    BY <1>3, <1>10 DEF Reply
  <2> QED BY <2>1, <2>2, RepliesAre
<1>11. CASE BootLoad \/ FlashProgram \/ Discover
  BY <1>1, <1>3, <1>11 DEF BootLoad, FlashProgram, Discover
<1>12. CASE SetStreamPath \/ FlashErase \/ CheckHpd \/ NoLine
  BY <1>2, <1>12 DEF SetStreamPath, FlashErase, CheckHpd, NoLine
<1>13. CASE Receive
  BY <1>1, <1>2, <1>3, <1>13 DEF Receive, HandleIncomingFrame, TvWentOff, TvWentOn
<1>14. CASE PollTv BY <1>1, <1>2, <1>3, <1>14 DEF PollTv, TvWentOff
<1>15. CASE \/ \E c \in Commands \cup {"unknown"} : ReadLine(c)
            \/ \E pa \in SettablePa : ReadSetPa(pa)
            \/ \E f \in BusFrames : FrameArrives(f)
            \/ TvChanges \/ HpdChanges \/ PollTimer \/ PowerCut
  BY <1>1, <1>15 DEF ReadLine, ReadSetPa, FrameArrives, TvChanges, HpdChanges,
                     PollTimer, PowerCut
<1> QED
  BY <1>4, <1>5, <1>6, <1>7, <1>8, <1>9, <1>10, <1>11, <1>12, <1>13, <1>14, <1>15
  DEF Next, MainStep

--------------------------------------------------------------------------------

LEMMA InitAppInv == Init => AppInv
<1> SUFFICES ASSUME Init PROVE AppInv OBVIOUS
<1>1. cuts \in 0..MaxCuts BY CutsBounded DEF Init
<1>2. TypeOK BY <1>1 DEF Init, TypeOK, Pcs, Commands
<1>3. ArgInv /\ FlashInv BY DEF Init, ArgInv, FlashInv
<1>4. CmdInv /\ OwedInv BY DEF Init, CmdInv, OwedInv
<1> QED BY <1>2, <1>3, <1>4 DEF AppInv

LEMMA NextAppInv == ASSUME IInv, AppInv, [Next]_vars PROVE AppInv'
<1>1. TypeOK' BY MainStepTypes, OtherStepTypes DEF AppInv, Next
<1>2. ArgInv' /\ FlashInv' BY FlashStep
<1>3. CmdInv' BY MainStepInv, OtherStepInv DEF Next, IInv
<1>4. OwedInv' BY OwedStep DEF AppInv
<1> QED BY <1>1, <1>2, <1>3, <1>4 DEF AppInv

THEOREM AppInvariance == Spec => []AppInv
<1>1. Spec => []IInv BY Invariance
<1>2. IInv /\ AppInv /\ [Next]_vars => AppInv' BY NextAppInv
<1> QED BY <1>1, <1>2, InitAppInv, PTL DEF Spec

(***************************************************************************)
(* The types of the variables of main.c and of the sector in flash.        *)
(***************************************************************************)
THEOREM AppTypeCorrect == Spec => []TypeOK
BY AppInvariance, PTL DEF AppInv

(***************************************************************************)
(* The Pico boots with the address last set if that write was whole, with  *)
(* the default if there was none, and after one that was cut short with    *)
(* the default or with what is left of that address, whatever the flash    *)
(* makes of a page half written (config_load_pa, config_save_pa).          *)
(***************************************************************************)
THEOREM BootAddress == Spec => BootsWithLastSet
<1>1. ASSUME AppInv, [Next]_vars PROVE [BootLoad => myPa' \in BootAddresses]_vars
  <2> SUFFICES ASSUME BootLoad PROVE myPa' \in BootAddresses OBVIOUS
  <2>1. myPa' = IF ConfigLoadPa = Unknown THEN DefaultPa ELSE ConfigLoadPa
    BY DEF BootLoad
  <2>2. flash = Erased \/ flash \in PhysicalAddresses
    <3>1. \A pa \in SettablePa : pa \in PhysicalAddresses /\ Torn[pa] \subseteq PhysicalAddresses
      BY AppAssumption
    <3> QED BY <1>1, <3>1 DEF AppInv, FlashInv
  <2>3. myPa' = IF flash \in Accepted THEN flash ELSE DefaultPa
    <3>1. flash \in Accepted <=> flash \notin {Erased, 65535, 0}
      <4>1. Erased \notin Accepted BY DEF Accepted, PhysicalAddresses, Erased
      <4>2. CASE flash = Erased BY <4>1, <4>2
      <4>3. CASE flash \in PhysicalAddresses
        <5>1. Erased \notin PhysicalAddresses BY DEF Erased, PhysicalAddresses
        <5>2. flash # Erased BY <4>3, <5>1
        <5> QED BY <4>3, <5>2 DEF Accepted, Unknown
      <4> QED BY <2>2, <4>2, <4>3
    <3>2. ConfigLoadPa = IF flash \in Accepted THEN flash ELSE Unknown
      BY <3>1 DEF ConfigLoadPa
    <3>3. Unknown \notin Accepted BY DEF Accepted
    <3> QED BY <2>1, <3>2, <3>3
  <2>4. CASE whole
    <3>1. flash = lastSet BY <1>1, <2>4 DEF AppInv, FlashInv
    <3> QED BY <2>3, <2>4, <3>1 DEF BootAddresses
  <2>5. CASE ~whole
    <3>1. flash = Erased \/ (lastSet \in SettablePa /\ flash \in Torn[lastSet])
      BY <1>1, <2>5 DEF AppInv, FlashInv
    <3>2. CASE flash \in Accepted
      <4>1. Erased \notin PhysicalAddresses BY DEF Erased, PhysicalAddresses
      <4>2. lastSet \in SettablePa /\ flash \in Torn[lastSet]
        BY <3>1, <3>2, <4>1 DEF Accepted
      <4>3. lastSet # Erased BY <4>1, <4>2, AppAssumption
      <4> QED BY <2>3, <2>5, <3>2, <4>2, <4>3 DEF BootAddresses
    <3>3. CASE flash \notin Accepted
      BY <2>3, <2>5, <3>3 DEF BootAddresses
    <3> QED BY <3>2, <3>3
  <2> QED BY <2>4, <2>5
<1>2. AppInv /\ [Next]_vars => [BootLoad => myPa' \in BootAddresses]_vars
  BY <1>1
<1>3. Spec => []AppInv BY AppInvariance
<1> QED BY <1>2, <1>3, PTL DEF Spec, BootsWithLastSet

(***************************************************************************)
(* An answer is sent once per command, and by the handler of that command. *)
(***************************************************************************)
THEOREM AnswersAsked == Spec => AnswersOnlyWhatIsAsked
<1>1. ASSUME AppInv, [Next]_vars
      PROVE  [out' \in AnswerLines => owed /\ out' \in Replies(cmd)]_vars
  BY <1>1, AnswerStep DEF AppInv
<1>2. AppInv /\ [Next]_vars =>
        [out' \in AnswerLines => owed /\ out' \in Replies(cmd)]_vars
  BY <1>1
<1>3. Spec => []AppInv BY AppInvariance
<1> QED BY <1>2, <1>3, PTL DEF Spec, AnswersOnlyWhatIsAsked

================================================================================
