------------------------------ MODULE BridgeSystem ------------------------------
(***************************************************************************)
(* The PC, the listener, the Pico and the TV together, through the cycles  *)
(* of suspend and resume: systemd/pico-cec-suspend.service, the PicoLink   *)
(* of bin/pico-cec-listener.py, and of firmware/main.c what PWR_ON,        *)
(* PWR_OFF and the poll of the TV do to the TV and to g_tv_status.         *)
(*                                                                         *)
(* The unit is ordered before suspend.target, which systemd reaches after  *)
(* the PC has resumed; nothing orders it before the sleep itself.  So the  *)
(* PC may fall asleep before, while or after PWR_OFF is sent; systemd      *)
(* stops the unit, which sends PWR_ON twice, when the PC has resumed and   *)
(* the unit's start is over.  A unit whose start failed is not stopped.    *)
(*                                                                         *)
(* Every thread of the PC stands still while it sleeps.  The Pico goes on; *)
(* what it says then is kept in the port or thrown away.                   *)
(***************************************************************************)
EXTENDS Naturals, Sequences

CONSTANTS
  MaxCycles,        \* bound on the suspends
  MaxUses,          \* bound on what the user does: suspends the PC, uses the remote
  MaxEvents         \* bound on the standby events of the Pico

ASSUME BridgeAssumption ==
  {MaxCycles, MaxUses, MaxEvents} \subseteq Nat

\* The commands of the unit in each cycle: ExecStart and twice ExecStop.
None == <<0, "none">>
Cycles == 1..MaxCycles
Calls == Cycles \X {"off", "on1", "on2"}
Commands == {"PWR_OFF", "PWR_ON"}
cmd == [c \in Calls |-> IF c[2] = "off" THEN "PWR_OFF" ELSE "PWR_ON"]
CtlTimeout == 2
MaxLosses == 0     \* the port stays; PicoLink has its losses

VARIABLES call, lock, there, replyQ, result, answerOf, writeQ, pending, serial, ctl,
          age, broken, toPico, fromPico, losses, events      \* of PicoLink

VARIABLES
  pc,           \* awake or asleep
  job,          \* of systemctl suspend: none, sleep, or after, once it has resumed
  cycle,        \* number of that job
  unit,         \* pico-cec-suspend.service
  unitCycle,    \* the cycle it was last started in
  tv,           \* on or standby
  g_tv_status,  \* what the Pico takes it for
  uses          \* what the user has done so far

VARIABLES       \* history
  offBy,        \* who put the TV in standby
  last,         \* the last command the Pico executed
  unheard       \* a standby event was dropped, or systemctl suspend refused

Link == INSTANCE PicoLink

threads == <<call, lock, there, result, answerOf>>
clients == <<ctl, age>>
link == <<threads, replyQ, writeQ, pending, serial, clients,
          broken, toPico, fromPico, losses, events>>
bridge == <<pc, job, cycle, unit, unitCycle>>
home == <<tv, g_tv_status, offBy, last>>
vars == <<link, bridge, home, uses, unheard>>

Call(name) == <<unitCycle, name>>

Standbys(q) == Len(SelectSeq(q, LAMBDA l : l = Link!Standby))
Drops == unheard' = (unheard \/ Standbys(fromPico') < Standbys(fromPico))

--------------------------------------------------------------------------------
(* systemd: the job of systemctl suspend, and the unit.                        *)

\* Mutant: a second job is not refused.
SuspendAgain ==
  /\ cycle < MaxCycles
  /\ job' = "sleep" /\ cycle' = cycle + 1

Suspend ==
  /\ job = "none" /\ cycle < MaxCycles
  /\ job' = "sleep" /\ cycle' = cycle + 1

UserSuspends ==
  /\ pc = "awake" /\ Suspend
  /\ uses < MaxUses /\ uses' = uses + 1
  /\ UNCHANGED <<link, pc, unit, unitCycle, home, unheard>>

Sleep ==
  /\ pc = "awake" /\ job = "sleep"
  /\ pc' = "asleep"
  /\ UNCHANGED <<link, job, cycle, unit, unitCycle, home, uses, unheard>>

Resume ==
  /\ pc = "asleep"
  /\ pc' = "awake" /\ job' = "after"
  /\ UNCHANGED <<link, cycle, unit, unitCycle, home, uses, unheard>>

\* ExecStart, once the unit is not busy with its last stop.
StartUnit ==
  /\ pc = "awake" /\ unitCycle < cycle /\ unit \in {"inactive", "failed"}
  /\ unit' = "off" /\ unitCycle' = cycle
  /\ Link!Connect(<<cycle, "off">>)
  /\ UNCHANGED <<pc, job, cycle, home, uses, unheard>>

\* pico-cec-ctl.py exits, with 0 if there was an answer.
Exits(c) == pc = "awake" /\ ctl[c] \in {"answered", "gave_up"}
GaveUp(c) == ctl[c] = "gave_up"
Succeeded(c) == ctl[c] = "answered" /\ result[c] = "answer"

UnitStarted ==
  /\ unit = "off" /\ Exits(Call("off"))
  /\ unit' = IF Succeeded(Call("off")) THEN "active" ELSE "failed"
  /\ UNCHANGED <<link, pc, job, cycle, unitCycle, home, uses, unheard>>

\* Mutant: suspend.target does not wait for the unit.
SuspendTargetUnordered ==
  /\ pc = "awake" /\ job = "after" /\ unitCycle = cycle
  /\ job' = "none"
  /\ unit' = IF unit = "failed" THEN unit ELSE "stopping"
  /\ UNCHANGED <<link, pc, cycle, unitCycle, home, uses, unheard>>

\* suspend.target is reached, is no longer needed, and neither is the unit.
SuspendTarget ==
  /\ pc = "awake" /\ job = "after" /\ unitCycle = cycle /\ unit \in {"active", "failed"}
  /\ job' = "none"
  /\ unit' = IF unit = "failed" THEN unit ELSE "stopping"
  /\ UNCHANGED <<link, pc, cycle, unitCycle, home, uses, unheard>>

\* ExecStop: PWR_ON, and PWR_ON again, unless the first took the client's 8 s.
StopUnit ==
  /\ pc = "awake"
  /\ \/ /\ unit = "stopping"
        /\ unit' = "on1" /\ Link!Connect(Call("on1"))
     \/ /\ unit = "on1" /\ ctl[Call("on1")] = "answered"
        /\ unit' = "on2" /\ Link!Connect(Call("on2"))
  /\ UNCHANGED <<pc, job, cycle, unitCycle, home, uses, unheard>>

UnitStopped ==
  /\ unit = "on2" /\ Exits(Call("on2"))
  /\ unit' = "inactive"
  /\ UNCHANGED <<link, pc, job, cycle, unitCycle, home, uses, unheard>>

\* TimeoutStopSec kills ExecStop, clients and all.  In its 10 s are the sleeps of 2 s
\* and 1 s: they do not last for a first client that stays 8 s, nor for two that are
\* answered, both late.  A call that is with the listener goes on there.
StopTimeout ==
  /\ pc = "awake"
  /\ \/ unit = "on1" /\ (Link!GivesUp(Call("on1")) \/ GaveUp(Call("on1")))
     \/ unit = "on2" /\ ~Exits(Call("on2"))
  /\ unit' = "failed"
  /\ UNCHANGED <<link, pc, job, cycle, unitCycle, home, uses, unheard>>

UnitStep ==
  \/ StartUnit
  \/ UnitStarted
  \/ SuspendTarget
  \/ StopUnit
  \/ UnitStopped
  \/ StopTimeout

--------------------------------------------------------------------------------
(* The listener, while the PC is awake.                                        *)

CallStep(c) == pc = "awake" /\ Link!CallStep(c) /\ UNCHANGED <<bridge, home, uses, unheard>>

SerialStep ==
  /\ pc = "awake"
  /\ Link!SerialStep /\ ~Link!HandleStandby
  /\ Drops
  /\ UNCHANGED <<bridge, home, uses>>

\* Mutant: the event is ignored until the unit has stopped.
HandleStandbyMasked ==
  /\ pc = "awake" /\ Link!HandleStandby
  /\ \/ unit = "inactive" /\ Suspend /\ UNCHANGED unheard
     \/ /\ unit # "inactive" \/ job # "none" \/ cycle = MaxCycles
        /\ UNCHANGED <<job, cycle, unheard>>
  /\ UNCHANGED <<pc, unit, unitCycle, home, uses>>

\* systemctl suspend; refused while there is such a job.
HandleStandby ==
  /\ pc = "awake" /\ Link!HandleStandby
  /\ \/ Suspend /\ UNCHANGED unheard
     \/ (job # "none" \/ cycle = MaxCycles) /\ unheard' = TRUE /\ UNCHANGED <<job, cycle>>
  /\ UNCHANGED <<pc, unit, unitCycle, home, uses>>

--------------------------------------------------------------------------------
(* The Pico and the TV.                                                        *)

\* What is said to a PC that sleeps may be thrown away.
Says(line) ==
  \/ Link!PicoSays(line)
  \/ pc = "asleep" /\ UNCHANGED <<threads, replyQ, writeQ, pending, serial,
                                  clients, broken, fromPico, losses>>

\* Mutant: PWR_ON sends nothing if g_tv_status is TV_ON already.
ExecuteIfNeeded ==
  /\ toPico # <<>>
  /\ LET name == cmd[Head(toPico)] IN
     /\ last' = name
     /\ IF name = "PWR_ON"
        THEN /\ tv' = IF g_tv_status = "on" THEN tv ELSE "on"
             /\ g_tv_status' = "on" /\ UNCHANGED offBy
        ELSE /\ tv' = "standby" /\ offBy' = IF tv = "on" THEN "pc" ELSE offBy
             /\ UNCHANGED g_tv_status
  /\ toPico' = Tail(toPico)
  /\ Says(Link!Answer(Head(toPico)))
  /\ UNCHANGED <<events, bridge, uses, unheard>>

\* PWR_ON wakes the TV; PWR_OFF puts it in standby, and leaves g_tv_status alone.
Execute ==
  /\ toPico # <<>>
  /\ LET name == cmd[Head(toPico)] IN
     /\ last' = name
     /\ IF name = "PWR_ON"
        THEN tv' = "on" /\ g_tv_status' = "on" /\ UNCHANGED offBy
        ELSE /\ tv' = "standby" /\ offBy' = IF tv = "on" THEN "pc" ELSE offBy
             /\ UNCHANGED g_tv_status
  /\ toPico' = Tail(toPico)
  /\ Says(Link!Answer(Head(toPico)))
  /\ UNCHANGED <<events, bridge, uses, unheard>>

\* The TV's <Standby>, or the next poll: the listener is told once.
NoticeStandby ==
  /\ tv = "standby" /\ g_tv_status # "standby"
  /\ events < MaxEvents /\ events' = events + 1
  /\ g_tv_status' = "standby"
  /\ Says(Link!Standby)
  /\ unheard' = (unheard \/ Standbys(fromPico') = Standbys(fromPico))
  /\ UNCHANGED <<toPico, tv, offBy, last, bridge, uses>>

\* The answer to a poll; the listener only logs this event.
NoticeOn ==
  /\ tv = "on" /\ g_tv_status # "on"
  /\ g_tv_status' = "on"
  /\ UNCHANGED <<link, tv, offBy, last, bridge, uses, unheard>>

UseRemote ==
  /\ uses < MaxUses /\ uses' = uses + 1
  /\ \/ tv = "on" /\ tv' = "standby" /\ offBy' = "remote"
     \/ tv = "standby" /\ tv' = "on" /\ UNCHANGED offBy
  /\ UNCHANGED <<link, g_tv_status, last, bridge, unheard>>

--------------------------------------------------------------------------------
\* The PWR_ON at the boot of the Pico may have failed.
Init ==
  /\ Link!Init
  /\ pc = "awake" /\ job = "none" /\ cycle = 0
  /\ unit = "inactive" /\ unitCycle = 0
  /\ tv \in {"on", "standby"}
  /\ g_tv_status = IF tv = "on" THEN "on" ELSE "unknown"
  /\ uses = 0
  /\ offBy = "nobody" /\ last = "PWR_ON" /\ unheard = FALSE

Next ==
  \/ UserSuspends
  \/ Sleep
  \/ Resume
  \/ UnitStep
  \/ \E c \in Calls : CallStep(c)
  \/ SerialStep
  \/ HandleStandby
  \/ Execute
  \/ NoticeStandby
  \/ NoticeOn
  \/ UseRemote

\* A job of systemctl suspend goes on, the unit and the threads run while the PC is
\* awake, and the Pico answers and polls; nobody has to wake the PC, or to use the remote.
Fairness ==
  /\ WF_vars(Sleep) /\ WF_vars(UnitStep)
  /\ WF_vars(\E c \in Calls : CallStep(c))
  /\ WF_vars(SerialStep) /\ WF_vars(HandleStandby)
  /\ WF_vars(Execute) /\ WF_vars(NoticeStandby) /\ WF_vars(NoticeOn)

Spec == Init /\ [][Next]_vars /\ Fairness

--------------------------------------------------------------------------------
(* Properties.                                                                 *)

\* Types of the variables.
TypeOK ==
  /\ Link!TypeOK
  /\ pc \in {"awake", "asleep"} /\ job \in {"none", "sleep", "after"}
  /\ cycle \in 0..MaxCycles /\ unitCycle \in {cycle - 1, cycle}
  /\ unit \in {"inactive", "off", "active", "stopping", "on1", "on2", "failed"}
  /\ tv \in {"on", "standby"} /\ g_tv_status \in {"unknown", "on", "standby"}
  /\ uses \in 0..MaxUses /\ offBy \in {"nobody", "pc", "remote"}
  /\ last \in Commands /\ unheard \in BOOLEAN

\* The commands the Pico is still to execute, in order.
Due == toPico \o writeQ

\* The command the Pico executes last, as far as they are queued.
LastCommand == IF Due = <<>> THEN last ELSE cmd[Due[Len(Due)]]

(***************************************************************************)
(* When the unit has stopped, the last command the Pico executes is        *)
(* PWR_ON: no PWR_OFF that was late, in the queue of the listener or with  *)
(* the Pico, switches the TV off after it.  What could is a PWR_OFF whose  *)
(* client gave up: its thread goes on waiting for the command lock, which  *)
(* keeps no order, and queues the command when it gets it.                 *)
(***************************************************************************)
EndsWithPwrOn ==
  /\ unit = "inactive" /\ unitCycle > 0
  /\ \A k \in Cycles : ~GaveUp(<<k, "off">>)
  => LastCommand = "PWR_ON"

(***************************************************************************)
(* If PWR_OFF was acknowledged, the TV goes on once the PC has resumed, or *)
(* the PC is asleep again (ExecStop of pico-cec-suspend.service).          *)
(***************************************************************************)
ResumeTurnsTvOn == unit = "stopping" ~> tv = "on" \/ pc = "asleep"

(***************************************************************************)
(* A TV that goes to standby suspends the PC, unless it goes on again or   *)
(* the one event that says so is dropped (split, thrown away when the port *)
(* is opened or lost or while the PC sleeps, refused by systemctl).  Of a  *)
(* standby beyond the bound MaxEvents it says nothing.                     *)
(***************************************************************************)
StandbySuspends ==
  tv = "standby" /\ g_tv_status # "standby" /\ events < MaxEvents ~>
    tv = "on" \/ pc = "asleep" \/ unheard

(***************************************************************************)
(* What pico-cec-listener.py line 6 says: systemctl suspend is run because *)
(* the TV was turned off by its remote.  The standby that the PC's own     *)
(* PWR_OFF caused is reported too, since PWR_OFF does not set g_tv_status. *)
(* Read after the PC has resumed, when the job of the suspend is over, it  *)
(* starts a new one.                                                       *)
(***************************************************************************)
OnlyTheRemoteSuspends == [][HandleStandby /\ Suspend => offBy # "pc"]_vars

(***************************************************************************)
(* What the table in README.md, line 145, says: when the PC resumes, the   *)
(* TV powers on.  A unit whose PWR_OFF got no answer has failed, and       *)
(* systemd does not run its ExecStop.                                      *)
(***************************************************************************)
EveryResumeTurnsTvOn == job = "after" ~> tv = "on" \/ pc = "asleep"
================================================================================
