-------------------------------- MODULE PicoLink --------------------------------
(***************************************************************************)
(* bin/pico-cec-listener.py: class PicoLink, the control socket and its    *)
(* clients, bin/pico-cec-ctl.py.                                           *)
(*                                                                         *)
(* Every connection has a thread, here called a call, that runs            *)
(* send_command once: under the command lock it puts (cmd, reply queue) on *)
(* the write queue and waits for an answer.  The serial thread writes what *)
(* is on that queue, notes the reply queue in _pending under the name of   *)
(* the command, reads the lines of the Pico and dispatches the answers.    *)
(*                                                                         *)
(* Time is counted in time-outs of send_command, 5 s each: the age of a    *)
(* client is the number of whole time-outs it has lived through.           *)
(*                                                                         *)
(* The Pico answers a command with one line, when it likes; the line names *)
(* the command, not the call.  `for' is history: which call it was for.    *)
(***************************************************************************)
EXTENDS Naturals, Sequences

CONSTANTS
  Calls,            \* the connections, and the thread of each
  Commands,         \* the commands there are
  cmd,              \* the command each call sends
  CtlTimeout,       \* TIMEOUT_S of pico-cec-ctl.py, in time-outs
  MaxLosses,        \* bound on the losses of the link and of the listener
  MaxEvents,        \* bound on the standby events of the Pico
  None              \* no call

ASSUME LinkAssumption ==
  /\ cmd \in [Calls -> Commands]
  /\ CtlTimeout \in Nat \ {0}
  /\ MaxLosses \in Nat /\ MaxEvents \in Nat
  /\ None \notin Calls

VARIABLES
  call,       \* where the thread of a call is
  lock,       \* holder of _command_lock
  there,      \* clients that were connected when the lock was taken
  replyQ,     \* the reply queue of each call
  result,     \* what send_command returned
  answerOf,   \* the call whose command the answer returned was for
  writeQ,     \* _write_q
  pending,    \* _pending
  serial,     \* where the serial thread is
  ctl,        \* the client at the other end of the connection
  age         \* how long it has been connected, 0 once it is served or gone

VARIABLES     \* the environment
  broken,     \* the open port is that of a link since lost
  toPico,     \* commands the Pico has not answered; it is executing the first
  fromPico,   \* lines on their way from the Pico
  losses,
  events

threads == <<call, lock, there, result, answerOf>>
clients == <<ctl, age>>
pico == <<broken, toPico, fromPico, losses, events>>
vars == <<threads, replyQ, writeQ, pending, serial, clients, pico>>

Standby == [kind |-> "standby", for |-> None]
Answer(c) == [kind |-> "answer", for |-> c]
LinkError == [kind |-> "link_error", for |-> None]

--------------------------------------------------------------------------------
(* The threads of the calls: _handle_control_conn and send_command.            *)

\* pico-cec-ctl.py connects and sends one command.
Connect(c) ==
  /\ call[c] = "idle"
  /\ call' = [call EXCEPT ![c] = "locking"]
  /\ ctl' = [ctl EXCEPT ![c] = "connected"]
  /\ UNCHANGED <<lock, there, result, answerOf, replyQ, writeQ, pending, serial,
                 age, pico>>

\* Mutant: the name of the command is queued for the reply queue.
AcquireQueuesName(c) ==
  /\ call[c] = "locking" /\ lock = None
  /\ lock' = c
  /\ there' = {d \in Calls : ctl[d] = "connected"}
  /\ call' = [call EXCEPT ![c] = "waiting"]
  /\ writeQ' = Append(writeQ, cmd[c])
  /\ UNCHANGED <<result, answerOf, replyQ, pending, serial, clients, pico>>

Acquire(c) ==
  /\ call[c] = "locking" /\ lock = None
  /\ lock' = c
  /\ there' = {d \in Calls : ctl[d] = "connected"}
  /\ call' = [call EXCEPT ![c] = "waiting"]
  /\ writeQ' = Append(writeQ, c)
  /\ UNCHANGED <<result, answerOf, replyQ, pending, serial, clients, pico>>

\* send_command returns r, and the response goes to a client that still waits.
Return(c, r) ==
  /\ call' = [call EXCEPT ![c] = "done"]
  /\ result' = [result EXCEPT ![c] = r.kind]
  /\ answerOf' = [answerOf EXCEPT ![c] = r.for]
  /\ lock' = None /\ there' = {}
  /\ age' = [age EXCEPT ![c] = 0]
  /\ ctl' = [ctl EXCEPT ![c] = IF @ = "connected" THEN "answered" ELSE @]
  /\ UNCHANGED <<writeQ, serial, pico>>

GetReply(c) ==
  /\ call[c] = "waiting" /\ replyQ[c] # <<>>
  /\ Return(c, Head(replyQ[c]))
  /\ replyQ' = [replyQ EXCEPT ![c] = Tail(@)]
  /\ UNCHANGED pending

\* The time-out of the client, later than that of a command, is over.
GivesUp(c) == ctl[c] = "connected" /\ age[c] >= CtlTimeout

\* Mutant: the time-out runs from when the command is written.
ExpireOnceSent(c) ==
  /\ call[c] = "waiting" /\ replyQ[c] = <<>>
  /\ pending[cmd[c]] = c
  /\ \A d \in there : ~GivesUp(d)
  /\ call' = [call EXCEPT ![c] = "expired"]
  /\ age' = [d \in Calls |-> IF d \in there /\ ctl[d] = "connected" THEN age[d] + 1
                             ELSE age[d]]
  /\ UNCHANGED <<lock, there, result, answerOf, replyQ, writeQ, pending,
                 serial, ctl, pico>>

\* reply_q.get raises queue.Empty; an answer may still come before the next step.
Expire(c) ==
  /\ call[c] = "waiting" /\ replyQ[c] = <<>>
  /\ \A d \in there : ~GivesUp(d)
  /\ call' = [call EXCEPT ![c] = "expired"]
  /\ age' = [d \in Calls |-> IF d \in there /\ ctl[d] = "connected" THEN age[d] + 1
                             ELSE age[d]]
  /\ UNCHANGED <<lock, there, result, answerOf, replyQ, writeQ, pending,
                 serial, ctl, pico>>

Unregister(c) ==
  /\ call[c] = "expired"
  /\ pending' = [pending EXCEPT ![cmd[c]] = None]
  /\ Return(c, [kind |-> "timeout", for |-> None])
  /\ UNCHANGED replyQ

CtlGivesUp(c) ==
  /\ GivesUp(c)
  /\ ctl' = [ctl EXCEPT ![c] = "gave_up"]
  /\ age' = [age EXCEPT ![c] = 0]
  /\ UNCHANGED <<threads, replyQ, writeQ, pending, serial, pico>>

--------------------------------------------------------------------------------
(* The serial thread.                                                          *)

\* reply_q.put(r); the queue holds one item, and the thread blocks on a full one.
Put(c, r, next) ==
  IF replyQ[c] = <<>>
  THEN replyQ' = [replyQ EXCEPT ![c] = <<r>>] /\ serial' = next
  ELSE serial' = "blocked" /\ UNCHANGED replyQ

\* The port is opened, and what had come in is thrown away.
OpenPort ==
  /\ serial = "closed"
  /\ serial' = "flush"
  /\ fromPico' = <<>> /\ broken' = FALSE
  /\ UNCHANGED <<threads, replyQ, writeQ, pending, clients, toPico,
                 losses, events>>

FlushDone ==
  /\ serial = "flush" /\ writeQ = <<>>
  /\ serial' = "read"
  /\ UNCHANGED <<threads, replyQ, writeQ, pending, clients, pico>>

SendNow ==
  /\ serial = "flush" /\ writeQ # <<>> /\ ~broken
  /\ pending' = [pending EXCEPT ![cmd[Head(writeQ)]] = Head(writeQ)]
  /\ toPico' = Append(toPico, Head(writeQ))
  /\ writeQ' = Tail(writeQ)
  /\ UNCHANGED <<threads, replyQ, serial, clients, broken, fromPico, losses,
                 events>>

\* Mutant: the handler of the exception does not unregister the command.
SendFailsKeepsPending ==
  /\ serial = "flush" /\ writeQ # <<>> /\ broken
  /\ pending' = [pending EXCEPT ![cmd[Head(writeQ)]] = Head(writeQ)]
  /\ Put(Head(writeQ), LinkError, "flush")
  /\ writeQ' = Tail(writeQ)
  /\ toPico' \in {toPico, Append(toPico, Head(writeQ))}
  /\ UNCHANGED <<threads, clients, broken, fromPico, losses, events>>

\* Mutant: the command is written again when the port is back.
SendFailsRequeues ==
  /\ serial = "flush" /\ writeQ # <<>> /\ broken
  /\ pending' = [pending EXCEPT ![cmd[Head(writeQ)]] = None]
  /\ serial' = "closed"
  /\ toPico' \in {toPico, Append(toPico, Head(writeQ))}
  /\ UNCHANGED <<threads, replyQ, writeQ, clients, broken, fromPico, losses, events>>

\* The write raises SerialException; the Pico may have got the command or not.
SendFails ==
  /\ serial = "flush" /\ writeQ # <<>> /\ broken
  /\ pending' = [pending EXCEPT ![cmd[Head(writeQ)]] = None]
  /\ Put(Head(writeQ), LinkError, "flush")
  /\ writeQ' = Tail(writeQ)
  /\ toPico' \in {toPico, Append(toPico, Head(writeQ))}
  /\ UNCHANGED <<threads, clients, broken, fromPico, losses, events>>

ReadTimeout ==
  /\ serial = "read" /\ fromPico = <<>> /\ ~broken
  /\ serial' = "flush"
  /\ UNCHANGED <<threads, replyQ, writeQ, pending, clients, pico>>

\* The read raises; run() waits and opens the port again.
ReadFails ==
  /\ serial = "read" /\ broken
  /\ serial' = "closed"
  /\ UNCHANGED <<threads, replyQ, writeQ, pending, clients, pico>>

ReadAny ==
  /\ serial = "read" /\ fromPico # <<>> /\ ~broken
  /\ fromPico' = Tail(fromPico)
  /\ UNCHANGED <<threads, writeQ, clients, broken, toPico, losses, events>>

\* systemctl_suspend runs on this thread.
HandleStandby ==
  /\ ReadAny /\ Head(fromPico) = Standby
  /\ serial' = "suspending"
  /\ UNCHANGED <<replyQ, pending>>

\* Mutant: the answer goes to whoever waits, whatever its name.
DispatchReplyToAny ==
  /\ ReadAny /\ Head(fromPico).kind = "answer"
  /\ \/ \E name \in Commands :
           /\ pending[name] # None
           /\ pending' = [pending EXCEPT ![name] = None]
           /\ Put(pending[name], Head(fromPico), "flush")
     \/ /\ \A name \in Commands : pending[name] = None
        /\ serial' = "flush" /\ UNCHANGED <<replyQ, pending>>

DispatchReply ==
  /\ ReadAny /\ Head(fromPico).kind = "answer"
  /\ LET name == cmd[Head(fromPico).for] IN
     /\ pending' = [pending EXCEPT ![name] = None]
     /\ IF pending[name] # None
        THEN Put(pending[name], Head(fromPico), "flush")
        ELSE serial' = "flush" /\ UNCHANGED replyQ

\* readline returns after 0.1 s with the part of a line that has come by then, and
\* neither part is recognised.  A part may be: all but the end of the line, or a NACK
\* without its N, which reads as ACK.  That is then DispatchReply or HandleStandby.
SplitLine ==
  /\ ReadAny
  /\ serial' = "flush"
  /\ UNCHANGED <<replyQ, pending>>

SuspendReturns ==
  /\ serial = "suspending"
  /\ serial' = "flush"
  /\ UNCHANGED <<threads, replyQ, writeQ, pending, clients, pico>>

--------------------------------------------------------------------------------
(* The Pico and the link.                                                      *)

\* What it says while nobody has the port open is lost.
PicoSays(line) ==
  /\ fromPico' = IF serial # "closed" /\ ~broken THEN Append(fromPico, line)
                                                 ELSE fromPico
  /\ UNCHANGED <<threads, replyQ, writeQ, pending, serial, clients, broken,
                 losses>>

PicoAnswers ==
  /\ toPico # <<>>
  /\ toPico' = Tail(toPico)
  /\ PicoSays(Answer(Head(toPico)))
  /\ UNCHANGED events

PicoReportsStandby ==
  /\ events < MaxEvents /\ events' = events + 1
  /\ PicoSays(Standby)
  /\ UNCHANGED toPico

\* The port goes away; the Pico is without power meanwhile, or it is not.
LinkDown ==
  /\ losses < MaxLosses /\ losses' = losses + 1
  /\ broken' = (serial # "closed")
  /\ fromPico' = <<>>
  /\ toPico' \in {toPico, <<>>}
  /\ UNCHANGED <<threads, replyQ, writeQ, pending, serial, clients, events>>

\* The listener dies, and systemd starts it again.  Its threads, queues and
\* connections are gone; what the Pico was told to do is not.
Restart ==
  /\ losses < MaxLosses /\ losses' = losses + 1
  /\ LET cut == {c \in Calls : call[c] \in {"locking", "waiting", "expired"}} IN
     /\ call' = [c \in Calls |-> IF c \in cut THEN "done" ELSE call[c]]
     /\ result' = [c \in Calls |-> IF c \in cut THEN "lost" ELSE result[c]]
  /\ ctl' = [c \in Calls |-> IF ctl[c] = "connected" THEN "cut" ELSE ctl[c]]
  /\ age' = [c \in Calls |-> 0]
  /\ lock' = None /\ there' = {}
  /\ replyQ' = [c \in Calls |-> <<>>]
  /\ writeQ' = <<>> /\ pending' = [name \in Commands |-> None]
  /\ serial' = "closed" /\ broken' = FALSE /\ fromPico' = <<>>
  /\ UNCHANGED <<answerOf, toPico, events>>

--------------------------------------------------------------------------------
Init ==
  /\ call = [c \in Calls |-> "idle"]
  /\ lock = None /\ there = {}
  /\ replyQ = [c \in Calls |-> <<>>]
  /\ result = [c \in Calls |-> "none"]
  /\ answerOf = [c \in Calls |-> None]
  /\ writeQ = <<>> /\ pending = [name \in Commands |-> None]
  /\ serial = "closed"
  /\ ctl = [c \in Calls |-> "none"] /\ age = [c \in Calls |-> 0]
  /\ broken = FALSE /\ toPico = <<>> /\ fromPico = <<>>
  /\ losses = 0 /\ events = 0

CallStep(c) ==
  \/ Acquire(c)
  \/ GetReply(c)
  \/ Expire(c)
  \/ Unregister(c)
  \/ CtlGivesUp(c)

SerialStep ==
  \/ OpenPort
  \/ FlushDone
  \/ SendNow
  \/ SendFails
  \/ ReadTimeout
  \/ ReadFails
  \/ HandleStandby
  \/ DispatchReply
  \/ SplitLine
  \/ SuspendReturns

PicoStep ==
  \/ PicoAnswers
  \/ PicoReportsStandby
  \/ LinkDown

Next ==
  \/ \E c \in Calls : Connect(c)
  \/ \E c \in Calls : CallStep(c)
  \/ SerialStep
  \/ PicoStep
  \/ Restart

\* Threads run, and a time-out comes; the Pico and the link owe nothing, and
\* the serial thread may stay in systemctl suspend.
Fairness == \A c \in Calls : WF_vars(CallStep(c))

Spec == Init /\ [][Next]_vars /\ Fairness
--------------------------------------------------------------------------------
(* Properties.                                                                 *)

\* Types of the variables; a reply queue never holds more than its one item.
TypeOK ==
  /\ call \in [Calls -> {"idle", "locking", "waiting", "expired", "done"}]
  /\ lock \in Calls \cup {None} /\ there \subseteq Calls
  /\ \A c \in Calls : Len(replyQ[c]) \in 0..1
  /\ result \in [Calls -> {"none", "answer", "link_error", "timeout", "lost"}]
  /\ answerOf \in [Calls -> Calls \cup {None}]
  /\ writeQ \in Seq(Calls) /\ toPico \in Seq(Calls)
  /\ pending \in [Commands -> Calls \cup {None}]
  /\ serial \in {"closed", "flush", "read", "suspending", "blocked"}
  /\ ctl \in [Calls -> {"none", "connected", "answered", "gave_up", "cut"}]
  /\ age \in [Calls -> 0..CtlTimeout]
  /\ broken \in BOOLEAN
  /\ losses \in 0..MaxLosses /\ events \in 0..MaxEvents

(***************************************************************************)
(* The serial thread never blocks in reply_q.put: a reply queue, which     *)
(* holds one item, is offered one at most, however late answers, failed    *)
(* writes and time-outs fall.  Were it blocked, nobody would read the Pico *)
(* any more (_send_now, _dispatch_reply).                                  *)
(***************************************************************************)
SerialThreadNeverBlocks == serial # "blocked"

GivenUp(c) == result[c] \in {"timeout", "link_error", "lost"}

\* c has ended without the answer to its own command.
MissedItsAnswer(c) == GivenUp(c) \/ (result[c] = "answer" /\ answerOf[c] # c)

(***************************************************************************)
(* A call gets the answer to another call's command only if both are the   *)
(* same command, if that other call has ended without its own answer, and  *)
(* if some call of that command was given up: by its time-out, with the    *)
(* listener, or by a failed write that reached the Pico all the same.  An  *)
(* answer is never taken from a call that still waits for it; but from the *)
(* first call given up on, every answer of its name may be off by one.     *)
(***************************************************************************)
StrayAnswersNeedAGivenUpCall ==
  \A c \in Calls :
    result[c] = "answer" /\ answerOf[c] # c =>
      /\ cmd[answerOf[c]] = cmd[c]
      /\ MissedItsAnswer(answerOf[c])
      /\ \E d \in Calls \ {c} : GivenUp(d) /\ cmd[d] = cmd[c]

(***************************************************************************)
(* Every call returns or is cut off, whatever the Pico and the link do,    *)
(* while the serial thread sits in systemctl suspend, and though all calls *)
(* share one lock.                                                         *)
(* (The calls are finitely many and each is made once.)                    *)
(***************************************************************************)
EveryCallReturns == <>[](\A c \in Calls : call[c] \in {"idle", "done"})

(* A call of the channel that this module implements: where it is, and where its    *)
(* command and the answer to that are.                                              *)
ChannelStage(c) ==
  CASE call[c] = "idle" -> "idle"
    [] call[c] = "locking" -> "queued"
    [] call[c] \in {"waiting", "expired"} -> "served"
    [] call[c] = "done" -> IF result[c] = "answer" THEN "answered" ELSE "failed"

CommandOnItsWay(c) ==
  \/ \E i \in 1..Len(writeQ) : writeQ[i] = c
  \/ \E i \in 1..Len(toPico) : toPico[i] = c

AnswerOnItsWay(c) ==
  \/ \E i \in 1..Len(fromPico) : fromPico[i] = Answer(c)
  \/ \E d \in Calls : replyQ[d] = <<Answer(c)>>

Channel ==
  INSTANCE CommandChannel WITH
    stage <- [c \in Calls |-> ChannelStage(c)],
    todo <- {c \in Calls : CommandOnItsWay(c)},
    answers <- {c \in Calls : AnswerOnItsWay(c)}

(***************************************************************************)
(* The listener keeps the promise of send_command: calls are served one at *)
(* a time, a command is executed at most once and only after its call is   *)
(* served, and an execution answers one call of its name at most, through  *)
(* late answers, failed writes, and losses of the port and the listener.   *)
(***************************************************************************)
ImplementsChannel == Channel!Spec

(***************************************************************************)
(* What the docstring of send_command, line 149, says: commands are        *)
(* serialized so that replies match.  The late answer to a command that    *)
(* timed out is taken for the answer to the next one of its name.          *)
(***************************************************************************)
RepliesMatch == \A c \in Calls : result[c] = "answer" => answerOf[c] = c

(***************************************************************************)
(* What pico-cec-ctl.py line 17 says of exit code 2: the control socket    *)
(* could not be reached, the listener is not running.  A client that waits *)
(* behind another's time-out gives up with the same code.                  *)
(***************************************************************************)
Exit2MeansNotRunning == \A c \in Calls : ctl[c] # "gave_up"
================================================================================
