--------------------------- MODULE BridgeSystemProofs ---------------------------
(***************************************************************************)
(* Proofs about BridgeSystem for any number of suspends, of things the     *)
(* user does and of standby events.                                        *)
(*                                                                         *)
(* The command executed last changes only when a call takes the lock, for  *)
(* the write queue and the Pico keep the order.  So it is PWR_ON from when *)
(* one of the calls of ExecStop takes the lock until the next PWR_OFF does *)
(* (OrderInv); that is in the next cycle, for the calls of the cycles      *)
(* before have ended unless their client gave up (UnitInv, ClientInv).     *)
(* An ExecStop that ended was answered at least once.                      *)
(***************************************************************************)
EXTENDS BridgeSystem, TLAPS

--------------------------------------------------------------------------------
(* Types of what BridgeSystem takes from PicoLink.                             *)

Answers == {Link!Answer(c) : c \in Calls}
PicoLines == {Link!Standby} \cup Answers
Replies == {Link!LinkError} \cup Answers

ThreadTypes ==
  /\ call \in [Calls -> {"idle", "locking", "waiting", "expired", "done"}]
  /\ lock \in Calls \cup {None} /\ there \subseteq Calls
  /\ result \in [Calls -> {"none", "answer", "link_error", "timeout", "lost"}]
  /\ answerOf \in [Calls -> Calls \cup {None}]
  /\ ctl \in [Calls -> {"none", "connected", "answered", "gave_up", "cut"}]
  /\ age \in [Calls -> 0..CtlTimeout]

QueueTypes ==
  /\ replyQ \in [Calls -> {<<>>} \cup {<<r>> : r \in Replies}]
  /\ writeQ \in Seq(Calls) /\ toPico \in Seq(Calls)
  /\ fromPico \in Seq(PicoLines)
  /\ pending \in [Commands -> Calls \cup {None}]
  /\ serial \in {"closed", "flush", "read", "suspending", "blocked"}
  /\ broken = FALSE
  /\ losses = 0 /\ events \in 0..MaxEvents

LinkTypes == ThreadTypes /\ QueueTypes

BridgeTypes ==
  /\ pc \in {"awake", "asleep"} /\ job \in {"none", "sleep", "after"}
  /\ cycle \in 0..MaxCycles /\ unitCycle \in Nat
  /\ unitCycle = cycle \/ (unitCycle + 1 = cycle /\ job # "none")
  /\ unit \in {"inactive", "off", "active", "stopping", "on1", "on2", "failed"}
  /\ unit # "inactive" => unitCycle > 0
  /\ tv \in {"on", "standby"} /\ g_tv_status \in {"unknown", "on", "standby"}
  /\ uses \in 0..MaxUses /\ offBy \in {"nobody", "pc", "remote"}
  /\ last \in Commands /\ unheard \in BOOLEAN

(* Calls, clients and the unit.                                                *)

Taken(c) == call[c] \in {"waiting", "expired", "done"}
Gone(c) == ctl[c] \in {"answered", "gave_up"}

\* A client whose call is under way is connected, or has given up.
ClientInv ==
  \A c \in Calls : /\ ctl[c] = "answered" => call[c] = "done"
                   /\ ctl[c] = "none" <=> call[c] = "idle"

\* Which calls the unit has made, and which of them it has waited for.
UnitInv ==
  /\ \A k \in Cycles :
       /\ k > unitCycle =>
            \A n \in {"off", "on1", "on2"} : call[<<k, n>>] = "idle"
       /\ k < unitCycle \/ (k = unitCycle /\ unit # "off") => Gone(<<k, "off">>)
  /\ unitCycle > 0 =>
       /\ unit \in {"off", "active", "stopping"} => call[Call("on1")] = "idle"
       /\ unit \in {"off", "active", "stopping", "on1"} => call[Call("on2")] = "idle"
       /\ unit \in {"on2", "inactive"} => ctl[Call("on1")] = "answered"

OrderInv ==
  /\ unitCycle > 0 /\ unit \in {"on1", "on2", "inactive"}
  /\ \A k \in Cycles : ~GaveUp(<<k, "off">>)
  /\ Taken(Call("on1")) \/ Taken(Call("on2"))
  => LastCommand = "PWR_ON"

BInv == LinkTypes /\ BridgeTypes /\ ClientInv /\ UnitInv /\ OrderInv

--------------------------------------------------------------------------------
(* The constants BridgeSystem gives PicoLink.                                  *)

LEMMA Constants ==
  /\ \A k \in Cycles, n \in {"off", "on1", "on2"} : <<k, n>> \in Calls
  /\ \A c \in Calls : /\ c[1] \in Cycles /\ c[2] \in {"off", "on1", "on2"}
                      /\ c = <<c[1], c[2]>>
  /\ \A c \in Calls : cmd[c] = IF c[2] = "off" THEN "PWR_OFF" ELSE "PWR_ON"
  /\ \A c \in Calls : cmd[c] \in Commands
  /\ CtlTimeout = 2 /\ MaxLosses = 0
<1>1. \A k \in Cycles, n \in {"off", "on1", "on2"} : <<k, n>> \in Calls BY DEF Calls
<1>2. \A c \in Calls : /\ c[1] \in Cycles /\ c[2] \in {"off", "on1", "on2"}
                       /\ c = <<c[1], c[2]>>
  BY DEF Calls
<1>3. \A c \in Calls : cmd[c] = IF c[2] = "off" THEN "PWR_OFF" ELSE "PWR_ON" BY DEF cmd
<1>4. \A c \in Calls : cmd[c] \in Commands BY <1>3 DEF Commands
<1>5. CtlTimeout = 2 /\ MaxLosses = 0 BY DEF CtlTimeout, MaxLosses
<1> QED BY <1>1, <1>2, <1>3, <1>4, <1>5

LEMMA Lines ==
  /\ \A c : Link!Answer(c).kind = "answer" /\ Link!Answer(c).for = c
  /\ Link!LinkError.kind = "link_error" /\ Link!LinkError.for = None
  /\ Link!Standby.kind = "standby"
BY DEF Link!Answer, Link!LinkError, Link!Standby

LEMMA ReplyTypes ==
  ASSUME NEW r \in Replies
  PROVE  r.kind \in {"answer", "link_error", "timeout"} /\ r.for \in Calls \cup {None}
BY Lines DEF Replies, Answers

--------------------------------------------------------------------------------
(* Types after a step of PicoLink.                                             *)

LEMMA ReturnTypes ==
  ASSUME ThreadTypes, NEW c \in Calls, NEW r, Link!Return(c, r),
         r.kind \in {"answer", "link_error", "timeout"}, r.for \in Calls \cup {None}
  PROVE  ThreadTypes'
<1>1. /\ call' = [call EXCEPT ![c] = "done"]
      /\ result' = [result EXCEPT ![c] = r.kind]
      /\ answerOf' = [answerOf EXCEPT ![c] = r.for]
      /\ lock' = None /\ there' = {}
      /\ age' = [age EXCEPT ![c] = 0]
      /\ ctl' = [ctl EXCEPT ![c] = IF @ = "connected" THEN "answered" ELSE @]
  BY DEF Link!Return
<1>2. call' \in [Calls -> {"idle", "locking", "waiting", "expired", "done"}]
  BY <1>1 DEF ThreadTypes
<1>3. result' \in [Calls -> {"none", "answer", "link_error", "timeout", "lost"}]
  BY <1>1 DEF ThreadTypes
<1>4. answerOf' \in [Calls -> Calls \cup {None}] BY <1>1 DEF ThreadTypes
<1>5. age' \in [Calls -> 0..CtlTimeout] BY <1>1, Constants DEF ThreadTypes
<1>6. ctl' \in [Calls -> {"none", "connected", "answered", "gave_up", "cut"}]
  BY <1>1 DEF ThreadTypes
<1> QED BY <1>1, <1>2, <1>3, <1>4, <1>5, <1>6 DEF ThreadTypes

LEMMA ConnectTypes == ASSUME LinkTypes, NEW c \in Calls, Link!Connect(c) PROVE LinkTypes'
<1>1. /\ call' = [call EXCEPT ![c] = "locking"]
      /\ ctl' = [ctl EXCEPT ![c] = "connected"]
      /\ UNCHANGED <<lock, there, result, answerOf, replyQ, writeQ, pending, serial, age,
                     broken, toPico, fromPico, losses, events>>
  BY DEF Link!Connect, Link!pico
<1>2. ThreadTypes' BY <1>1 DEF LinkTypes, ThreadTypes
<1>3. QueueTypes' BY <1>1 DEF LinkTypes, QueueTypes
<1> QED BY <1>2, <1>3 DEF LinkTypes

LEMMA AcquireTypes == ASSUME LinkTypes, NEW c \in Calls, Link!Acquire(c) PROVE LinkTypes'
<1>1. /\ call' = [call EXCEPT ![c] = "waiting"]
      /\ lock' = c /\ there' = {d \in Calls : ctl[d] = "connected"}
      /\ writeQ' = Append(writeQ, c)
      /\ UNCHANGED <<result, answerOf, replyQ, pending, serial, ctl, age,
                     broken, toPico, fromPico, losses, events>>
  BY DEF Link!Acquire, Link!pico, Link!clients
<1>2. ThreadTypes' BY <1>1 DEF LinkTypes, ThreadTypes
<1>3. writeQ' \in Seq(Calls) BY <1>1 DEF LinkTypes, QueueTypes
<1>4. QueueTypes' BY <1>1, <1>3 DEF LinkTypes, QueueTypes
<1> QED BY <1>2, <1>4 DEF LinkTypes

LEMMA GetReplyTypes == ASSUME LinkTypes, NEW c \in Calls, Link!GetReply(c) PROVE LinkTypes'
<1>1. /\ replyQ[c] # <<>> /\ Link!Return(c, Head(replyQ[c]))
      /\ replyQ' = [replyQ EXCEPT ![c] = Tail(@)]
      /\ UNCHANGED <<pending, writeQ, serial, broken, toPico, fromPico, losses, events>>
  BY DEF Link!GetReply, Link!Return, Link!pico
<1>2. PICK r \in Replies : replyQ[c] = <<r>>
  BY <1>1 DEF LinkTypes, QueueTypes
<1>3. Head(replyQ[c]) = r /\ Tail(replyQ[c]) = <<>> BY <1>2
<1>4. Link!Return(c, r) BY <1>1, <1>3
<1>5. ThreadTypes' BY <1>4, ReplyTypes, ReturnTypes DEF LinkTypes
<1>6. replyQ' \in [Calls -> {<<>>} \cup {<<x>> : x \in Replies}]
  BY <1>1, <1>3 DEF LinkTypes, QueueTypes
<1>7. QueueTypes' BY <1>1, <1>6 DEF LinkTypes, QueueTypes
<1> QED BY <1>5, <1>7 DEF LinkTypes

LEMMA ExpireTypes == ASSUME LinkTypes, NEW c \in Calls, Link!Expire(c) PROVE LinkTypes'
<1>1. /\ call' = [call EXCEPT ![c] = "expired"]
      /\ \A d \in there : ~Link!GivesUp(d)
      /\ age' = [d \in Calls |-> IF d \in there /\ ctl[d] = "connected" THEN age[d] + 1
                                 ELSE age[d]]
      /\ UNCHANGED <<lock, there, result, answerOf, replyQ, writeQ, pending, serial, ctl,
                     broken, toPico, fromPico, losses, events>>
  BY DEF Link!Expire, Link!pico
<1>2. ASSUME NEW d \in there, ctl[d] = "connected" PROVE age[d] + 1 \in 0..CtlTimeout
  <2>1. age[d] \in 0..CtlTimeout BY DEF LinkTypes, ThreadTypes
  <2>2. ~(age[d] >= CtlTimeout) BY <1>1, <1>2 DEF Link!GivesUp
  <2> QED BY <2>1, <2>2, Constants
<1>3. age' \in [Calls -> 0..CtlTimeout] BY <1>1, <1>2 DEF LinkTypes, ThreadTypes
<1>4. call' \in [Calls -> {"idle", "locking", "waiting", "expired", "done"}]
  BY <1>1 DEF LinkTypes, ThreadTypes
<1>5. ThreadTypes' BY <1>1, <1>3, <1>4 DEF LinkTypes, ThreadTypes
<1>6. QueueTypes' BY <1>1 DEF LinkTypes, QueueTypes
<1> QED BY <1>5, <1>6 DEF LinkTypes

LEMMA UnregisterTypes ==
  ASSUME LinkTypes, NEW c \in Calls, Link!Unregister(c) PROVE LinkTypes'
<1> DEFINE r == [kind |-> "timeout", for |-> None]
<1>1. /\ pending' = [pending EXCEPT ![cmd[c]] = None]
      /\ Link!Return(c, r)
      /\ UNCHANGED <<replyQ, writeQ, serial, broken, toPico, fromPico, losses, events>>
  BY DEF Link!Unregister, Link!Return, Link!pico
<1>2. r.kind = "timeout" /\ r.for = None OBVIOUS
<1> HIDE DEF r
<1>3. ThreadTypes' BY <1>1, <1>2, ReturnTypes DEF LinkTypes
<1>4. pending' \in [Commands -> Calls \cup {None}] BY <1>1 DEF LinkTypes, QueueTypes
<1>5. QueueTypes' BY <1>1, <1>4 DEF LinkTypes, QueueTypes
<1> QED BY <1>3, <1>5 DEF LinkTypes

LEMMA CtlGivesUpTypes ==
  ASSUME LinkTypes, NEW c \in Calls, Link!CtlGivesUp(c) PROVE LinkTypes'
<1>1. /\ ctl' = [ctl EXCEPT ![c] = "gave_up"]
      /\ age' = [age EXCEPT ![c] = 0]
      /\ UNCHANGED <<call, lock, there, result, answerOf, replyQ, writeQ, pending, serial,
                     broken, toPico, fromPico, losses, events>>
  BY DEF Link!CtlGivesUp, Link!pico, Link!threads
<1>2. ThreadTypes' BY <1>1, Constants DEF LinkTypes, ThreadTypes
<1>3. QueueTypes' BY <1>1 DEF LinkTypes, QueueTypes
<1> QED BY <1>2, <1>3 DEF LinkTypes

LEMMA CallTypes == ASSUME LinkTypes, NEW c \in Calls, Link!CallStep(c) PROVE LinkTypes'
BY AcquireTypes, GetReplyTypes, ExpireTypes, UnregisterTypes, CtlGivesUpTypes
   DEF Link!CallStep

\* The serial thread leaves the calls and their clients alone.
LEMMA SerialFrame ==
  ASSUME Link!SerialStep
  PROVE  UNCHANGED <<call, lock, there, result, answerOf, ctl, age, losses, events>>
BY DEF Link!SerialStep, Link!OpenPort, Link!FlushDone, Link!SendNow, Link!SendFails,
       Link!ReadTimeout, Link!ReadFails, Link!HandleStandby, Link!DispatchReply,
       Link!SplitLine, Link!SuspendReturns, Link!ReadAny,
       Link!threads, Link!clients, Link!pico

LEMMA PutTypes ==
  ASSUME QueueTypes, NEW c \in Calls, NEW r \in Replies, Link!Put(c, r, "flush")
  PROVE  /\ replyQ' \in [Calls -> {<<>>} \cup {<<x>> : x \in Replies}]
         /\ serial' \in {"flush", "blocked"}
BY DEF QueueTypes, Link!Put

LEMMA ReadFacts ==
  ASSUME QueueTypes, Link!ReadAny
  PROVE  /\ Head(fromPico) \in PicoLines
         /\ Tail(fromPico) \in Seq(PicoLines)
         /\ fromPico' = Tail(fromPico)
         /\ UNCHANGED <<writeQ, toPico, broken, losses, events>>
<1>1. /\ fromPico # <<>> /\ fromPico' = Tail(fromPico)
      /\ UNCHANGED <<writeQ, toPico, broken, losses, events>>
  BY DEF Link!ReadAny
<1>2. fromPico \in Seq(PicoLines) BY DEF QueueTypes
<1> QED BY <1>1, <1>2

LEMMA DispatchTypes == ASSUME QueueTypes, Link!DispatchReply PROVE QueueTypes'
<1> DEFINE line == Head(fromPico)
           name == cmd[line.for]
<1>1. /\ Link!ReadAny /\ line.kind = "answer"
      /\ pending' = [pending EXCEPT ![name] = None]
      /\ \/ pending[name] # None /\ Link!Put(pending[name], line, "flush")
         \/ serial' = "flush" /\ UNCHANGED replyQ
  BY DEF Link!DispatchReply
<1>2. line \in Answers BY <1>1, ReadFacts, Lines DEF PicoLines
<1>3. line \in Replies /\ line.for \in Calls BY <1>2, Lines DEF Replies, Answers
<1>4. name \in Commands BY <1>3, Constants
<1> HIDE DEF line, name
<1>5. pending' \in [Commands -> Calls \cup {None}] BY <1>1 DEF QueueTypes
<1>6. /\ replyQ' \in [Calls -> {<<>>} \cup {<<x>> : x \in Replies}]
      /\ serial' \in {"flush", "blocked"}
  <2>1. ASSUME pending[name] # None, Link!Put(pending[name], line, "flush")
        PROVE  <1>6!:
    <3>1. pending[name] \in Calls BY <1>4, <2>1 DEF QueueTypes
    <3> QED BY <3>1, <2>1, <1>3, PutTypes
  <2>2. ASSUME serial' = "flush" /\ UNCHANGED replyQ PROVE <1>6!:
    BY <2>2 DEF QueueTypes
  <2> QED BY <1>1, <2>1, <2>2
<1>7. /\ fromPico' \in Seq(PicoLines)
      /\ UNCHANGED <<writeQ, toPico, broken, losses, events>>
  BY <1>1, ReadFacts
<1> QED BY <1>5, <1>6, <1>7 DEF QueueTypes

LEMMA SerialTypes == ASSUME LinkTypes, Link!SerialStep PROVE LinkTypes'
<1>a. QueueTypes /\ ThreadTypes BY DEF LinkTypes
<1>b. broken = FALSE BY <1>a DEF QueueTypes
<1>1. CASE Link!OpenPort
  <2>1. fromPico' \in Seq(PicoLines) BY <1>1 DEF Link!OpenPort
  <2> QED BY <1>1, <2>1, <1>a, SerialFrame DEF Link!OpenPort, LinkTypes, QueueTypes, ThreadTypes
<1>2. CASE Link!FlushDone \/ Link!ReadTimeout \/ Link!SuspendReturns
  <2>1. /\ serial' \in {"flush", "read"}
        /\ UNCHANGED <<replyQ, writeQ, pending, broken, toPico, fromPico>>
    BY <1>2 DEF Link!FlushDone, Link!ReadTimeout, Link!SuspendReturns, Link!pico
  <2> QED BY <2>1, <1>a, SerialFrame DEF LinkTypes, QueueTypes, ThreadTypes
<1>3. CASE Link!SendNow
  <2>1. /\ writeQ # <<>>
        /\ pending' = [pending EXCEPT ![cmd[Head(writeQ)]] = Head(writeQ)]
        /\ toPico' = Append(toPico, Head(writeQ)) /\ writeQ' = Tail(writeQ)
        /\ UNCHANGED <<replyQ, serial, broken, fromPico>>
    BY <1>3 DEF Link!SendNow
  <2>2. writeQ \in Seq(Calls) /\ toPico \in Seq(Calls) BY <1>a DEF QueueTypes
  <2>3. Head(writeQ) \in Calls /\ Tail(writeQ) \in Seq(Calls) BY <2>1, <2>2
  <2>4. toPico' \in Seq(Calls) /\ writeQ' \in Seq(Calls) BY <2>1, <2>2, <2>3
  <2>5. pending' \in [Commands -> Calls \cup {None}] BY <2>1, <2>3, <1>a DEF QueueTypes
  <2> QED BY <2>1, <2>4, <2>5, <1>a, SerialFrame DEF LinkTypes, QueueTypes, ThreadTypes
<1>4. CASE Link!SendFails \/ Link!ReadFails
  BY <1>4, <1>b DEF Link!SendFails, Link!ReadFails
<1>5. CASE Link!HandleStandby \/ Link!SplitLine
  <2>1. /\ Link!ReadAny /\ serial' \in {"flush", "suspending"}
        /\ UNCHANGED <<replyQ, pending>>
    BY <1>5 DEF Link!HandleStandby, Link!SplitLine
  <2>2. /\ fromPico' \in Seq(PicoLines)
        /\ UNCHANGED <<writeQ, toPico, broken>>
    BY <2>1, <1>a, ReadFacts
  <2> QED BY <2>1, <2>2, <1>a, SerialFrame DEF LinkTypes, QueueTypes, ThreadTypes
<1>6. CASE Link!DispatchReply
  <2>1. QueueTypes' BY <1>6, <1>a, DispatchTypes
  <2> QED BY <2>1, <1>a, SerialFrame DEF LinkTypes, ThreadTypes
<1> QED BY <1>1, <1>2, <1>3, <1>4, <1>5, <1>6 DEF Link!SerialStep

\* What the Pico says changes the lines on their way only.
LEMMA SaysTypes ==
  ASSUME LinkTypes, NEW line \in PicoLines, Says(line),
         toPico' \in Seq(Calls), events' \in 0..MaxEvents
  PROVE  /\ LinkTypes'
         /\ UNCHANGED <<call, lock, there, result, answerOf, ctl, age, writeQ>>
<1>1. UNCHANGED <<call, lock, there, result, answerOf, ctl, age, replyQ, writeQ, pending,
                  serial, broken, losses>>
  BY DEF Says, Link!PicoSays, threads, clients, Link!threads, Link!clients
<1>2. fromPico' = fromPico \/ fromPico' = Append(fromPico, line)
  BY DEF Says, Link!PicoSays
<1>3. fromPico \in Seq(PicoLines) BY DEF LinkTypes, QueueTypes
<1>4. fromPico' \in Seq(PicoLines) BY <1>2, <1>3
<1>5. QueueTypes' BY <1>1, <1>4 DEF LinkTypes, QueueTypes
<1>6. ThreadTypes' BY <1>1 DEF LinkTypes, ThreadTypes
<1> QED BY <1>1, <1>5, <1>6 DEF LinkTypes

--------------------------------------------------------------------------------
(* The command executed last.                                                  *)

LEMMA LastOf ==
  ASSUME NEW p \in Seq(Calls), NEW q \in Seq(Calls)
  PROVE  /\ q # <<>> => /\ p \o q # <<>>
                        /\ (p \o q)[Len(p \o q)] = q[Len(q)]
         /\ q = <<>> => p \o q = p
<1>1. /\ Len(p) \in Nat /\ Len(q) \in Nat /\ Len(p \o q) = Len(p) + Len(q)
      /\ q # <<>> => Len(q) > 0
  OBVIOUS
<1>2. ASSUME q # <<>> PROVE (p \o q)[Len(p \o q)] = q[Len(q)]
  <2>1. Len(p) + Len(q) \in 1..Len(p) + Len(q) /\ ~(Len(p) + Len(q) <= Len(p))
    BY <1>1, <1>2
  <2>2. (p \o q)[Len(p) + Len(q)] = q[Len(p) + Len(q) - Len(p)] BY <2>1, <1>1
  <2>3. Len(p) + Len(q) - Len(p) = Len(q) BY <1>1
  <2> QED BY <2>2, <2>3, <1>1
<1>3. ASSUME q # <<>> PROVE p \o q # <<>> BY <1>3, <1>1
<1>4. ASSUME q = <<>> PROVE p \o q = p BY <1>4
<1> QED BY <1>2, <1>3, <1>4

\* Without its head, a sequence has the same last element, or none.
LEMMA LastOfTail ==
  ASSUME NEW q \in Seq(Calls), q # <<>>
  PROVE  /\ Head(q) \in Calls
         /\ Tail(q) # <<>> => Tail(q)[Len(Tail(q))] = q[Len(q)]
         /\ Tail(q) = <<>> => Head(q) = q[Len(q)]
<1>1. /\ Len(q) \in Nat \ {0} /\ Head(q) = q[1] /\ Head(q) \in Calls
      /\ Len(Tail(q)) = Len(q) - 1
      /\ Tail(q) \in Seq(Calls)
      /\ \A i \in 1..Len(Tail(q)) : Tail(q)[i] = q[i + 1]
  OBVIOUS
<1>2. ASSUME NEW n \in Nat \ {0}
      PROVE  /\ n - 1 # 0 => n - 1 \in 1..(n - 1)
             /\ n - 1 + 1 = n /\ (n - 1 = 0 => n = 1)
  OBVIOUS
<1>3. \A t \in Seq(Calls) : t = <<>> <=> Len(t) = 0 OBVIOUS
<1>4. ASSUME Tail(q) # <<>> PROVE Tail(q)[Len(Tail(q))] = q[Len(q)]
  <2>1. Len(Tail(q)) \in 1..Len(Tail(q)) BY <1>1, <1>2, <1>3, <1>4
  <2>2. Len(Tail(q)) + 1 = Len(q) BY <1>1, <1>2
  <2> QED BY <1>1, <2>1, <2>2
<1>5. ASSUME Tail(q) = <<>> PROVE Head(q) = q[Len(q)]
  <2>1. Len(q) = 1 BY <1>1, <1>2, <1>3, <1>5
  <2> QED BY <1>1, <2>1
<1> QED BY <1>1, <1>4, <1>5

LEMMA LastInOrder ==
  ASSUME QueueTypes
  PROVE  /\ writeQ # <<>> => LastCommand = cmd[writeQ[Len(writeQ)]]
         /\ writeQ = <<>> /\ toPico # <<>> => LastCommand = cmd[toPico[Len(toPico)]]
         /\ writeQ = <<>> /\ toPico = <<>> => LastCommand = last
<1>1. writeQ \in Seq(Calls) /\ toPico \in Seq(Calls) BY DEF QueueTypes
<1>2. ASSUME writeQ # <<>> PROVE LastCommand = cmd[writeQ[Len(writeQ)]]
  BY <1>1, <1>2, LastOf DEF LastCommand, Due
<1>3. ASSUME writeQ = <<>> PROVE Due = toPico BY <1>1, <1>3, LastOf DEF Due
<1> QED BY <1>2, <1>3 DEF LastCommand

\* The same in the next state.
LEMMA LastInOrderNext ==
  ASSUME QueueTypes'
  PROVE  /\ writeQ' # <<>> => LastCommand' = cmd[writeQ'[Len(writeQ')]]
         /\ writeQ' = <<>> /\ toPico' # <<>> => LastCommand' = cmd[toPico'[Len(toPico')]]
         /\ writeQ' = <<>> /\ toPico' = <<>> => LastCommand' = last'
<1>1. writeQ' \in Seq(Calls) /\ toPico' \in Seq(Calls) BY DEF QueueTypes
<1>2. ASSUME writeQ' # <<>> PROVE LastCommand' = cmd[writeQ'[Len(writeQ')]]
  BY <1>1, <1>2, LastOf DEF LastCommand, Due
<1>3. ASSUME writeQ' = <<>> PROVE Due' = toPico' BY <1>1, <1>3, LastOf DEF Due
<1> QED BY <1>2, <1>3 DEF LastCommand

\* A call that takes the lock sets it.
LEMMA AcquireSetsLast ==
  ASSUME QueueTypes, QueueTypes', NEW c \in Calls, writeQ' = Append(writeQ, c)
  PROVE  LastCommand' = cmd[c]
<1>1. writeQ \in Seq(Calls) BY DEF QueueTypes
<1>2. Append(writeQ, c) # <<>> /\ Append(writeQ, c)[Len(Append(writeQ, c))] = c BY <1>1
<1> QED BY <1>2, LastInOrderNext

\* Writing the head of the queue to the port does not change it.
LEMMA SendKeepsLast ==
  ASSUME QueueTypes, QueueTypes', writeQ # <<>>, UNCHANGED last,
         toPico' = Append(toPico, Head(writeQ)), writeQ' = Tail(writeQ)
  PROVE  LastCommand' = LastCommand
<1>1. writeQ \in Seq(Calls) /\ toPico \in Seq(Calls) BY DEF QueueTypes
<1>2. LastCommand = cmd[writeQ[Len(writeQ)]] BY LastInOrder
<1>3. CASE Tail(writeQ) = <<>>
  <2>1. Head(writeQ) \in Calls /\ Head(writeQ) = writeQ[Len(writeQ)]
    BY <1>1, <1>3, LastOfTail
  <2>2. toPico' # <<>> /\ toPico'[Len(toPico')] = Head(writeQ) BY <1>1, <2>1
  <2> QED BY <2>1, <2>2, <1>2, <1>3, LastInOrderNext
<1>4. CASE Tail(writeQ) # <<>>
  <2>1. writeQ' # <<>> /\ writeQ'[Len(writeQ')] = writeQ[Len(writeQ)]
    BY <1>1, <1>4, LastOfTail
  <2> QED BY <2>1, <1>2, LastInOrderNext
<1> QED BY <1>3, <1>4

\* Nor does executing a command.
LEMMA ExecuteKeepsLast ==
  ASSUME QueueTypes, QueueTypes', toPico # <<>>, UNCHANGED writeQ,
         toPico' = Tail(toPico), last' = cmd[Head(toPico)]
  PROVE  LastCommand' = LastCommand
<1>1. toPico \in Seq(Calls) BY DEF QueueTypes
<1>2. CASE writeQ # <<>> BY <1>2, LastInOrder, LastInOrderNext
<1>3. CASE writeQ = <<>> /\ Tail(toPico) = <<>>
  <2>1. toPico' = <<>> /\ Head(toPico) = toPico[Len(toPico)] BY <1>1, <1>3, LastOfTail
  <2> QED BY <2>1, <1>3, LastInOrder, LastInOrderNext
<1>4. CASE writeQ = <<>> /\ Tail(toPico) # <<>>
  <2>1. toPico' # <<>> /\ toPico'[Len(toPico')] = toPico[Len(toPico)]
    BY <1>1, <1>4, LastOfTail
  <2> QED BY <2>1, <1>4, LastInOrder, LastInOrderNext
<1> QED BY <1>2, <1>3, <1>4

LEMMA SerialKeepsLast ==
  ASSUME LinkTypes, QueueTypes', Link!SerialStep, UNCHANGED last
  PROVE  LastCommand' = LastCommand
<1>1. CASE Link!SendNow
  BY <1>1, SendKeepsLast DEF Link!SendNow, LinkTypes
<1>2. CASE Link!SendFails
  BY <1>2 DEF Link!SendFails, LinkTypes, QueueTypes
<1>3. CASE ~Link!SendNow /\ ~Link!SendFails
  <2>1. UNCHANGED <<writeQ, toPico>>
    BY <1>3 DEF Link!SerialStep, Link!OpenPort, Link!FlushDone,
       Link!ReadTimeout, Link!ReadFails, Link!HandleStandby, Link!DispatchReply,
       Link!SplitLine, Link!SuspendReturns, Link!ReadAny, Link!pico
  <2> QED BY <2>1 DEF LastCommand, Due
<1> QED BY <1>1, <1>2, <1>3

--------------------------------------------------------------------------------
(* Calls, clients and the unit after a step.                                   *)

\* A step of the thread or the client of a call.
LEMMA CallMoves ==
  ASSUME LinkTypes, ClientInv, NEW c \in Calls, Link!CallStep(c)
  PROVE  /\ ClientInv'
         /\ \A d \in Calls : /\ call'[d] = "idle" <=> call[d] = "idle"
                             /\ Gone(d) => ctl'[d] = ctl[d]
         /\ \/ /\ UNCHANGED <<writeQ, toPico>>
               /\ \A d \in Calls : Taken(d)' <=> Taken(d)
            \/ /\ call[c] = "locking" /\ UNCHANGED <<toPico, ctl>>
               /\ writeQ' = Append(writeQ, c)
<1>t. DOMAIN call = Calls /\ DOMAIN ctl = Calls BY DEF LinkTypes, ThreadTypes
<1> DEFINE Moves ==
      /\ UNCHANGED <<writeQ, toPico>>
      /\ Taken(c) /\ Taken(c)'
      /\ \A d \in Calls : d # c => call'[d] = call[d] /\ ctl'[d] = ctl[d]
      /\ Gone(c) => ctl'[c] = ctl[c]
      /\ ctl'[c] # "none"
      /\ ctl'[c] = "answered" => call'[c] = "done"
<1>1. ASSUME Moves
      PROVE  /\ ClientInv'
             /\ \A d \in Calls : /\ call'[d] = "idle" <=> call[d] = "idle"
                                 /\ Gone(d) => ctl'[d] = ctl[d]
             /\ \A d \in Calls : Taken(d)' <=> Taken(d)
  BY <1>1 DEF ClientInv, Taken, Gone
<1>2. ASSUME NEW r, Link!Return(c, r), call[c] \in {"waiting", "expired"},
             UNCHANGED <<writeQ, toPico>>
      PROVE  Moves
  <2>1. /\ call' = [call EXCEPT ![c] = "done"]
        /\ ctl' = [ctl EXCEPT ![c] = IF @ = "connected" THEN "answered" ELSE @]
    BY <1>2 DEF Link!Return
  <2>2. ctl[c] # "none" BY <1>2 DEF ClientInv
  <2> QED BY <2>1, <2>2, <1>2, <1>t DEF Taken, Gone
<1>3. CASE Link!GetReply(c) \/ Link!Unregister(c)
  <2>1. PICK r : Link!Return(c, r)
    BY <1>3 DEF Link!GetReply, Link!Unregister
  <2>2. call[c] \in {"waiting", "expired"} /\ UNCHANGED <<writeQ, toPico>>
    BY <1>3, <2>1 DEF Link!GetReply, Link!Unregister, Link!Return, Link!pico
  <2> QED BY <2>1, <2>2, <1>1, <1>2
<1>4. CASE Link!Expire(c)
  <2>1. /\ call[c] = "waiting" /\ call' = [call EXCEPT ![c] = "expired"]
        /\ UNCHANGED <<ctl, writeQ, toPico>>
    BY <1>4 DEF Link!Expire, Link!pico
  <2> QED BY <2>1, <1>1, <1>t DEF ClientInv, Taken, Gone
<1>5. CASE Link!CtlGivesUp(c)
  <2>1. /\ ctl[c] = "connected" /\ ctl' = [ctl EXCEPT ![c] = "gave_up"]
        /\ UNCHANGED <<call, writeQ, toPico>>
    BY <1>5 DEF Link!CtlGivesUp, Link!GivesUp, Link!pico, Link!threads
  <2>2. ClientInv' BY <2>1, <1>t DEF ClientInv
  <2> QED BY <2>1, <2>2, <1>t DEF Taken, Gone
<1>6. CASE Link!Acquire(c)
  <2>1. /\ call[c] = "locking" /\ call' = [call EXCEPT ![c] = "waiting"]
        /\ writeQ' = Append(writeQ, c) /\ UNCHANGED <<ctl, toPico>>
    BY <1>6 DEF Link!Acquire, Link!clients, Link!pico
  <2>2. ClientInv' BY <2>1, <1>t DEF ClientInv
  <2> QED BY <2>1, <2>2, <1>t
<1> QED BY <1>3, <1>4, <1>5, <1>6 DEF Link!CallStep

LEMMA ItsCalls ==
  ASSUME BridgeTypes, unitCycle > 0
  PROVE  /\ unitCycle \in Cycles
         /\ Call("off") \in Calls /\ Call("on1") \in Calls /\ Call("on2") \in Calls
<1>1. unitCycle \in Cycles
  BY BridgeAssumption DEF BridgeTypes, Cycles
<1> QED BY <1>1, Constants DEF Call

\* The unit stands still.
LEMMA UnitWaits ==
  ASSUME BridgeTypes, UnitInv, UNCHANGED <<unit, unitCycle>>,
         \A d \in Calls : /\ call'[d] = "idle" <=> call[d] = "idle"
                          /\ Gone(d) => ctl'[d] = ctl[d]
  PROVE  UnitInv'
<1>0. \A d \in Calls : Gone(d) => Gone(d)' BY DEF Gone
<1>1. \A k \in Cycles : <<k, "off">> \in Calls /\ <<k, "on1">> \in Calls /\ <<k, "on2">> \in Calls
  BY Constants
<1>2. ASSUME NEW k \in Cycles
      PROVE  /\ k > unitCycle' => \A n \in {"off", "on1", "on2"} : call'[<<k, n>>] = "idle"
             /\ k < unitCycle' \/ (k = unitCycle' /\ unit' # "off") => Gone(<<k, "off">>)'
  BY <1>0, <1>1 DEF UnitInv
<1>3. ASSUME unitCycle' > 0
      PROVE  /\ unit' \in {"off", "active", "stopping"} => call'[Call("on1")'] = "idle"
             /\ unit' \in {"off", "active", "stopping", "on1"} => call'[Call("on2")'] = "idle"
             /\ unit' \in {"on2", "inactive"} => ctl'[Call("on1")'] = "answered"
  <2>1. \A d \in Calls : ctl[d] = "answered" => ctl'[d] = "answered" BY DEF Gone
  <2> QED BY <2>1, <1>3, ItsCalls DEF UnitInv, Call
<1> QED BY <1>2, <1>3 DEF UnitInv

\* The unit starts a client: the calls it had made before stay as they are.
LEMMA ConnectMoves ==
  ASSUME LinkTypes, ClientInv, NEW c \in Calls, Link!Connect(c)
  PROVE  /\ ClientInv'
         /\ \A d \in Calls : d # c => call'[d] = call[d] /\ ctl'[d] = ctl[d]
         /\ ~Gone(c) /\ ~Taken(c) /\ ~Taken(c)'
         /\ UNCHANGED <<writeQ, toPico>>
<1>1. /\ call[c] = "idle" /\ call' = [call EXCEPT ![c] = "locking"]
      /\ ctl' = [ctl EXCEPT ![c] = "connected"]
      /\ UNCHANGED <<writeQ, toPico>>
  BY DEF Link!Connect, Link!pico
<1>2. DOMAIN call = Calls /\ DOMAIN ctl = Calls BY DEF LinkTypes, ThreadTypes
<1> QED BY <1>1, <1>2 DEF ClientInv, Gone, Taken

\* The calls and the order of the commands stay.
LEMMA LinkWaits ==
  ASSUME BInv, UNCHANGED <<call, ctl, unit, unitCycle>>, LastCommand' = LastCommand
  PROVE  ClientInv' /\ UnitInv' /\ OrderInv'
<1>1. ClientInv' BY DEF BInv, ClientInv
<1>2. UnitInv' BY UnitWaits DEF BInv
<1>3. OrderInv' BY DEF BInv, OrderInv, Taken, GaveUp, Call
<1> QED BY <1>1, <1>2, <1>3

LEMMA AllWaits ==
  ASSUME BInv, UNCHANGED link
  PROVE  /\ LinkTypes' /\ ClientInv'
         /\ UNCHANGED <<call, ctl, writeQ, toPico>>
<1>1. UNCHANGED <<call, lock, there, result, answerOf, ctl, age, replyQ, writeQ, pending,
                  serial, broken, toPico, fromPico, losses, events>>
  BY DEF link, threads, clients
<1>2. LinkTypes' BY <1>1 DEF BInv, LinkTypes, ThreadTypes, QueueTypes
<1>3. ClientInv' BY <1>1 DEF BInv, ClientInv
<1> QED BY <1>1, <1>2, <1>3

\* A step that changes neither PicoLink, nor the unit, nor what was executed last.
LEMMA QuietInv ==
  ASSUME BInv, UNCHANGED <<link, unit, unitCycle, last>>, BridgeTypes'
  PROVE  BInv'
<1>1. LinkTypes' /\ UNCHANGED <<call, ctl, writeQ, toPico>> BY AllWaits
<1>2. LastCommand' = LastCommand BY <1>1 DEF LastCommand, Due
<1> QED BY <1>1, <1>2, LinkWaits DEF BInv

LEMMA SuspendTypes ==
  ASSUME BridgeTypes, Suspend
  PROVE  /\ job' \in {"none", "sleep", "after"} /\ cycle' \in 0..MaxCycles
         /\ unitCycle = cycle' \/ (unitCycle + 1 = cycle' /\ job' # "none")
<1>1. /\ job = "none" /\ cycle < MaxCycles /\ job' = "sleep" /\ cycle' = cycle + 1
      /\ cycle \in 0..MaxCycles /\ unitCycle = cycle
  BY DEF Suspend, BridgeTypes
<1> QED BY <1>1, BridgeAssumption

LEMMA DaylightInv ==
  ASSUME BInv, UserSuspends \/ Sleep \/ Resume \/ NoticeOn \/ UseRemote
  PROVE  BInv'
<1>a. BridgeTypes BY DEF BInv
<1>1. CASE UserSuspends
  <2>1. uses' \in 0..MaxUses
    BY <1>1, <1>a, BridgeAssumption DEF UserSuspends, BridgeTypes
  <2>2. BridgeTypes'
    BY <1>1, <1>a, <2>1, SuspendTypes DEF UserSuspends, BridgeTypes, home
  <2> QED BY <1>1, <2>2, QuietInv DEF UserSuspends, home
<1>2. CASE Sleep
  <2>1. BridgeTypes' BY <1>2, <1>a DEF Sleep, BridgeTypes, home
  <2> QED BY <1>2, <2>1, QuietInv DEF Sleep, home
<1>3. CASE Resume
  <2>1. BridgeTypes' BY <1>3, <1>a DEF Resume, BridgeTypes, home
  <2> QED BY <1>3, <2>1, QuietInv DEF Resume, home
<1>4. CASE NoticeOn
  <2>1. BridgeTypes' BY <1>4, <1>a DEF NoticeOn, BridgeTypes, bridge
  <2> QED BY <1>4, <2>1, QuietInv DEF NoticeOn, bridge
<1>5. CASE UseRemote
  <2>1. uses' \in 0..MaxUses
    BY <1>5, <1>a, BridgeAssumption DEF UseRemote, BridgeTypes
  <2>2. BridgeTypes' BY <1>5, <1>a, <2>1 DEF UseRemote, BridgeTypes, bridge
  <2> QED BY <1>5, <2>2, QuietInv DEF UseRemote, bridge
<1> QED BY <1>1, <1>2, <1>3, <1>4, <1>5

--------------------------------------------------------------------------------
(* The steps of the unit.                                                      *)

LEMMA StartUnitInv == ASSUME BInv, StartUnit PROVE BInv'
<1> DEFINE c == <<cycle, "off">>
<1>1. /\ unitCycle < cycle /\ unit \in {"inactive", "failed"}
      /\ unit' = "off" /\ unitCycle' = cycle /\ Link!Connect(c)
      /\ UNCHANGED <<pc, job, cycle, home, uses, unheard>>
  BY DEF StartUnit
<1>2. /\ cycle \in Cycles /\ unitCycle + 1 = cycle
  BY <1>1, BridgeAssumption DEF BInv, BridgeTypes, Cycles
<1>3. c \in Calls BY <1>2, Constants
<1>4. LinkTypes' BY <1>1, <1>3, ConnectTypes DEF BInv
<1>5. /\ ClientInv'
      /\ \A d \in Calls : d # c => call'[d] = call[d] /\ ctl'[d] = ctl[d]
  BY <1>1, <1>3, ConnectMoves DEF BInv
<1>6. BridgeTypes' BY <1>1, <1>2 DEF BInv, BridgeTypes, home, Cycles
<1>7. UnitInv'
  <2>1. ASSUME NEW k \in Cycles, k > unitCycle', NEW n \in {"off", "on1", "on2"}
        PROVE  call'[<<k, n>>] = "idle"
    <3>1. k > unitCycle /\ k # cycle BY <2>1, <1>1, <1>2 DEF Cycles, BInv, BridgeTypes
    <3>2. <<k, n>> \in Calls /\ <<k, n>> # c BY <3>1, Constants
    <3> QED BY <3>1, <3>2, <1>5 DEF BInv, UnitInv
  <2>2. ASSUME NEW k \in Cycles, k < unitCycle' \/ (k = unitCycle' /\ unit' # "off")
        PROVE  Gone(<<k, "off">>)'
    <3>1. (k < unitCycle \/ k = unitCycle) /\ k # cycle
      BY <2>2, <1>1, <1>2 DEF Cycles, BInv, BridgeTypes
    <3>2. <<k, "off">> \in Calls /\ <<k, "off">> # c BY <3>1, Constants
    <3>3. Gone(<<k, "off">>) BY <3>1, <1>1 DEF BInv, UnitInv
    <3> QED BY <3>2, <3>3, <1>5 DEF Gone
  <2>3. ASSUME NEW n \in {"on1", "on2"} PROVE call'[<<cycle, n>>] = "idle"
    <3>1. <<cycle, n>> \in Calls /\ <<cycle, n>> # c BY <1>2, Constants
    <3>2. call[<<cycle, n>>] = "idle" BY <1>1, <1>2 DEF BInv, UnitInv, BridgeTypes, Cycles
    <3> QED BY <3>1, <3>2, <1>5
  <2> QED BY <2>1, <2>2, <2>3, <1>1 DEF UnitInv, Call
<1>8. OrderInv' BY <1>1 DEF OrderInv
<1> QED BY <1>4, <1>5, <1>6, <1>7, <1>8 DEF BInv

\* A step of the unit that starts no client.
LEMMA UnitGoesOn ==
  ASSUME BInv, UnitStarted \/ SuspendTarget \/ UnitStopped \/ StopTimeout
  PROVE  BInv'
<1>1. /\ UNCHANGED <<link, pc, cycle, unitCycle, tv, g_tv_status, offBy, last, uses, unheard>>
      /\ UNCHANGED job \/ (job' = "none" /\ unitCycle = cycle)
      /\ \/ unit = "off" /\ Gone(Call("off")) /\ unit' \in {"active", "failed"}
         \/ unit = "active" /\ unit' = "stopping"
         \/ unit = "failed" /\ UNCHANGED unit
         \/ unit = "on2" /\ unit' = "inactive"
         \/ unit \in {"on1", "on2"} /\ unit' = "failed"
  BY DEF UnitStarted, SuspendTarget, UnitStopped, StopTimeout, Exits, Gone, home
<1>2. /\ LinkTypes' /\ ClientInv' /\ UNCHANGED <<call, ctl, writeQ, toPico>>
  BY <1>1, AllWaits
<1>3. BridgeTypes' BY <1>1 DEF BInv, BridgeTypes
<1>4. UnitInv'
  <2>1. ASSUME NEW k \in Cycles
        PROVE  /\ k > unitCycle' => \A n \in {"off", "on1", "on2"} : call'[<<k, n>>] = "idle"
               /\ k < unitCycle' \/ (k = unitCycle' /\ unit' # "off") => Gone(<<k, "off">>)'
    BY <1>1, <1>2 DEF BInv, UnitInv, Gone, Call
  <2>2. ASSUME unitCycle > 0
        PROVE  /\ unit' \in {"off", "active", "stopping"} => call[Call("on1")] = "idle"
               /\ unit' \in {"off", "active", "stopping", "on1"} => call[Call("on2")] = "idle"
               /\ unit' \in {"on2", "inactive"} => ctl[Call("on1")] = "answered"
    BY <1>1, <2>2 DEF BInv, UnitInv
  <2> QED BY <1>1, <1>2, <2>1, <2>2 DEF UnitInv, Gone, Call
<1>5. OrderInv'
  <2>1. LastCommand' = LastCommand BY <1>1, <1>2 DEF LastCommand, Due
  <2> QED BY <1>1, <1>2, <2>1 DEF BInv, OrderInv, GaveUp, Taken, Call
<1> QED BY <1>2, <1>3, <1>4, <1>5 DEF BInv

\* ExecStop: the unit starts the client of a PWR_ON.
LEMMA StopUnitInv == ASSUME BInv, StopUnit PROVE BInv'
<1>a. /\ LinkTypes /\ BridgeTypes /\ ClientInv /\ UnitInv /\ OrderInv
      /\ UNCHANGED <<pc, job, cycle, unitCycle, tv, g_tv_status, offBy, last, uses, unheard>>
  BY DEF BInv, StopUnit, home
<1>b. unit \in {"stopping", "on1"} BY DEF StopUnit
<1>c. unitCycle > 0 BY <1>a, <1>b DEF BridgeTypes
<1>d. /\ unitCycle \in Cycles
      /\ Call("off") \in Calls /\ Call("on1") \in Calls /\ Call("on2") \in Calls
  BY <1>a, <1>c, ItsCalls
<1>e. Call("off") # Call("on1") /\ Call("off") # Call("on2") /\ Call("on1") # Call("on2")
  BY DEF Call
<1>f. UNCHANGED <<Call("off"), Call("on1"), Call("on2")>> BY <1>a DEF Call
<1> DEFINE Starts(name) ==
      /\ unit' = name /\ Link!Connect(Call(name))
      /\ unit = "stopping" \/ (unit = "on1" /\ ctl[Call("on1")] = "answered")
<1>1. \/ unit = "stopping" /\ Starts("on1")
      \/ unit = "on1" /\ Starts("on2")
  BY DEF StopUnit
<1>2. ASSUME NEW name \in {"on1", "on2"}, Starts(name)
      PROVE  /\ LinkTypes' /\ ClientInv' /\ BridgeTypes'
             /\ \A d \in Calls : d # Call(name) => call'[d] = call[d] /\ ctl'[d] = ctl[d]
             /\ ~Gone(Call(name)) /\ ~Taken(Call(name)) /\ ~Taken(Call(name))'
             /\ \A k \in Cycles : Gone(<<k, "off">>) => Gone(<<k, "off">>)'
             /\ \A k \in Cycles : GaveUp(<<k, "off">>) => GaveUp(<<k, "off">>)'
             /\ LastCommand' = LastCommand
  <2>1. PICK c \in Calls : c = Call(name) BY <1>d
  <2>2. Link!Connect(c) BY <1>2, <2>1
  <2>3. LinkTypes' BY <2>2, <1>a, ConnectTypes
  <2>4. /\ ClientInv'
        /\ \A d \in Calls : d # c => call'[d] = call[d] /\ ctl'[d] = ctl[d]
        /\ ~Gone(c) /\ ~Taken(c) /\ ~Taken(c)'
        /\ UNCHANGED <<writeQ, toPico>>
    BY <2>2, <1>a, ConnectMoves
  <2>5. BridgeTypes' BY <1>2, <1>a, <1>c DEF BridgeTypes
  <2>6. \A k \in Cycles : <<k, "off">> \in Calls /\ <<k, "off">> # Call(name)
    BY Constants DEF Call
  <2>7. LastCommand' = LastCommand BY <2>4, <1>a DEF LastCommand, Due
  <2>8. Call(name)' = c BY <2>1, <1>f
  <2> QED BY <2>1, <2>3, <2>4, <2>5, <2>6, <2>7, <2>8 DEF Gone, GaveUp, Taken
<1>3. ASSUME NEW name \in {"on1", "on2"}, Starts(name)
      PROVE  \A k \in Cycles :
               /\ k > unitCycle' =>
                    \A n \in {"off", "on1", "on2"} : call'[<<k, n>>] = "idle"
               /\ k < unitCycle' \/ (k = unitCycle' /\ unit' # "off") => Gone(<<k, "off">>)'
  <2>1. ASSUME NEW k \in Cycles, k > unitCycle', NEW n \in {"off", "on1", "on2"}
        PROVE  call'[<<k, n>>] = "idle"
    <3>1. k # unitCycle BY <2>1, <1>a, <1>d DEF Cycles
    <3>2. <<k, n>> \in Calls /\ <<k, n>> # Call(name) BY <3>1, Constants DEF Call
    <3> QED BY <3>2, <2>1, <1>2, <1>3, <1>a DEF UnitInv
  <2>2. ASSUME NEW k \in Cycles, k < unitCycle' \/ (k = unitCycle' /\ unit' # "off")
        PROVE  Gone(<<k, "off">>)'
    <3>1. Gone(<<k, "off">>) BY <2>2, <1>a, <1>b DEF UnitInv
    <3> QED BY <3>1, <1>2, <1>3
  <2> QED BY <2>1, <2>2
<1>4. CASE unit = "stopping" /\ Starts("on1")
  <2>1. call[Call("on2")] = "idle" BY <1>4, <1>a, <1>c DEF UnitInv
  <2>2. call'[Call("on2")] = "idle" BY <2>1, <1>2, <1>4, <1>d, <1>e
  <2>3. UnitInv' BY <2>2, <1>3, <1>4, <1>f DEF UnitInv
  <2>4. ~Taken(Call("on1"))' /\ ~Taken(Call("on2"))'
    BY <2>2, <1>2, <1>4, <1>f DEF Taken
  <2>5. OrderInv' BY <2>4 DEF OrderInv
  <2> QED BY <2>3, <2>5, <1>2, <1>4 DEF BInv
<1>5. CASE unit = "on1" /\ Starts("on2")
  <2>1. ctl[Call("on1")] = "answered" BY <1>5
  <2>2. /\ ctl'[Call("on1")'] = "answered"
        /\ Taken(Call("on1"))' <=> Taken(Call("on1"))
    BY <2>1, <1>2, <1>5, <1>d, <1>e, <1>f DEF Taken
  <2>3. UnitInv' BY <2>2, <1>3, <1>5, <1>f DEF UnitInv
  <2>4. ~Taken(Call("on2"))' BY <1>2, <1>5
  <2>5. OrderInv'
    <3> SUFFICES ASSUME \A k \in Cycles : ~GaveUp(<<k, "off">>)', Taken(Call("on1"))'
                 PROVE  LastCommand' = "PWR_ON"
      BY <2>4 DEF OrderInv
    <3>1. \A k \in Cycles : ~GaveUp(<<k, "off">>) BY <1>2, <1>5
    <3>2. LastCommand = "PWR_ON" BY <3>1, <2>2, <1>a, <1>c, <1>5 DEF OrderInv
    <3> QED BY <3>2, <1>2, <1>5
  <2> QED BY <2>3, <2>5, <1>2, <1>5 DEF BInv
<1> QED BY <1>1, <1>4, <1>5

LEMMA UnitStepInv == ASSUME BInv, UnitStep PROVE BInv'
BY StartUnitInv, UnitGoesOn, StopUnitInv DEF UnitStep

--------------------------------------------------------------------------------
(* The steps of the listener.                                                  *)

LEMMA CallInv == ASSUME BInv, NEW c \in Calls, CallStep(c) PROVE BInv'
<1>a. /\ LinkTypes /\ BridgeTypes /\ ClientInv /\ UnitInv /\ OrderInv
      /\ Link!CallStep(c)
      /\ UNCHANGED <<pc, job, cycle, unit, unitCycle, tv, g_tv_status, offBy, last,
                     uses, unheard>>
  BY DEF BInv, CallStep, bridge, home
<1>1. LinkTypes' BY <1>a, CallTypes
<1>2. BridgeTypes' BY <1>a DEF BridgeTypes
<1>3. /\ ClientInv'
      /\ \A d \in Calls : /\ call'[d] = "idle" <=> call[d] = "idle"
                          /\ Gone(d) => ctl'[d] = ctl[d]
      /\ \/ /\ UNCHANGED <<writeQ, toPico>>
            /\ \A d \in Calls : Taken(d)' <=> Taken(d)
         \/ /\ call[c] = "locking" /\ UNCHANGED <<toPico, ctl>>
            /\ writeQ' = Append(writeQ, c)
  BY <1>a, CallMoves
<1>4. UnitInv' BY <1>a, <1>3, UnitWaits
<1>5. OrderInv'
  <2> SUFFICES ASSUME unitCycle' > 0, unit' \in {"on1", "on2", "inactive"},
                      \A k \in Cycles : ~GaveUp(<<k, "off">>)',
                      Taken(Call("on1"))' \/ Taken(Call("on2"))'
               PROVE  LastCommand' = "PWR_ON"
    BY DEF OrderInv
  <2>0. unitCycle > 0 /\ unit \in {"on1", "on2", "inactive"} BY <1>a
  <2>1. ASSUME NEW k \in Cycles PROVE ~GaveUp(<<k, "off">>)
    <3>1. <<k, "off">> \in Calls BY Constants
    <3> QED BY <3>1, <1>3 DEF GaveUp, Gone
  <2>2. CASE UNCHANGED <<writeQ, toPico>> /\ \A d \in Calls : Taken(d)' <=> Taken(d)
    <3>1. Taken(Call("on1")) \/ Taken(Call("on2"))
      BY <2>0, <2>2, <1>a, ItsCalls DEF Call, Taken
    <3>2. LastCommand = "PWR_ON" BY <2>0, <2>1, <3>1, <1>a DEF OrderInv
    <3> QED BY <2>2, <3>2, <1>a DEF LastCommand, Due
  <2>3. CASE call[c] = "locking" /\ writeQ' = Append(writeQ, c)
    <3>1. LastCommand' = cmd[c] BY <2>3, <1>a, <1>1, AcquireSetsLast DEF LinkTypes
    <3>2. c[2] # "off"
      <4> SUFFICES ASSUME c[2] = "off" PROVE FALSE OBVIOUS
      <4> DEFINE k == c[1]
      <4>1. k \in Cycles /\ c = <<k, "off">> BY Constants
      <4>2. ~(k > unitCycle) BY <4>1, <2>3, <1>a DEF UnitInv
      <4>3. k < unitCycle \/ k = unitCycle
        BY <4>1, <4>2, <1>a DEF Cycles, BridgeTypes
      <4>4. Gone(c) BY <4>1, <4>3, <2>0, <1>a DEF UnitInv
      <4>5. ctl[c] # "answered" BY <2>3, <1>a DEF ClientInv
      <4> QED BY <4>1, <4>4, <4>5, <2>1 DEF Gone, GaveUp
    <3> QED BY <3>1, <3>2, Constants
  <2> QED BY <2>2, <2>3, <1>3
<1> QED BY <1>1, <1>2, <1>3, <1>4, <1>5 DEF BInv

LEMMA SerialInv == ASSUME BInv, SerialStep \/ HandleStandby PROVE BInv'
<1>1. /\ Link!SerialStep
      /\ UNCHANGED <<unit, unitCycle, last>>
  BY DEF SerialStep, HandleStandby, Link!SerialStep, bridge, home
<1>2. LinkTypes' BY <1>1, SerialTypes DEF BInv
<1>3. UNCHANGED <<call, ctl>> BY <1>1, SerialFrame
<1>4. LastCommand' = LastCommand BY <1>1, <1>2, SerialKeepsLast DEF BInv, LinkTypes
<1>5. BridgeTypes'
  <2>1. CASE SerialStep
    BY <2>1 DEF SerialStep, Drops, BInv, BridgeTypes, bridge, home
  <2>2. CASE HandleStandby /\ Suspend
    BY <2>2, SuspendTypes DEF HandleStandby, Suspend, BInv, BridgeTypes, home
  <2>3. CASE HandleStandby /\ UNCHANGED <<job, cycle>>
    BY <2>3 DEF HandleStandby, Suspend, BInv, BridgeTypes, home
  <2> QED BY <2>1, <2>2, <2>3 DEF HandleStandby
<1> QED BY <1>1, <1>2, <1>3, <1>4, <1>5, LinkWaits DEF BInv

--------------------------------------------------------------------------------
(* The steps of the Pico.                                                      *)

LEMMA ExecuteInv == ASSUME BInv, Execute PROVE BInv'
<1> DEFINE c == Head(toPico)
<1>1. /\ toPico # <<>> /\ toPico' = Tail(toPico) /\ last' = cmd[c]
      /\ Says(Link!Answer(c))
      /\ UNCHANGED <<events, pc, job, cycle, unit, unitCycle, uses, unheard>>
  BY DEF Execute, bridge
<1>2. toPico \in Seq(Calls) /\ events \in 0..MaxEvents
  BY DEF BInv, LinkTypes, QueueTypes
<1>3. c \in Calls /\ toPico' \in Seq(Calls) BY <1>1, <1>2
<1>4. Link!Answer(c) \in PicoLines BY <1>3 DEF PicoLines, Answers
<1>5. /\ LinkTypes' /\ UNCHANGED <<call, ctl, writeQ>>
  BY <1>1, <1>2, <1>3, <1>4, SaysTypes DEF BInv
<1>6. LastCommand' = LastCommand
  BY <1>1, <1>5, ExecuteKeepsLast DEF BInv, LinkTypes
<1>7. last' \in Commands BY <1>1, <1>3, Constants
<1>8. /\ tv' \in {"on", "standby"} /\ g_tv_status' \in {"unknown", "on", "standby"}
      /\ offBy' \in {"nobody", "pc", "remote"}
  BY DEF Execute, BInv, BridgeTypes
<1>9. BridgeTypes' BY <1>1, <1>7, <1>8 DEF BInv, BridgeTypes
<1> QED BY <1>1, <1>5, <1>6, <1>9, LinkWaits DEF BInv

LEMMA NoticeStandbyInv == ASSUME BInv, NoticeStandby PROVE BInv'
<1>1. /\ events < MaxEvents /\ events' = events + 1 /\ g_tv_status' = "standby"
      /\ Says(Link!Standby)
      /\ unheard' = (unheard \/ Standbys(fromPico') = Standbys(fromPico))
      /\ UNCHANGED <<toPico, tv, offBy, last, pc, job, cycle, unit, unitCycle, uses>>
  BY DEF NoticeStandby, bridge
<1>2. toPico \in Seq(Calls) /\ events \in 0..MaxEvents
  BY DEF BInv, LinkTypes, QueueTypes
<1>3. toPico' \in Seq(Calls) /\ events' \in 0..MaxEvents /\ Link!Standby \in PicoLines
  BY <1>1, <1>2, BridgeAssumption DEF PicoLines
<1>4. /\ LinkTypes' /\ UNCHANGED <<call, ctl, writeQ>>
  BY <1>1, <1>3, SaysTypes DEF BInv
<1>5. LastCommand' = LastCommand BY <1>1, <1>4 DEF LastCommand, Due
<1>6. BridgeTypes' BY <1>1 DEF BInv, BridgeTypes
<1> QED BY <1>1, <1>4, <1>5, <1>6, LinkWaits DEF BInv

--------------------------------------------------------------------------------
LEMMA InitInv == Init => BInv
<1> SUFFICES ASSUME Init PROVE BInv OBVIOUS
<1>1. Link!Init /\ unit = "inactive" /\ unitCycle = 0
  BY DEF Init
<1>2. ThreadTypes BY <1>1, Constants DEF Link!Init, ThreadTypes
<1>3. QueueTypes BY <1>1, BridgeAssumption DEF Link!Init, QueueTypes
<1>4. BridgeTypes
  <2>1. /\ pc = "awake" /\ job = "none" /\ cycle = 0 /\ uses = 0
        /\ tv \in {"on", "standby"} /\ g_tv_status \in {"on", "unknown"}
        /\ offBy = "nobody" /\ last = "PWR_ON" /\ unheard = FALSE
    BY DEF Init
  <2>2. 0 \in 0..MaxCycles /\ 0 \in 0..MaxUses BY BridgeAssumption
  <2>3. last \in Commands BY <2>1 DEF Commands
  <2> QED BY <1>1, <2>1, <2>2, <2>3 DEF BridgeTypes
<1>5. ClientInv BY <1>1 DEF Link!Init, ClientInv
<1>6. UnitInv
  <2>1. ASSUME NEW k \in Cycles, NEW n \in {"off", "on1", "on2"}
        PROVE  call[<<k, n>>] = "idle"
    BY <1>1, Constants DEF Link!Init
  <2>2. \A k \in Cycles : ~(k < 0) /\ k # 0 BY DEF Cycles
  <2> QED BY <1>1, <2>1, <2>2 DEF UnitInv
<1>7. OrderInv BY <1>1 DEF OrderInv
<1> QED BY <1>2, <1>3, <1>4, <1>5, <1>6, <1>7 DEF BInv, LinkTypes

LEMMA NextInv == ASSUME BInv, [Next]_vars PROVE BInv'
<1>1. CASE UNCHANGED vars
  <2>1. UNCHANGED link /\ BridgeTypes' /\ UNCHANGED <<unit, unitCycle, last>>
    BY <1>1 DEF vars, bridge, home, BInv, BridgeTypes
  <2> QED BY <2>1, QuietInv
<1>2. CASE Next
  BY <1>2, DaylightInv, UnitStepInv, CallInv, SerialInv, ExecuteInv, NoticeStandbyInv
     DEF Next
<1> QED BY <1>1, <1>2

\* The invariant, for any number of suspends, uses and events.
THEOREM Invariance == Spec => []BInv
BY InitInv, NextInv, PTL DEF Spec

(***************************************************************************)
(* Every variable keeps its type, those of PicoLink among them: a reply    *)
(* queue holds one reply at most, and the unit has been started in the     *)
(* cycle of the last job of systemctl suspend or in the one before.        *)
(***************************************************************************)
THEOREM TypeCorrect == Spec => []TypeOK
<1>1. ASSUME BInv PROVE TypeOK
  <2>1. \A c \in Calls : Len(replyQ[c]) \in 0..1
    <3>1. \A r : Len(<<r>>) = 1 /\ Len(<<>>) = 0 OBVIOUS
    <3> QED BY <3>1, <1>1 DEF BInv, LinkTypes, QueueTypes
  <2>2. Link!TypeOK
    <3>1. losses \in 0..MaxLosses BY <1>1, Constants DEF BInv, LinkTypes, QueueTypes
    <3>2. broken \in BOOLEAN BY <1>1 DEF BInv, LinkTypes, QueueTypes
    <3> QED BY <2>1, <3>1, <3>2, <1>1
            DEF BInv, LinkTypes, ThreadTypes, QueueTypes, Link!TypeOK
  <2>3. unitCycle \in {cycle - 1, cycle} BY <1>1 DEF BInv, BridgeTypes
  <2> QED BY <2>2, <2>3, <1>1 DEF BInv, BridgeTypes, TypeOK
<1> QED BY <1>1, Invariance, PTL

(***************************************************************************)
(* Whatever the number of suspends, and wherever the PC falls asleep in    *)
(* them: once ExecStop is over, the last command of all that were queued   *)
(* is PWR_ON.  The premise is about calls whose client gave up: such a     *)
(* call still waits for the lock, in no order.                             *)
(***************************************************************************)
THEOREM EndsOn == Spec => []EndsWithPwrOn
<1>1. ASSUME BInv PROVE EndsWithPwrOn
  <2> SUFFICES ASSUME unit = "inactive", unitCycle > 0,
                      \A k \in Cycles : ~GaveUp(<<k, "off">>)
               PROVE  LastCommand = "PWR_ON"
    BY DEF EndsWithPwrOn
  <2>1. ctl[Call("on1")] = "answered" BY <1>1 DEF BInv, UnitInv
  <2>2. Call("on1") \in Calls BY <1>1, ItsCalls DEF BInv
  <2>3. Taken(Call("on1")) BY <2>1, <2>2, <1>1 DEF BInv, ClientInv, Taken
  <2> QED BY <2>3, <1>1 DEF BInv, OrderInv
<1> QED BY <1>1, Invariance, PTL
================================================================================
