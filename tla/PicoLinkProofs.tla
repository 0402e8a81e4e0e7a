----------------------------- MODULE PicoLinkProofs -----------------------------
(***************************************************************************)
(* Proof that the serial thread of PicoLink never blocks, for any number   *)
(* of calls, commands, link losses and events.                             *)
(*                                                                         *)
(* The reply queue of a call is in one place only at a time: on the write  *)
(* queue, registered in _pending, or done with.  Only a reply queue that   *)
(* leaves one of the first two is offered a reply, so it is still empty.   *)
(***************************************************************************)
EXTENDS PicoLink, TLAPS

Lines == [kind : {"standby", "answer", "link_error"}, for : Calls \cup {None}]

Types ==
  /\ writeQ \in Seq(Calls) /\ toPico \in Seq(Calls)
  /\ pending \in [Commands -> Calls \cup {None}]
  /\ replyQ \in [Calls -> Seq(Lines)]
  /\ fromPico \in Seq(Lines)
  /\ \A i \in 1..Len(fromPico) :
        fromPico[i].kind = "answer" => fromPico[i].for \in Calls
  /\ DOMAIN call = Calls

\* No call is on the write queue twice.
QueuedOnce ==
  \A i, j \in 1..Len(writeQ) : writeQ[i] = writeQ[j] => i = j

\* A call on the write queue has taken the lock, and nothing was done for it yet.
QueuedIsFresh ==
  \A i \in 1..Len(writeQ) :
    /\ call[writeQ[i]] \notin {"idle", "locking"}
    /\ replyQ[writeQ[i]] = <<>>
    /\ \A name \in Commands : pending[name] # writeQ[i]

\* A registered call is registered under its command, and waits for its reply.
PendingIsFresh ==
  \A name \in Commands :
    pending[name] # None =>
      /\ cmd[pending[name]] = name
      /\ call[pending[name]] \notin {"idle", "locking"}
      /\ replyQ[pending[name]] = <<>>

\* Nothing was done for a call that has not taken the lock.
NewIsFresh ==
  \A c \in Calls : call[c] \in {"idle", "locking"} => replyQ[c] = <<>>

IInv ==
  /\ Types
  /\ QueuedOnce
  /\ QueuedIsFresh
  /\ PendingIsFresh
  /\ NewIsFresh
  /\ SerialThreadNeverBlocks

--------------------------------------------------------------------------------

\* The initial states.
LEMMA InitInv == Init => IInv
BY LinkAssumption
DEF Init, IInv, Types, QueuedOnce, QueuedIsFresh, PendingIsFresh, NewIsFresh,
    SerialThreadNeverBlocks, Lines

\* Taking the lock and queueing the command.
LEMMA AcquireInv == ASSUME IInv, NEW c \in Calls, Acquire(c) PROVE IInv'
<1> USE LinkAssumption DEF IInv
<1>1. /\ Len(writeQ') = Len(writeQ) + 1
      /\ \A i \in 1..Len(writeQ) : writeQ'[i] = writeQ[i]
      /\ writeQ'[Len(writeQ) + 1] = c
      /\ writeQ' \in Seq(Calls)
      /\ Len(writeQ) \in Nat
  BY DEF Types, Acquire
<1>2. /\ call[c] = "locking" /\ call' = [call EXCEPT ![c] = "waiting"]
      /\ UNCHANGED <<replyQ, pending, fromPico, toPico, serial>>
  BY DEF Acquire, pico
<1>3. \A i \in 1..Len(writeQ) : writeQ[i] # c
  BY <1>2 DEF QueuedIsFresh
<1>4. Types' BY <1>1, <1>2 DEF Types
<1>5. QueuedOnce' BY <1>1, <1>3 DEF QueuedOnce
<1>6. \A name \in Commands : pending[name] # c
  BY <1>2 DEF PendingIsFresh
<1>7. QueuedIsFresh'
  <2> SUFFICES ASSUME NEW i \in 1..Len(writeQ')
               PROVE /\ call'[writeQ'[i]] \notin {"idle", "locking"}
                     /\ replyQ'[writeQ'[i]] = <<>>
                     /\ \A name \in Commands : pending'[name] # writeQ'[i]
    BY DEF QueuedIsFresh
  <2>1. CASE i = Len(writeQ) + 1
    BY <2>1, <1>1, <1>2, <1>6 DEF NewIsFresh, Types
  <2>2. CASE i \in 1..Len(writeQ)
    <3>1. writeQ[i] # c BY <1>3, <2>2
    <3>2. writeQ[i] \in Calls BY <2>2 DEF Types
    <3> QED BY <2>2, <3>1, <3>2, <1>1, <1>2 DEF QueuedIsFresh, Types
  <2> QED BY <1>1, <2>1, <2>2
<1>8. PendingIsFresh' BY <1>2, <1>6 DEF PendingIsFresh, Types
<1>9. NewIsFresh' BY <1>2 DEF NewIsFresh, Types
<1> QED BY <1>2, <1>4, <1>5, <1>7, <1>8, <1>9 DEF SerialThreadNeverBlocks

\* A step that only lets a call go on, or registers less, keeps everything fresh.
LEMMA CallGoesOn ==
  ASSUME IInv, NEW c \in Calls, NEW to \in {"locking", "expired", "done"},
         call' = [call EXCEPT ![c] = to],
         to = "locking" => call[c] = "idle",
         UNCHANGED <<writeQ, replyQ, fromPico, toPico, serial>>,
         pending' \in [Commands -> Calls \cup {None}],
         \A name \in Commands : pending'[name] \in {pending[name], None},
         call[c] \in {"idle", "locking"} => to = "locking"
  PROVE IInv'
<1>1. Types' BY DEF IInv, Types
<1>2. \A d \in Calls : call'[d] \in {"idle", "locking"} =>
                         call[d] \in {"idle", "locking"}
  BY DEF IInv, Types
<1>3. QueuedOnce' BY DEF IInv, QueuedOnce
<1>4. \A i \in 1..Len(writeQ) : writeQ[i] \in Calls BY DEF IInv, Types
<1>5. QueuedIsFresh'
  BY <1>2, <1>4, LinkAssumption DEF IInv, QueuedIsFresh
<1>6. PendingIsFresh'
  BY <1>2, LinkAssumption DEF IInv, PendingIsFresh, Types
<1>7. NewIsFresh' BY <1>2 DEF IInv, NewIsFresh
<1> QED BY <1>1, <1>3, <1>5, <1>6, <1>7 DEF IInv, SerialThreadNeverBlocks

\* Taking the reply from the queue.
LEMMA GetReplyInv == ASSUME IInv, NEW c \in Calls, GetReply(c) PROVE IInv'
<1>1. /\ replyQ[c] # <<>> /\ call[c] = "waiting"
      /\ replyQ' = [replyQ EXCEPT ![c] = Tail(@)]
      /\ call' = [call EXCEPT ![c] = "done"]
      /\ UNCHANGED <<writeQ, pending, fromPico, toPico, serial>>
  BY DEF GetReply, Return, pico
<1>2. replyQ' \in [Calls -> Seq(Lines)] BY <1>1 DEF IInv, Types
<1>3. Types' BY <1>1, <1>2 DEF IInv, Types
<1>4. \A d \in Calls \ {c} : replyQ'[d] = replyQ[d] /\ call'[d] = call[d]
  BY <1>1 DEF IInv, Types
<1>5. \A i \in 1..Len(writeQ) : writeQ[i] \in Calls \ {c}
  BY <1>1 DEF IInv, QueuedIsFresh, Types
<1>6. QueuedIsFresh' BY <1>1, <1>4, <1>5 DEF IInv, QueuedIsFresh
<1>7. \A name \in Commands : pending[name] # c
  BY <1>1, LinkAssumption DEF IInv, PendingIsFresh
<1>8. PendingIsFresh' BY <1>1, <1>4, <1>7 DEF IInv, PendingIsFresh, Types
<1>9. NewIsFresh'
  <2>1. call'[c] = "done" BY <1>1 DEF IInv, Types
  <2> QED BY <2>1, <1>4 DEF IInv, NewIsFresh
<1>10. QueuedOnce' BY <1>1 DEF IInv, QueuedOnce
<1> QED BY <1>1, <1>3, <1>6, <1>8, <1>9, <1>10 DEF IInv, SerialThreadNeverBlocks

\* The head of the write queue is taken off it: what is left, and that it is not c.
LEMMA Dequeue ==
  ASSUME IInv, writeQ # <<>>
  PROVE /\ Head(writeQ) \in Calls
        /\ Tail(writeQ) \in Seq(Calls)
        /\ \A i \in 1..Len(Tail(writeQ)) :
              /\ Tail(writeQ)[i] = writeQ[i + 1] /\ i + 1 \in 1..Len(writeQ)
              /\ Tail(writeQ)[i] # Head(writeQ)
              /\ Tail(writeQ)[i] \in Calls
        /\ \A i, j \in 1..Len(Tail(writeQ)) :
              Tail(writeQ)[i] = Tail(writeQ)[j] => i = j
        /\ replyQ[Head(writeQ)] = <<>>
        /\ call[Head(writeQ)] \notin {"idle", "locking"}
        /\ \A name \in Commands : pending[name] # Head(writeQ)
<1>1. writeQ \in Seq(Calls) BY DEF IInv, Types
<1>2. /\ Len(writeQ) \in Nat \ {0} /\ Head(writeQ) = writeQ[1]
      /\ Len(Tail(writeQ)) = Len(writeQ) - 1
      /\ Tail(writeQ) \in Seq(Calls)
      /\ \A i \in 1..Len(Tail(writeQ)) : Tail(writeQ)[i] = writeQ[i + 1]
  BY <1>1
<1>3. 1 \in 1..Len(writeQ) BY <1>2
<1>4. \A i \in 1..Len(Tail(writeQ)) : i + 1 \in 1..Len(writeQ) /\ i + 1 # 1
  BY <1>2
<1>5. \A i \in 1..Len(Tail(writeQ)) : Tail(writeQ)[i] # Head(writeQ)
  BY <1>2, <1>3, <1>4 DEF IInv, QueuedOnce
<1>6. \A i, j \in 1..Len(Tail(writeQ)) : Tail(writeQ)[i] = Tail(writeQ)[j] => i = j
  <2> TAKE i, j \in 1..Len(Tail(writeQ))
  <2> HAVE Tail(writeQ)[i] = Tail(writeQ)[j]
  <2>1. i + 1 = j + 1 BY <1>2, <1>4 DEF IInv, QueuedOnce
  <2> QED BY <2>1
<1> QED BY <1>1, <1>2, <1>3, <1>4, <1>5, <1>6 DEF IInv, QueuedIsFresh

\* Writing a command.
LEMMA SendNowInv == ASSUME IInv, SendNow PROVE IInv'
<1> DEFINE h == Head(writeQ)
<1>1. /\ writeQ # <<>> /\ writeQ' = Tail(writeQ)
      /\ pending' = [pending EXCEPT ![cmd[h]] = h]
      /\ toPico' = Append(toPico, h)
      /\ UNCHANGED <<call, replyQ, fromPico, serial>>
  BY DEF SendNow, threads
<1>2. h \in Calls /\ cmd[h] \in Commands
  BY <1>1, Dequeue, LinkAssumption
<1>3. Types'
  <2>1. toPico' \in Seq(Calls) BY <1>1, <1>2 DEF IInv, Types
  <2>2. writeQ' \in Seq(Calls) BY <1>1, Dequeue
  <2> QED BY <2>1, <2>2, <1>1, <1>2 DEF IInv, Types
<1>4. \A name \in Commands : pending'[name] = IF name = cmd[h] THEN h ELSE pending[name]
  BY <1>1 DEF IInv, Types
<1>5. QueuedOnce' BY <1>1, Dequeue DEF QueuedOnce
<1>6. QueuedIsFresh'
  BY <1>1, <1>4, Dequeue DEF IInv, QueuedIsFresh
<1>7. PendingIsFresh'
  BY <1>1, <1>2, <1>4, Dequeue DEF IInv, PendingIsFresh
<1>8. NewIsFresh' BY <1>1 DEF IInv, NewIsFresh
<1> QED BY <1>1, <1>3, <1>5, <1>6, <1>7, <1>8 DEF IInv, SerialThreadNeverBlocks

\* Offering a reply to a call whose queue is empty and that is in no other place.
LEMMA PutInv ==
  ASSUME IInv, NEW c \in Calls, NEW r \in Lines,
         Put(c, r, "flush"), replyQ[c] = <<>>,
         call[c] \notin {"idle", "locking"},
         UNCHANGED call,
         toPico' \in Seq(Calls), fromPico' \in Seq(Lines),
         \A i \in 1..Len(fromPico') :
            fromPico'[i].kind = "answer" => fromPico'[i].for \in Calls,
         writeQ' \in Seq(Calls), QueuedOnce',
         \A i \in 1..Len(writeQ') : \E j \in 1..Len(writeQ) : writeQ'[i] = writeQ[j],
         \A i \in 1..Len(writeQ') : writeQ'[i] # c,
         pending' \in [Commands -> Calls \cup {None}],
         \A name \in Commands : pending'[name] \in {pending[name], None} \ {c}
  PROVE IInv'
<1>1. serial' = "flush" /\ replyQ' = [replyQ EXCEPT ![c] = <<r>>]
  BY DEF Put
<1>2. Types'
  <2>1. <<r>> \in Seq(Lines) OBVIOUS
  <2>2. replyQ' \in [Calls -> Seq(Lines)] BY <2>1, <1>1 DEF IInv, Types
  <2> QED BY <2>2 DEF IInv, Types
<1>3. \A d \in Calls \ {c} : replyQ'[d] = replyQ[d] BY <1>1 DEF IInv, Types
<1>4. QueuedIsFresh'
  <2> SUFFICES ASSUME NEW i \in 1..Len(writeQ')
               PROVE /\ call'[writeQ'[i]] \notin {"idle", "locking"}
                     /\ replyQ'[writeQ'[i]] = <<>>
                     /\ \A name \in Commands : pending'[name] # writeQ'[i]
    BY DEF QueuedIsFresh
  <2>0. /\ \E j \in 1..Len(writeQ) : writeQ'[i] = writeQ[j]
        /\ writeQ'[i] # c
    BY Zenon
  <2>1. PICK j \in 1..Len(writeQ) : writeQ'[i] = writeQ[j] BY <2>0, Zenon
  <2>a. writeQ[j] \in Calls BY DEF IInv, Types
  <2>2. writeQ[j] \in Calls \ {c} BY <2>a, <2>0, <2>1, Zenon
  <2>3. writeQ[j] # None BY <2>2, LinkAssumption
  <2>4. /\ call[writeQ[j]] \notin {"idle", "locking"}
        /\ replyQ[writeQ[j]] = <<>>
        /\ \A name \in Commands : pending[name] # writeQ[j]
    BY Zenon DEF IInv, QueuedIsFresh
  <2>5. call'[writeQ'[i]] \notin {"idle", "locking"} BY <2>1, <2>4, Zenon
  <2>6. replyQ'[writeQ'[i]] = <<>> BY <2>1, <2>2, <2>4, <1>3, Zenon
  <2>7. \A name \in Commands : pending'[name] # writeQ'[i]
    <3> TAKE name \in Commands
    <3>1. pending'[name] = pending[name] \/ pending'[name] = None BY Zenon
    <3> QED BY <3>1, <2>1, <2>3, <2>4, Zenon
  <2> QED BY <2>5, <2>6, <2>7, Zenon
<1>5. PendingIsFresh'
  <2> SUFFICES ASSUME NEW name \in Commands, pending'[name] # None
               PROVE /\ cmd[pending'[name]] = name
                     /\ call'[pending'[name]] \notin {"idle", "locking"}
                     /\ replyQ'[pending'[name]] = <<>>
    BY DEF PendingIsFresh
  <2>1. pending'[name] = pending[name] /\ pending[name] # c OBVIOUS
  <2>2. pending[name] \in Calls \ {c} BY <2>1 DEF IInv, Types
  <2> QED BY <2>1, <2>2, <1>3 DEF IInv, PendingIsFresh
<1>6. NewIsFresh' BY <1>3 DEF IInv, NewIsFresh
<1> QED BY <1>1, <1>2, <1>4, <1>5, <1>6 DEF IInv, SerialThreadNeverBlocks

\* A write that fails.
LEMMA SendFailsInv == ASSUME IInv, SendFails PROVE IInv'
<1> DEFINE h == Head(writeQ)
<1>1. /\ writeQ # <<>> /\ writeQ' = Tail(writeQ)
      /\ pending' = [pending EXCEPT ![cmd[h]] = None]
      /\ Put(h, LinkError, "flush")
      /\ toPico' \in {toPico, Append(toPico, h)}
      /\ UNCHANGED <<call, fromPico>>
  BY DEF SendFails, threads
<1>2. /\ h \in Calls /\ replyQ[h] = <<>>
      /\ call[h] \notin {"idle", "locking"}
      /\ \A name \in Commands : pending[name] # h
  BY <1>1, Dequeue
<1>3. LinkError \in Lines BY DEF LinkError, Lines
<1>4. toPico' \in Seq(Calls)
  <2>1. toPico \in Seq(Calls) BY DEF IInv, Types
  <2>2. Append(toPico, h) \in Seq(Calls) BY <1>2, <2>1
  <2> QED BY <1>1, <2>1, <2>2, Zenon
<1>5. /\ fromPico' \in Seq(Lines)
      /\ \A i \in 1..Len(fromPico') :
            fromPico'[i].kind = "answer" => fromPico'[i].for \in Calls
  BY <1>1 DEF IInv, Types
<1>6. writeQ' \in Seq(Calls) /\ QueuedOnce' BY <1>1, Dequeue DEF QueuedOnce
<1>7. /\ \A i \in 1..Len(writeQ') : \E j \in 1..Len(writeQ) : writeQ'[i] = writeQ[j]
      /\ \A i \in 1..Len(writeQ') : writeQ'[i] # h
  BY <1>1, Dequeue
<1>8. /\ pending' \in [Commands -> Calls \cup {None}]
      /\ \A name \in Commands : pending'[name] \in {pending[name], None}
      /\ \A name \in Commands : pending'[name] # h
  <2>1. h # None BY <1>2, LinkAssumption
  <2> QED BY <1>1, <1>2, <2>1 DEF IInv, Types
<1> QED BY <1>1, <1>2, <1>3, <1>4, <1>5, <1>6, <1>7, <1>8, PutInv

\* Reading a line: what is left on the way.
LEMMA ReadAnyFacts ==
  ASSUME IInv, ReadAny
  PROVE /\ fromPico' \in Seq(Lines)
        /\ \A i \in 1..Len(fromPico') :
              fromPico'[i].kind = "answer" => fromPico'[i].for \in Calls
        /\ Head(fromPico) \in Lines
        /\ Head(fromPico).kind = "answer" => Head(fromPico).for \in Calls
        /\ UNCHANGED <<call, writeQ, toPico>>
<1>1. /\ fromPico \in Seq(Lines) /\ fromPico # <<>> /\ fromPico' = Tail(fromPico)
      /\ UNCHANGED <<call, writeQ, toPico>>
  BY DEF IInv, Types, ReadAny, threads
<1>2. /\ Len(fromPico) \in Nat \ {0} /\ Head(fromPico) = fromPico[1]
      /\ Len(Tail(fromPico)) = Len(fromPico) - 1
      /\ Tail(fromPico) \in Seq(Lines)
      /\ \A i \in 1..Len(Tail(fromPico)) : Tail(fromPico)[i] = fromPico[i + 1]
  BY <1>1
<1>3. \A i \in 1..Len(Tail(fromPico)) : i + 1 \in 1..Len(fromPico) BY <1>2
<1>4. 1 \in 1..Len(fromPico) BY <1>2
<1> QED BY <1>1, <1>2, <1>3, <1>4 DEF IInv, Types

\* Dispatching an answer.
LEMMA DispatchReplyInv == ASSUME IInv, DispatchReply PROVE IInv'
<1> DEFINE name == cmd[Head(fromPico).for]
<1>1. /\ ReadAny /\ Head(fromPico).kind = "answer"
      /\ pending' = [pending EXCEPT ![name] = None]
      /\ IF pending[name] # None
         THEN Put(pending[name], Head(fromPico), "flush")
         ELSE serial' = "flush" /\ UNCHANGED replyQ
  BY DEF DispatchReply
<1>2. /\ fromPico' \in Seq(Lines)
      /\ \A i \in 1..Len(fromPico') :
            fromPico'[i].kind = "answer" => fromPico'[i].for \in Calls
      /\ Head(fromPico) \in Lines /\ Head(fromPico).for \in Calls
      /\ UNCHANGED <<call, writeQ, toPico>>
  BY <1>1, ReadAnyFacts
<1>3. name \in Commands BY <1>2, LinkAssumption
<1>4. /\ pending' \in [Commands -> Calls \cup {None}]
      /\ \A n \in Commands : pending'[n] = IF n = name THEN None ELSE pending[n]
  BY <1>1 DEF IInv, Types
<1>5. toPico' \in Seq(Calls) /\ writeQ' \in Seq(Calls) /\ QueuedOnce'
  BY <1>2 DEF IInv, Types, QueuedOnce
<1>6. CASE pending[name] # None
  <2> DEFINE c == pending[name]
  <2>1. c \in Calls /\ cmd[c] = name /\ replyQ[c] = <<>>
        /\ call[c] \notin {"idle", "locking"}
    BY <1>3, <1>6 DEF IInv, Types, PendingIsFresh
  <2>2. \A n \in Commands : pending'[n] # c
    <3> TAKE n \in Commands
    <3>1. CASE n = name BY <3>1, <1>4, <1>6
    <3>2. CASE n # name
      <4>1. pending[n] = c => cmd[c] = n BY <1>6 DEF IInv, PendingIsFresh
      <4> QED BY <4>1, <3>2, <1>4, <2>1
    <3> QED BY <3>1, <3>2
  <2>3. \A i \in 1..Len(writeQ') : writeQ'[i] # c
    BY <1>2, <1>3 DEF IInv, QueuedIsFresh
  <2>4. \A i \in 1..Len(writeQ') : \E j \in 1..Len(writeQ) : writeQ'[i] = writeQ[j]
    BY <1>2
  <2>5. \A n \in Commands : pending'[n] \in {pending[n], None} BY <1>4
  <2>6. Put(c, Head(fromPico), "flush") BY <1>1, <1>6
  <2>7. UNCHANGED call BY <1>2
  <2> HIDE DEF c, name
  <2> QED BY <1>2, <1>4, <1>5, <2>1, <2>2, <2>3, <2>4, <2>5, <2>6, <2>7, PutInv
<1>7. CASE pending[name] = None
  <2>1. serial' = "flush" /\ UNCHANGED replyQ BY <1>1, <1>7
  <2>2. pending' = pending BY <1>4, <1>7, <1>3 DEF IInv, Types
  <2>3. Types' BY <2>1, <2>2, <1>2 DEF IInv, Types
  <2> QED BY <2>1, <2>2, <2>3, <1>2
      DEF IInv, QueuedOnce, QueuedIsFresh, PendingIsFresh, NewIsFresh,
          SerialThreadNeverBlocks
<1> QED BY <1>6, <1>7

\* Steps that touch none of the reply queues and registrations.
LEMMA FrameInv ==
  ASSUME IInv,
         UNCHANGED <<call, writeQ, replyQ, pending>>,
         toPico' \in Seq(Calls), fromPico' \in Seq(Lines),
         \A i \in 1..Len(fromPico') :
            fromPico'[i].kind = "answer" => fromPico'[i].for \in Calls,
         serial' # "blocked"
  PROVE IInv'
BY DEF IInv, Types, QueuedOnce, QueuedIsFresh, PendingIsFresh, NewIsFresh,
       SerialThreadNeverBlocks

\* The other steps of the serial thread.
LEMMA SerialRestInv ==
  ASSUME IInv,
         \/ OpenPort \/ FlushDone \/ ReadTimeout \/ ReadFails
         \/ HandleStandby \/ SplitLine \/ SuspendReturns
  PROVE IInv'
<1>t. /\ toPico \in Seq(Calls) /\ fromPico \in Seq(Lines)
      /\ \A i \in 1..Len(fromPico) :
            fromPico[i].kind = "answer" => fromPico[i].for \in Calls
  BY DEF IInv, Types
<1>1. CASE OpenPort
  <2>1. /\ fromPico' = <<>> /\ serial' = "flush"
        /\ UNCHANGED <<call, writeQ, replyQ, pending, toPico>>
    BY <1>1 DEF OpenPort, threads
  <2>2. fromPico' \in Seq(Lines) /\ Len(fromPico') = 0 BY <2>1
  <2>3. 1..Len(fromPico') = {} BY <2>2
  <2> QED BY <2>1, <2>2, <2>3, <1>t, FrameInv
<1>2. CASE FlushDone \/ ReadTimeout \/ ReadFails \/ SuspendReturns
  <2>1. /\ serial' # "blocked"
        /\ UNCHANGED <<call, writeQ, replyQ, pending, toPico, fromPico>>
    BY <1>2 DEF FlushDone, ReadTimeout, ReadFails, SuspendReturns, threads, pico
  <2> QED BY <2>1, <1>t, FrameInv
<1>3. CASE HandleStandby \/ SplitLine
  <2>1. ReadAny /\ serial' # "blocked" /\ UNCHANGED <<replyQ, pending>>
    BY <1>3 DEF HandleStandby, SplitLine
  <2> QED BY <2>1, <1>t, ReadAnyFacts, FrameInv
<1> QED BY <1>1, <1>2, <1>3

\* A line of the Pico is added, or lost.
LEMMA PicoSaysInv ==
  ASSUME IInv, NEW line \in Lines,
         line.kind = "answer" => line.for \in Calls,
         PicoSays(line), toPico' \in Seq(Calls)
  PROVE IInv'
<1>1. /\ fromPico' \in {fromPico, Append(fromPico, line)}
      /\ UNCHANGED <<call, writeQ, replyQ, pending, serial>>
  BY DEF PicoSays, threads
<1>2. /\ fromPico \in Seq(Lines)
      /\ \A i \in 1..Len(fromPico) :
            fromPico[i].kind = "answer" => fromPico[i].for \in Calls
  BY DEF IInv, Types
<1>3. /\ Append(fromPico, line) \in Seq(Lines)
      /\ \A i \in 1..Len(Append(fromPico, line)) :
            Append(fromPico, line)[i].kind = "answer" =>
              Append(fromPico, line)[i].for \in Calls
  <2>1. /\ Append(fromPico, line) \in Seq(Lines)
        /\ Len(Append(fromPico, line)) = Len(fromPico) + 1
        /\ Append(fromPico, line)[Len(fromPico) + 1] = line
        /\ \A i \in 1..Len(fromPico) : Append(fromPico, line)[i] = fromPico[i]
        /\ Len(fromPico) \in Nat
    BY <1>2
  <2>2. \A i \in 1..(Len(fromPico) + 1) : i \in 1..Len(fromPico) \/ i = Len(fromPico) + 1
    BY <2>1
  <2> QED BY <2>1, <2>2, <1>2
<1>4. serial' # "blocked" BY <1>1 DEF IInv, SerialThreadNeverBlocks
<1> QED BY <1>1, <1>2, <1>3, <1>4, FrameInv

\* The steps of the Pico and of the link.
LEMMA PicoStepInv == ASSUME IInv, PicoStep PROVE IInv'
<1>t. toPico \in Seq(Calls) BY DEF IInv, Types
<1>1. CASE PicoAnswers
  <2>1. /\ toPico # <<>> /\ toPico' = Tail(toPico)
        /\ PicoSays(Answer(Head(toPico)))
    BY <1>1 DEF PicoAnswers
  <2>2. Head(toPico) \in Calls /\ Tail(toPico) \in Seq(Calls) BY <1>t, <2>1
  <2>3. /\ Answer(Head(toPico)) \in Lines
        /\ Answer(Head(toPico)).for \in Calls
    BY <2>2 DEF Answer, Lines
  <2> QED BY <2>1, <2>2, <2>3, PicoSaysInv
<1>2. CASE PicoReportsStandby
  <2>1. PicoSays(Standby) /\ UNCHANGED toPico BY <1>2 DEF PicoReportsStandby
  <2>2. Standby \in Lines /\ Standby.kind # "answer" BY DEF Standby, Lines
  <2> QED BY <2>1, <2>2, <1>t, PicoSaysInv
<1>3. CASE LinkDown
  <2>1. /\ fromPico' = <<>> /\ toPico' \in {toPico, <<>>}
        /\ UNCHANGED <<call, writeQ, replyQ, pending, serial>>
    BY <1>3 DEF LinkDown, threads
  <2>a. <<>> \in Seq(Calls) /\ <<>> \in Seq(Lines) /\ Len(<<>>) = 0 OBVIOUS
  <2>b. toPico' \in Seq(Calls) BY <2>1, <2>a, <1>t, Zenon
  <2>2. toPico' \in Seq(Calls) /\ fromPico' \in Seq(Lines) /\ Len(fromPico') = 0
    BY <2>1, <2>a, <2>b, Zenon
  <2>3. 1..Len(fromPico') = {} BY <2>2
  <2>4. serial' # "blocked" BY <2>1 DEF IInv, SerialThreadNeverBlocks
  <2> QED BY <2>1, <2>2, <2>3, <2>4, FrameInv
<1> QED BY <1>1, <1>2, <1>3 DEF PicoStep

\* The steps of the calls.
LEMMA CallInv ==
  ASSUME IInv, NEW c \in Calls, Connect(c) \/ CallStep(c)
  PROVE IInv'
<1>p. pending \in [Commands -> Calls \cup {None}] BY DEF IInv, Types
<1>1. CASE Connect(c)
  <2>1. /\ call[c] = "idle" /\ call' = [call EXCEPT ![c] = "locking"]
        /\ UNCHANGED <<writeQ, replyQ, pending, fromPico, toPico, serial>>
    BY <1>1 DEF Connect, pico
  <2> QED BY <2>1, <1>p, CallGoesOn
<1>2. CASE Acquire(c) BY <1>2, AcquireInv
<1>3. CASE GetReply(c) BY <1>3, GetReplyInv
<1>4. CASE Expire(c)
  <2>1. /\ call[c] = "waiting" /\ call' = [call EXCEPT ![c] = "expired"]
        /\ UNCHANGED <<writeQ, replyQ, pending, fromPico, toPico, serial>>
    BY <1>4 DEF Expire, pico
  <2> QED BY <2>1, <1>p, CallGoesOn
<1>5. CASE Unregister(c)
  <2>1. /\ call[c] = "expired" /\ call' = [call EXCEPT ![c] = "done"]
        /\ pending' = [pending EXCEPT ![cmd[c]] = None]
        /\ UNCHANGED <<writeQ, replyQ, fromPico, toPico, serial>>
    BY <1>5 DEF Unregister, Return, pico
  <2>2. /\ pending' \in [Commands -> Calls \cup {None}]
        /\ \A name \in Commands : pending'[name] \in {pending[name], None}
    BY <2>1, <1>p
  <2> QED BY <2>1, <2>2, CallGoesOn
<1>6. CASE CtlGivesUp(c)
  <2>1. UNCHANGED <<call, writeQ, replyQ, pending, fromPico, toPico, serial>>
    BY <1>6 DEF CtlGivesUp, threads, pico
  <2> QED BY <2>1, FrameInv DEF IInv, Types, SerialThreadNeverBlocks
<1> QED BY <1>1, <1>2, <1>3, <1>4, <1>5, <1>6 DEF CallStep

\* The listener starts afresh: nothing is queued or registered.
LEMMA RestartInv == ASSUME IInv, Restart PROVE IInv'
<1>1. /\ writeQ' = <<>> /\ fromPico' = <<>> /\ toPico' = toPico
      /\ replyQ' = [c \in Calls |-> <<>>]
      /\ pending' = [name \in Commands |-> None]
      /\ serial' = "closed" /\ DOMAIN call' = Calls
  BY DEF Restart
<1>2. <<>> \in Seq(Calls) /\ <<>> \in Seq(Lines) /\ Len(<<>>) = 0 OBVIOUS
<1>3. Types' BY <1>1, <1>2 DEF IInv, Types
<1>4. QueuedOnce' /\ QueuedIsFresh' BY <1>1, <1>2 DEF QueuedOnce, QueuedIsFresh
<1>5. PendingIsFresh' /\ NewIsFresh' BY <1>1 DEF PendingIsFresh, NewIsFresh
<1> QED BY <1>1, <1>3, <1>4, <1>5 DEF IInv, SerialThreadNeverBlocks

\* Every step keeps the invariant.
LEMMA NextInv == ASSUME IInv, [Next]_vars PROVE IInv'
<1>1. CASE \E c \in Calls : Connect(c) \/ CallStep(c) BY <1>1, CallInv
<1>2. CASE SerialStep
  BY <1>2, SendNowInv, SendFailsInv, DispatchReplyInv, SerialRestInv DEF SerialStep
<1>3. CASE PicoStep BY <1>3, PicoStepInv
<1>4. CASE Restart BY <1>4, RestartInv
<1>5. CASE UNCHANGED vars
  <2>1. UNCHANGED <<call, writeQ, replyQ, pending, fromPico, toPico, serial>>
    BY <1>5 DEF vars, threads, pico
  <2> QED BY <2>1, FrameInv DEF IInv, Types, SerialThreadNeverBlocks
<1> QED BY <1>1, <1>2, <1>3, <1>4, <1>5 DEF Next

(***************************************************************************)
(* The inductive invariant holds in every behaviour.                       *)
(***************************************************************************)
THEOREM Invariance == Spec => []IInv
<1>1. IInv /\ [Next]_vars => IInv' BY NextInv
<1> QED BY InitInv, <1>1, PTL DEF Spec

(***************************************************************************)
(* The serial thread never blocks in reply_q.put (_send_now,               *)
(* _dispatch_reply), for any number of calls.                              *)
(***************************************************************************)
THEOREM NeverBlocks == Spec => []SerialThreadNeverBlocks
BY Invariance, PTL DEF IInv
================================================================================
