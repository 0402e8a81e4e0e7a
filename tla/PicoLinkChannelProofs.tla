------------------------- MODULE PicoLinkChannelProofs -------------------------
(***************************************************************************)
(* Proofs that PicoLink implements CommandChannel, and that a call gets    *)
(* the answer to another only after one of its name was given up, for any  *)
(* number of calls, commands, losses and events.                           *)
(*                                                                         *)
(* A command and its answer are one token.  It is on the write queue, with *)
(* the Pico, on its way back or in a reply queue, and in one of these      *)
(* places at most (OnePlace), once (the parts of Once); only the holder of *)
(* the lock is served (LockHeld).  That is what the refinement needs.      *)
(* Answers are matched by name only, so a token whose call has ended can   *)
(* be taken for that of a later call.  It outlives its call only if the    *)
(* call was given up, or took a token that was left over itself, so that   *)
(* the first of them was given up (Leftover).  The token of the call that  *)
(* is served is the last to be written, and registers it: no other call    *)
(* can take it (InTurn).                                                   *)
(***************************************************************************)
EXTENDS PicoLinkProofs

Answers == {Answer(c) : c \in Calls}
PicoLines == {Standby} \cup Answers

In(q, x) == \E i \in 1..Len(q) : q[i] = x
OnceIn(q, T) == \A i, j \in 1..Len(q) : q[i] = q[j] /\ q[i] \in T => i = j

\* The places of a token.
Queued(c) == In(writeQ, c)
Sent(c) == In(toPico, c)
Told(c) == In(fromPico, Answer(c))
Replied(c) == \E d \in Calls : replyQ[d] = <<Answer(c)>>

Served(c) == call[c] \in {"waiting", "expired"}

\* What TypeOK leaves open: the lines on their way, and those in a reply queue.
LineTypes ==
  /\ fromPico \in Seq(PicoLines)
  /\ \A c \in Calls :
       replyQ[c] \in {<<>>, <<LinkError>>} \cup {<<a>> : a \in Answers}

LockHeld == \A c \in Calls : Served(c) => lock = c

Once ==
  /\ OnceIn(writeQ, Calls)
  /\ OnceIn(toPico, Calls)
  /\ OnceIn(fromPico, Answers)
  /\ \A c, d, e \in Calls :
       replyQ[d] = <<Answer(c)>> /\ replyQ[e] = <<Answer(c)>> => d = e

OnePlace ==
  \A c \in Calls :
    /\ Queued(c) => ~Sent(c) /\ ~Told(c) /\ ~Replied(c)
    /\ Sent(c) => ~Told(c) /\ ~Replied(c)
    /\ Told(c) => ~Replied(c)

\* There is a token only once its call was served.
Begun ==
  \A c \in Calls :
    Queued(c) \/ Sent(c) \/ Told(c) \/ Replied(c) => call[c] \notin {"idle", "locking"}

\* A reply answers a command of the right name.
RightName ==
  \A c, d \in Calls : replyQ[c] = <<Answer(d)>> => cmd[d] = cmd[c]

ChanInv ==
  /\ TypeOK /\ LineTypes /\ LockHeld /\ Once /\ OnePlace /\ Begun /\ RightName

--------------------------------------------------------------------------------
Ended == \A c \in Calls : call[c] = "done" <=> result[c] # "none"

GaveUp(name) == \E d \in Calls : GivenUp(d) /\ cmd[d] = name

\* c ended without its own answer, and a call of its name was given up.
Orphaned(c) == MissedItsAnswer(c) /\ GaveUp(cmd[c])

\* The command of the served call is the last one written, and registers it.
InTurn ==
  \A c \in Calls :
    Served(c) =>
      /\ \A i \in 1..Len(writeQ) : writeQ[i] = c => i = Len(writeQ)
      /\ Sent(c) \/ Told(c) => writeQ = <<>> /\ pending[cmd[c]] \in {c, None}

Leftover ==
  /\ \A c \in Calls : Queued(c) => Served(c) \/ GivenUp(c)
  /\ \A name \in Commands :
       pending[name] # None => Served(pending[name]) \/ GivenUp(pending[name])
  /\ \A c \in Calls : Sent(c) \/ Told(c) => Served(c) \/ Orphaned(c)
  /\ \A c, d \in Calls : replyQ[c] = <<Answer(d)>> => d = c \/ Orphaned(d)

Taken ==
  \A c \in Calls :
    result[c] = "answer" =>
      /\ answerOf[c] \in Calls
      /\ cmd[answerOf[c]] = cmd[c]
      /\ answerOf[c] = c \/ Orphaned(answerOf[c])

StrayInv == Ended /\ InTurn /\ Leftover /\ Taken

--------------------------------------------------------------------------------
(* Sequences: what is in them, and whether once.                               *)

LEMMA EmptyIn ==
  ASSUME NEW T
  PROVE  /\ \A x : ~In(<<>>, x)
         /\ OnceIn(<<>>, T)
BY DEF In, OnceIn

LEMMA TailIn ==
  ASSUME NEW S, NEW T, NEW q \in Seq(S), q # <<>>, OnceIn(q, T)
  PROVE  /\ Head(q) \in S /\ Tail(q) \in Seq(S)
         /\ \A x : In(q, x) <=> x = Head(q) \/ In(Tail(q), x)
         /\ OnceIn(Tail(q), T)
         /\ Head(q) \in T => ~In(Tail(q), Head(q))
<1>1. /\ Len(q) \in Nat \ {0} /\ Head(q) = q[1] /\ Head(q) \in S
      /\ Len(Tail(q)) = Len(q) - 1 /\ Tail(q) \in Seq(S)
      /\ \A i \in 1..Len(Tail(q)) : Tail(q)[i] = q[i + 1]
  OBVIOUS
<1>2. \A i \in 1..Len(Tail(q)) : i + 1 \in 1..Len(q) /\ i + 1 # 1
  BY <1>1
<1>3. 1 \in 1..Len(q) /\ \A i \in 1..Len(q) : i = 1 \/ i - 1 \in 1..Len(Tail(q))
  BY <1>1
<1>4. \A i \in 1..Len(q) : i # 1 => q[i] = Tail(q)[i - 1]
  BY <1>1, <1>3
<1>5. ASSUME NEW x PROVE In(q, x) <=> x = Head(q) \/ In(Tail(q), x)
  <2>1. In(q, x) => x = Head(q) \/ In(Tail(q), x)
    BY <1>1, <1>3, <1>4 DEF In
  <2>2. In(Tail(q), x) => In(q, x) BY <1>1, <1>2 DEF In
  <2>3. x = Head(q) => In(q, x) BY <1>1, <1>3 DEF In
  <2> QED BY <2>1, <2>2, <2>3
<1>6. OnceIn(Tail(q), T)
  <2> SUFFICES ASSUME NEW i \in 1..Len(Tail(q)), NEW j \in 1..Len(Tail(q)),
                      Tail(q)[i] = Tail(q)[j], Tail(q)[i] \in T
               PROVE  i = j
    BY DEF OnceIn
  <2>1. i + 1 = j + 1 BY <1>1, <1>2 DEF OnceIn
  <2> QED BY <2>1
<1>7. Head(q) \in T => ~In(Tail(q), Head(q))
  <2> SUFFICES ASSUME Head(q) \in T, NEW i \in 1..Len(Tail(q)), Tail(q)[i] = Head(q)
               PROVE  FALSE
    BY DEF In
  <2>1. i + 1 \in 1..Len(q) /\ i + 1 # 1 /\ q[i + 1] = q[1] /\ q[1] \in T
    BY <1>1, <1>2
  <2> QED BY <2>1, <1>3 DEF OnceIn
<1> QED BY <1>1, <1>5, <1>6, <1>7

LEMMA AppendIn ==
  ASSUME NEW S, NEW T, NEW q \in Seq(S), NEW y \in S, OnceIn(q, T)
  PROVE  /\ Append(q, y) \in Seq(S)
         /\ \A x : In(Append(q, y), x) <=> In(q, x) \/ x = y
         /\ (y \in T => ~In(q, y)) => OnceIn(Append(q, y), T)
<1> DEFINE r == Append(q, y)
<1>1. /\ r \in Seq(S) /\ Len(q) \in Nat /\ Len(r) = Len(q) + 1
      /\ r[Len(q) + 1] = y
      /\ \A i \in 1..Len(q) : r[i] = q[i]
  OBVIOUS
<1> HIDE DEF r
<1>2. /\ \A i \in 1..Len(r) : i \in 1..Len(q) \/ i = Len(q) + 1
      /\ \A i \in 1..Len(q) : i \in 1..Len(r)
      /\ Len(q) + 1 \in 1..Len(r)
  BY <1>1
<1>3. ASSUME NEW x PROVE In(r, x) <=> In(q, x) \/ x = y
  BY <1>1, <1>2 DEF In
<1>4. ASSUME y \in T => ~In(q, y) PROVE OnceIn(r, T)
  <2> SUFFICES ASSUME NEW i \in 1..Len(r), NEW j \in 1..Len(r),
                      r[i] = r[j], r[i] \in T
               PROVE  i = j
    BY DEF OnceIn
  <2>1. CASE i \in 1..Len(q) /\ j \in 1..Len(q) BY <2>1, <1>1 DEF OnceIn
  <2>2. CASE i \in 1..Len(q) /\ j = Len(q) + 1 BY <2>2, <1>1, <1>4 DEF In
  <2>3. CASE i = Len(q) + 1 /\ j \in 1..Len(q) BY <2>3, <1>1, <1>4 DEF In
  <2> QED BY <1>2, <2>1, <2>2, <2>3
<1> QED BY <1>1, <1>3, <1>4 DEF r

\* Lines, and reply queues with a line in them, are told apart.
LEMMA LineFacts ==
  /\ \A c, d : Answer(c) = Answer(d) <=> c = d
  /\ \A c, d : <<Answer(c)>> = <<Answer(d)>> <=> c = d
  /\ \A c : /\ Answer(c) # Standby /\ Answer(c) # LinkError
            /\ <<Answer(c)>> # <<>> /\ <<Answer(c)>> # <<LinkError>>
            /\ Answer(c).kind = "answer" /\ Answer(c).for = c
            /\ Head(<<Answer(c)>>) = Answer(c) /\ Tail(<<Answer(c)>>) = <<>>
  /\ Head(<<LinkError>>) = LinkError /\ Tail(<<LinkError>>) = <<>>
  /\ <<LinkError>> # <<>>
  /\ Standby.kind = "standby"
  /\ LinkError.kind = "link_error" /\ LinkError.for = None
  /\ \A a : Len(<<a>>) = 1
BY DEF Answer, Standby, LinkError

--------------------------------------------------------------------------------
(* Where the tokens are after a step.                                          *)

Tokens == <<writeQ, toPico, fromPico, replyQ>>

\* Nothing moves.
LEMMA QuietTokens ==
  ASSUME UNCHANGED Tokens, Once, LineTypes, RightName
  PROVE  /\ \A c \in Calls : /\ Queued(c)' <=> Queued(c)
                             /\ Sent(c)' <=> Sent(c)
                             /\ Told(c)' <=> Told(c)
                             /\ Replied(c)' <=> Replied(c)
         /\ Once' /\ LineTypes' /\ RightName'
BY DEF Tokens, Once, LineTypes, RightName, Queued, Sent, Told, Replied, In, OnceIn

LEMMA AcquireTokens ==
  ASSUME IInv, ChanInv, NEW c \in Calls, Acquire(c)
  PROVE  /\ \A x \in Calls : /\ Queued(x)' <=> Queued(x) \/ x = c
                             /\ Sent(x)' <=> Sent(x)
                             /\ Told(x)' <=> Told(x)
                             /\ Replied(x)' <=> Replied(x)
         /\ Once' /\ LineTypes' /\ RightName'
<1>1. /\ writeQ' = Append(writeQ, c) /\ call[c] = "locking"
      /\ UNCHANGED <<toPico, fromPico, replyQ>>
  BY DEF Acquire, pico
<1>2. writeQ \in Seq(Calls) BY DEF IInv, Types
<1>3. ~In(writeQ, c) BY <1>1 DEF ChanInv, Begun, Queued
<1>4. OnceIn(writeQ, Calls) BY DEF ChanInv, Once
<1>5. /\ \A x : In(Append(writeQ, c), x) <=> In(writeQ, x) \/ x = c
      /\ OnceIn(Append(writeQ, c), Calls)
  BY <1>2, <1>3, <1>4, AppendIn
<1>6. \A x : In(writeQ, x)' <=> In(writeQ, x) \/ x = c BY <1>1, <1>5 DEF In
<1>7. OnceIn(writeQ, Calls)' BY <1>1, <1>5 DEF OnceIn
<1>8. Once' BY <1>1, <1>7 DEF ChanInv, Once, OnceIn
<1>9. LineTypes' /\ RightName' BY <1>1 DEF ChanInv, LineTypes, RightName
<1>10. \A x \in Calls : /\ Queued(x)' <=> Queued(x) \/ x = c
                        /\ Sent(x)' <=> Sent(x)
                        /\ Told(x)' <=> Told(x)
                        /\ Replied(x)' <=> Replied(x)
  BY <1>1, <1>6 DEF Queued, Sent, Told, Replied, In
<1> QED BY <1>8, <1>9, <1>10

LEMMA GetReplyTokens ==
  ASSUME IInv, ChanInv, NEW c \in Calls, GetReply(c)
  PROVE  /\ \A x \in Calls : /\ Queued(x)' <=> Queued(x)
                             /\ Sent(x)' <=> Sent(x)
                             /\ Told(x)' <=> Told(x)
                             /\ Replied(x)' <=> Replied(x) /\ replyQ[c] # <<Answer(x)>>
         /\ Once' /\ LineTypes' /\ RightName'
         /\ \/ /\ replyQ[c] = <<LinkError>>
               /\ Return(c, LinkError)
            \/ \E d \in Calls : /\ replyQ[c] = <<Answer(d)>> /\ cmd[d] = cmd[c]
                                /\ Return(c, Answer(d))
<1>1. /\ replyQ[c] # <<>> /\ Return(c, Head(replyQ[c]))
      /\ replyQ' = [replyQ EXCEPT ![c] = Tail(@)]
      /\ UNCHANGED <<writeQ, toPico, fromPico>>
  BY DEF GetReply, Return, pico
<1>2. replyQ[c] \in {<<>>, <<LinkError>>} \cup {<<a>> : a \in Answers}
  BY DEF ChanInv, LineTypes
<1>3. \/ replyQ[c] = <<LinkError>>
      \/ \E d \in Calls : replyQ[c] = <<Answer(d)>>
  BY <1>1, <1>2, Zenon DEF Answers
<1>4. Tail(replyQ[c]) = <<>>
  <2>1. CASE replyQ[c] = <<LinkError>> BY <2>1, LineFacts
  <2>2. ASSUME NEW d \in Calls, replyQ[c] = <<Answer(d)>> PROVE Tail(replyQ[c]) = <<>>
    BY <2>2, LineFacts
  <2> QED BY <1>3, <2>1, <2>2
<1>5. DOMAIN replyQ = Calls BY DEF IInv, Types
<1>6. replyQ'[c] = <<>> /\ \A d \in Calls \ {c} : replyQ'[d] = replyQ[d]
  BY <1>1, <1>4, <1>5
<1>7. ASSUME NEW x \in Calls
      PROVE  Replied(x)' <=> Replied(x) /\ replyQ[c] # <<Answer(x)>>
  <2>1. <<Answer(x)>> # <<>> BY LineFacts
  <2>2. \A d \in Calls : replyQ[c] = <<Answer(x)>> /\ replyQ[d] = <<Answer(x)>> => d = c
    BY DEF ChanInv, Once
  <2> QED BY <2>1, <2>2, <1>6 DEF Replied
<1>8. \A d, x \in Calls : replyQ'[d] = <<Answer(x)>> => replyQ[d] = <<Answer(x)>>
  BY <1>6, LineFacts, ZenonT(30)
<1>9. Once' BY <1>1, <1>8 DEF ChanInv, Once, OnceIn
<1>10. LineTypes' BY <1>1, <1>6 DEF ChanInv, LineTypes
<1>11. RightName' BY <1>8 DEF ChanInv, RightName
<1>12. \/ /\ replyQ[c] = <<LinkError>>
          /\ Return(c, LinkError)
       \/ \E d \in Calls : /\ replyQ[c] = <<Answer(d)>> /\ cmd[d] = cmd[c]
                           /\ Return(c, Answer(d))
  <2>1. CASE replyQ[c] = <<LinkError>>
    <3>1. Head(replyQ[c]) = LinkError BY <2>1, LineFacts
    <3> QED BY <2>1, <3>1, <1>1
  <2>2. ASSUME NEW d \in Calls, replyQ[c] = <<Answer(d)>>
        PROVE  cmd[d] = cmd[c] /\ Return(c, Answer(d))
    <3>1. Head(replyQ[c]) = Answer(d) BY <2>2, LineFacts
    <3> QED BY <2>2, <3>1, <1>1 DEF ChanInv, RightName
  <2> QED BY <1>3, <2>1, <2>2
<1>13. \A x \in Calls : /\ Queued(x)' <=> Queued(x)
                        /\ Sent(x)' <=> Sent(x)
                        /\ Told(x)' <=> Told(x)
  BY <1>1 DEF Queued, Sent, Told, In
<1> QED BY <1>7, <1>9, <1>10, <1>11, <1>12, <1>13

LEMMA SendNowTokens ==
  ASSUME IInv, ChanInv, SendNow
  PROVE  \E h \in Calls :
           /\ Queued(h)
           /\ \A x \in Calls : /\ Queued(x)' <=> Queued(x) /\ x # h
                               /\ Sent(x)' <=> Sent(x) \/ x = h
                               /\ Told(x)' <=> Told(x)
                               /\ Replied(x)' <=> Replied(x)
           /\ h = Head(writeQ)
           /\ Once' /\ LineTypes' /\ RightName'
<1> DEFINE h == Head(writeQ)
<1>1. /\ writeQ # <<>> /\ writeQ' = Tail(writeQ)
      /\ toPico' = Append(toPico, h)
      /\ UNCHANGED <<fromPico, replyQ>>
  BY DEF SendNow
<1>2. writeQ \in Seq(Calls) /\ toPico \in Seq(Calls) BY DEF IInv, Types
<1>3. OnceIn(writeQ, Calls) /\ OnceIn(toPico, Calls) BY DEF ChanInv, Once
<1>4. /\ h \in Calls
      /\ \A x : In(writeQ, x) <=> x = h \/ In(Tail(writeQ), x)
      /\ OnceIn(Tail(writeQ), Calls)
      /\ ~In(Tail(writeQ), h)
  BY <1>1, <1>2, <1>3, TailIn
<1>5. Queued(h) /\ ~In(toPico, h)
  BY <1>4 DEF ChanInv, OnePlace, Queued, Sent
<1> HIDE DEF h
<1>6. /\ \A x : In(Append(toPico, h), x) <=> In(toPico, x) \/ x = h
      /\ OnceIn(Append(toPico, h), Calls)
  BY <1>2, <1>3, <1>4, <1>5, AppendIn
<1>7. /\ \A x : In(writeQ, x)' <=> In(writeQ, x) /\ x # h
      /\ \A x : In(toPico, x)' <=> In(toPico, x) \/ x = h
  BY <1>1, <1>4, <1>6 DEF In
<1>8. OnceIn(writeQ, Calls)' /\ OnceIn(toPico, Calls)' BY <1>1, <1>4, <1>6 DEF OnceIn
<1>9. Once' BY <1>1, <1>8 DEF ChanInv, Once, OnceIn
<1>10. LineTypes' /\ RightName' BY <1>1 DEF ChanInv, LineTypes, RightName
<1>11. \A x \in Calls : /\ Queued(x)' <=> Queued(x) /\ x # h
                        /\ Sent(x)' <=> Sent(x) \/ x = h
                        /\ Told(x)' <=> Told(x)
                        /\ Replied(x)' <=> Replied(x)
  BY <1>1, <1>7 DEF Queued, Sent, Told, Replied, In
<1> QED BY <1>4, <1>5, <1>9, <1>10, <1>11 DEF h

LEMMA SendFailsTokens ==
  ASSUME IInv, ChanInv, SendFails
  PROVE  \E h \in Calls :
           /\ Queued(h)
           /\ \A x \in Calls : /\ Queued(x)' <=> Queued(x) /\ x # h
                               /\ Sent(x) => Sent(x)'
                               /\ Sent(x)' => Sent(x) \/ x = h
                               /\ Told(x)' <=> Told(x)
                               /\ Replied(x)' <=> Replied(x)
           /\ h = Head(writeQ)
           /\ \A c, d \in Calls : replyQ'[c] = <<Answer(d)>> => replyQ[c] = <<Answer(d)>>
           /\ Once' /\ LineTypes' /\ RightName'
<1> DEFINE h == Head(writeQ)
<1>1. /\ writeQ # <<>> /\ writeQ' = Tail(writeQ)
      /\ toPico' = toPico \/ toPico' = Append(toPico, h)
      /\ Put(h, LinkError, "flush")
      /\ UNCHANGED fromPico
  BY DEF SendFails
<1>2. writeQ \in Seq(Calls) /\ toPico \in Seq(Calls) BY DEF IInv, Types
<1>3. OnceIn(writeQ, Calls) /\ OnceIn(toPico, Calls) BY DEF ChanInv, Once
<1>4. /\ h \in Calls
      /\ \A x : In(writeQ, x) <=> x = h \/ In(Tail(writeQ), x)
      /\ OnceIn(Tail(writeQ), Calls)
      /\ ~In(Tail(writeQ), h)
  BY <1>1, <1>2, <1>3, TailIn
<1>5. Queued(h) /\ ~In(toPico, h)
  BY <1>4 DEF ChanInv, OnePlace, Queued, Sent
<1>r. replyQ[h] = <<>> BY <1>1, Dequeue
<1> HIDE DEF h
<1>6. /\ \A x : In(Append(toPico, h), x) <=> In(toPico, x) \/ x = h
      /\ OnceIn(Append(toPico, h), Calls)
  BY <1>2, <1>3, <1>4, <1>5, AppendIn
<1>7. /\ \A x : In(writeQ, x)' <=> In(writeQ, x) /\ x # h
      /\ \A x : In(toPico, x)' <=> In(toPico', x)
      /\ \A x : In(toPico', x) => In(toPico, x) \/ x = h
      /\ \A x : In(toPico, x) => In(toPico', x)
  BY <1>1, <1>4, <1>6 DEF In
<1>8. OnceIn(writeQ, Calls)' /\ OnceIn(toPico, Calls)'
  BY <1>1, <1>3, <1>4, <1>6 DEF OnceIn
<1>p. replyQ' = [replyQ EXCEPT ![h] = <<LinkError>>] BY <1>1, <1>r DEF Put
<1>q. DOMAIN replyQ = Calls BY DEF IInv, Types
<1>s. replyQ'[h] = <<LinkError>> /\ \A d \in Calls \ {h} : replyQ'[d] = replyQ[d]
  BY <1>p, <1>q, <1>4
<1>t. ASSUME NEW c \in Calls, NEW d \in Calls
      PROVE  replyQ'[c] = <<Answer(d)>> <=> replyQ[c] = <<Answer(d)>>
  <2>1. CASE c = h
    <3>1. replyQ'[c] # <<Answer(d)>> BY <2>1, <1>s, LineFacts
    <3>2. replyQ[c] # <<Answer(d)>> BY <2>1, <1>r, LineFacts
    <3> QED BY <3>1, <3>2
  <2>2. CASE c # h BY <2>2, <1>s
  <2> QED BY <2>1, <2>2
<1>9. Once' BY <1>1, <1>8, <1>t DEF ChanInv, Once, OnceIn
<1>10. LineTypes' BY <1>1, <1>s DEF ChanInv, LineTypes
<1>a. RightName' BY <1>t DEF ChanInv, RightName
<1>11. \A x \in Calls : /\ Queued(x)' <=> Queued(x) /\ x # h
                        /\ Sent(x) => Sent(x)'
                        /\ Sent(x)' => Sent(x) \/ x = h
                        /\ Told(x)' <=> Told(x)
                        /\ Replied(x)' <=> Replied(x)
  <2>1. \A x \in Calls : Queued(x)' <=> Queued(x) /\ x # h BY <1>7 DEF Queued
  <2>2. \A x \in Calls : Sent(x)' <=> In(toPico', x) BY <1>7 DEF Sent
  <2>3. \A x \in Calls : Told(x)' <=> Told(x) BY <1>1 DEF Told, In
  <2>4. \A x \in Calls : Replied(x)' <=> Replied(x) BY <1>t DEF Replied
  <2> QED BY <2>1, <2>2, <2>3, <2>4, <1>7 DEF Sent
<1> QED BY <1>4, <1>5, <1>9, <1>10, <1>11, <1>a, <1>t DEF h

\* A line is read from the port.
LEMMA ReadTokens ==
  ASSUME IInv, ChanInv, ReadAny
  PROVE  /\ \A x \in Calls : /\ Queued(x)' <=> Queued(x)
                             /\ Sent(x)' <=> Sent(x)
                             /\ Told(x)' <=> Told(x) /\ Head(fromPico) # Answer(x)
                             /\ Head(fromPico) = Answer(x) => Told(x)
         /\ OnceIn(writeQ, Calls)' /\ OnceIn(toPico, Calls)' /\ OnceIn(fromPico, Answers)'
         /\ fromPico' \in Seq(PicoLines) /\ Head(fromPico) \in PicoLines
<1>1. /\ fromPico # <<>> /\ fromPico' = Tail(fromPico)
      /\ UNCHANGED <<writeQ, toPico>>
  BY DEF ReadAny
<1>2. fromPico \in Seq(PicoLines) BY DEF ChanInv, LineTypes
<1>3. OnceIn(writeQ, Calls) /\ OnceIn(toPico, Calls) /\ OnceIn(fromPico, Answers)
  BY DEF ChanInv, Once
<1>4. /\ Head(fromPico) \in PicoLines /\ Tail(fromPico) \in Seq(PicoLines)
      /\ \A x : In(fromPico, x) <=> x = Head(fromPico) \/ In(Tail(fromPico), x)
      /\ OnceIn(Tail(fromPico), Answers)
      /\ Head(fromPico) \in Answers => ~In(Tail(fromPico), Head(fromPico))
  BY <1>1, <1>2, <1>3, TailIn
<1>5. \A x \in Calls : Answer(x) \in Answers BY DEF Answers
<1>6. \A x : In(fromPico, x)' <=> In(Tail(fromPico), x) BY <1>1 DEF In
<1>a. \A x : In(fromPico, Answer(x))' <=> In(Tail(fromPico), Answer(x))
  BY <1>1 DEF In, Answer
<1>7. \A x \in Calls : /\ Told(x)' <=> Told(x) /\ Head(fromPico) # Answer(x)
                       /\ Head(fromPico) = Answer(x) => Told(x)
  BY <1>4, <1>5, <1>a DEF Told
<1>8. OnceIn(writeQ, Calls)' /\ OnceIn(toPico, Calls)' /\ OnceIn(fromPico, Answers)'
  BY <1>1, <1>3, <1>4 DEF OnceIn, Answers, Answer
<1>9. \A x \in Calls : /\ Queued(x)' <=> Queued(x)
                       /\ Sent(x)' <=> Sent(x)
  BY <1>1 DEF Queued, Sent, In
<1> QED BY <1>1, <1>4, <1>7, <1>8, <1>9

\* A line is thrown away.
LEMMA SkipLineTokens ==
  ASSUME IInv, ChanInv, ReadAny, UNCHANGED replyQ
  PROVE  /\ \A x \in Calls : /\ Queued(x)' <=> Queued(x)
                             /\ Sent(x)' <=> Sent(x)
                             /\ Told(x)' => Told(x)
                             /\ Replied(x)' <=> Replied(x)
         /\ Once' /\ LineTypes' /\ RightName'
<1>1. /\ \A x \in Calls : /\ Queued(x)' <=> Queued(x)
                          /\ Sent(x)' <=> Sent(x)
                          /\ Told(x)' => Told(x)
      /\ OnceIn(writeQ, Calls)' /\ OnceIn(toPico, Calls)' /\ OnceIn(fromPico, Answers)'
      /\ fromPico' \in Seq(PicoLines)
  BY ReadTokens
<1>2. Once' BY <1>1 DEF ChanInv, Once
<1>3. LineTypes' /\ RightName' BY <1>1 DEF ChanInv, LineTypes, RightName
<1>4. \A x \in Calls : Replied(x)' <=> Replied(x) BY DEF Replied
<1> QED BY <1>1, <1>2, <1>3, <1>4

\* An answer is put in the reply queue registered under its name, or dropped.
LEMMA DispatchTokens ==
  ASSUME IInv, ChanInv, DispatchReply
  PROVE  \E d \in Calls :
           /\ Told(d)
           /\ Head(fromPico) = Answer(d)
           /\ \A x \in Calls : /\ Queued(x)' <=> Queued(x)
                               /\ Sent(x)' <=> Sent(x)
                               /\ Told(x)' <=> Told(x) /\ x # d
                               /\ Replied(x) => Replied(x)'
                               /\ Replied(x)' => Replied(x) \/ x = d
           /\ Once' /\ LineTypes' /\ RightName'
           /\ \A c, e \in Calls :
                replyQ'[c] = <<Answer(e)>> =>
                  replyQ[c] = <<Answer(e)>> \/ (e = d /\ c = pending[cmd[d]])
<1>1. ReadAny /\ Head(fromPico).kind = "answer" BY DEF DispatchReply
<1>2. /\ \A x \in Calls : /\ Queued(x)' <=> Queued(x)
                          /\ Sent(x)' <=> Sent(x)
                          /\ Told(x)' <=> Told(x) /\ Head(fromPico) # Answer(x)
                          /\ Head(fromPico) = Answer(x) => Told(x)
      /\ OnceIn(writeQ, Calls)' /\ OnceIn(toPico, Calls)' /\ OnceIn(fromPico, Answers)'
      /\ fromPico' \in Seq(PicoLines) /\ Head(fromPico) \in PicoLines
  BY <1>1, ReadTokens
<1>3. PICK d \in Calls : Head(fromPico) = Answer(d)
  BY <1>1, <1>2, LineFacts DEF PicoLines, Answers
<1>4. Head(fromPico).for = d BY <1>3, LineFacts
<1> DEFINE name == cmd[d]
           c == pending[name]
<1>5. name \in Commands BY LinkAssumption
<1>6. /\ \A x \in Calls : Told(x)' <=> Told(x) /\ x # d
      /\ Told(d)
  BY <1>2, <1>3, LineFacts
<1>7. CASE c = None
  <2>1. UNCHANGED replyQ BY <1>4, <1>7 DEF DispatchReply
  <2>2. Once' BY <1>2, <2>1 DEF ChanInv, Once
  <2>3. LineTypes' /\ RightName' BY <1>2, <2>1 DEF ChanInv, LineTypes, RightName
  <2>4. \A x \in Calls : Replied(x)' <=> Replied(x) BY <2>1 DEF Replied
  <2> QED BY <1>2, <1>3, <1>6, <2>1, <2>2, <2>3, <2>4
<1>8. CASE c # None
  <2>1. c \in Calls /\ cmd[c] = name /\ replyQ[c] = <<>>
    BY <1>5, <1>8 DEF IInv, Types, PendingIsFresh
  <2>2. Put(c, Head(fromPico), "flush") BY <1>4, <1>8 DEF DispatchReply
  <2>3. replyQ' = [replyQ EXCEPT ![c] = <<Answer(d)>>] BY <2>1, <2>2, <1>3 DEF Put
  <2>4. DOMAIN replyQ = Calls BY DEF IInv, Types
  <2> HIDE DEF c
  <2>5. replyQ'[c] = <<Answer(d)>> /\ \A e \in Calls \ {c} : replyQ'[e] = replyQ[e]
    BY <2>1, <2>3, <2>4
  <2>6. ASSUME NEW e \in Calls, NEW x \in Calls
        PROVE  replyQ'[e] = <<Answer(x)>> <=> replyQ[e] = <<Answer(x)>> \/ (e = c /\ x = d)
    <3>1. CASE e = c
      <4>1. replyQ[e] # <<Answer(x)>> BY <3>1, <2>1, LineFacts
      <4>2. replyQ'[e] = <<Answer(x)>> <=> x = d BY <3>1, <2>5, LineFacts
      <4> QED BY <3>1, <4>1, <4>2
    <3>2. CASE e # c BY <3>2, <2>5
    <3> QED BY <3>1, <3>2
  <2>7. \A x \in Calls : Replied(x)' <=> Replied(x) \/ x = d
    BY <2>6, <2>1 DEF Replied
  <2>8. ~Replied(d) BY <1>6 DEF ChanInv, OnePlace
  <2>9. Once'
    <3>1. ASSUME NEW x \in Calls, NEW e \in Calls, NEW f \in Calls,
                 replyQ'[e] = <<Answer(x)>>, replyQ'[f] = <<Answer(x)>>
          PROVE  e = f
      <4>1. CASE x = d BY <4>1, <3>1, <2>6, <2>8 DEF Replied
      <4>2. CASE x # d BY <4>2, <3>1, <2>6 DEF ChanInv, Once
      <4> QED BY <4>1, <4>2
    <3> QED BY <3>1, <1>2 DEF Once
  <2>10. LineTypes'
    <3>1. Answer(d) \in Answers BY DEF Answers
    <3>2. ASSUME NEW e \in Calls
          PROVE  replyQ'[e] \in {<<>>, <<LinkError>>} \cup {<<a>> : a \in Answers}
      <4>1. CASE e = c BY <4>1, <2>5, <3>1
      <4>2. CASE e # c BY <4>2, <2>5 DEF ChanInv, LineTypes
      <4> QED BY <4>1, <4>2
    <3> QED BY <3>2, <1>2 DEF LineTypes
  <2>11. RightName' BY <2>6, <2>1 DEF ChanInv, RightName
  <2>12. \A x \in Calls : /\ Queued(x)' <=> Queued(x)
                          /\ Sent(x)' <=> Sent(x)
                          /\ Told(x)' <=> Told(x) /\ x # d
                          /\ Replied(x) => Replied(x)'
                          /\ Replied(x)' => Replied(x) \/ x = d
    BY <1>2, <1>6, <2>7
  <2>13. \A k, e \in Calls :
           replyQ'[k] = <<Answer(e)>> => replyQ[k] = <<Answer(e)>> \/ (e = d /\ k = pending[cmd[d]])
    BY <2>6 DEF c
  <2> QED BY <1>3, <1>6, <2>9, <2>10, <2>11, <2>12, <2>13
<1> QED BY <1>7, <1>8

\* What the Pico says is added to the lines, unless nobody listens.
LEMMA SaysTokens ==
  ASSUME IInv, ChanInv, NEW line \in PicoLines, PicoSays(line),
         line \in Answers => ~In(fromPico, line)
  PROVE  /\ fromPico' = fromPico \/ \A x : In(fromPico', x) <=> In(fromPico, x) \/ x = line
         /\ OnceIn(fromPico, Answers)' /\ LineTypes' /\ RightName'
         /\ UNCHANGED <<writeQ, replyQ, call, pending>>
<1>1. /\ fromPico' = fromPico \/ fromPico' = Append(fromPico, line)
      /\ UNCHANGED <<writeQ, replyQ, call, pending>>
  BY DEF PicoSays, threads
<1>2. fromPico \in Seq(PicoLines) BY DEF ChanInv, LineTypes
<1>3. OnceIn(fromPico, Answers) BY DEF ChanInv, Once
<1>4. /\ Append(fromPico, line) \in Seq(PicoLines)
      /\ \A x : In(Append(fromPico, line), x) <=> In(fromPico, x) \/ x = line
      /\ OnceIn(Append(fromPico, line), Answers)
  BY <1>2, <1>3, AppendIn
<1>5. OnceIn(fromPico, Answers)' BY <1>1, <1>3, <1>4 DEF OnceIn, Answers, Answer
<1>6. LineTypes' /\ RightName' BY <1>1, <1>2, <1>4 DEF ChanInv, LineTypes, RightName
<1>7. fromPico' = fromPico \/ \A x : In(fromPico', x) <=> In(fromPico, x) \/ x = line
  BY <1>1, <1>4, Zenon
<1> QED BY <1>1, <1>5, <1>6, <1>7

LEMMA PicoAnswersTokens ==
  ASSUME IInv, ChanInv, PicoAnswers
  PROVE  \E h \in Calls :
           /\ Sent(h)
           /\ \A x \in Calls : /\ Queued(x)' <=> Queued(x)
                               /\ Sent(x)' <=> Sent(x) /\ x # h
                               /\ Told(x) => Told(x)'
                               /\ Told(x)' => Told(x) \/ x = h
                               /\ Replied(x)' <=> Replied(x)
           /\ Once' /\ LineTypes' /\ RightName'
<1> DEFINE h == Head(toPico)
<1>1. toPico # <<>> /\ toPico' = Tail(toPico) /\ PicoSays(Answer(h))
  BY DEF PicoAnswers
<1>2. toPico \in Seq(Calls) BY DEF IInv, Types
<1>3. OnceIn(toPico, Calls) BY DEF ChanInv, Once
<1>4. /\ h \in Calls
      /\ \A x : In(toPico, x) <=> x = h \/ In(Tail(toPico), x)
      /\ OnceIn(Tail(toPico), Calls)
      /\ ~In(Tail(toPico), h)
  BY <1>1, <1>2, <1>3, TailIn
<1>5. Sent(h) /\ ~Told(h) BY <1>4 DEF ChanInv, OnePlace, Sent
<1> HIDE DEF h
<1>6. Answer(h) \in PicoLines BY <1>4 DEF PicoLines, Answers
<1>7. /\ fromPico' = fromPico \/ \A x : In(fromPico', x) <=> In(fromPico, x) \/ x = Answer(h)
      /\ OnceIn(fromPico, Answers)' /\ LineTypes' /\ RightName'
      /\ UNCHANGED <<writeQ, replyQ>>
  BY <1>1, <1>5, <1>6, SaysTokens DEF Told
<1>8. Once' BY <1>1, <1>4, <1>7 DEF ChanInv, Once, OnceIn
<1>9. \A x \in Calls : Told(x)' <=> In(fromPico', Answer(x)) BY DEF Told, In, Answer
<1>10. \A x \in Calls : /\ Told(x) => Told(x)'
                        /\ Told(x)' => Told(x) \/ x = h
  BY <1>7, <1>9, LineFacts DEF Told
<1>11. \A x \in Calls : Sent(x)' <=> Sent(x) /\ x # h
  <2>1. \A x : In(toPico, x)' <=> In(Tail(toPico), x) BY <1>1 DEF In
  <2> QED BY <2>1, <1>4 DEF Sent
<1>12. \A x \in Calls : /\ Queued(x)' <=> Queued(x)
                        /\ Replied(x)' <=> Replied(x)
  BY <1>7 DEF Queued, Replied, In
<1> QED BY <1>4, <1>5, <1>7, <1>8, <1>10, <1>11, <1>12

LEMMA ReportTokens ==
  ASSUME IInv, ChanInv, PicoReportsStandby
  PROVE  /\ \A x \in Calls : /\ Queued(x)' <=> Queued(x)
                             /\ Sent(x)' <=> Sent(x)
                             /\ Told(x)' <=> Told(x)
                             /\ Replied(x)' <=> Replied(x)
         /\ Once' /\ LineTypes' /\ RightName'
<1>1. PicoSays(Standby) /\ UNCHANGED toPico BY DEF PicoReportsStandby
<1>2. Standby \in PicoLines /\ Standby \notin Answers
  BY LineFacts DEF PicoLines, Answers
<1>3. /\ fromPico' = fromPico \/ \A x : In(fromPico', x) <=> In(fromPico, x) \/ x = Standby
      /\ OnceIn(fromPico, Answers)' /\ LineTypes' /\ RightName'
      /\ UNCHANGED <<writeQ, replyQ>>
  BY <1>1, <1>2, SaysTokens
<1>4. Once' BY <1>1, <1>3 DEF ChanInv, Once, OnceIn
<1>5. \A x \in Calls : Told(x)' <=> In(fromPico', Answer(x)) BY DEF Told, In, Answer
<1>6. \A x \in Calls : Told(x)' <=> Told(x) BY <1>3, <1>5, LineFacts DEF Told
<1>7. \A x \in Calls : /\ Queued(x)' <=> Queued(x)
                       /\ Sent(x)' <=> Sent(x)
                       /\ Replied(x)' <=> Replied(x)
  BY <1>1, <1>3 DEF Queued, Sent, Replied, In
<1> QED BY <1>3, <1>4, <1>6, <1>7

\* The port is opened or lost, or the listener restarted: tokens are lost only.
LEMMA ClearTokens ==
  ASSUME IInv, ChanInv,
         fromPico' = <<>>,
         writeQ' \in {writeQ, <<>>}, toPico' \in {toPico, <<>>},
         UNCHANGED replyQ \/ replyQ' = [c \in Calls |-> <<>>]
  PROVE  /\ \A x \in Calls : /\ Queued(x)' => Queued(x)
                             /\ Sent(x)' => Sent(x)
                             /\ ~Told(x)'
                             /\ Replied(x)' => Replied(x)
         /\ Once' /\ LineTypes' /\ RightName'
         /\ \A c, d \in Calls : replyQ'[c] = <<Answer(d)>> => replyQ[c] = <<Answer(d)>>
<1>1. \A c, d \in Calls : replyQ'[c] = <<Answer(d)>> => replyQ[c] = <<Answer(d)>>
  BY LineFacts
<1>2. \A T : OnceIn(<<>>, T) BY EmptyIn
<1>3. OnceIn(writeQ, Calls)' /\ OnceIn(toPico, Calls)' /\ OnceIn(fromPico, Answers)'
  BY <1>2 DEF ChanInv, Once, OnceIn, Answers, Answer
<1>4. Once' BY <1>1, <1>3 DEF ChanInv, Once
<1>5. LineTypes'
  <2>1. <<>> \in Seq(PicoLines) OBVIOUS
  <2>2. \A c \in Calls : replyQ'[c] \in {replyQ[c], <<>>} OBVIOUS
  <2>3. \A c \in Calls : replyQ[c] \in {<<>>, <<LinkError>>} \cup {<<a>> : a \in Answers}
    BY DEF ChanInv, LineTypes
  <2>4. \A c \in Calls : replyQ'[c] \in {<<>>, <<LinkError>>} \cup {<<a>> : a \in Answers}
    BY <2>2, <2>3
  <2> QED BY <2>1, <2>4 DEF LineTypes, Answers, Answer, LinkError
<1>6. RightName' BY <1>1 DEF ChanInv, RightName
<1>7. \A x : ~In(<<>>, x) BY EmptyIn
<1>8. \A x \in Calls : /\ Queued(x)' => Queued(x)
                       /\ Sent(x)' => Sent(x)
                       /\ ~Told(x)'
  BY <1>7 DEF Queued, Sent, Told, In
<1>9. \A x \in Calls : Replied(x)' => Replied(x) BY <1>1 DEF Replied
<1> QED BY <1>1, <1>4, <1>5, <1>6, <1>8, <1>9

--------------------------------------------------------------------------------
(* The invariant, step by step.                                                *)

\* The types that are not those of queues.
PlainTypes ==
  /\ call \in [Calls -> {"idle", "locking", "waiting", "expired", "done"}]
  /\ lock \in Calls \cup {None} /\ there \subseteq Calls
  /\ result \in [Calls -> {"none", "answer", "link_error", "timeout", "lost"}]
  /\ answerOf \in [Calls -> Calls \cup {None}]
  /\ serial \in {"closed", "flush", "read", "suspending", "blocked"}
  /\ ctl \in [Calls -> {"none", "connected", "answered", "gave_up", "cut"}]
  /\ age \in [Calls -> 0..CtlTimeout]
  /\ broken \in BOOLEAN
  /\ losses \in 0..MaxLosses /\ events \in 0..MaxEvents

LEMMA PlainTypesOf == TypeOK => PlainTypes
BY DEF TypeOK, PlainTypes

LEMMA ReturnTypes ==
  ASSUME PlainTypes, NEW c \in Calls, NEW r, Return(c, r),
         r.kind \in {"answer", "link_error", "timeout"}, r.for \in Calls \cup {None}
  PROVE  PlainTypes'
<1>1. /\ call' = [call EXCEPT ![c] = "done"]
      /\ result' = [result EXCEPT ![c] = r.kind]
      /\ answerOf' = [answerOf EXCEPT ![c] = r.for]
      /\ lock' = None /\ there' = {}
      /\ age' = [age EXCEPT ![c] = 0]
      /\ ctl' = [ctl EXCEPT ![c] = IF @ = "connected" THEN "answered" ELSE @]
      /\ UNCHANGED <<serial, broken, losses, events>>
  BY DEF Return, pico
<1>2. call' \in [Calls -> {"idle", "locking", "waiting", "expired", "done"}]
  BY <1>1 DEF PlainTypes
<1>3. result' \in [Calls -> {"none", "answer", "link_error", "timeout", "lost"}]
  BY <1>1 DEF PlainTypes
<1>4. answerOf' \in [Calls -> Calls \cup {None}] BY <1>1 DEF PlainTypes
<1>5. age' \in [Calls -> 0..CtlTimeout] BY <1>1, LinkAssumption DEF PlainTypes
<1>6. ctl' \in [Calls -> {"none", "connected", "answered", "gave_up", "cut"}]
  BY <1>1 DEF PlainTypes
<1> QED BY <1>1, <1>2, <1>3, <1>4, <1>5, <1>6 DEF PlainTypes

LEMMA ThreadTypes ==
  ASSUME PlainTypes, NEW c \in Calls, Connect(c) \/ Acquire(c) \/ Expire(c) \/ CtlGivesUp(c)
  PROVE  PlainTypes'
<1>1. CASE Connect(c) BY <1>1 DEF Connect, PlainTypes, pico
<1>2. CASE Acquire(c) BY <1>2 DEF Acquire, PlainTypes, pico, clients
<1>3. CASE Expire(c)
  <2>1. age' \in [Calls -> 0..CtlTimeout]
    BY <1>3, LinkAssumption DEF Expire, PlainTypes, GivesUp
  <2> QED BY <1>3, <2>1 DEF Expire, PlainTypes, pico
<1>4. CASE CtlGivesUp(c)
  BY <1>4, LinkAssumption DEF CtlGivesUp, PlainTypes, pico, threads
<1> QED BY <1>1, <1>2, <1>3, <1>4

LEMMA SerialTypes == ASSUME PlainTypes, SerialStep PROVE PlainTypes'
<1>1. UNCHANGED <<call, lock, there, result, answerOf, ctl, age, losses, events>>
  BY DEF SerialStep, OpenPort, FlushDone, SendNow, SendFails, ReadTimeout, ReadFails,
         HandleStandby, DispatchReply, SplitLine, SuspendReturns, ReadAny,
         threads, clients, pico
<1>2. broken' \in BOOLEAN
  BY DEF PlainTypes, SerialStep, OpenPort, FlushDone, SendNow, SendFails, ReadTimeout,
         ReadFails, HandleStandby, DispatchReply, SplitLine, SuspendReturns, ReadAny, pico
<1>3. serial' \in {"closed", "flush", "read", "suspending", "blocked"}
  BY DEF PlainTypes, SerialStep, OpenPort, FlushDone, SendNow, SendFails, ReadTimeout,
         ReadFails, HandleStandby, DispatchReply, SplitLine, SuspendReturns, Put
<1> QED BY <1>1, <1>2, <1>3 DEF PlainTypes

LEMMA PicoTypes == ASSUME PlainTypes, PicoStep PROVE PlainTypes'
<1>1. CASE PicoAnswers BY <1>1 DEF PicoAnswers, PicoSays, PlainTypes, threads, clients
<1>2. CASE PicoReportsStandby
  BY <1>2, LinkAssumption DEF PicoReportsStandby, PicoSays, PlainTypes, threads, clients
<1>3. CASE LinkDown
  BY <1>3, LinkAssumption DEF LinkDown, PlainTypes, threads, clients
<1> QED BY <1>1, <1>2, <1>3 DEF PicoStep

LEMMA RestartTypes == ASSUME PlainTypes, Restart PROVE PlainTypes'
<1>1. call' \in [Calls -> {"idle", "locking", "waiting", "expired", "done"}]
  BY DEF Restart, PlainTypes
<1>2. result' \in [Calls -> {"none", "answer", "link_error", "timeout", "lost"}]
  BY DEF Restart, PlainTypes
<1>3. ctl' \in [Calls -> {"none", "connected", "answered", "gave_up", "cut"}]
  BY DEF Restart, PlainTypes
<1>4. age' \in [Calls -> 0..CtlTimeout] BY LinkAssumption DEF Restart
<1>5. losses' \in 0..MaxLosses BY LinkAssumption DEF Restart, PlainTypes
<1> QED BY <1>1, <1>2, <1>3, <1>4, <1>5 DEF Restart, PlainTypes

\* With the types of the queues, which the invariant of PicoLinkProofs holds.
LEMMA TypesAgain == ASSUME IInv, PlainTypes, LineTypes PROVE TypeOK
<1>1. ASSUME NEW c \in Calls PROVE Len(replyQ[c]) \in 0..1
  <2>1. replyQ[c] = <<>> \/ \E a : replyQ[c] = <<a>> BY DEF LineTypes
  <2>2. CASE replyQ[c] = <<>> BY <2>2
  <2>3. ASSUME NEW a, replyQ[c] = <<a>> PROVE Len(replyQ[c]) \in 0..1
    BY <2>3, LineFacts
  <2> QED BY <2>1, <2>2, <2>3
<1> QED BY <1>1 DEF IInv, Types, PlainTypes, TypeOK

\* Tokens that stay where they are or are lost stay one.
LEMMA FewerTokens ==
  ASSUME ChanInv,
         \A x \in Calls : /\ Queued(x)' => Queued(x)
                          /\ Sent(x)' => Sent(x)
                          /\ Told(x)' => Told(x)
                          /\ Replied(x)' => Replied(x),
         \A x \in Calls : call'[x] \in {"idle", "locking"} => call[x] \in {"idle", "locking"}
  PROVE  OnePlace' /\ Begun'
BY DEF ChanInv, OnePlace, Begun

\* The threads: who holds the lock, and that no call goes back.
LEMMA ThreadSteps ==
  ASSUME ChanInv, [Next]_vars
  PROVE  /\ LockHeld'
         /\ \A x \in Calls : call'[x] \in {"idle", "locking"} => call[x] \in {"idle", "locking"}
<1>t. DOMAIN call = Calls BY DEF ChanInv, TypeOK
<1>a. LockHeld BY DEF ChanInv
<1>1. ASSUME NEW c \in Calls, Connect(c) PROVE LockHeld' /\ call' = [call EXCEPT ![c] = "locking"] /\ call[c] = "idle"
  BY <1>1, <1>t, <1>a DEF Connect, LockHeld, Served
<1>2. ASSUME NEW c \in Calls, Acquire(c) PROVE LockHeld' /\ call' = [call EXCEPT ![c] = "waiting"]
  BY <1>2, <1>t, <1>a, LinkAssumption DEF Acquire, LockHeld, Served
<1>3. ASSUME NEW c \in Calls, NEW r, Return(c, r), Served(c)
      PROVE  LockHeld' /\ call' = [call EXCEPT ![c] = "done"]
  BY <1>3, <1>t, <1>a DEF Return, LockHeld, Served
<1>4. ASSUME NEW c \in Calls, Expire(c) PROVE LockHeld' /\ call' = [call EXCEPT ![c] = "expired"]
  BY <1>4, <1>t, <1>a DEF Expire, LockHeld, Served
<1>5. ASSUME NEW c \in Calls, GetReply(c) \/ Unregister(c)
      PROVE  LockHeld' /\ call' = [call EXCEPT ![c] = "done"]
  BY <1>5, <1>3 DEF GetReply, Unregister, Served
<1>6. ASSUME UNCHANGED <<call, lock>> PROVE LockHeld'
  BY <1>6, <1>a DEF LockHeld, Served
<1>7. ASSUME NEW c \in Calls, CtlGivesUp(c) PROVE UNCHANGED <<call, lock>>
  BY <1>7 DEF CtlGivesUp, threads
<1>8. SerialStep => UNCHANGED <<call, lock>>
  BY DEF SerialStep, OpenPort, FlushDone, SendNow, SendFails, ReadTimeout, ReadFails,
         HandleStandby, DispatchReply, SplitLine, SuspendReturns, ReadAny, threads
<1>9. PicoStep => UNCHANGED <<call, lock>>
  BY DEF PicoStep, PicoAnswers, PicoReportsStandby, PicoSays, LinkDown, threads
<1>10. ASSUME Restart
       PROVE  /\ LockHeld'
              /\ \A x \in Calls : call'[x] = call[x] \/ call'[x] = "done"
  BY <1>10, <1>t DEF Restart, LockHeld, Served
<1>11. UNCHANGED vars => UNCHANGED <<call, lock>> BY DEF vars, threads
<1>12. ASSUME NEW c \in Calls, Connect(c) \/ CallStep(c)
       PROVE  /\ LockHeld'
              /\ \A x \in Calls : call'[x] \in {"idle", "locking"} => call[x] \in {"idle", "locking"}
  BY <1>12, <1>1, <1>2, <1>4, <1>5, <1>6, <1>7, <1>t DEF CallStep
<1> QED BY <1>6, <1>8, <1>9, <1>10, <1>11, <1>12 DEF Next

LEMMA PlainTypesKept == ASSUME IInv, ChanInv, [Next]_vars PROVE PlainTypes'
<1>a. PlainTypes BY PlainTypesOf DEF ChanInv
<1>1. ASSUME NEW c \in Calls, Connect(c) \/ CallStep(c) PROVE PlainTypes'
  <2>1. CASE Connect(c) \/ Acquire(c) \/ Expire(c) \/ CtlGivesUp(c)
    BY <2>1, <1>a, ThreadTypes
  <2>2. CASE GetReply(c)
    <3>1. \/ Return(c, LinkError)
          \/ \E d \in Calls : Return(c, Answer(d))
      BY <2>2, GetReplyTokens
    <3>2. CASE Return(c, LinkError) BY <3>2, <1>a, LineFacts, ReturnTypes
    <3>3. ASSUME NEW d \in Calls, Return(c, Answer(d)) PROVE PlainTypes'
      <4>1. Answer(d).kind = "answer" /\ Answer(d).for = d BY LineFacts
      <4> QED BY <3>3, <4>1, <1>a, ReturnTypes
    <3> QED BY <3>1, <3>2, <3>3
  <2>3. CASE Unregister(c)
    BY <2>3, <1>a, ReturnTypes DEF Unregister
  <2> QED BY <1>1, <2>1, <2>2, <2>3 DEF CallStep
<1>2. CASE UNCHANGED vars
  BY <1>2, <1>a DEF PlainTypes, vars, threads, clients, pico
<1> QED BY <1>a, <1>1, <1>2, SerialTypes, PicoTypes, RestartTypes DEF Next

\* A step that moves no token: what such steps are.
QuietStep ==
  \/ \E c \in Calls : Connect(c) \/ Expire(c) \/ Unregister(c) \/ CtlGivesUp(c)
  \/ FlushDone \/ ReadTimeout \/ ReadFails \/ SuspendReturns
  \/ UNCHANGED vars

LEMMA QuietSteps == QuietStep => UNCHANGED Tokens
BY DEF QuietStep, Tokens, Connect, Expire, Unregister, Return, CtlGivesUp, FlushDone,
       ReadTimeout, ReadFails, SuspendReturns, vars, pico

\* The steps that only lose tokens.
ClearStep == OpenPort \/ LinkDown \/ Restart

LEMMA ClearSteps ==
  ASSUME ClearStep
  PROVE  /\ fromPico' = <<>>
         /\ writeQ' \in {writeQ, <<>>} /\ toPico' \in {toPico, <<>>}
         /\ UNCHANGED replyQ \/ replyQ' = [c \in Calls |-> <<>>]
BY DEF ClearStep, OpenPort, LinkDown, Restart

LEMMA NextCases ==
  [Next]_vars =>
    \/ QuietStep
    \/ ClearStep
    \/ \E c \in Calls : Acquire(c) \/ GetReply(c)
    \/ SendNow \/ SendFails
    \/ DispatchReply
    \/ HandleStandby \/ SplitLine
    \/ PicoAnswers \/ PicoReportsStandby
BY DEF Next, CallStep, SerialStep, PicoStep, QuietStep, ClearStep

LEMMA TokensKept ==
  ASSUME IInv, ChanInv, [Next]_vars
  PROVE  Once' /\ LineTypes' /\ RightName' /\ OnePlace' /\ Begun'
<1>a. Once /\ LineTypes /\ RightName /\ OnePlace /\ Begun BY DEF ChanInv
<1>b. \A x \in Calls : call'[x] \in {"idle", "locking"} => call[x] \in {"idle", "locking"}
  BY ThreadSteps
<1>1. CASE QuietStep BY <1>1, <1>a, <1>b, QuietSteps, QuietTokens, FewerTokens
<1>2. CASE ClearStep BY <1>2, <1>b, ClearSteps, ClearTokens, FewerTokens
<1>3. ASSUME NEW c \in Calls, Acquire(c)
      PROVE  Once' /\ LineTypes' /\ RightName' /\ OnePlace' /\ Begun'
  <2>1. /\ \A x \in Calls : /\ Queued(x)' <=> Queued(x) \/ x = c
                            /\ Sent(x)' <=> Sent(x)
                            /\ Told(x)' <=> Told(x)
                            /\ Replied(x)' <=> Replied(x)
        /\ Once' /\ LineTypes' /\ RightName'
    BY <1>3, AcquireTokens
  <2>2. call[c] = "locking" BY <1>3 DEF Acquire
  <2>3. call'[c] = "waiting"
    <3>1. DOMAIN call = Calls BY DEF IInv, Types
    <3> QED BY <1>3, <3>1 DEF Acquire
  <2>4. OnePlace' BY <2>1, <2>2, <1>a DEF OnePlace, Begun
  <2>5. Begun' BY <2>1, <2>3, <1>a, <1>b DEF Begun
  <2> QED BY <2>1, <2>4, <2>5
<1>4. ASSUME NEW c \in Calls, GetReply(c)
      PROVE  Once' /\ LineTypes' /\ RightName' /\ OnePlace' /\ Begun'
  <2>1. /\ \A x \in Calls : /\ Queued(x)' <=> Queued(x)
                            /\ Sent(x)' <=> Sent(x)
                            /\ Told(x)' <=> Told(x)
                            /\ Replied(x)' => Replied(x)
        /\ Once' /\ LineTypes' /\ RightName'
    BY <1>4, GetReplyTokens
  <2>2. OnePlace' /\ Begun' BY <2>1, <1>b, FewerTokens
  <2> QED BY <2>1, <2>2
<1>5. CASE SendNow
  <2>1. PICK h \in Calls :
           /\ Queued(h)
           /\ \A x \in Calls : /\ Queued(x)' <=> Queued(x) /\ x # h
                               /\ Sent(x)' <=> Sent(x) \/ x = h
                               /\ Told(x)' <=> Told(x)
                               /\ Replied(x)' <=> Replied(x)
           /\ Once' /\ LineTypes' /\ RightName'
    BY <1>5, SendNowTokens
  <2> QED BY <2>1, <1>a, <1>b DEF OnePlace, Begun
<1>6. CASE SendFails
  <2>1. PICK h \in Calls :
           /\ Queued(h)
           /\ \A x \in Calls : /\ Queued(x)' <=> Queued(x) /\ x # h
                               /\ Sent(x)' => Sent(x) \/ x = h
                               /\ Told(x)' <=> Told(x)
                               /\ Replied(x)' <=> Replied(x)
           /\ Once' /\ LineTypes' /\ RightName'
    BY <1>6, SendFailsTokens
  <2> QED BY <2>1, <1>a, <1>b DEF OnePlace, Begun
<1>7. CASE DispatchReply
  <2>1. PICK d \in Calls :
           /\ Told(d)
           /\ \A x \in Calls : /\ Queued(x)' <=> Queued(x)
                               /\ Sent(x)' <=> Sent(x)
                               /\ Told(x)' <=> Told(x) /\ x # d
                               /\ Replied(x)' => Replied(x) \/ x = d
           /\ Once' /\ LineTypes' /\ RightName'
    BY <1>7, DispatchTokens
  <2> QED BY <2>1, <1>a, <1>b DEF OnePlace, Begun
<1>8. CASE HandleStandby \/ SplitLine
  <2>1. ReadAny /\ UNCHANGED replyQ BY <1>8 DEF HandleStandby, SplitLine
  <2> QED BY <2>1, <1>b, SkipLineTokens, FewerTokens
<1>9. CASE PicoAnswers
  <2>1. PICK h \in Calls :
           /\ Sent(h)
           /\ \A x \in Calls : /\ Queued(x)' <=> Queued(x)
                               /\ Sent(x)' <=> Sent(x) /\ x # h
                               /\ Told(x)' => Told(x) \/ x = h
                               /\ Replied(x)' <=> Replied(x)
           /\ Once' /\ LineTypes' /\ RightName'
    BY <1>9, PicoAnswersTokens
  <2> QED BY <2>1, <1>a, <1>b DEF OnePlace, Begun
<1>10. CASE PicoReportsStandby BY <1>10, <1>b, ReportTokens, FewerTokens
<1> QED BY <1>1, <1>2, <1>3, <1>4, <1>5, <1>6, <1>7, <1>8, <1>9, <1>10, NextCases

LEMMA InitChanInv == Init => ChanInv
<1> SUFFICES ASSUME Init PROVE ChanInv OBVIOUS
<1>1. IInv BY InitInv
<1>2. PlainTypes
  <2>1. age \in [Calls -> 0..CtlTimeout] BY LinkAssumption DEF Init
  <2>2. losses \in 0..MaxLosses /\ events \in 0..MaxEvents BY LinkAssumption DEF Init
  <2>3. /\ call \in [Calls -> {"idle", "locking", "waiting", "expired", "done"}]
        /\ result \in [Calls -> {"none", "answer", "link_error", "timeout", "lost"}]
        /\ answerOf \in [Calls -> Calls \cup {None}]
        /\ ctl \in [Calls -> {"none", "connected", "answered", "gave_up", "cut"}]
    BY DEF Init
  <2> QED BY <2>1, <2>2, <2>3 DEF Init, PlainTypes
<1>3. /\ writeQ = <<>> /\ toPico = <<>> /\ fromPico = <<>>
      /\ \A c \in Calls : replyQ[c] = <<>> /\ call[c] = "idle"
  BY DEF Init
<1>4. LineTypes
  <2>1. <<>> \in Seq(PicoLines) OBVIOUS
  <2> QED BY <1>3, <2>1 DEF LineTypes
<1>5. \A c, d \in Calls : replyQ[c] # <<Answer(d)>> BY <1>3, LineFacts
<1>6. Once BY <1>3, <1>5, EmptyIn DEF Once
<1>7. \A c \in Calls : ~Queued(c) /\ ~Sent(c) /\ ~Told(c) /\ ~Replied(c)
  BY <1>3, <1>5, EmptyIn DEF Queued, Sent, Told, Replied
<1>8. OnePlace /\ Begun /\ RightName BY <1>5, <1>7 DEF OnePlace, Begun, RightName
<1>9. LockHeld BY <1>3 DEF LockHeld, Served
<1> QED BY <1>1, <1>2, <1>4, <1>6, <1>8, <1>9, TypesAgain DEF ChanInv

LEMMA NextChanInv == ASSUME IInv, IInv', ChanInv, [Next]_vars PROVE ChanInv'
<1>1. Once' /\ LineTypes' /\ RightName' /\ OnePlace' /\ Begun' BY TokensKept
<1>2. LockHeld' BY ThreadSteps
<1>3. TypeOK'
  <2>1. PlainTypes' BY PlainTypesKept
  <2>2. IInv' /\ PlainTypes' /\ LineTypes' => TypeOK' BY TypesAgain, PTL
  <2> QED BY <1>1, <2>1, <2>2
<1> QED BY <1>1, <1>2, <1>3 DEF ChanInv

(***************************************************************************)
(* Where the tokens are, in every behaviour.                               *)
(***************************************************************************)
THEOREM ChanInvariance == Spec => []ChanInv
<1>1. Spec => []IInv BY Invariance
<1>2. IInv /\ IInv' /\ ChanInv /\ [Next]_vars => ChanInv' BY NextChanInv
<1> QED BY <1>1, <1>2, InitChanInv, PTL DEF Spec

(***************************************************************************)
(* The types of class PicoLink and of its clients; among them, that no     *)
(* reply queue holds more than one item.                                   *)
(***************************************************************************)
THEOREM LinkTypeCorrect == Spec => []TypeOK
BY ChanInvariance, PTL DEF ChanInv

--------------------------------------------------------------------------------
(* Stray answers.                                                              *)

\* How a call ends: once, and with an answer only in GetReply.
LEMMA Outcomes ==
  ASSUME IInv, ChanInv, Ended, [Next]_vars
  PROVE  /\ Ended'
         /\ \A x \in Calls : /\ result[x] # "none" => /\ result'[x] = result[x]
                                                      /\ answerOf'[x] = answerOf[x]
                             /\ Served(x) => Served(x)' \/ GivenUp(x)' \/ GetReply(x)
                             /\ result'[x] = "answer" => result[x] = "answer" \/ GetReply(x)
<1> DEFINE Ends == 
             /\ Ended'
             /\ \A x \in Calls : /\ result[x] # "none" => /\ result'[x] = result[x]
                                                          /\ answerOf'[x] = answerOf[x]
                                 /\ Served(x) => Served(x)' \/ GivenUp(x)' \/ GetReply(x)
                                 /\ result'[x] = "answer" => result[x] = "answer" \/ GetReply(x)
<1>t. DOMAIN call = Calls /\ DOMAIN result = Calls /\ DOMAIN answerOf = Calls
  BY DEF ChanInv, TypeOK
<1>1. ASSUME NEW c \in Calls, NEW r, Return(c, r), Served(c),
             r.kind \in {"timeout", "link_error"} \/ (r.kind = "answer" /\ GetReply(c))
      PROVE  Ends
  <2>1. /\ call' = [call EXCEPT ![c] = "done"]
        /\ result' = [result EXCEPT ![c] = r.kind]
        /\ answerOf' = [answerOf EXCEPT ![c] = r.for]
    BY <1>1 DEF Return
  <2>2. result[c] = "none" BY <1>1 DEF Ended, Served
  <2>3. Ended' BY <2>1, <1>1, <1>t DEF Ended
  <2> QED BY <2>1, <2>2, <2>3, <1>1, <1>t DEF GivenUp, Served
<1>2. ASSUME NEW c \in Calls, GetReply(c) PROVE Ends
  <2>1. \/ Return(c, LinkError)
        \/ \E d \in Calls : Return(c, Answer(d))
    BY <1>2, GetReplyTokens
  <2>2. Served(c) BY <1>2 DEF GetReply, Served
  <2>3. CASE Return(c, LinkError) BY <2>2, <2>3, <1>1, LineFacts
  <2>4. ASSUME NEW d \in Calls, Return(c, Answer(d)) PROVE Ends
    BY <2>2, <2>4, <1>1, <1>2, LineFacts
  <2> QED BY <2>1, <2>3, <2>4
<1>3. ASSUME NEW c \in Calls, Unregister(c) PROVE Ends
  BY <1>3, <1>1 DEF Unregister, Served
<1>4. ASSUME NEW c \in Calls, NEW s, UNCHANGED <<result, answerOf>>,
             call' = [call EXCEPT ![c] = s], s # "done", call[c] # "done",
             Served(c) => s \in {"waiting", "expired"}
      PROVE  Ends
  BY <1>4, <1>t DEF Ended, Served
<1>5. ASSUME NEW c \in Calls, Connect(c) \/ Acquire(c) \/ Expire(c) PROVE Ends
  BY <1>5, <1>4 DEF Connect, Acquire, Expire, Served
<1>6. ASSUME UNCHANGED <<call, result, answerOf>> PROVE Ends
  BY <1>6 DEF Ended, Served
<1>7. ASSUME NEW c \in Calls, CtlGivesUp(c) PROVE Ends
  BY <1>7, <1>6 DEF CtlGivesUp, threads
<1>8. SerialStep => UNCHANGED <<call, result, answerOf>>
  BY DEF SerialStep, OpenPort, FlushDone, SendNow, SendFails, ReadTimeout, ReadFails,
         HandleStandby, DispatchReply, SplitLine, SuspendReturns, ReadAny, threads
<1>9. PicoStep => UNCHANGED <<call, result, answerOf>>
  BY DEF PicoStep, PicoAnswers, PicoReportsStandby, PicoSays, LinkDown, threads
<1>10. UNCHANGED vars => UNCHANGED <<call, result, answerOf>> BY DEF vars, threads
<1>11. CASE Restart
  <2>1. /\ \A x \in Calls :
             IF call[x] \in {"locking", "waiting", "expired"}
             THEN call'[x] = "done" /\ result'[x] = "lost"
             ELSE call'[x] = call[x] /\ result'[x] = result[x]
        /\ answerOf' = answerOf
    BY <1>11 DEF Restart
  <2> QED BY <2>1 DEF Ended, Served, GivenUp
<1>12. ASSUME NEW c \in Calls, Connect(c) \/ CallStep(c) PROVE Ends
  BY <1>12, <1>2, <1>3, <1>5, <1>7 DEF CallStep
<1>13. Ends BY <1>6, <1>8, <1>9, <1>10, <1>11, <1>12 DEF Next
<1> QED BY <1>13

\* Only Acquire begins to serve a call.
LEMMA ServedBefore ==
  ASSUME ChanInv, [Next]_vars, \A c \in Calls : ~Acquire(c)
  PROVE  \A x \in Calls : Served(x)' => Served(x)
<1>t. DOMAIN call = Calls BY DEF ChanInv, TypeOK
<1>1. ASSUME NEW c \in Calls, NEW s, call' = [call EXCEPT ![c] = s],
             s \in {"locking", "done"} \/ call[c] = "waiting"
      PROVE  \A x \in Calls : Served(x)' => Served(x)
  BY <1>1, <1>t DEF Served
<1>2. ASSUME NEW c \in Calls, Connect(c) \/ CallStep(c)
      PROVE  \A x \in Calls : Served(x)' => Served(x)
  <2>1. CASE CtlGivesUp(c) BY <2>1 DEF CtlGivesUp, threads, Served
  <2> QED BY <1>1, <1>2, <2>1
          DEF CallStep, Connect, GetReply, Unregister, Return, Expire
<1>3. SerialStep => UNCHANGED call
  BY DEF SerialStep, OpenPort, FlushDone, SendNow, SendFails, ReadTimeout, ReadFails,
         HandleStandby, DispatchReply, SplitLine, SuspendReturns, ReadAny, threads
<1>4. PicoStep => UNCHANGED call
  BY DEF PicoStep, PicoAnswers, PicoReportsStandby, PicoSays, LinkDown, threads
<1>5. Restart => \A x \in Calls : Served(x)' => Served(x) BY DEF Restart, Served
<1>6. UNCHANGED vars => UNCHANGED call BY DEF vars, threads
<1> QED BY <1>2, <1>3, <1>4, <1>5, <1>6 DEF Next, Served

\* The steps that write no command and begin to serve no call.
LEMMA InTurnKept ==
  ASSUME InTurn,
         \A x \in Calls : Served(x)' => Served(x),
         writeQ' \in {writeQ, <<>>},
         \A x \in Calls : Sent(x)' \/ Told(x)' => Sent(x) \/ Told(x),
         \A name \in Commands : pending'[name] \in {pending[name], None}
  PROVE  InTurn'
<1> SUFFICES ASSUME NEW c \in Calls, Served(c)'
             PROVE  /\ \A i \in 1..Len(writeQ') : writeQ'[i] = c => i = Len(writeQ')
                    /\ Sent(c)' \/ Told(c)' => writeQ' = <<>> /\ pending'[cmd[c]] \in {c, None}
  BY DEF InTurn
<1>1. Served(c) /\ cmd[c] \in Commands BY LinkAssumption
<1>2. \A i \in 1..Len(<<>>) : FALSE OBVIOUS
<1>3. \A i \in 1..Len(writeQ') : writeQ'[i] = c => i = Len(writeQ')
  BY <1>1, <1>2 DEF InTurn
<1> QED BY <1>1, <1>3 DEF InTurn

\* The first command is written, or the write of it fails.
LEMMA InTurnWrites ==
  ASSUME IInv, InTurn, NEW h \in Calls,
         writeQ # <<>>, h = Head(writeQ), writeQ' = Tail(writeQ),
         \A x \in Calls : Served(x)' => Served(x),
         \A x \in Calls : Sent(x)' \/ Told(x)' => Sent(x) \/ Told(x) \/ x = h,
         pending'[cmd[h]] \in {h, None}
  PROVE  InTurn'
<1>1. /\ writeQ \in Seq(Calls) /\ Len(writeQ) \in Nat \ {0} /\ writeQ[1] = h
      /\ Len(Tail(writeQ)) = Len(writeQ) - 1
      /\ \A i \in 1..Len(Tail(writeQ)) : Tail(writeQ)[i] = writeQ[i + 1]
  BY DEF IInv, Types
<1> SUFFICES ASSUME NEW c \in Calls, Served(c)'
             PROVE  /\ \A i \in 1..Len(writeQ') : writeQ'[i] = c => i = Len(writeQ')
                    /\ Sent(c)' \/ Told(c)' => writeQ' = <<>> /\ pending'[cmd[c]] \in {c, None}
  BY DEF InTurn
<1>2. \A i \in 1..Len(writeQ) : writeQ[i] = c => i = Len(writeQ) BY DEF InTurn
<1>3. \A i \in 1..Len(Tail(writeQ)) : i + 1 \in 1..Len(writeQ) BY <1>1
<1>4. ASSUME NEW i \in 1..Len(Tail(writeQ)), Tail(writeQ)[i] = c
      PROVE  i = Len(Tail(writeQ))
  <2>1. writeQ[i + 1] = c BY <1>1, <1>4
  <2>2. i + 1 = Len(writeQ) BY <1>2, <1>3, <2>1
  <2> DEFINE n == Len(writeQ)
             m == Len(Tail(writeQ))
  <2>3. n \in Nat /\ m = n - 1 /\ i \in 1..m /\ i + 1 = n BY <1>1, <2>2
  <2> HIDE DEF n, m
  <2>4. i = m BY <2>3
  <2> QED BY <2>4 DEF m
<1>5. ASSUME Sent(c)' \/ Told(c)'
      PROVE  writeQ' = <<>> /\ pending'[cmd[c]] \in {c, None}
  <2>1. c = h BY <1>5 DEF InTurn
  <2>2. 1 \in 1..Len(writeQ) BY <1>1
  <2>3. Len(writeQ) = 1 BY <1>1, <1>2, <2>1, <2>2
  <2>4. Tail(writeQ) = <<>> BY <1>1, <2>3
  <2> QED BY <2>1, <2>4
<1> QED BY <1>4, <1>5

\* A call takes the free lock, and appends its command.
LEMMA InTurnAcquire ==
  ASSUME IInv, ChanInv, NEW c \in Calls, Acquire(c)
  PROVE  InTurn'
<1>1. /\ call[c] = "locking" /\ lock = None
      /\ call' = [call EXCEPT ![c] = "waiting"]
      /\ writeQ' = Append(writeQ, c)
  BY DEF Acquire
<1>2. \A x \in Calls : Served(x)' => x = c
  <2>1. \A x \in Calls : ~Served(x) BY <1>1, LinkAssumption DEF ChanInv, LockHeld
  <2>2. DOMAIN call = Calls BY DEF IInv, Types
  <2> QED BY <1>1, <2>1, <2>2 DEF Served
<1>3. ~Queued(c) /\ ~Sent(c)' /\ ~Told(c)' BY <1>1, AcquireTokens DEF ChanInv, Begun
<1>4. writeQ \in Seq(Calls) BY DEF IInv, Types
<1>5. /\ Len(Append(writeQ, c)) = Len(writeQ) + 1 /\ Len(writeQ) \in Nat
      /\ \A i \in 1..Len(writeQ) : Append(writeQ, c)[i] = writeQ[i]
  BY <1>4
<1>6. \A i \in 1..Len(writeQ) : writeQ[i] # c BY <1>3 DEF Queued, In
<1>7. \A i \in 1..Len(writeQ') : writeQ'[i] = c => i = Len(writeQ')
  BY <1>1, <1>5, <1>6
<1> QED BY <1>2, <1>3, <1>7 DEF InTurn

LEMMA NextInTurn == ASSUME IInv, ChanInv, InTurn, [Next]_vars PROVE InTurn'
<1>1. CASE \E c \in Calls : Acquire(c) BY <1>1, InTurnAcquire
<1>2. CASE \A c \in Calls : ~Acquire(c)
  <2>1. \A x \in Calls : Served(x)' => Served(x) BY <1>2, ServedBefore
  <2>2. CASE SendNow
    <3>1. PICK h \in Calls :
             /\ \A x \in Calls : /\ Sent(x)' <=> Sent(x) \/ x = h
                                 /\ Told(x)' <=> Told(x)
             /\ h = Head(writeQ)
      BY <2>2, SendNowTokens
    <3>2. /\ writeQ # <<>> /\ writeQ' = Tail(writeQ)
          /\ pending' = [pending EXCEPT ![cmd[h]] = h]
      BY <2>2, <3>1 DEF SendNow
    <3>3. pending'[cmd[h]] \in {h, None} BY <3>2, LinkAssumption DEF IInv, Types
    <3> QED BY <2>1, <3>1, <3>2, <3>3, InTurnWrites
  <2>3. CASE SendFails
    <3>1. PICK h \in Calls :
             /\ \A x \in Calls : /\ Sent(x)' => Sent(x) \/ x = h
                                 /\ Told(x)' <=> Told(x)
             /\ h = Head(writeQ)
      BY <2>3, SendFailsTokens
    <3>2. /\ writeQ # <<>> /\ writeQ' = Tail(writeQ)
          /\ pending' = [pending EXCEPT ![cmd[h]] = None]
      BY <2>3, <3>1 DEF SendFails
    <3>3. pending'[cmd[h]] \in {h, None} BY <3>2, LinkAssumption DEF IInv, Types
    <3> QED BY <2>1, <3>1, <3>2, <3>3, InTurnWrites
  <2>4. CASE ~SendNow /\ ~SendFails
    <3>1. /\ writeQ' \in {writeQ, <<>>}
          /\ \A x \in Calls : Sent(x)' \/ Told(x)' => Sent(x) \/ Told(x)
      <4>1. CASE QuietStep
        <5>1. UNCHANGED Tokens BY <4>1, QuietSteps
        <5> QED BY <5>1, QuietTokens DEF ChanInv, Tokens
      <4>2. CASE ClearStep BY <4>2, ClearSteps, ClearTokens
      <4>3. ASSUME NEW c \in Calls, GetReply(c)
            PROVE  /\ writeQ' = writeQ
                   /\ \A x \in Calls : Sent(x)' \/ Told(x)' => Sent(x) \/ Told(x)
        BY <4>3, GetReplyTokens DEF GetReply, Return
      <4>4. CASE DispatchReply BY <4>4, DispatchTokens DEF DispatchReply, ReadAny
      <4>5. CASE HandleStandby \/ SplitLine
        <5>1. ReadAny /\ UNCHANGED replyQ BY <4>5 DEF HandleStandby, SplitLine
        <5> QED BY <5>1, SkipLineTokens DEF ReadAny
      <4>6. CASE PicoAnswers BY <4>6, PicoAnswersTokens DEF PicoAnswers, PicoSays
      <4>7. CASE PicoReportsStandby
        BY <4>7, ReportTokens DEF PicoReportsStandby, PicoSays
      <4> QED BY <1>2, <2>4, <4>1, <4>2, <4>3, <4>4, <4>5, <4>6, <4>7, NextCases
    <3>2. UNCHANGED pending \/ pending' = [name \in Commands |-> None]
          \/ \E n : pending' = [pending EXCEPT ![n] = None]
      BY <1>2, <2>4, NextCases
         DEF QuietStep, ClearStep, Connect, Expire, Unregister, CtlGivesUp, FlushDone,
             ReadTimeout, ReadFails, SuspendReturns, vars, OpenPort, LinkDown, Restart,
             HandleStandby, SplitLine, PicoReportsStandby, PicoSays, PicoAnswers,
             GetReply, DispatchReply
    <3>3. \A name \in Commands : pending'[name] \in {pending[name], None}
      BY <3>2 DEF IInv, Types
    <3> QED BY <2>1, <3>1, <3>3, InTurnKept
  <2> QED BY <2>2, <2>3, <2>4
<1> QED BY <1>1, <1>2

\* What was given up, or missed, stays so.
LEMMA OrphanedStays ==
  ASSUME \A x \in Calls : result[x] # "none" => /\ result'[x] = result[x]
                                               /\ answerOf'[x] = answerOf[x]
  PROVE  /\ \A x \in Calls : GivenUp(x) => GivenUp(x)'
         /\ \A name : GaveUp(name) => GaveUp(name)'
         /\ \A x \in Calls : Orphaned(x) => Orphaned(x)'
<1>1. \A x \in Calls : GivenUp(x) => GivenUp(x)' BY DEF GivenUp
<1>2. \A name : GaveUp(name) => GaveUp(name)' BY <1>1 DEF GaveUp
<1>3. \A x \in Calls : MissedItsAnswer(x) => MissedItsAnswer(x)'
  BY <1>1 DEF MissedItsAnswer
<1> QED BY <1>1, <1>2, <1>3 DEF Orphaned

\* Tokens that stay where they are or are lost leave nothing new over, if the
\* calls that end are given up, or their own tokens are gone.
LEMMA NothingNew ==
  ASSUME IInv, Leftover,
         \A x \in Calls : GivenUp(x) => GivenUp(x)',
         \A x \in Calls : Orphaned(x) => Orphaned(x)',
         \A x \in Calls : /\ Queued(x)' => Queued(x)
                          /\ Sent(x)' => Sent(x)
                          /\ Told(x)' => Told(x),
         \A name \in Commands : pending'[name] \in {pending[name], None},
         \A c, d \in Calls : replyQ'[c] = <<Answer(d)>> => replyQ[c] = <<Answer(d)>>,
         \A x \in Calls :
            Served(x) =>
              \/ Served(x)' \/ GivenUp(x)'
              \/ /\ ~Queued(x) /\ \A name \in Commands : pending[name] # x
                 /\ Sent(x) \/ Told(x) => Orphaned(x)'
  PROVE  Leftover'
<1>1. \A x \in Calls : GivenUp(x)' => Orphaned(x)' BY DEF Orphaned, MissedItsAnswer, GaveUp
<1>2. \A c \in Calls : Queued(c)' => Served(c)' \/ GivenUp(c)'
  BY DEF Leftover
<1>3. ASSUME NEW name \in Commands, pending'[name] # None
      PROVE  (Served(pending[name]) \/ GivenUp(pending[name]))'
  <2>1. PICK c \in Calls : c = pending[name] /\ c = pending'[name]
    BY <1>3 DEF IInv, Types
  <2>2. Served(c) \/ GivenUp(c) BY <1>3, <2>1 DEF Leftover
  <2>3. Served(c)' \/ GivenUp(c)' BY <2>1, <2>2
  <2> QED BY <2>1, <2>3 DEF Served, GivenUp
<1>4. \A c \in Calls : Sent(c)' \/ Told(c)' => Served(c)' \/ Orphaned(c)'
  BY <1>1 DEF Leftover
<1>5. \A c, d \in Calls : replyQ'[c] = <<Answer(d)>> => d = c \/ Orphaned(d)'
  BY DEF Leftover
<1> QED BY <1>2, <1>3, <1>4, <1>5 DEF Leftover, Answer

\* A command is registered; _send_now writes it.
LEMMA SendNowLeftover ==
  ASSUME IInv, ChanInv, Leftover, SendNow,
         \A x \in Calls : GivenUp(x) => GivenUp(x)',
         \A x \in Calls : Orphaned(x) => Orphaned(x)'
  PROVE  Leftover'
<1>1. PICK h \in Calls :
         /\ Queued(h)
         /\ \A x \in Calls : /\ Queued(x)' <=> Queued(x) /\ x # h
                             /\ Sent(x)' <=> Sent(x) \/ x = h
                             /\ Told(x)' <=> Told(x)
         /\ h = Head(writeQ)
  BY SendNowTokens
<1>2. /\ pending' = [pending EXCEPT ![cmd[h]] = h]
      /\ UNCHANGED <<call, replyQ>>
  BY <1>1 DEF SendNow, threads
<1>3. Served(h) \/ GivenUp(h) BY <1>1 DEF Leftover
<1>4. \A x \in Calls : Served(x)' <=> Served(x) BY <1>2 DEF Served
<1>5. Served(h)' \/ GivenUp(h)' BY <1>3, <1>4
<1>6. \A x \in Calls : GivenUp(x)' => Orphaned(x)' BY DEF Orphaned, MissedItsAnswer, GaveUp
<1>7. \A c \in Calls : Queued(c)' => Served(c)' \/ GivenUp(c)'
  BY <1>1, <1>4 DEF Leftover
<1>8. ASSUME NEW name \in Commands, pending'[name] # None
      PROVE  (Served(pending[name]) \/ GivenUp(pending[name]))'
  <2>1. pending'[name] = h \/ pending'[name] = pending[name]
    BY <1>2 DEF IInv, Types
  <2>2. CASE pending'[name] = h BY <2>2, <1>5 DEF Served, GivenUp
  <2>3. CASE pending'[name] = pending[name]
    <3>1. PICK c \in Calls : c = pending[name] /\ c = pending'[name]
      BY <1>8, <2>3 DEF IInv, Types
    <3>2. Served(c) \/ GivenUp(c) BY <1>8, <3>1 DEF Leftover
    <3>3. Served(c)' \/ GivenUp(c)' BY <3>2, <1>4
    <3> QED BY <3>1, <3>3 DEF Served, GivenUp
  <2> QED BY <2>1, <2>2, <2>3
<1>9. \A c \in Calls : Sent(c)' \/ Told(c)' => Served(c)' \/ Orphaned(c)'
  BY <1>1, <1>4, <1>5, <1>6 DEF Leftover
<1>10. \A c, d \in Calls : replyQ'[c] = <<Answer(d)>> => d = c \/ Orphaned(d)'
  BY <1>2 DEF Leftover
<1> QED BY <1>7, <1>8, <1>9, <1>10 DEF Leftover, Answer

\* A command that _send_now could not write may have reached the Pico.
LEMMA SendFailsLeftover ==
  ASSUME IInv, ChanInv, Leftover, SendFails,
         \A x \in Calls : GivenUp(x) => GivenUp(x)',
         \A x \in Calls : Orphaned(x) => Orphaned(x)'
  PROVE  Leftover'
<1>1. PICK h \in Calls :
         /\ Queued(h)
         /\ \A x \in Calls : /\ Queued(x)' <=> Queued(x) /\ x # h
                             /\ Sent(x)' => Sent(x) \/ x = h
                             /\ Told(x)' <=> Told(x)
         /\ h = Head(writeQ)
         /\ \A c, d \in Calls : replyQ'[c] = <<Answer(d)>> => replyQ[c] = <<Answer(d)>>
  BY SendFailsTokens
<1>2. /\ pending' = [pending EXCEPT ![cmd[h]] = None]
      /\ UNCHANGED call
  BY <1>1 DEF SendFails, threads
<1>3. Served(h) \/ GivenUp(h) BY <1>1 DEF Leftover
<1>4. \A x \in Calls : Served(x)' <=> Served(x) BY <1>2 DEF Served
<1>5. \A x \in Calls : GivenUp(x)' => Orphaned(x)' BY DEF Orphaned, MissedItsAnswer, GaveUp
<1>6. \A c \in Calls : Queued(c)' => Served(c)' \/ GivenUp(c)'
  BY <1>1, <1>4 DEF Leftover
<1>7. ASSUME NEW name \in Commands, pending'[name] # None
      PROVE  (Served(pending[name]) \/ GivenUp(pending[name]))'
  <2>1. PICK c \in Calls : c = pending[name] /\ c = pending'[name]
    BY <1>7, <1>2 DEF IInv, Types
  <2>2. Served(c) \/ GivenUp(c) BY <1>7, <2>1 DEF Leftover
  <2>3. Served(c)' \/ GivenUp(c)' BY <2>2, <1>4
  <2> QED BY <2>1, <2>3 DEF Served, GivenUp
<1>8. \A c \in Calls : Sent(c)' \/ Told(c)' => Served(c)' \/ Orphaned(c)'
  BY <1>1, <1>3, <1>4, <1>5 DEF Leftover
<1>9. \A c, d \in Calls : replyQ'[c] = <<Answer(d)>> => d = c \/ Orphaned(d)'
  BY <1>1 DEF Leftover
<1> QED BY <1>6, <1>7, <1>8, <1>9 DEF Leftover, Answer

(***************************************************************************)
(* _dispatch_reply gives the answer to d to the call registered under its  *)
(* name.  If d is still served, that call is d itself; if it is not, d was *)
(* left over.                                                              *)
(***************************************************************************)
LEMMA DispatchLeftover ==
  ASSUME IInv, ChanInv, InTurn, Leftover, DispatchReply,
         \A x \in Calls : GivenUp(x) => GivenUp(x)',
         \A x \in Calls : Orphaned(x) => Orphaned(x)'
  PROVE  Leftover'
<1>1. PICK d \in Calls :
         /\ Told(d)
         /\ Head(fromPico) = Answer(d)
         /\ \A x \in Calls : /\ Queued(x)' <=> Queued(x)
                             /\ Sent(x)' <=> Sent(x)
                             /\ Told(x)' => Told(x)
         /\ RightName'
         /\ \A c, e \in Calls :
              replyQ'[c] = <<Answer(e)>> =>
                replyQ[c] = <<Answer(e)>> \/ (e = d /\ c = pending[cmd[d]])
  BY DispatchTokens
<1>2. Head(fromPico).for = d BY <1>1, LineFacts
<1>3. /\ pending' = [pending EXCEPT ![cmd[d]] = None]
      /\ UNCHANGED call
  BY <1>2 DEF DispatchReply, ReadAny, threads
<1>4. \A x \in Calls : Served(x)' <=> Served(x) BY <1>3 DEF Served
<1>5. \A x \in Calls : GivenUp(x)' => Orphaned(x)' BY DEF Orphaned, MissedItsAnswer, GaveUp
<1>6. \A c \in Calls : Queued(c)' => Served(c)' \/ GivenUp(c)'
  BY <1>1, <1>4 DEF Leftover
<1>7. ASSUME NEW name \in Commands, pending'[name] # None
      PROVE  (Served(pending[name]) \/ GivenUp(pending[name]))'
  <2>1. PICK c \in Calls : c = pending[name] /\ c = pending'[name]
    BY <1>7, <1>3 DEF IInv, Types
  <2>2. Served(c) \/ GivenUp(c) BY <1>7, <2>1 DEF Leftover
  <2>3. Served(c)' \/ GivenUp(c)' BY <2>2, <1>4
  <2> QED BY <2>1, <2>3 DEF Served, GivenUp
<1>8. \A c \in Calls : Sent(c)' \/ Told(c)' => Served(c)' \/ Orphaned(c)'
  BY <1>1, <1>4 DEF Leftover
<1>9. ASSUME NEW c \in Calls, NEW e \in Calls, replyQ'[c] = <<Answer(e)>>
      PROVE  e = c \/ Orphaned(e)'
  <2>1. CASE replyQ[c] = <<Answer(e)>> BY <2>1 DEF Leftover
  <2>2. CASE e = d /\ c = pending[cmd[d]]
    <3>1. Served(d) \/ Orphaned(d) BY <1>1 DEF Leftover
    <3>2. Served(d) => c \in {d, None} BY <1>1, <2>2 DEF InTurn
    <3>3. c # None BY LinkAssumption
    <3> QED BY <2>2, <3>1, <3>2, <3>3
  <2> QED BY <1>1, <1>9, <2>1, <2>2
<1> QED BY <1>6, <1>7, <1>8, <1>9 DEF Leftover, Answer

\* A call that takes its answer leaves nothing over, unless the answer was
\* left over itself.
LEMMA GetReplyLeftover ==
  ASSUME IInv, ChanInv, Leftover, NEW c \in Calls, GetReply(c),
         \A x \in Calls : GivenUp(x) => GivenUp(x)',
         \A x \in Calls : Orphaned(x) => Orphaned(x)'
  PROVE  Leftover'
<1>1. /\ \A x \in Calls : /\ Queued(x)' <=> Queued(x)
                          /\ Sent(x)' <=> Sent(x)
                          /\ Told(x)' <=> Told(x)
      /\ \/ /\ replyQ[c] = <<LinkError>>
            /\ Return(c, LinkError)
         \/ \E d \in Calls : /\ replyQ[c] = <<Answer(d)>> /\ cmd[d] = cmd[c]
                             /\ Return(c, Answer(d))
  BY GetReplyTokens
<1>2. /\ pending' = pending
      /\ replyQ[c] # <<>> /\ replyQ' = [replyQ EXCEPT ![c] = Tail(@)]
      /\ call' = [call EXCEPT ![c] = "done"]
  BY DEF GetReply, Return
<1>3. DOMAIN replyQ = Calls /\ DOMAIN call = Calls /\ DOMAIN result = Calls
      /\ DOMAIN answerOf = Calls
  BY DEF IInv, Types, ChanInv, TypeOK
<1>4. ~Queued(c) BY <1>2 DEF IInv, QueuedIsFresh, Queued, In
<1>5. \A name \in Commands : pending[name] # c
  BY <1>2, LinkAssumption DEF IInv, PendingIsFresh
<1>6. \A e, d \in Calls : replyQ'[e] = <<Answer(d)>> => replyQ[e] = <<Answer(d)>>
  <2>1. replyQ[c] \in {<<>>, <<LinkError>>} \cup {<<a>> : a \in Answers}
    BY DEF ChanInv, LineTypes
  <2>2. \A a : Tail(<<a>>) = <<>> OBVIOUS
  <2>3. Tail(replyQ[c]) = <<>> BY <2>1, <2>2, <1>2
  <2>4. replyQ'[c] = <<>> /\ \A e \in Calls \ {c} : replyQ'[e] = replyQ[e]
    BY <2>3, <1>2, <1>3
  <2> QED BY <2>4, LineFacts, ZenonT(30)
<1>7. \/ GivenUp(c)'
      \/ Sent(c) \/ Told(c) => Orphaned(c)'
  <2>1. CASE Return(c, LinkError)
    BY <2>1, <1>3 DEF Return, GivenUp, LinkError
  <2>2. ASSUME NEW d \in Calls, replyQ[c] = <<Answer(d)>>, cmd[d] = cmd[c],
               Return(c, Answer(d)), Sent(c) \/ Told(c)
        PROVE  Orphaned(c)'
    <3>1. ~Replied(c) BY <2>2 DEF ChanInv, OnePlace
    <3>2. d # c BY <3>1, <2>2 DEF Replied
    <3>3. GaveUp(cmd[c])' BY <3>2, <2>2 DEF Leftover, Orphaned
    <3>4. result'[c] = "answer" /\ answerOf'[c] = d
      BY <2>2, <1>3 DEF Return, Answer
    <3> QED BY <3>2, <3>3, <3>4 DEF Orphaned, MissedItsAnswer
  <2> QED BY <1>1, <2>1, <2>2
<1>8. \A x \in Calls \ {c} : Served(x) => Served(x)' BY <1>2, <1>3 DEF Served
<1> QED BY <1>1, <1>2, <1>4, <1>5, <1>6, <1>7, <1>8, NothingNew

\* The steps of the other threads, of the port and of the Pico.
LEMMA OtherLeftover ==
  ASSUME IInv, ChanInv, Leftover,
         \/ QuietStep \/ ClearStep
         \/ HandleStandby \/ SplitLine \/ PicoReportsStandby,
         \A x \in Calls : GivenUp(x) => GivenUp(x)',
         \A x \in Calls : Orphaned(x) => Orphaned(x)',
         \A x \in Calls : Served(x) => Served(x)' \/ GivenUp(x)'
  PROVE  Leftover'
<1> DEFINE Fewer ==
      /\ \A x \in Calls : /\ Queued(x)' => Queued(x)
                          /\ Sent(x)' => Sent(x)
                          /\ Told(x)' => Told(x)
      /\ \A c, d \in Calls : replyQ'[c] = <<Answer(d)>> => replyQ[c] = <<Answer(d)>>
<1>1. \A name \in Commands : pending'[name] \in {pending[name], None}
  <2>1. UNCHANGED pending \/ pending' = [name \in Commands |-> None]
        \/ \E n : pending' = [pending EXCEPT ![n] = None]
    BY DEF QuietStep, ClearStep, Connect, Expire, Unregister, CtlGivesUp, FlushDone,
           ReadTimeout, ReadFails, SuspendReturns, vars, OpenPort, LinkDown, Restart,
           HandleStandby, SplitLine, PicoReportsStandby, PicoSays
  <2> QED BY <2>1 DEF IInv, Types
<1>2. CASE QuietStep
  <2>1. UNCHANGED Tokens BY <1>2, QuietSteps
  <2>2. Fewer BY <2>1, QuietTokens DEF ChanInv, Tokens
  <2> QED BY <1>1, <2>2, NothingNew
<1>3. CASE ClearStep
  <2>1. Fewer BY <1>3, ClearSteps, ClearTokens
  <2> QED BY <1>1, <2>1, NothingNew
<1>4. CASE HandleStandby \/ SplitLine
  <2>1. ReadAny /\ UNCHANGED replyQ BY <1>4 DEF HandleStandby, SplitLine
  <2>2. Fewer BY <2>1, SkipLineTokens
  <2> QED BY <1>1, <2>2, NothingNew
<1>5. CASE PicoReportsStandby
  <2>1. UNCHANGED replyQ BY <1>5 DEF PicoReportsStandby, PicoSays
  <2>2. Fewer BY <1>5, <2>1, ReportTokens
  <2> QED BY <1>1, <2>2, NothingNew
<1> QED BY <1>2, <1>3, <1>4, <1>5

LEMMA AcquireLeftover ==
  ASSUME IInv, ChanInv, Leftover, NEW c \in Calls, Acquire(c),
         \A x \in Calls : GivenUp(x) => GivenUp(x)',
         \A x \in Calls : Orphaned(x) => Orphaned(x)'
  PROVE  Leftover'
<1>1. \A x \in Calls : /\ Queued(x)' <=> Queued(x) \/ x = c
                       /\ Sent(x)' <=> Sent(x)
                       /\ Told(x)' <=> Told(x)
  BY AcquireTokens
<1>2. UNCHANGED <<pending, replyQ>> /\ call' = [call EXCEPT ![c] = "waiting"]
  BY DEF Acquire
<1>3. /\ \A x \in Calls : Served(x) => Served(x)'
      /\ Served(c)'
  BY <1>2 DEF IInv, Types, Served
<1>4. ASSUME NEW name \in Commands, pending'[name] # None
      PROVE  (Served(pending[name]) \/ GivenUp(pending[name]))'
  <2>1. PICK x \in Calls : x = pending[name] /\ x = pending'[name]
    BY <1>4, <1>2 DEF IInv, Types
  <2>2. Served(x) \/ GivenUp(x) BY <1>4, <1>2, <2>1 DEF Leftover
  <2>3. Served(x)' \/ GivenUp(x)' BY <2>2, <1>3
  <2> QED BY <2>1, <2>3 DEF Served, GivenUp
<1>5. \A x \in Calls : Queued(x)' => Served(x)' \/ GivenUp(x)'
  BY <1>1, <1>3 DEF Leftover
<1>6. \A x \in Calls : Sent(x)' \/ Told(x)' => Served(x)' \/ Orphaned(x)'
  BY <1>1, <1>3 DEF Leftover
<1>7. \A x, d \in Calls : replyQ'[x] = <<Answer(d)>> => d = x \/ Orphaned(d)'
  BY <1>2 DEF Leftover
<1> QED BY <1>4, <1>5, <1>6, <1>7 DEF Leftover, Answer

LEMMA PicoAnswersLeftover ==
  ASSUME IInv, ChanInv, Leftover, PicoAnswers,
         \A x \in Calls : GivenUp(x) => GivenUp(x)',
         \A x \in Calls : Orphaned(x) => Orphaned(x)'
  PROVE  Leftover'
<1>1. PICK h \in Calls :
         /\ Sent(h)
         /\ \A x \in Calls : /\ Queued(x)' <=> Queued(x)
                             /\ Sent(x)' <=> Sent(x) /\ x # h
                             /\ Told(x)' => Told(x) \/ x = h
  BY PicoAnswersTokens
<1>2. UNCHANGED <<pending, replyQ, call>> BY DEF PicoAnswers, PicoSays, threads
<1>3. \A x \in Calls : Served(x) <=> Served(x)' BY <1>2 DEF Served
<1>4. ASSUME NEW name \in Commands, pending'[name] # None
      PROVE  (Served(pending[name]) \/ GivenUp(pending[name]))'
  <2>1. PICK x \in Calls : x = pending[name] /\ x = pending'[name]
    BY <1>4, <1>2 DEF IInv, Types
  <2>2. Served(x) \/ GivenUp(x) BY <1>4, <1>2, <2>1 DEF Leftover
  <2>3. Served(x)' \/ GivenUp(x)' BY <2>2, <1>3
  <2> QED BY <2>1, <2>3 DEF Served, GivenUp
<1>5. \A x \in Calls : Queued(x)' => Served(x)' \/ GivenUp(x)'
  BY <1>1, <1>3 DEF Leftover
<1>6. \A x \in Calls : Sent(x)' \/ Told(x)' => Served(x)' \/ Orphaned(x)'
  BY <1>1, <1>3 DEF Leftover
<1>7. \A x, d \in Calls : replyQ'[x] = <<Answer(d)>> => d = x \/ Orphaned(d)'
  BY <1>2 DEF Leftover
<1> QED BY <1>4, <1>5, <1>6, <1>7 DEF Leftover, Answer

LEMMA NextStrayInv == ASSUME IInv, ChanInv, StrayInv, [Next]_vars PROVE StrayInv'
<1>1. /\ Ended'
      /\ \A x \in Calls : /\ result[x] # "none" => /\ result'[x] = result[x]
                                                   /\ answerOf'[x] = answerOf[x]
                          /\ Served(x) => Served(x)' \/ GivenUp(x)' \/ GetReply(x)
                          /\ result'[x] = "answer" => result[x] = "answer" \/ GetReply(x)
  BY Outcomes DEF StrayInv
<1>a. ASSUME NEW x \in Calls
      PROVE  /\ result[x] # "none" => result'[x] = result[x] /\ answerOf'[x] = answerOf[x]
             /\ Served(x) => Served(x)' \/ GivenUp(x)' \/ GetReply(x)
             /\ result'[x] = "answer" => result[x] = "answer" \/ GetReply(x)
  BY <1>1
<1>b. \A x \in Calls : result[x] # "none" => /\ result'[x] = result[x]
                                              /\ answerOf'[x] = answerOf[x]
  BY <1>a
<1>2. /\ \A x \in Calls : GivenUp(x) => GivenUp(x)'
      /\ \A x \in Calls : Orphaned(x) => Orphaned(x)'
  BY <1>b, OrphanedStays
<1>3. Leftover'
  <2>1. CASE SendNow \/ SendFails
    BY <2>1, <1>2, SendNowLeftover, SendFailsLeftover DEF StrayInv
  <2>2. CASE DispatchReply BY <2>2, <1>2, DispatchLeftover DEF StrayInv
  <2>3. CASE \E c \in Calls : GetReply(c)
    BY <2>3, <1>2, GetReplyLeftover DEF StrayInv
  <2>4. CASE \E c \in Calls : Acquire(c)
    BY <2>4, <1>2, AcquireLeftover DEF StrayInv
  <2>5. CASE PicoAnswers BY <2>5, <1>2, PicoAnswersLeftover DEF StrayInv
  <2>6. CASE /\ \A c \in Calls : ~GetReply(c)
             /\ \/ QuietStep \/ ClearStep
                \/ HandleStandby \/ SplitLine \/ PicoReportsStandby
    <3>1. \A x \in Calls : Served(x) => Served(x)' \/ GivenUp(x)' BY <2>6, <1>a
    <3> QED BY <2>6, <3>1, <1>2, OtherLeftover DEF StrayInv
  <2> QED BY <2>1, <2>2, <2>3, <2>4, <2>5, <2>6, NextCases
<1>4. Taken'
  <2> SUFFICES ASSUME NEW c \in Calls, result'[c] = "answer"
               PROVE  /\ answerOf'[c] \in Calls
                      /\ cmd[answerOf'[c]] = cmd[c]
                      /\ answerOf'[c] = c \/ Orphaned(answerOf[c])'
    BY DEF Taken
  <2>1. CASE result[c] = "answer"
    <3>1. answerOf'[c] = answerOf[c] BY <2>1, <1>a
    <3> QED BY <2>1, <3>1, <1>2 DEF StrayInv, Taken, Orphaned, MissedItsAnswer, GivenUp
  <2>2. CASE GetReply(c)
    <3>1. \/ Return(c, LinkError)
          \/ \E d \in Calls : /\ replyQ[c] = <<Answer(d)>> /\ cmd[d] = cmd[c]
                              /\ Return(c, Answer(d))
      BY <2>2, GetReplyTokens
    <3>t. DOMAIN result = Calls /\ DOMAIN answerOf = Calls BY DEF ChanInv, TypeOK
    <3>2. ~Return(c, LinkError) BY <3>t DEF Return, LinkError
    <3>3. PICK d \in Calls : /\ replyQ[c] = <<Answer(d)>> /\ cmd[d] = cmd[c]
                             /\ Return(c, Answer(d))
      BY <3>1, <3>2
    <3>4. answerOf'[c] = d BY <3>3, <3>t DEF Return, Answer
    <3>5. d = c \/ Orphaned(d)' BY <3>3, <1>2 DEF StrayInv, Leftover
    <3> QED BY <3>3, <3>4, <3>5 DEF Orphaned, MissedItsAnswer, GivenUp
  <2> QED BY <1>a, <2>1, <2>2
<1>5. InTurn' BY NextInTurn DEF StrayInv
<1> QED BY <1>1, <1>3, <1>4, <1>5 DEF StrayInv

LEMMA InitStrayInv == Init => StrayInv
<1> SUFFICES ASSUME Init PROVE StrayInv OBVIOUS
<1>1. \A c \in Calls : replyQ[c] = <<>> /\ call[c] = "idle" /\ result[c] = "none"
  BY DEF Init
<1>2. /\ writeQ = <<>> /\ toPico = <<>> /\ fromPico = <<>>
      /\ \A name \in Commands : pending[name] = None
  BY DEF Init
<1>3. \A c, d \in Calls : replyQ[c] # <<Answer(d)>> BY <1>1, LineFacts
<1>4. \A c \in Calls : ~Queued(c) /\ ~Sent(c) /\ ~Told(c)
  BY <1>2, EmptyIn DEF Queued, Sent, Told
<1>5. Leftover BY <1>2, <1>3, <1>4 DEF Leftover
<1>6. Ended /\ InTurn /\ Taken BY <1>1 DEF Ended, InTurn, Served, Taken
<1> QED BY <1>5, <1>6 DEF StrayInv

(***************************************************************************)
(* send_command returns the answer to another call's command only if both  *)
(* commands have one name, that other call has ended without its answer,   *)
(* and a call of that name, which need not be that one, was given up: by   *)
(* its time-out, a failed write or the end of the listener.                *)
(***************************************************************************)
THEOREM StrayAnswers == Spec => []StrayAnswersNeedAGivenUpCall
<1>1. StrayInv => StrayAnswersNeedAGivenUpCall
  BY DEF StrayInv, Taken, StrayAnswersNeedAGivenUpCall, Orphaned, GaveUp, GivenUp
<1>2. Spec => []IInv BY Invariance
<1>3. Spec => []ChanInv BY ChanInvariance
<1>4. IInv /\ ChanInv /\ StrayInv /\ [Next]_vars => StrayInv' BY NextStrayInv
<1> QED BY <1>1, <1>2, <1>3, <1>4, InitStrayInv, PTL DEF Spec

--------------------------------------------------------------------------------
(* The refinement of CommandChannel.                                           *)

\* The variables of CommandChannel, as PicoLink implements them.
stageBar == [c \in Calls |-> ChannelStage(c)]
todoBar == {c \in Calls : CommandOnItsWay(c)}
answersBar == {c \in Calls : AnswerOnItsWay(c)}

LEMMA Ways ==
  ASSUME NEW c \in Calls
  PROVE  /\ CommandOnItsWay(c) <=> Queued(c) \/ Sent(c)
         /\ CommandOnItsWay(c)' <=> Queued(c)' \/ Sent(c)'
         /\ AnswerOnItsWay(c) <=> Told(c) \/ Replied(c)
         /\ AnswerOnItsWay(c)' <=> Told(c)' \/ Replied(c)'
BY DEF CommandOnItsWay, AnswerOnItsWay, Queued, Sent, Told, Replied, In

\* A call moves from one stage to the next, alone.
LEMMA OneMoves ==
  ASSUME NEW c \in Calls, NEW s, NEW t, ChannelStage(c) = s, ChannelStage(c)' = t,
         \A x \in Calls \ {c} : ChannelStage(x)' = ChannelStage(x)
  PROVE  stageBar[c] = s /\ stageBar' = [stageBar EXCEPT ![c] = t]
BY DEF stageBar

LEMMA SameStages ==
  ASSUME \A x \in Calls : ChannelStage(x)' = ChannelStage(x)
  PROVE  stageBar' = stageBar
BY DEF stageBar

LEMMA SameStage ==
  ASSUME NEW x \in Calls, call'[x] = call[x], result'[x] = result[x]
  PROVE  ChannelStage(x)' = ChannelStage(x)
BY DEF ChannelStage

LEMMA SameTodo ==
  ASSUME \A x \in Calls : Queued(x)' \/ Sent(x)' <=> Queued(x) \/ Sent(x)
  PROVE  todoBar' = todoBar
BY Ways DEF todoBar

LEMMA LessTodo ==
  ASSUME \A x \in Calls : Queued(x)' \/ Sent(x)' => Queued(x) \/ Sent(x)
  PROVE  todoBar' \subseteq todoBar
BY Ways DEF todoBar

LEMMA SameAnswers ==
  ASSUME \A x \in Calls : Told(x)' \/ Replied(x)' <=> Told(x) \/ Replied(x)
  PROVE  answersBar' = answersBar
BY Ways DEF answersBar

LEMMA LessAnswers ==
  ASSUME \A x \in Calls : Told(x)' \/ Replied(x)' => Told(x) \/ Replied(x)
  PROVE  answersBar' \subseteq answersBar
BY Ways DEF answersBar

\* The steps of CommandChannel, in these terms.
LEMMA ChannelSteps ==
  /\ \A c \in Calls :
       /\ Channel!Ask(c) <=> /\ stageBar[c] = "idle"
                             /\ stageBar' = [stageBar EXCEPT ![c] = "queued"]
                             /\ UNCHANGED <<todoBar, answersBar>>
       /\ Channel!Serve(c) <=> /\ \A d \in Calls : stageBar[d] # "served"
                               /\ stageBar[c] = "queued"
                               /\ stageBar' = [stageBar EXCEPT ![c] = "served"]
                               /\ todoBar' = todoBar \cup {c}
                               /\ UNCHANGED answersBar
       /\ Channel!Answered(c) <=> /\ stageBar[c] = "served"
                                  /\ stageBar' = [stageBar EXCEPT ![c] = "answered"]
                                  /\ \E d \in answersBar :
                                       /\ cmd[d] = cmd[c]
                                       /\ answersBar' = answersBar \ {d}
                                  /\ UNCHANGED todoBar
       /\ Channel!Failed(c) <=> /\ stageBar[c] = "served"
                                /\ stageBar' = [stageBar EXCEPT ![c] = "failed"]
                                /\ UNCHANGED <<todoBar, answersBar>>
       /\ Channel!Execute(c) <=> /\ c \in todoBar
                                 /\ todoBar' = todoBar \ {c}
                                 /\ answersBar' \in {answersBar, answersBar \cup {c}}
                                 /\ UNCHANGED stageBar
  /\ Channel!Lose <=> /\ todoBar' \subseteq todoBar /\ answersBar' \subseteq answersBar
                      /\ UNCHANGED stageBar
  /\ Channel!LoseAll <=>
       /\ todoBar' \subseteq todoBar /\ answersBar' \subseteq answersBar
       /\ stageBar' = [c \in Calls |-> IF stageBar[c] \in {"queued", "served"}
                                        THEN "failed" ELSE stageBar[c]]
  /\ UNCHANGED Channel!vars <=> UNCHANGED <<stageBar, todoBar, answersBar>>
BY DEF Channel!Ask, Channel!Serve, Channel!Answered, Channel!Failed, Channel!Execute,
       Channel!Lose, Channel!LoseAll, Channel!Move, Channel!vars,
       stageBar, todoBar, answersBar

ChannelStep == [Channel!Next]_(Channel!vars)

\* The steps of a call.
LEMMA AskRefines ==
  ASSUME IInv, ChanInv, NEW c \in Calls, Connect(c)
  PROVE  Channel!Ask(c)
<1>1. /\ call[c] = "idle" /\ call' = [call EXCEPT ![c] = "locking"]
      /\ UNCHANGED result
  BY DEF Connect
<1>2. DOMAIN call = Calls BY DEF IInv, Types
<1>3. ChannelStage(c) = "idle" /\ ChannelStage(c)' = "queued"
  BY <1>1, <1>2 DEF ChannelStage
<1>4. \A x \in Calls \ {c} : ChannelStage(x)' = ChannelStage(x)
  BY <1>1, <1>2, SameStage
<1>5. UNCHANGED Tokens BY QuietSteps DEF QuietStep
<1>6. UNCHANGED <<todoBar, answersBar>>
  BY <1>5, QuietTokens, SameTodo, SameAnswers DEF ChanInv
<1> QED BY <1>3, <1>4, <1>6, OneMoves, ChannelSteps

LEMMA ServeRefines ==
  ASSUME IInv, ChanInv, NEW c \in Calls, Acquire(c)
  PROVE  Channel!Serve(c)
<1>1. /\ call[c] = "locking" /\ call' = [call EXCEPT ![c] = "waiting"]
      /\ lock = None
      /\ UNCHANGED result
  BY DEF Acquire
<1>2. call \in [Calls -> {"idle", "locking", "waiting", "expired", "done"}]
  BY DEF ChanInv, TypeOK
<1>3. ChannelStage(c) = "queued" /\ ChannelStage(c)' = "served"
  BY <1>1, <1>2 DEF ChannelStage
<1>4. \A x \in Calls \ {c} : ChannelStage(x)' = ChannelStage(x)
  BY <1>1, <1>2, SameStage
<1>5. \A d \in Calls : stageBar[d] # "served"
  <2> TAKE d \in Calls
  <2>1. ~Served(d) BY <1>1, LinkAssumption DEF ChanInv, LockHeld
  <2>2. ChannelStage(d) # "served" BY <2>1, <1>2 DEF ChannelStage, Served
  <2> QED BY <2>2 DEF stageBar
<1>6. \A x \in Calls : /\ Queued(x)' <=> Queued(x) \/ x = c
                       /\ Sent(x)' <=> Sent(x)
                       /\ Told(x)' <=> Told(x)
                       /\ Replied(x)' <=> Replied(x)
  BY AcquireTokens
<1>7. todoBar' = todoBar \cup {c} BY <1>6, Ways DEF todoBar
<1>8. answersBar' = answersBar BY <1>6, SameAnswers
<1> QED BY <1>3, <1>4, <1>5, <1>7, <1>8, OneMoves, ChannelSteps

LEMMA ReturnStages ==
  ASSUME ChanInv, NEW c \in Calls, NEW r, Return(c, r), Served(c)
  PROVE  /\ ChannelStage(c) = "served"
         /\ ChannelStage(c)' = IF r.kind = "answer" THEN "answered" ELSE "failed"
         /\ \A x \in Calls \ {c} : ChannelStage(x)' = ChannelStage(x)
<1>1. /\ call' = [call EXCEPT ![c] = "done"]
      /\ result' = [result EXCEPT ![c] = r.kind]
  BY DEF Return
<1>2. DOMAIN call = Calls /\ DOMAIN result = Calls BY DEF ChanInv, TypeOK
<1>3. /\ ChannelStage(c) = "served"
      /\ ChannelStage(c)' = IF r.kind = "answer" THEN "answered" ELSE "failed"
  BY <1>1, <1>2 DEF ChannelStage, Served
<1>4. \A x \in Calls \ {c} : ChannelStage(x)' = ChannelStage(x)
  BY <1>1, <1>2, SameStage
<1> QED BY <1>3, <1>4

LEMMA GetReplyRefines ==
  ASSUME IInv, ChanInv, NEW c \in Calls, GetReply(c)
  PROVE  Channel!Answered(c) \/ Channel!Failed(c)
<1>1. \A x \in Calls : /\ Queued(x)' <=> Queued(x)
                       /\ Sent(x)' <=> Sent(x)
                       /\ Told(x)' <=> Told(x)
                       /\ Replied(x)' <=> Replied(x) /\ replyQ[c] # <<Answer(x)>>
  BY GetReplyTokens
<1>2. \/ /\ replyQ[c] = <<LinkError>>
         /\ Return(c, LinkError)
      \/ \E d \in Calls : /\ replyQ[c] = <<Answer(d)>> /\ cmd[d] = cmd[c]
                          /\ Return(c, Answer(d))
  BY GetReplyTokens
<1>3. Served(c) BY DEF GetReply, Served
<1>4. todoBar' = todoBar BY <1>1, SameTodo
<1>5. CASE replyQ[c] = <<LinkError>> /\ Return(c, LinkError)
  <2>1. /\ ChannelStage(c) = "served" /\ ChannelStage(c)' = "failed"
        /\ \A x \in Calls \ {c} : ChannelStage(x)' = ChannelStage(x)
    BY <1>3, <1>5, LineFacts, ReturnStages
  <2>2. \A x \in Calls : replyQ[c] # <<Answer(x)>> BY <1>5, LineFacts
  <2>3. answersBar' = answersBar BY <1>1, <2>2, SameAnswers
  <2> QED BY <2>1, <2>3, <1>4, OneMoves, ChannelSteps
<1>6. ASSUME NEW d \in Calls, replyQ[c] = <<Answer(d)>>, cmd[d] = cmd[c],
             Return(c, Answer(d))
      PROVE  Channel!Answered(c)
  <2>1. /\ ChannelStage(c) = "served" /\ ChannelStage(c)' = "answered"
        /\ \A x \in Calls \ {c} : ChannelStage(x)' = ChannelStage(x)
    BY <1>3, <1>6, LineFacts, ReturnStages
  <2>2. Replied(d) BY <1>6 DEF Replied
  <2>3. ~Told(d) BY <2>2 DEF ChanInv, OnePlace
  <2>4. \A x \in Calls : replyQ[c] = <<Answer(x)>> <=> x = d BY <1>6, LineFacts
  <2>5. d \in answersBar /\ answersBar' = answersBar \ {d}
    BY <1>1, <2>2, <2>3, <2>4, Ways DEF answersBar
  <2> QED BY <2>1, <2>5, <1>4, <1>6, OneMoves, ChannelSteps
<1> QED BY <1>2, <1>5, <1>6

LEMMA UnregisterRefines ==
  ASSUME IInv, ChanInv, NEW c \in Calls, Unregister(c)
  PROVE  Channel!Failed(c)
<1>1. Return(c, [kind |-> "timeout", for |-> None]) /\ Served(c)
  BY DEF Unregister, Served
<1>2. /\ ChannelStage(c) = "served" /\ ChannelStage(c)' = "failed"
      /\ \A x \in Calls \ {c} : ChannelStage(x)' = ChannelStage(x)
  BY <1>1, ReturnStages
<1>3. UNCHANGED Tokens BY QuietSteps DEF QuietStep
<1>4. UNCHANGED <<todoBar, answersBar>>
  BY <1>3, QuietTokens, SameTodo, SameAnswers DEF ChanInv
<1> QED BY <1>2, <1>4, OneMoves, ChannelSteps

\* The steps of a call that the channel does not see.
LEMMA HiddenRefines ==
  ASSUME IInv, ChanInv,
         \/ \E c \in Calls : Expire(c) \/ CtlGivesUp(c)
         \/ FlushDone \/ ReadTimeout \/ ReadFails \/ SuspendReturns
         \/ UNCHANGED vars
  PROVE  UNCHANGED Channel!vars
<1>1. \A x \in Calls : ChannelStage(x)' = ChannelStage(x)
  <2>1. ASSUME NEW c \in Calls, Expire(c)
        PROVE  \A x \in Calls : ChannelStage(x)' = ChannelStage(x)
    <3>1. /\ call[c] = "waiting" /\ call' = [call EXCEPT ![c] = "expired"]
          /\ UNCHANGED result
      BY <2>1 DEF Expire
    <3>2. DOMAIN call = Calls BY DEF IInv, Types
    <3>3. ChannelStage(c)' = ChannelStage(c) BY <3>1, <3>2 DEF ChannelStage
    <3>4. \A x \in Calls \ {c} : ChannelStage(x)' = ChannelStage(x)
      BY <3>1, <3>2, SameStage
    <3> QED BY <3>3, <3>4
  <2>2. CASE \/ \E c \in Calls : CtlGivesUp(c)
             \/ FlushDone \/ ReadTimeout \/ ReadFails \/ SuspendReturns
             \/ UNCHANGED vars
    <3>1. UNCHANGED <<call, result>>
      BY <2>2 DEF CtlGivesUp, FlushDone, ReadTimeout, ReadFails, SuspendReturns, vars,
                  threads
    <3> QED BY <3>1, SameStage
  <2> QED BY <2>1, <2>2
<1>2. UNCHANGED Tokens BY QuietSteps DEF QuietStep
<1>3. UNCHANGED <<todoBar, answersBar>>
  BY <1>2, QuietTokens, SameTodo, SameAnswers DEF ChanInv
<1> QED BY <1>1, <1>3, SameStages, ChannelSteps

\* The steps of the serial thread and of the Pico leave the stages alone.
LEMMA SerialStages ==
  ASSUME SerialStep \/ PicoStep
  PROVE  stageBar' = stageBar
<1>1. UNCHANGED <<call, result>>
  BY DEF SerialStep, OpenPort, FlushDone, SendNow, SendFails, ReadTimeout, ReadFails,
         HandleStandby, DispatchReply, SplitLine, SuspendReturns, ReadAny,
         PicoStep, PicoAnswers, PicoReportsStandby, PicoSays, LinkDown, threads
<1> QED BY <1>1, SameStage, SameStages

\* The Pico executes a command.
LEMMA ExecuteRefines ==
  ASSUME IInv, ChanInv, PicoAnswers
  PROVE  \E c \in Calls : Channel!Execute(c)
<1>1. PICK h \in Calls :
         /\ Sent(h)
         /\ \A x \in Calls : /\ Queued(x)' <=> Queued(x)
                             /\ Sent(x)' <=> Sent(x) /\ x # h
                             /\ Told(x) => Told(x)'
                             /\ Told(x)' => Told(x) \/ x = h
                             /\ Replied(x)' <=> Replied(x)
  BY PicoAnswersTokens
<1>2. ~Queued(h) BY <1>1 DEF ChanInv, OnePlace
<1>3. h \in todoBar /\ todoBar' = todoBar \ {h} BY <1>1, <1>2, Ways DEF todoBar
<1>4. answersBar' \in {answersBar, answersBar \cup {h}}
  <2>1. CASE Told(h)'
    <3>1. answersBar' = answersBar \cup {h} BY <1>1, <2>1, Ways DEF answersBar
    <3> QED BY <3>1
  <2>2. CASE ~Told(h)'
    <3>1. answersBar' = answersBar BY <1>1, <2>2, SameAnswers
    <3> QED BY <3>1
  <2> QED BY <2>1, <2>2
<1>5. stageBar' = stageBar BY SerialStages DEF PicoStep
<1> QED BY <1>3, <1>4, <1>5, ChannelSteps

\* A command is written, or the write fails; a line is read, and reaches a
\* reply queue or is lost; the port is opened or lost.
LEMMA LoseRefines ==
  ASSUME IInv, ChanInv,
         \/ SendNow \/ SendFails \/ DispatchReply \/ HandleStandby \/ SplitLine
         \/ PicoReportsStandby \/ OpenPort \/ LinkDown
  PROVE  Channel!Lose
<1>1. stageBar' = stageBar BY SerialStages DEF SerialStep, PicoStep
<1>2. CASE SendNow
  <2>1. \A x \in Calls : Queued(x)' \/ Sent(x)' => Queued(x) \/ Sent(x)
    BY <1>2, SendNowTokens
  <2>2. \A x \in Calls : Told(x)' \/ Replied(x)' => Told(x) \/ Replied(x)
    BY <1>2, SendNowTokens
  <2> QED BY <2>1, <2>2, <1>1, LessTodo, LessAnswers, ChannelSteps
<1>3. CASE SendFails
  <2>1. \A x \in Calls : Queued(x)' \/ Sent(x)' => Queued(x) \/ Sent(x)
    BY <1>3, SendFailsTokens
  <2>2. \A x \in Calls : Told(x)' \/ Replied(x)' => Told(x) \/ Replied(x)
    BY <1>3, SendFailsTokens
  <2> QED BY <2>1, <2>2, <1>1, LessTodo, LessAnswers, ChannelSteps
<1>4. CASE DispatchReply
  <2>1. \A x \in Calls : Queued(x)' \/ Sent(x)' => Queued(x) \/ Sent(x)
    BY <1>4, DispatchTokens
  <2>2. \A x \in Calls : Told(x)' \/ Replied(x)' => Told(x) \/ Replied(x)
    BY <1>4, DispatchTokens
  <2> QED BY <2>1, <2>2, <1>1, LessTodo, LessAnswers, ChannelSteps
<1>5. CASE HandleStandby \/ SplitLine
  <2>1. ReadAny /\ UNCHANGED replyQ BY <1>5 DEF HandleStandby, SplitLine
  <2>2. \A x \in Calls : Queued(x)' \/ Sent(x)' => Queued(x) \/ Sent(x)
    BY <2>1, SkipLineTokens
  <2>3. \A x \in Calls : Told(x)' \/ Replied(x)' => Told(x) \/ Replied(x)
    BY <2>1, SkipLineTokens
  <2> QED BY <2>2, <2>3, <1>1, LessTodo, LessAnswers, ChannelSteps
<1>6. CASE PicoReportsStandby
  <2>1. \A x \in Calls : Queued(x)' \/ Sent(x)' => Queued(x) \/ Sent(x)
    BY <1>6, ReportTokens
  <2>2. \A x \in Calls : Told(x)' \/ Replied(x)' => Told(x) \/ Replied(x)
    BY <1>6, ReportTokens
  <2> QED BY <2>1, <2>2, <1>1, LessTodo, LessAnswers, ChannelSteps
<1>7. CASE OpenPort \/ LinkDown
  <2>1. \A x \in Calls : Queued(x)' \/ Sent(x)' => Queued(x) \/ Sent(x)
    BY <1>7, ClearSteps, ClearTokens DEF ClearStep
  <2>2. \A x \in Calls : Told(x)' \/ Replied(x)' => Told(x) \/ Replied(x)
    BY <1>7, ClearSteps, ClearTokens DEF ClearStep
  <2> QED BY <2>1, <2>2, <1>1, LessTodo, LessAnswers, ChannelSteps
<1> QED BY <1>2, <1>3, <1>4, <1>5, <1>6, <1>7

\* The listener ends.
LEMMA LoseAllRefines ==
  ASSUME IInv, ChanInv, Restart
  PROVE  Channel!LoseAll
<1>1. /\ \A x \in Calls : Queued(x)' \/ Sent(x)' => Queued(x) \/ Sent(x)
      /\ \A x \in Calls : Told(x)' \/ Replied(x)' => Told(x) \/ Replied(x)
  BY ClearSteps, ClearTokens DEF ClearStep
<1>2. ASSUME NEW x \in Calls
      PROVE  ChannelStage(x)' = IF ChannelStage(x) \in {"queued", "served"} THEN "failed"
                                ELSE ChannelStage(x)
  <2>1. /\ call[x] \in {"locking", "waiting", "expired"} =>
              call'[x] = "done" /\ result'[x] = "lost"
        /\ call[x] \notin {"locking", "waiting", "expired"} =>
              call'[x] = call[x] /\ result'[x] = result[x]
    BY DEF Restart
  <2>2. call[x] \in {"idle", "locking", "waiting", "expired", "done"}
    BY DEF ChanInv, TypeOK
  <2>3. CASE call[x] \in {"locking", "waiting", "expired"}
    BY <2>1, <2>3 DEF ChannelStage
  <2>4. CASE call[x] \in {"idle", "done"}
    BY <2>1, <2>4 DEF ChannelStage
  <2> QED BY <2>2, <2>3, <2>4
<1>3. stageBar' = [c \in Calls |-> IF stageBar[c] \in {"queued", "served"} THEN "failed"
                                   ELSE stageBar[c]]
  BY <1>2 DEF stageBar
<1> QED BY <1>1, <1>3, LessTodo, LessAnswers, ChannelSteps

LEMMA InitRefines == Init => Channel!Init
<1> SUFFICES ASSUME Init PROVE Channel!Init OBVIOUS
<1>1. \A c \in Calls : ChannelStage(c) = "idle" BY DEF Init, ChannelStage
<1>2. /\ writeQ = <<>> /\ toPico = <<>> /\ fromPico = <<>>
      /\ \A c \in Calls : replyQ[c] = <<>>
  BY DEF Init
<1>a. \A c, d \in Calls : replyQ[c] # <<Answer(d)>> BY <1>2, LineFacts
<1>3. \A c \in Calls : ~Queued(c) /\ ~Sent(c) /\ ~Told(c) /\ ~Replied(c)
  BY <1>2, <1>a, EmptyIn DEF Queued, Sent, Told, Replied
<1>4. \A c \in Calls : ~CommandOnItsWay(c) /\ ~AnswerOnItsWay(c) BY <1>3, Ways
<1> QED BY <1>1, <1>4 DEF Channel!Init

LEMMA StepRefines == ASSUME IInv, ChanInv, [Next]_vars PROVE ChannelStep
<1>1. CASE \E c \in Calls : Connect(c)
  BY <1>1, AskRefines DEF Channel!Next, ChannelStep
<1>2. ASSUME NEW c \in Calls, CallStep(c) PROVE ChannelStep
  <2>1. CASE Acquire(c) BY <2>1, ServeRefines DEF Channel!Next, ChannelStep
  <2>2. CASE GetReply(c) BY <2>2, GetReplyRefines DEF Channel!Next, ChannelStep
  <2>3. CASE Unregister(c) BY <2>3, UnregisterRefines DEF Channel!Next, ChannelStep
  <2>4. CASE Expire(c) \/ CtlGivesUp(c) BY <2>4, HiddenRefines DEF ChannelStep
  <2> QED BY <1>2, <2>1, <2>2, <2>3, <2>4 DEF CallStep
<1>3. CASE FlushDone \/ ReadTimeout \/ ReadFails \/ SuspendReturns \/ UNCHANGED vars
  BY <1>3, HiddenRefines DEF ChannelStep
<1>4. CASE PicoAnswers BY <1>4, ExecuteRefines DEF Channel!Next, ChannelStep
<1>5. CASE \/ SendNow \/ SendFails \/ DispatchReply \/ HandleStandby \/ SplitLine
           \/ PicoReportsStandby \/ OpenPort \/ LinkDown
  BY <1>5, LoseRefines DEF Channel!Next, ChannelStep
<1>6. CASE Restart BY <1>6, LoseAllRefines DEF Channel!Next, ChannelStep
<1> QED BY <1>1, <1>2, <1>3, <1>4, <1>5, <1>6 DEF Next, SerialStep, PicoStep

(***************************************************************************)
(* The listener keeps the promise of send_command, for any number of       *)
(* calls, commands, losses and events: one call is served at a time, its   *)
(* command is executed once at most, and an execution answers one call of  *)
(* its name at most.                                                       *)
(***************************************************************************)
THEOREM Implementation == Spec => ImplementsChannel
<1>1. Spec => []IInv BY Invariance
<1>2. Spec => []ChanInv BY ChanInvariance
<1>3. IInv /\ ChanInv /\ [Next]_vars => [Channel!Next]_(Channel!vars)
  BY StepRefines DEF ChannelStep
<1> QED BY <1>1, <1>2, <1>3, InitRefines, PTL DEF Spec, ImplementsChannel, Channel!Spec

================================================================================
