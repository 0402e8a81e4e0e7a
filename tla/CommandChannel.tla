----------------------------- MODULE CommandChannel -----------------------------
(***************************************************************************)
(* What send_command of bin/pico-cec-listener.py promises to the threads   *)
(* that call it, and to the TV: one call at a time is served; the command  *)
(* of a call reaches the Pico after the call is served and is executed at  *)
(* most once, perhaps after the call has failed; one execution answers at  *)
(* most one call, which sent a command of the same name, though not always *)
(* this one; commands and answers may be lost, never made up.              *)
(*                                                                         *)
(* How lines travel, which thread holds what and who is waited for is left *)
(* to PicoLink, which implements this.                                     *)
(***************************************************************************)
CONSTANTS Calls, Commands, cmd

VARIABLES
  stage,      \* of each call
  todo,       \* the calls whose command was accepted and is not executed yet
  answers     \* the calls whose command was executed and nobody was told

vars == <<stage, todo, answers>>

Move(c, from, to) ==
  /\ stage[c] = from
  /\ stage' = [stage EXCEPT ![c] = to]

Ask(c) == Move(c, "idle", "queued") /\ UNCHANGED <<todo, answers>>

Serve(c) ==
  /\ \A d \in Calls : stage[d] # "served"
  /\ Move(c, "queued", "served")
  /\ todo' = todo \cup {c}
  /\ UNCHANGED answers

Answered(c) ==
  /\ Move(c, "served", "answered")
  /\ \E d \in answers : cmd[d] = cmd[c] /\ answers' = answers \ {d}
  /\ UNCHANGED todo

Failed(c) == Move(c, "served", "failed") /\ UNCHANGED <<todo, answers>>

\* The answer is on its way, unless nobody listens.
Execute(c) ==
  /\ c \in todo
  /\ todo' = todo \ {c}
  /\ answers' \in {answers, answers \cup {c}}
  /\ UNCHANGED stage

Lose ==
  /\ todo' \subseteq todo /\ answers' \subseteq answers
  /\ UNCHANGED stage

\* All the calls there are fail together.
LoseAll ==
  /\ todo' \subseteq todo /\ answers' \subseteq answers
  /\ stage' = [c \in Calls |-> IF stage[c] \in {"queued", "served"} THEN "failed"
                               ELSE stage[c]]

Init ==
  /\ stage = [c \in Calls |-> "idle"]
  /\ todo = {} /\ answers = {}

Next ==
  \/ \E c \in Calls : Ask(c) \/ Serve(c) \/ Answered(c) \/ Failed(c) \/ Execute(c)
  \/ Lose
  \/ LoseAll

Spec == Init /\ [][Next]_vars
================================================================================
