------------------------------ MODULE MCPicoLink ------------------------------
(***************************************************************************)
(* Values for the constants of PicoLink.                                   *)
(***************************************************************************)
EXTENDS PicoLink

CONSTANTS c1, c2, c3

MCCalls == {c1, c2, c3}
MCCommands == {"PWR_OFF", "PWR_ON"}
\* Two calls that can be taken for each other, and one that cannot.
MCCmd == [c \in MCCalls |-> IF c = c3 THEN "PWR_ON" ELSE "PWR_OFF"]
\* A client gives up after 8 s, between one time-out of 5 s and two.
MCCtlTimeout == 2
MCMaxLosses == 1
MCMaxEvents == 1
=============================================================================
