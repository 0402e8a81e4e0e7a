----------------------------- MODULE MCBridgeSystem -----------------------------
(***************************************************************************)
(* Values for the constants of BridgeSystem.                               *)
(***************************************************************************)
EXTENDS BridgeSystem

\* A suspend during the stop of the unit that the last one started.
MCMaxCycles == 2
MCMaxUses == 1
MCMaxEvents == 2
=============================================================================
