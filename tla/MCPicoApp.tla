------------------------------ MODULE MCPicoApp ------------------------------
(***************************************************************************)
(* Values for the constants of PicoApp.                                    *)
(***************************************************************************)
EXTENDS PicoApp

\* 2.0.0.0, and an address config_load_pa does not accept.
MCSettablePa == {8192, 0}
MCDiscoverPa == {12288, 65535}
MCClaimable == {4, 15}
\* All, some or none of the bits that are 0 in the address have been programmed:
\* f.f.f.f is blank, 2.15.15.15 and 0.0.15.15 are half written.
MCTorn == [pa \in MCSettablePa |-> IF pa = 8192 THEN {65535, 12287, 8192}
                                              ELSE {65535, 255, 0}]
MCBusFrames ==
  { [from |-> 0, to |-> 15, op |-> "standby"],
    [from |-> 0, to |-> 4, op |-> "status_on"],
    [from |-> 0, to |-> 4, op |-> "status_standby"],
    [from |-> 8, to |-> 15, op |-> "active_source"] }
MCMaxCuts == 1
=============================================================================
