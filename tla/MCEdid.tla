--------------------------------- MODULE MCEdid ---------------------------------
(***************************************************************************)
(* Values for the constants of Edid.                                       *)
(***************************************************************************)
EXTENDS Edid

Audio == DataBlock(1, <<9, 7, 7>>)
\* As long as a block may be.
Video == DataBlock(2, [i \in 1..31 |-> i])
\* The HDMI vendor blocks of inputs 2.0.0.0 and 1.2.3.0, and one without address.
Hdmi == DataBlock(3, VsbHdr \o <<32, 0>>)
HdmiDeep == DataBlock(3, VsbHdr \o <<18, 48, 128>>)
\* Another vendor's, with an HDMI block's bytes inside.
Other == DataBlock(3, <<216, 93, 196, 1, 101>> \o VsbHdr \o <<80, 0>>)
Empty == DataBlock(0, <<>>)

DbLists == UNION {[1..n -> {Video, Hdmi, HdmiDeep, Other, Empty}] : n \in 0..3}
           \cup {<<Audio, Video, Audio, Hdmi>>}

Whole(dbs) == [header |-> TRUE, extension |-> TRUE, cta |-> TRUE, dbs |-> dbs]
MCDisplays ==
  {Whole(dbs) : dbs \in DbLists} \cup
  {[Whole(<<Hdmi>>) EXCEPT !.header = FALSE], [Whole(<<Hdmi>>) EXCEPT !.extension = FALSE],
   [Whole(<<Hdmi>>) EXCEPT !.cta = FALSE]}
\* In the block's address if it is the first, and a sum that is off by 256 / 2.
MCNoise == {[at |-> 8, by |-> 128]}

\* A premise of EdidProofs.
ASSUME MCWalkInRange == WalkInRange
=============================================================================
