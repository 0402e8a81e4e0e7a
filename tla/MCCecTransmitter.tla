--------------------------- MODULE MCCecTransmitter ---------------------------
(***************************************************************************)
(* Values for the constants of CecTransmitter: frames as bytes, with the   *)
(* adapter at address 4.                                                   *)
(***************************************************************************)
EXTENDS CecTransmitter, Sequences

BitsOf(v) == [i \in 0..7 |-> (v \div 2^(7 - i)) % 2]

MkFrame(bytes) ==
  [len |-> Len(bytes),
   data |-> [b \in 0..(FrameMax - 1) |->
               IF b < Len(bytes) THEN BitsOf(bytes[b + 1]) ELSE BlankByte]]

\* <Image View On> to the TV, and <Active Source> 1.0.0.0, the longest frame sent.
MCFrames == { MkFrame(<<64, 4>>), MkFrame(<<79, 130, 16, 0>>) }
\* One retry shows what a second try does with what the first one left.
MCRetries == {1}
MCFrameMax == 4

\* Tolerable, and late enough to miss a follower's ACK, or to be lost.
MCLateness == {150, 1000}
MCMaxLate == 1
MCDeviceSets == { {}, {4, 11}, {4, 8, 11} }
MCFollowerLow == 1500
\* Every sample in the undecided part of a bit, and one that drifts through all of it.
MCTalks == { [period |-> 2400, at |-> 700], [period |-> 2050, at |-> 0] }
MCAckRest == {700}

\* The premise of the theorems of CecTransmitterProofs, for the code's time-out.
ASSUME MCFramesFit == TimeoutUs = 200000 => FramesFit

=============================================================================
