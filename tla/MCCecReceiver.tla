---------------------------- MODULE MCCecReceiver ----------------------------
(***************************************************************************)
(* Values for the constants of CecReceiver.  Frames are written as the     *)
(* bytes on the wire, header first: initiator in the high nibble,          *)
(* destination in the low one.                                             *)
(***************************************************************************)
EXTENDS CecReceiver, Sequences

BitsOf(v) == [i \in 0..7 |-> (v \div 2^(7 - i)) % 2]

MkFrame(bytes) ==
  [len |-> Len(bytes),
   data |-> [b \in 0..(FrameMax - 1) |->
               IF b < Len(bytes) THEN BitsOf(bytes[b + 1]) ELSE BlankByte]]

\* <Give Device Power Status> to address 4, and <Standby> broadcast by the TV.
MCFrames == { MkFrame(<<4, 143>>), MkFrame(<<15, 54>>) }
\* <Image View On> from another playback device to the TV.
MCTvFrames == { MkFrame(<<128, 4>>) }
MCFrameMax == 2

\* 4 is a playback device, 15 is unregistered.
MCClaimable == {4, 15}

\* The nominal timing, with bits a little slow.
MCStartLow == {3700}
MCStartTotal == {4500}
MCOneLow == {600}
MCZeroLow == {1500}
MCBitTotal == {2450}
\* Slower, and still within the 2050..2750 us a receiver accepts.
MCSlowBitTotal == {2600}
MCMaxSince == 4701

\* The nominal bits do not alias.
ASSUME MCNoAliasing == BitTotal = MCBitTotal => NoAliasing
=============================================================================
