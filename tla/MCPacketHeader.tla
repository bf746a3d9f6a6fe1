---------------------------- MODULE MCPacketHeader ----------------------------
(* Instances of PacketHeader for TLC: words of three bits. *)
EXTENDS PacketHeader

SomeVersions == {Zero, [i \in Bits |-> i % 2]}
AllLengths   == Word
=============================================================================
