---------------------------- MODULE MCLegacyLink ----------------------------
(* Instances of LegacyLink for TLC. *)
EXTENDS LegacyLink

\* One packet per length: the empty packet, packets within the limit, packets
\* between the limits of the two ends, and packets no encoder takes.
PacketsOf(lens) == {[id |-> "p", len |-> n] : n \in lens}

ForeignPackets == PacketsOf({0, 1, 3, 4, 9})
SmallPackets   == PacketsOf({0, 1, 2, 9})
=============================================================================
