--------------------------- MODULE MCLegacySession ---------------------------
(* Instances of LegacySession for TLC. *)
EXTENDS LegacySession

\* The server's own handshakes with a short and a long sub version; and those
\* of other servers: empty, above the limit, with bytes left over, cut short,
\* and with a locale that has no code.
OwnShapes   == {[ln |-> 2, need |-> 2], [ln |-> 3, need |-> 3]}
OtherShapes == {[ln |-> 0, need |-> 2], [ln |-> 4, need |-> 4], [ln |-> 3, need |-> 2],
                [ln |-> 2, need |-> 3], [ln |-> 3, need |-> None]}
AllShapes   == OwnShapes \union OtherShapes
=============================================================================
