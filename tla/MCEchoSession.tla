---------------------------- MODULE MCEchoSession ----------------------------
(* Instances of EchoSession for TLC: one own handshake. *)
EXTENDS EchoSession

OwnShape == {[ln |-> 2, need |-> 2]}
=============================================================================
