-------------------------- MODULE MCMessageBuffers --------------------------
(* Instances of MessageBuffers for TLC, with lengths of four bits. *)
EXTENDS MessageBuffers

Message(i, n, t) == [id |-> i, plain |-> n, text |-> t]

\* An opcode alone, the longest message whose length has a representation, and
\* strings with bare and whole line breaks, lone CRs, and no break at their end.
FittingMessages == {
    Message("ping", 0, << >>),
    Message("full", LenMod - 1 - OpCodeSize, << >>),
    Message("chat", 1, <<"a", "LF", "a">>),
    Message("note", 0, <<"CR", "LF", "LF", "CR">>),
    Message("odd", 2, <<"CR", "CR", "LF">>) }

\* No room for a length, room for the length only, for the shorter strings, for all.
SomeSpares == {1, 2, 6, 16}
=============================================================================
