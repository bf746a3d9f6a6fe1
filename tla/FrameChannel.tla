---------------------------- MODULE FrameChannel ----------------------------
(***************************************************************************)
(* What one direction of a ShroomStream promises to the program that uses  *)
(* it: a channel of whole packets.  The sending half accepts packets until *)
(* it is closed or given up; the receiving half yields the accepted        *)
(* packets, whole, unchanged, once each and in order.  It reports a clean  *)
(* end only when nothing was lost or when the other side gave up, and it   *)
(* reports an error only for a packet above the limit or after the other   *)
(* side gave up.  A program that goes on polling after an error is         *)
(* promised nothing about what it is given.                                *)
(***************************************************************************)
EXTENDS Naturals, Sequences

CONSTANTS
    Packets,        \* the packets a program may send: records with a field len
    MaxPacketLen,   \* the longest packet a receiver takes
    Garbled         \* what a receiver may yield that is no packet

VARIABLES
    accepted,       \* every packet the sending half took, oldest first
    delivered,      \* every packet the receiving half yielded
    sender,         \* "open", "closed" in good order, or "aborted"
    receiver        \* "open", "ended" without an error, or "failed"

vars == <<accepted, delivered, sender, receiver>>

Init ==
    /\ accepted = << >>
    /\ delivered = << >>
    /\ sender = "open"
    /\ receiver = "open"

\* The next packet to deliver, when there is one.
Pending == Len(delivered) < Len(accepted)
NextPacket == accepted[Len(delivered) + 1]

\* A sender learns of a reset only when it writes: until then it may go on.
Accept(p) ==
    /\ sender # "closed"
    /\ accepted' = Append(accepted, p)
    /\ UNCHANGED <<delivered, sender, receiver>>

Close ==
    /\ sender = "open"
    /\ sender' = "closed"
    /\ UNCHANGED <<accepted, delivered, receiver>>

\* The sending program drops its half, or the connection is reset.
Abort ==
    /\ sender \in {"open", "closed"}
    /\ sender' = "aborted"
    /\ UNCHANGED <<accepted, delivered, receiver>>

Deliver ==
    /\ receiver = "open"
    /\ Pending
    /\ NextPacket.len <= MaxPacketLen
    /\ delivered' = Append(delivered, NextPacket)
    /\ UNCHANGED <<accepted, sender, receiver>>

End ==
    /\ receiver = "open"
    /\ \/ sender = "closed" /\ ~Pending
       \/ sender = "aborted"
    /\ receiver' = "ended"
    /\ UNCHANGED <<accepted, delivered, sender>>

Fail ==
    /\ receiver = "open"
    /\ \/ sender = "aborted"
       \/ Pending /\ NextPacket.len > MaxPacketLen
    /\ receiver' = "failed"
    /\ UNCHANGED <<accepted, delivered, sender>>

\* A receiver that is polled on after an error.
DeliverAnything ==
    /\ receiver = "failed"
    /\ \E p \in Packets \union {Garbled} : delivered' = Append(delivered, p)
    /\ UNCHANGED <<accepted, sender, receiver>>

Next ==
    \/ \E p \in Packets : Accept(p)
    \/ Close
    \/ Abort
    \/ Deliver
    \/ End
    \/ Fail
    \/ DeliverAnything

Spec == Init /\ [][Next]_vars
=============================================================================
