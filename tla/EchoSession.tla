----------------------------- MODULE EchoSession -----------------------------
(***************************************************************************)
(* The session of the echo tests of shroom-net: the server sends every     *)
(* packet it receives back before it polls for the next one; the client    *)
(* sends its packets and receives the echoes.  Neither program reads while *)
(* its own send waits for the transport, so the two backpressures meet.    *)
(***************************************************************************)
EXTENDS LegacySession

CONSTANT Window     \* packets the client sends before it reads (1 in the tests)

ASSUME WindowAssumption == Window \in Nat \ {0}

Outstanding == Len(sent["client"]) - Len(got["client"])
Unanswered  == Len(got["server"]) - Len(sent["server"])

\* SinkExt::send has returned: everything encoded is in the transport.
SendDone(e) == buffer[e] = << >>

\* The client is in its sending half until Window packets are outstanding, and
\* in its receiving half until the last of them is answered.
Asking == Len(got["client"]) % Window = 0 /\ Outstanding < Window

ClientSends ==
    /\ SendDone("client")
    /\ Asking
    /\ \E p \in Packets : Send("client", p)

ClientReceives ==
    /\ SendDone("client")
    /\ ~Asking
    /\ Receive("client")

ServerEchoes ==
    /\ Unanswered > 0
    /\ SendDone("server")
    /\ Send("server", got["server"][Len(sent["server"]) + 1])

ServerReceives ==
    /\ Unanswered = 0
    /\ SendDone("server")
    /\ Receive("server")

Client == ClientSends \/ ClientReceives \/ Flush("client")
Server == ServerEchoes \/ ServerReceives \/ Flush("server")

EchoNext == Creation \/ Client \/ Server

\* The runtime polls the tasks that can make progress.
EchoSpec ==
    /\ Init /\ [][EchoNext]_vars
    /\ WF_vars(Creation)
    /\ WF_vars(Client)
    /\ WF_vars(Server)

-----------------------------------------------------------------------------
\* No deadlock of the two backpressures: the client gets its answer to every
\* packet it may send, the packet itself, in order.
EveryRequestAnswered ==
    <>(Len(got["client"]) = MaxSend /\ got["client"] = sent["client"])
=============================================================================
