----------------------------- MODULE Handshake -----------------------------
(***************************************************************************)
(* A connection while it is being established.  Each end goes through its  *)
(* own list of awaits.  The handshakes themselves (TLS, WebSocket, the     *)
(* codec's key exchange) are external and modelled by who waits for whom:  *)
(* an end completes one only when the other end takes part in the same     *)
(* one.                                                                    *)
(***************************************************************************)
EXTENDS Naturals, Sequences

CONSTANTS
    Conns,       \* connections peers may open
    Tls,         \* TLS on both ends
    WebSocket,   \* ServerMode::WebSocket and ClientMode::WebSocket
    SetupTalks   \* the codec's initial_setup exchanges messages

ASSUME HandshakeAssumption ==
    Tls \in BOOLEAN /\ WebSocket \in BOOLEAN /\ SetupTalks \in BOOLEAN

VARIABLES
    conn,       \* the life of each connection, as the server sees it
    passed,     \* the awaits the server completed for each connection, in order
    peer,       \* the life of each connection, as its peer sees it
    cl_passed   \* how many of ClientStages the peer completed

peerVars == <<peer, cl_passed>>

Layers == (IF Tls THEN <<"tls">> ELSE <<>>) \o (IF WebSocket THEN <<"websocket">> ELSE <<>>)

\* TfServer: initial_accept, then the two hooks of the traffic processor.
Stages == Layers \o <<"initial_setup", "initial_connect", "initial_framed_connect">>

\* Mutant: the codec is set up before the WebSocket upgrade.
CodecFirst == <<"initial_setup">> \o Layers

\* ClientConnect::new: connect, then initial_setup.
ClientStages == Layers \o <<"initial_setup">>

\* Stages that run user code: the codec's and the processor's.
UserStages == {"initial_setup", "initial_connect", "initial_framed_connect"}

First(s, n) == {s[i] : i \in 1..n}

HandshakeTypeOK ==
    /\ conn \in [Conns -> {"none", "backlog", "accepted", "serving", "refused"}]
    /\ passed \in [Conns -> Seq(First(Stages, Len(Stages)))]
    /\ peer \in [Conns -> {"idle", "silent", "left", "connecting", "up", "failed", "panicked"}]
    /\ cl_passed \in [Conns -> 0..Len(ClientStages)]

HandshakeInit ==
    /\ conn = [c \in Conns |-> "none"]
    /\ passed = [c \in Conns |-> <<>>]
    /\ peer = [c \in Conns |-> "idle"]
    /\ cl_passed = [c \in Conns |-> 0]

\* The stage needs nothing from the other end.
Alone(s) ==
    s \in {"initial_connect", "initial_framed_connect"} \/ (s = "initial_setup" /\ ~SetupTalks)

\* An end takes part in the stage, or has been through it: what it sent for it is on
\* its way, also when that end has failed since.
ServerIn(c, s) ==
    /\ conn[c] \notin {"none", "backlog"}
    /\ \E i \in 1..Len(Stages) : Stages[i] = s /\ i <= Len(passed[c]) + 1

PeerIn(c, s) ==
    /\ peer[c] \notin {"idle", "silent", "left"}
    /\ \E i \in 1..Len(ClientStages) : ClientStages[i] = s /\ i <= cl_passed[c] + 1

PeerGone(c) == peer[c] \in {"left", "failed", "panicked"}
=============================================================================
