--------------------------- MODULE Establishment ---------------------------
(***************************************************************************)
(* Clients in ClientConnect::new against the acceptor tasks of a TfServer. *)
(* Neither side has a timeout.                                             *)
(***************************************************************************)
EXTENDS ClientSetup, Acceptor

vars == <<conn, passed, peerVars, taskVars>>

TypeOK == HandshakeTypeOK /\ AcceptorTypeOK

Init == HandshakeInit /\ AcceptorInit

ClientStep(c) == NewStep(c) /\ UNCHANGED <<passed, taskVars>>

TaskStep(t) == Step(t) /\ UNCHANGED peerVars

Stop == send_stop /\ UNCHANGED peerVars

Next ==
    \/ \E t \in Tasks : (start(t) /\ UNCHANGED peerVars) \/ TaskStep(t)
    \/ Stop
    \/ \E c \in Conns : ClientStep(c) \/ (Environment(c) /\ UNCHANGED <<passed, taskVars>>)

Spec == Init /\ [][Next]_vars

\* tokio polls an acceptor task and a client's future of new when they can make
\* progress.  Nothing is assumed of other peers.
FairSpec ==
    /\ Spec
    /\ \A t \in Tasks : WF_vars(TaskStep(t))
    /\ \A c \in Conns \ Foreign : WF_vars(ClientStep(c))
-----------------------------------------------------------------------------
(***************************************************************************)
(* A connection that left the backlog undecided is in the hands of exactly *)
(* one acceptor task that still runs: neither a stop, a panic of a hook    *)
(* nor a second acceptor on the same listener loses it or takes it twice.  *)
(***************************************************************************)
AcceptedIsHeld ==
    \A c \in Conns :
        conn[c] = "accepted" =>
            \E t \in Tasks :
                /\ pc[t] = "handshake" /\ held[t] = c
                /\ \A u \in Tasks : held[u] = c => u = t

(***************************************************************************)
(* A connection is served only after it passed every configured check, in  *)
(* order (TLS before WebSocket, the codec's setup before the processor),   *)
(* and its peer took part in every handshake that needs two.               *)
(***************************************************************************)
ServedIsVetted ==
    \A c \in Conns :
        conn[c] = "serving" =>
            /\ passed[c] = Stages
            /\ \A i \in 1..Len(Stages) : Alone(Stages[i]) \/ PeerIn(c, Stages[i])

(***************************************************************************)
(* The listener outlives the acceptor tasks, so TcpStream::connect also    *)
(* succeeds with a server nobody accepts for; ClientConnect::new does not  *)
(* take that for a connection.  A client that new returned was taken by an *)
(* acceptor task through every handshake that needs two, and a task still  *)
(* works on it or has decided it, whatever stops, panics and refusals came *)
(* in between.  (Where no handshake needs two, plain TCP with a codec that *)
(* exchanges nothing, there is no such promise.)                           *)
(***************************************************************************)
ConnectedIsTakenUp ==
    \A c \in Conns :
        peer[c] = "up" =>
            \A i \in 1..Len(ClientStages) :
                ~Alone(ClientStages[i]) =>
                    /\ ServerIn(c, ClientStages[i])
                    /\ \/ conn[c] \in {"serving", "refused"}
                       \/ \E t \in Tasks : pc[t] = "handshake" /\ held[t] = c

\* The task waits, without a timeout, for a peer of which nothing is known.
Stuck(t) ==
    /\ InStage(t)
    /\ held[t] \in Foreign
    /\ ~Ready(held[t]) /\ ~PeerGone(held[t])

\* The task takes no further connection.
Lost(t) == pc[t] \in {"absent", "done", "panicked"} \/ Stuck(t)

(***************************************************************************)
(* The acceptor takes handshakes inline and has no timeout, so a queued    *)
(* connection waits for a silent peer ahead of it, and for nothing else:   *)
(* it is decided unless, from some time on, every acceptor task has ended, *)
(* was ended by a panic of a hook, or is stuck with such a peer.  A client *)
(* that panics on a channel of capacity zero, or gives up, holds nobody    *)
(* up.                                                                     *)
(***************************************************************************)
EveryPeerDecided ==
    \A c \in Conns \ Foreign :
        (conn[c] = "backlog")
            ~> (conn[c] \in {"serving", "refused"} \/ [](\A t \in Tasks : Lost(t)))

(***************************************************************************)
(* ClientConnect::new has no timeout either: it ends (with a client, an    *)
(* error or the panic of a zero capacity) unless the connection stays in   *)
(* the backlog of a server none of whose acceptors takes connections any   *)
(* more.  TfServer keeps the listener after send_stop, so that does        *)
(* happen.                                                                 *)
(***************************************************************************)
EveryNewEnds ==
    \A c \in Conns \ Foreign :
        (peer[c] = "connecting")
            ~> (\/ peer[c] \in {"up", "failed", "panicked"}
                \/ [](conn[c] = "backlog" /\ \A t \in Tasks : Lost(t)))

(***************************************************************************)
(* An operator who keeps calling send_stop ends every acceptor task that   *)
(* is not stuck with a silent peer.                                        *)
(***************************************************************************)
RepeatedStopEnds ==
    WF_vars(Stop) =>
        \A t \in Tasks :
            (pc[t] # "absent") ~> (pc[t] \in {"done", "panicked"} \/ []Stuck(t))

(***************************************************************************)
(* send_stop's comment: "Signals the acceptor task to stop."  So a task    *)
(* that waits in select! when it is called, and is woken by it, ends.      *)
(***************************************************************************)
DocStopEnds == \A t \in Tasks : woken[t] ~> (pc[t] = "done")
=============================================================================
