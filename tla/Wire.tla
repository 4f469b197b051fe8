-------------------------------- MODULE Wire --------------------------------
(***************************************************************************)
(* One established Framed<Transport, C> pair (tokio, tokio-util): two FIFO *)
(* streams of frames that are reliable until the connection breaks.        *)
(* External to the repository; modelled from how src/ uses it.             *)
(***************************************************************************)
EXTENDS Packets

CONSTANT Window   \* frames the buffers between the two ends hold, per direction

ASSUME WindowAssumption == Window \in Nat \ {0}

VARIABLES
    c2s,       \* frames on their way to the server
    s2c,       \* frames on their way to the client
    link,      \* "up", or "broken": reset by the network or by a peer
    cl_open,   \* the client task still owns its Framed
    srv_open   \* the server side still owns its Framed

wireVars == <<c2s, s2c, link, cl_open, srv_open>>

WireTypeOK ==
    /\ c2s \in Seq(ClientFrames)
    /\ s2c \in Seq(ServerFrames)
    /\ link \in {"up", "broken"}
    /\ cl_open \in BOOLEAN
    /\ srv_open \in BOOLEAN

WireInit ==
    /\ c2s = <<>>
    /\ s2c = <<>>
    /\ link = "up"
    /\ cl_open = TRUE
    /\ srv_open = TRUE

(***************************************************************************)
(* SinkExt::send.  A send to a live peer waits until the peer has read     *)
(* enough for the frame to fit, and is delivered.  Once the peer is gone a *)
(* send fails, or succeeds into a kernel buffer nobody reads and provokes  *)
(* a reset.                                                                *)
(***************************************************************************)
ClientSends(f) ==
    /\ IF link = "up" /\ srv_open
       THEN Len(c2s) < Window /\ c2s' = Append(c2s, f) /\ link' = link
       ELSE c2s' = c2s /\ link' = "broken"
    /\ UNCHANGED <<s2c, cl_open, srv_open>>

ClientSendFails ==
    /\ link = "broken" \/ ~srv_open
    /\ link' = "broken"
    /\ UNCHANGED <<c2s, s2c, cl_open, srv_open>>

ServerSends(f) ==
    /\ IF link = "up" /\ cl_open
       THEN Len(s2c) < Window /\ s2c' = Append(s2c, f) /\ link' = link
       ELSE s2c' = s2c /\ link' = "broken"
    /\ UNCHANGED <<c2s, cl_open, srv_open>>

ServerSendFails ==
    /\ link = "broken" \/ ~cl_open
    /\ link' = "broken"
    /\ UNCHANGED <<c2s, s2c, cl_open, srv_open>>

(***************************************************************************)
(* StreamExt::next on the client side: a frame, an i/o error (what was     *)
(* still buffered is gone), None at the end of the stream, or InvalidData  *)
(* for a frame over the decoder's limit, which the decoder does not skip.  *)
(***************************************************************************)
ClientReads ==
    /\ s2c # <<>>
    /\ Head(s2c).kind # "Oversize"
    /\ s2c' = Tail(s2c)
    /\ UNCHANGED <<c2s, link, cl_open, srv_open>>

ClientReadFails ==
    \/ /\ link = "broken"
       /\ s2c' = <<>>
       /\ UNCHANGED <<c2s, link, cl_open, srv_open>>
    \/ /\ s2c = <<>>
       /\ ~srv_open
       /\ UNCHANGED wireVars
    \/ /\ s2c # <<>>
       /\ Head(s2c).kind = "Oversize"
       /\ UNCHANGED wireVars

\* A socket dropped with unread input is reset, else it is closed in order.
ClientDrops ==
    /\ cl_open' = FALSE
    /\ link' = IF s2c = <<>> THEN link ELSE "broken"
    /\ UNCHANGED <<c2s, s2c, srv_open>>

ServerDrops ==
    /\ srv_open' = FALSE
    /\ link' = IF c2s = <<>> THEN link ELSE "broken"
    /\ UNCHANGED <<c2s, s2c, cl_open>>

ServerReads ==
    /\ c2s # <<>>
    /\ c2s' = Tail(c2s)
    /\ UNCHANGED <<s2c, link, cl_open, srv_open>>

\* The network resets the connection.
Break ==
    /\ link = "up"
    /\ link' = "broken"
    /\ UNCHANGED <<c2s, s2c, cl_open, srv_open>>
=============================================================================
