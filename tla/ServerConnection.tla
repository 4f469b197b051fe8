-------------------------- MODULE ServerConnection --------------------------
(***************************************************************************)
(* The server's task for one accepted connection: handle_connection,       *)
(* receive_message, send_message and TfServerRouter::serve_packet, with    *)
(* the route handlers and the stream takeover that user code supplies.     *)
(***************************************************************************)
EXTENDS Wire

CONSTANTS
    routes,             \* committed routes: handler id -> the tags it serves
    routes_text_names,  \* committed names: handler name -> handler id
    MaxRaw              \* bound on the frames an AcceptFn sends

ASSUME RouterAssumption ==
    /\ \E ids \in SUBSET HandlerIds : routes \in [ids -> SUBSET STypes]
    /\ \E names \in SUBSET Names : routes_text_names \in [names -> HandlerIds]
    /\ MaxRaw \in Nat

VARIABLES
    srv_pc,       \* where handle_connection stands
    meta,         \* the frame being served
    payload,      \* its payload frame; None stands for BytesMut::new()
    response,     \* the response to send (kept after the send)
    send_ok,      \* send_message returned Ok
    move_sig,     \* where the oneshot Sender of the move signal is
    has_errored,  \* the Framed stream yielded an error: its next item is None
    packets,      \* history: every PacketMeta that serve_packet routed
    raws,         \* frames the AcceptFn has sent
    srv_in,       \* pre_process_traffic calls of the connection's processor
    srv_out       \* post_process_traffic calls of the connection's processor

serverVars == <<srv_pc, meta, payload, response, send_ok, move_sig, has_errored,
                packets, raws, srv_in, srv_out>>

\* "held"      move_sig.0 is Some: the loop owns the Sender
\* "handler"   the running handler owns it
\* "detached"  the handler passed it to a task of its own
\* "sent"      it was used: an (AcceptFn, state) pair waits in the channel
\* "dropped"   it is gone unused
MoveSig == {"held", "handler", "detached", "sent", "dropped"}

ServerPc == {"recv_meta", "recv_payload", "serve", "handler", "send", "check_move",
             "accepted", "closed"}

RoutedPackets == [req : Requests, id : HandlerIds \cup {None}, payload : Requests \cup {None}]

ServerTypeOK ==
    /\ srv_pc \in ServerPc
    /\ meta \in ClientFrames \cup {None}
    /\ payload \in ClientFrames \cup {None}
    /\ response \in ReplyFrames \cup {None}
    /\ send_ok \in BOOLEAN
    /\ move_sig \in MoveSig
    /\ has_errored \in BOOLEAN
    /\ packets \in Seq(RoutedPackets)
    /\ raws \in Nat
    /\ srv_in \in Nat
    /\ srv_out \in Nat

ServerInit ==
    /\ srv_pc = "recv_meta"
    /\ meta = None
    /\ payload = None
    /\ response = None
    /\ send_ok = TRUE
    /\ move_sig = "held"
    /\ has_errored = FALSE
    /\ packets = <<>>
    /\ raws = 0
    /\ srv_in = 0
    /\ srv_out = 0
-----------------------------------------------------------------------------
(***************************************************************************)
(* receive_message, called for the meta frame and for the payload frame.   *)
(***************************************************************************)
receive_message ==
    /\ ~has_errored
    /\ ServerReads
    /\ ~DecodeFails(Head(c2s))
    /\ srv_in' = srv_in + 1

\* A meta frame that is a PacketMeta announcing a payload is followed by a read
\* of that payload; anything else is served as it is.
ReceiveMeta ==
    /\ srv_pc = "recv_meta"
    /\ receive_message
    /\ meta' = Head(c2s)
    /\ payload' = None
    /\ srv_pc' = IF Head(c2s).kind = "PacketMeta" /\ has_payload(Head(c2s).req)
                 THEN "recv_payload" ELSE "serve"
    /\ UNCHANGED <<response, send_ok, move_sig, has_errored, packets, raws, srv_out>>

ReceivePayload ==
    /\ srv_pc = "recv_payload"
    /\ receive_message
    /\ payload' = Head(c2s)
    /\ srv_pc' = "serve"
    /\ UNCHANGED <<meta, response, send_ok, move_sig, has_errored, packets, raws, srv_out>>

\* Mutant: a packet whose payload cannot be decoded is served without it.
ReceiveErrorServes ==
    /\ srv_pc \in {"recv_meta", "recv_payload"}
    /\ ~has_errored
    /\ \/ c2s # <<>> /\ DecodeFails(Head(c2s))
       \/ link = "broken"
    /\ has_errored' = TRUE
    /\ srv_pc' = IF srv_pc = "recv_payload" THEN "serve" ELSE "recv_meta"
    /\ UNCHANGED <<wireVars, meta, payload, response, send_ok, move_sig, packets, raws,
                   srv_in, srv_out>>

\* InvalidData from the decoder, or an i/o error that is not a disconnect:
\* Err(false), and the loop continues with the next meta frame.
ReceiveError ==
    /\ srv_pc \in {"recv_meta", "recv_payload"}
    /\ ~has_errored
    /\ \/ c2s # <<>> /\ DecodeFails(Head(c2s))
       \/ link = "broken"
    /\ has_errored' = TRUE
    /\ srv_pc' = "recv_meta"
    /\ UNCHANGED <<wireVars, meta, payload, response, send_ok, move_sig, packets, raws,
                   srv_in, srv_out>>

\* End of stream or a disconnect: Err(true); the stream is closed and dropped.
ReceiveDisconnect ==
    /\ srv_pc \in {"recv_meta", "recv_payload"}
    /\ \/ has_errored
       \/ c2s = <<>> /\ ~cl_open
       \/ link = "broken"
    /\ srv_pc' = "closed"
    /\ ServerDrops
    /\ UNCHANGED <<meta, payload, response, send_ok, move_sig, has_errored, packets, raws,
                   srv_in, srv_out>>
-----------------------------------------------------------------------------
(***************************************************************************)
(* TfServerRouter::serve_packet.                                           *)
(***************************************************************************)

\* routes.get(&key): the route registered under the id whose tags hold the tag.
HasRoute(h, t) == h \in DOMAIN routes /\ t \in routes[h]

Respond(k, h) ==
    /\ response' = Reply(k, meta, h, srv_out + 1)
    /\ srv_pc' = "send"
    /\ UNCHANGED move_sig

\* A PacketMeta whose route exists: the handler runs and gets the Sender.
CallHandler ==
    /\ HasRoute(meta.id, s_type[meta.req])
    /\ move_sig' = "handler"
    /\ srv_pc' = "handler"
    /\ UNCHANGED response

NoRoute ==
    /\ ~HasRoute(meta.id, s_type[meta.req])
    /\ Respond("NoSuchHandler", None)

ServePacketMeta ==
    /\ meta.kind = "PacketMeta"
    /\ packets' = Append(packets, [req |-> meta.req, id |-> meta.id,
                                   payload |-> IF payload = None THEN None ELSE payload.req])
    /\ CallHandler \/ NoRoute

\* Mutant: a name that is not registered is answered with id 0.
AnswerNameDefault ==
    /\ meta.kind = "HandlerMetaReq"
    /\ LET name == handler_info[meta.req].named
       IN  Respond("HandlerMetaAns", IF name \in DOMAIN routes_text_names
                                     THEN routes_text_names[name] ELSE 0)
    /\ UNCHANGED packets

AnswerName ==
    /\ meta.kind = "HandlerMetaReq"
    /\ LET name == handler_info[meta.req].named
       IN  IF name \in DOMAIN routes_text_names
           THEN Respond("HandlerMetaAns", routes_text_names[name])
           ELSE Respond("NoSuchHandler", None)
    /\ UNCHANGED packets

Malformed ==
    /\ meta.kind = "payload"
    /\ Respond("MalformedMetaInfo", None)
    /\ UNCHANGED packets

serve_packet ==
    /\ srv_pc = "serve"
    /\ ServePacketMeta \/ AnswerName \/ Malformed
    /\ UNCHANGED <<wireVars, meta, payload, send_ok, has_errored, raws, srv_in, srv_out>>

\* The handler's future completes with Ok(data) or Err(data) and gives the Sender
\* back, or dropped it, used it, or left it with a task it spawned.
HandlerReturns ==
    /\ srv_pc = "handler"
    /\ \E k \in {"Data", "Oversize", "Unsendable", "InternalError"} :
           response' = Reply(k, meta, None, srv_out + 1)
    /\ move_sig' \in {"held", "dropped", "sent", "detached"}
    /\ srv_pc' = "send"
    /\ UNCHANGED <<wireVars, meta, payload, send_ok, has_errored, packets, raws, srv_in,
                   srv_out>>

\* catch_unwind caught a panic: "handler died", and no Sender comes back.
HandlerPanics ==
    /\ srv_pc = "handler"
    /\ response' = Reply("InternalError", meta, None, srv_out + 1)
    /\ move_sig' \in {"dropped", "sent", "detached"}
    /\ srv_pc' = "send"
    /\ UNCHANGED <<wireVars, meta, payload, send_ok, has_errored, packets, raws, srv_in,
                   srv_out>>

\* The task a handler left the Sender with uses it or drops it.  The receiver
\* goes away with handle_connection: from then on a send is refused.
DetachedTask ==
    /\ move_sig = "detached"
    /\ move_sig' \in IF srv_pc = "closed" THEN {"dropped"} ELSE {"sent", "dropped"}
    /\ UNCHANGED <<wireVars, srv_pc, meta, payload, response, send_ok, has_errored,
                   packets, raws, srv_in, srv_out>>
-----------------------------------------------------------------------------
\* send_message: post-process and send, which fails on a broken connection and on a
\* response the codec refuses to encode.
send_message ==
    /\ srv_pc = "send"
    /\ srv_out' = srv_out + 1
    /\ srv_pc' = "check_move"
    /\ \/ send_ok' = TRUE /\ response.kind # "Unsendable" /\ ServerSends(response)
       \/ send_ok' = FALSE /\ ServerSendFails
       \/ send_ok' = FALSE /\ response.kind = "Unsendable" /\ UNCHANGED wireVars
    /\ UNCHANGED <<meta, payload, response, move_sig, has_errored, packets, raws, srv_in>>

\* Mutant: the loop goes on after the Sender was lost.
AfterSendIgnoringLoss ==
    IF move_sig = "sent" THEN "accepted" ELSE IF send_ok THEN "recv_meta" ELSE "closed"

\* move_sig.1.try_recv() first, then move_sig.0.is_none(), and the result of the
\* send last.
AfterSend ==
    IF move_sig = "sent" THEN "accepted"
    ELSE IF move_sig = "held" /\ send_ok THEN "recv_meta" ELSE "closed"

\* Mutant: the connection is given up without being closed.
CheckMoveLeavesOpen ==
    /\ srv_pc = "check_move"
    /\ srv_pc' = AfterSend
    /\ UNCHANGED <<wireVars, meta, payload, response, send_ok, move_sig, has_errored,
                   packets, raws, srv_in, srv_out>>

CheckMove ==
    /\ srv_pc = "check_move"
    /\ srv_pc' = AfterSend
    /\ IF AfterSend = "closed" THEN ServerDrops ELSE UNCHANGED wireVars
    /\ UNCHANGED <<meta, payload, response, send_ok, move_sig, has_errored, packets, raws,
                   srv_in, srv_out>>

(***************************************************************************)
(* The AcceptFn owns the stream: it reads and sends as it likes and ends,  *)
(* by returning or by a caught panic, which drops the stream.              *)
(***************************************************************************)
AcceptSends ==
    /\ srv_pc = "accepted"
    /\ raws < MaxRaw
    /\ raws' = raws + 1
    /\ ServerSends(RawFrame)
    /\ UNCHANGED <<srv_pc, meta, payload, response, send_ok, move_sig, has_errored,
                   packets, srv_in, srv_out>>

AcceptReads ==
    /\ srv_pc = "accepted"
    /\ ServerReads
    /\ UNCHANGED serverVars

AcceptEnds ==
    /\ srv_pc = "accepted"
    /\ srv_pc' = "closed"
    /\ ServerDrops
    /\ UNCHANGED <<meta, payload, response, send_ok, move_sig, has_errored, packets, raws,
                   srv_in, srv_out>>

ConnectionTask ==
    \/ ReceiveMeta
    \/ ReceivePayload
    \/ ReceiveError
    \/ ReceiveDisconnect
    \/ serve_packet
    \/ HandlerReturns
    \/ HandlerPanics
    \/ send_message
    \/ CheckMove
    \/ AcceptEnds

UserTasks ==
    \/ DetachedTask
    \/ AcceptSends
    \/ AcceptReads
=============================================================================
