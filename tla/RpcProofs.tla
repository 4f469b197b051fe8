------------------------------ MODULE RpcProofs ------------------------------
(***************************************************************************)
(* Proof that a session implements RpcService: what callers and handlers   *)
(* see of it is a behaviour of the abstract service.                       *)
(***************************************************************************)
EXTENDS ExchangeProofs, DeliveryProofs

(***************************************************************************)
(* A reply to a PacketMeta exists only for a request the server has        *)
(* routed, and raw frames only after the stream was asked for.             *)
(***************************************************************************)
RepliesBacked ==
    /\ \A i \in 1..Len(s2c) :
           s2c[i].kind # "raw" /\ s2c[i].to = "PacketMeta" => Routed(s2c[i].req)
    /\ srv_pc = "send" /\ response.to = "PacketMeta" => Routed(response.req)
    /\ srv_pc = "handler" => Routed(meta.req)

TakeOverBacked ==
    /\ \A i \in 1..Len(s2c) : s2c[i].kind = "raw" => move_sig = "sent"
    /\ srv_pc = "accepted" => move_sig = "sent"
    /\ srv_pc = "handler" => move_sig = "handler"
    /\ move_sig \in {"handler", "detached", "sent"} => \E r \in Requests : Routed(r)

\* A request that the loop may still serve was not answered.
UnansweredFirst ==
    Working => \A r \in Requests : OnWay(r) \/ Held(r) => outcome[r] # "sent"

ServiceInv == RepliesBacked /\ TakeOverBacked /\ UnansweredFirst /\ MoveSignalKept
-----------------------------------------------------------------------------
\* The client side only takes frames off the stream of replies.
LEMMA RepliesClient ==
  ASSUME TypeInv, RepliesBacked, TakeOverBacked, MoveSignalKept, UNCHANGED serverVars,
         s2c' = s2c \/ s2c' = <<>> \/ (s2c # <<>> /\ s2c' = Tail(s2c))
  PROVE  RepliesBacked' /\ TakeOverBacked' /\ MoveSignalKept'
PROOF
  <1>1. \A r : Routed(r)' <=> Routed(r)
    BY DEF Routed, serverVars
  <1>2. \A i \in 1..Len(s2c') : \E k \in 1..Len(s2c) : s2c'[i] = s2c[k]
    <2>1. CASE s2c' = s2c
      BY <2>1
    <2>2. CASE s2c' = <<>>
      BY <2>2
    <2>3. CASE s2c # <<>> /\ s2c' = Tail(s2c)
      <3>1. \A i \in 1..Len(s2c') : s2c'[i] = s2c[i + 1] /\ i + 1 \in 1..Len(s2c)
        BY <2>3, TrafficTypes, TailFacts
      <3> QED BY <3>1
    <2> QED BY <2>1, <2>2, <2>3
  <1>3. RepliesBacked'
    <2>1. \A i \in 1..Len(s2c') :
              s2c'[i].kind # "raw" /\ s2c'[i].to = "PacketMeta" => Routed(s2c'[i].req)
      BY <1>2 DEF RepliesBacked
    <2>2. /\ srv_pc' = "send" /\ response'.to = "PacketMeta" => Routed(response'.req)
          /\ srv_pc' = "handler" => Routed(meta'.req)
      BY DEF RepliesBacked, serverVars
    <2>3. /\ \A i \in 1..Len(s2c') : Routed(s2c'[i].req) => Routed(s2c[i].req)'
          /\ Routed(response'.req) => Routed(response.req)'
          /\ Routed(meta'.req) => Routed(meta.req)'
      BY DEF Routed, serverVars
    <2> QED BY <2>1, <2>2, <2>3 DEF RepliesBacked
  <1>4. TakeOverBacked'
    BY <1>1, <1>2 DEF TakeOverBacked, serverVars
  <1>5. MoveSignalKept'
    BY DEF MoveSignalKept, serverVars
  <1> QED BY <1>3, <1>4, <1>5

\* Frames are only taken off the stream of replies by everything but the server.
LEMMA NotServerSteps ==
  ASSUME [Next]_vars, ~(ConnectionTask \/ UserTasks)
  PROVE  /\ UNCHANGED serverVars
         /\ s2c' = s2c \/ s2c' = <<>> \/ (s2c # <<>> /\ s2c' = Tail(s2c))
PROOF
  <1>1. UNCHANGED serverVars
    BY DEF Next, vars
  <1>2. CASE UNCHANGED wireVars \/ Break \/ Callers
    BY <1>1, <1>2 DEF wireVars, Break, Callers, dispatch_request, Abandon, DropClient
  <1>3. CASE ClientTask
    <2>1. CASE RecvRequest \/ ConnectionLoopEnds
      BY <1>1, <2>1 DEF RecvRequest, ConnectionLoopEnds, ClientDrops, wireVars
    <2>2. CASE SendRouteRequest \/ SendMeta \/ SendPayload
      BY <1>1, <2>2 DEF SendRouteRequest, SendMeta, SendPayload, ClientSends, ClientSendFails,
                  wireVars
    <2>3. CASE RecvRouteAnswer \/ RecvResponse \/ ReadFails
      BY <1>1, <2>3 DEF RecvRouteAnswer, RecvResponse, ReadFails, ClientReads, ClientReadFails,
                  wireVars
    <2> QED BY <1>3, <2>1, <2>2, <2>3 DEF ClientTask
  <1> QED BY <1>1, <1>2, <1>3 DEF Next, vars

\* What the server's loop and the user code do to replies and take-over.
LEMMA RepliesServer ==
  ASSUME TypeInv, RepliesBacked, TakeOverBacked, MoveSignalKept,
         ConnectionTask \/ UserTasks
  PROVE  RepliesBacked' /\ TakeOverBacked' /\ MoveSignalKept'
PROOF
  <1>1. /\ s2c \in Seq(ServerFrames) /\ packets \in Seq(RoutedPackets)
        /\ Len(s2c) \in Nat /\ Len(packets) \in Nat
    BY DEF TypeInv, TypeOK, WireTypeOK, ServerTypeOK
  \* Nothing is routed, sent or taken over.
  <1>2. ASSUME UNCHANGED <<s2c, packets, move_sig>>,
               srv_pc' \in {"recv_meta", "closed"} \/
                   (srv_pc \in {"recv_meta", "recv_payload"} /\
                    srv_pc' \in {"recv_payload", "serve"}) \/
                   (srv_pc' = "accepted" /\ move_sig = "sent"),
               srv_pc' = "recv_meta" => move_sig = "held"
        PROVE  RepliesBacked' /\ TakeOverBacked' /\ MoveSignalKept'
    <2>1. \A r : Routed(r)' <=> Routed(r)
      BY <1>2 DEF Routed
    <2>2. RepliesBacked'
      <3>1. \A i \in 1..Len(s2c) : Routed(s2c[i].req) => Routed(s2c[i].req)'
        BY <1>2 DEF Routed
      <3> QED BY <1>2, <3>1 DEF RepliesBacked
    <2>3. TakeOverBacked' /\ MoveSignalKept'
      BY <1>2, <2>1 DEF TakeOverBacked, MoveSignalKept
    <2> QED BY <2>2, <2>3
  <1>3. CASE ReceiveMeta \/ ReceivePayload \/ ReceiveError \/ ReceiveDisconnect
    <2>1. /\ UNCHANGED <<s2c, packets, move_sig>>
          /\ srv_pc \in {"recv_meta", "recv_payload"}
          /\ srv_pc' \in {"recv_meta", "recv_payload", "serve", "closed"}
      BY <1>3 DEF ReceiveMeta, ReceivePayload, receive_message, ReceiveError,
                  ReceiveDisconnect, ServerReads, ServerDrops, wireVars
    <2> QED BY <1>2, <2>1 DEF MoveSignalKept
  <1>4. CASE serve_packet /\ ServePacketMeta
    <2>1. /\ srv_pc = "serve" /\ meta \in ClientFrames /\ s2c' = s2c /\ meta' = meta
          /\ packets' = Append(packets, [req |-> meta.req, id |-> meta.id,
                            payload |-> IF payload = None THEN None ELSE payload.req])
          /\ \/ srv_pc' = "handler" /\ move_sig' = "handler"
             \/ srv_pc' = "send" /\ move_sig' = move_sig /\ response'.req = meta.req
      BY <1>4 DEF serve_packet, ServePacketMeta, CallHandler, NoRoute, Respond, Reply,
                  TypeInv, LocalsSet, wireVars
    <2>2. meta.req \in Requests
      BY <2>1 DEF ClientFrames
    <2>3. [req |-> meta.req, id |-> meta.id,
           payload |-> IF payload = None THEN None ELSE payload.req] \in RoutedPackets
      <3>1. (IF payload = None THEN None ELSE payload.req) \in Requests \cup {None}
        BY DEF TypeInv, TypeOK, ServerTypeOK, ClientFrames
      <3> QED BY <2>1, <2>2, <3>1 DEF RoutedPackets, ClientFrames
    <2>4. /\ Len(packets') = Len(packets) + 1
          /\ \A i \in 1..Len(packets) : packets'[i] = packets[i]
          /\ packets'[Len(packets) + 1].req = meta.req
      BY <1>1, <2>1, <2>3, AppendFacts
    <2>5. ASSUME NEW r, Routed(r) \/ r = meta.req
          PROVE  \E i \in 1..Len(packets') : packets'[i].req = r
      BY <1>1, <2>4, <2>5 DEF Routed
    <2>6. RepliesBacked'
      <3>1. \A i \in 1..Len(s2c') :
                s2c'[i].kind # "raw" /\ s2c'[i].to = "PacketMeta" =>
                    \E k \in 1..Len(packets') : packets'[k].req = s2c'[i].req
        BY <2>1, <2>5 DEF RepliesBacked
      <3>2. \E k \in 1..Len(packets') : packets'[k].req = meta'.req
        BY <2>1, <2>5
      <3>3. srv_pc' = "send" => \E k \in 1..Len(packets') : packets'[k].req = response'.req
        BY <2>1, <2>5
      <3> QED BY <3>1, <3>2, <3>3 DEF RepliesBacked, Routed
    <2>7. move_sig = "held"
      BY <2>1 DEF MoveSignalKept
    <2>8. TakeOverBacked'
      <3>1. \E r \in Requests : Routed(r)'
        BY <2>2, <2>5 DEF Routed
      <3>2. \A i \in 1..Len(s2c') : s2c'[i].kind # "raw"
        BY <2>1, <2>7 DEF TakeOverBacked
      <3> QED BY <2>1, <2>7, <3>1, <3>2 DEF TakeOverBacked
    <2>9. MoveSignalKept'
      BY <2>1 DEF MoveSignalKept
    <2> QED BY <2>6, <2>8, <2>9
  \* A response is prepared, or only the Sender changes hands.
  <1>5. ASSUME UNCHANGED <<s2c, packets, meta>>,
               srv_pc' # "handler" \/ UNCHANGED <<srv_pc, move_sig>>,
               srv_pc' = "send" =>
                   (response'.to = "PacketMeta" => Routed(response'.req)),
               srv_pc' = "accepted" => move_sig' = "sent",
               move_sig = "sent" => move_sig' = "sent",
               move_sig' = move_sig \/ move_sig \in {"handler", "detached"},
               srv_pc' \notin {"recv_meta", "recv_payload", "serve"} \/ move_sig' = "held"
        PROVE  RepliesBacked' /\ TakeOverBacked' /\ MoveSignalKept'
    <2>1. \A r : Routed(r)' <=> Routed(r)
      BY <1>5 DEF Routed
    <2>2. RepliesBacked'
      <3>1. /\ \A i \in 1..Len(s2c) : Routed(s2c[i].req) => Routed(s2c[i].req)'
            /\ Routed(response'.req) => Routed(response.req)'
            /\ Routed(meta.req) => Routed(meta.req)'
        BY <1>5 DEF Routed
      <3> QED BY <1>5, <3>1 DEF RepliesBacked
    <2>3. MoveSignalKept'
      BY <1>5 DEF MoveSignalKept
    <2>4. TakeOverBacked'
      BY <1>5, <2>1 DEF TakeOverBacked
    <2> QED BY <2>2, <2>3, <2>4
  <1>6. CASE serve_packet /\ (AnswerName \/ Malformed)
    <2>1. /\ UNCHANGED <<s2c, packets, meta, move_sig>> /\ srv_pc' = "send"
          /\ response'.to = meta.kind /\ meta.kind # "PacketMeta"
      BY <1>6 DEF serve_packet, AnswerName, Malformed, Respond, Reply, wireVars
    <2> QED BY <1>5, <2>1
  <1>7. CASE HandlerReturns \/ HandlerPanics
    <2>1. /\ UNCHANGED <<s2c, packets, meta>> /\ srv_pc = "handler" /\ srv_pc' = "send"
          /\ response'.req = meta.req
      BY <1>7 DEF HandlerReturns, HandlerPanics, Reply, wireVars
    <2>2. move_sig = "handler" /\ Routed(meta.req)
      BY <2>1 DEF TakeOverBacked, RepliesBacked
    <2> QED BY <1>5, <2>1, <2>2
  <1>8. CASE DetachedTask
    <2>1. /\ UNCHANGED <<s2c, packets, meta, srv_pc, response>> /\ move_sig = "detached"
      BY <1>8 DEF DetachedTask, wireVars
    <2>2. srv_pc \notin {"handler", "accepted", "recv_meta", "recv_payload", "serve"}
      BY <2>1 DEF TakeOverBacked, MoveSignalKept
    <2>3. srv_pc' = "send" => (response'.to = "PacketMeta" => Routed(response'.req))
      BY <2>1 DEF RepliesBacked
    <2> QED BY <1>5, <2>1, <2>2, <2>3
  <1>9. CASE CheckMove
    <2>1. /\ UNCHANGED <<s2c, packets, meta, move_sig>>
          /\ srv_pc' \in {"accepted", "recv_meta", "closed"}
          /\ srv_pc' = "accepted" => move_sig = "sent"
          /\ srv_pc' = "recv_meta" => move_sig = "held"
      BY <1>9 DEF CheckMove, AfterSend, ServerDrops, wireVars
    <2> QED BY <1>2, <2>1
  <1>10. CASE AcceptEnds \/ AcceptReads
    <2>1. /\ UNCHANGED <<s2c, packets, meta, move_sig>>
          /\ srv_pc = "accepted" /\ srv_pc' \in {"accepted", "closed"}
      BY <1>10 DEF AcceptEnds, AcceptReads, ServerDrops, ServerReads, serverVars
    <2> QED BY <1>2, <2>1 DEF TakeOverBacked
  \* A frame is sent.
  <1>11. ASSUME NEW f \in ServerFrames, s2c' = Append(s2c, f) \/ s2c' = s2c,
                UNCHANGED <<packets, move_sig>>,
                srv_pc' \in {"check_move", "accepted"},
                srv_pc' = "accepted" => move_sig = "sent",
                f.kind = "raw" => move_sig = "sent",
                f.kind # "raw" /\ f.to = "PacketMeta" => Routed(f.req)
         PROVE  RepliesBacked' /\ TakeOverBacked' /\ MoveSignalKept'
    <2>1. \A r : Routed(r)' <=> Routed(r)
      BY <1>11 DEF Routed
    <2>2. \A i \in 1..Len(s2c') : s2c'[i] = f \/ \E k \in 1..Len(s2c) : s2c'[i] = s2c[k]
      <3>1. CASE s2c' = s2c
        BY <3>1
      <3>2. CASE s2c' = Append(s2c, f)
        <4>1. /\ Len(s2c') = Len(s2c) + 1 /\ s2c'[Len(s2c) + 1] = f
              /\ \A i \in 1..Len(s2c) : s2c'[i] = s2c[i]
          BY <1>1, <3>2, AppendFacts
        <4> QED BY <1>1, <4>1
      <3> QED BY <1>11, <3>1, <3>2
    <2>3. RepliesBacked'
      <3>1. \A i \in 1..Len(s2c') :
                s2c'[i].kind # "raw" /\ s2c'[i].to = "PacketMeta" => Routed(s2c'[i].req)
        BY <1>11, <2>2 DEF RepliesBacked
      <3>2. \A i \in 1..Len(s2c') : Routed(s2c'[i].req) => Routed(s2c[i].req)'
        BY <1>11 DEF Routed
      <3> QED BY <1>11, <3>1, <3>2 DEF RepliesBacked
    <2>4. TakeOverBacked' /\ MoveSignalKept'
      BY <1>11, <2>1, <2>2 DEF TakeOverBacked, MoveSignalKept
    <2> QED BY <2>3, <2>4
  <1>12. CASE send_message
    <2>1. /\ srv_pc = "send" /\ srv_pc' = "check_move" /\ response \in ReplyFrames
          /\ UNCHANGED <<packets, move_sig>>
          /\ s2c' = Append(s2c, response) \/ s2c' = s2c
      BY <1>12 DEF send_message, ServerSends, ServerSendFails, wireVars, TypeInv, LocalsSet
    <2>2. /\ response \in ServerFrames /\ response.kind # "raw"
          /\ response.to = "PacketMeta" => Routed(response.req)
      BY <2>1 DEF ServerFrames, ReplyFrames, ReplyKinds, RepliesBacked
    <2> QED BY <1>11, <2>1, <2>2
  <1>13. CASE AcceptSends
    <2>1. /\ srv_pc = "accepted" /\ srv_pc' = "accepted" /\ UNCHANGED <<packets, move_sig>>
          /\ s2c' = Append(s2c, RawFrame) \/ s2c' = s2c
      BY <1>13 DEF AcceptSends, ServerSends
    <2>2. RawFrame \in ServerFrames /\ RawFrame.kind = "raw" /\ move_sig = "sent"
      BY <2>1 DEF ServerFrames, RawFrame, TakeOverBacked
    <2> QED BY <1>11, <2>1, <2>2
  <1>14. serve_packet => ServePacketMeta \/ AnswerName \/ Malformed
    BY DEF serve_packet
  <1> QED BY <1>3, <1>4, <1>6, <1>7, <1>8, <1>9, <1>10, <1>12, <1>13, <1>14
          DEF ConnectionTask, UserTasks
-----------------------------------------------------------------------------
\* A meta the loop may still serve was there before, or is being sent.
LEMMA MetasMoveOn ==
  ASSUME TypeInv, MetasDistinct, [Next]_vars, NEW r \in Requests, OnWay(r)' \/ Held(r)'
  PROVE  OnWay(r) \/ Held(r) \/ (r = cur /\ Busy /\ outcome' = outcome)
PROOF
  <1>1. c2s \in Seq(ClientFrames) /\ cl_out \in Nat /\ cur_id \in HandlerIds \cup {None}
    BY DEF TypeInv, TypeOK, WireTypeOK, ClientTypeOK
  <1>2. CASE UNCHANGED <<c2s, serverVars>>
    BY <1>2 DEF OnWay, Held, serverVars
  <1>3. ASSUME NEW f \in ClientFrames, c2s' = Append(c2s, f), UNCHANGED serverVars,
               f.kind = "PacketMeta" => f.req = cur /\ Busy /\ outcome' = outcome
        PROVE  OnWay(r) \/ Held(r) \/ (r = cur /\ Busy /\ outcome' = outcome)
    <2>1. /\ Len(c2s) \in Nat /\ Len(c2s') = Len(c2s) + 1 /\ c2s'[Len(c2s) + 1] = f
          /\ \A i \in 1..Len(c2s) : c2s'[i] = c2s[i]
      BY <1>1, <1>3, AppendFacts
    <2>2. Held(r)' => Held(r)
      BY <1>3 DEF Held, serverVars
    <2>3. OnWay(r)' => OnWay(r) \/ IsMetaOf(f, r)
      BY <2>1 DEF OnWay
    <2> QED BY <1>3, <2>2, <2>3 DEF IsMetaOf
  <1>4. CASE ClientTask /\ UNCHANGED serverVars
    <2>1. CASE SendRouteRequest /\ c2s' # c2s
      <3>1. c2s' = Append(c2s, HandlerMetaReq(cur, cl_out + 1)) /\ cl_pc = "route_send"
        BY <2>1 DEF SendRouteRequest, ClientSends, ClientSendFails
      <3>2. /\ HandlerMetaReq(cur, cl_out + 1) \in ClientFrames
            /\ HandlerMetaReq(cur, cl_out + 1).kind # "PacketMeta"
        BY <1>1, <3>1 DEF TypeInv, LocalsSet, HandlerMetaReq, ClientFrames
      <3> QED BY <1>3, <1>4, <3>1, <3>2
    <2>2. CASE SendPayload /\ c2s' # c2s
      <3>1. c2s' = Append(c2s, Payload(cur, cl_out)) /\ cl_pc = "payload_send"
        BY <2>2 DEF SendPayload, ClientSends, ClientSendFails, wireVars
      <3>2. /\ Payload(cur, cl_out) \in ClientFrames
            /\ Payload(cur, cl_out).kind # "PacketMeta"
        BY <1>1, <3>1 DEF TypeInv, LocalsSet, Payload, ClientFrames
      <3> QED BY <1>3, <1>4, <3>1, <3>2
    <2>3. CASE SendMeta /\ c2s' # c2s
      <3>1. c2s' = Append(c2s, PacketMeta(cur, cur_id, cl_out + 1)) /\ cl_pc = "meta_send"
            /\ outcome' = outcome
        BY <2>3 DEF SendMeta, ClientSends, ClientSendFails
      <3>2. /\ PacketMeta(cur, cur_id, cl_out + 1) \in ClientFrames
            /\ PacketMeta(cur, cur_id, cl_out + 1).req = cur /\ Busy
        BY <1>1, <3>1 DEF TypeInv, LocalsSet, PacketMeta, ClientFrames, Busy
      <3> QED BY <1>3, <1>4, <3>1, <3>2
    <2>4. RecvRequest \/ ConnectionLoopEnds \/ RecvRouteAnswer \/ RecvResponse \/ ReadFails
             => c2s' = c2s
      BY DEF RecvRequest, ConnectionLoopEnds, RecvRouteAnswer, RecvResponse, ReadFails,
             wireVars, ClientDrops, ClientReads, ClientReadFails
    <2> QED BY <1>2, <1>4, <2>1, <2>2, <2>3, <2>4 DEF ClientTask
  <1>5. CASE (Callers \/ Break \/ UNCHANGED wireVars) /\ UNCHANGED serverVars
    <2>1. c2s' = c2s
      BY <1>5 DEF Callers, dispatch_request, Abandon, DropClient, Break, wireVars
    <2> QED BY <1>2, <1>5, <2>1
  <1>6. CASE ConnectionTask \/ UserTasks
    <2>1. CASE ReceiveMeta
      <3>1. c2s # <<>> /\ c2s' = Tail(c2s) /\ meta' = Head(c2s)
        BY <2>1 DEF ReceiveMeta, receive_message, ServerReads
      <3>2. (OnWay(r)' => OnWay(r)) /\ (IsMetaOf(meta', r) => OnWay(r))
        BY <1>1, <3>1, MetasRead
      <3> QED BY <3>2 DEF Held, IsMetaOf
    <2>2. CASE ReceivePayload \/ AcceptReads
      <3>1. /\ c2s # <<>> /\ c2s' = Tail(c2s) /\ UNCHANGED meta
            /\ srv_pc' = srv_pc \/ (srv_pc = "recv_payload" /\ srv_pc' = "serve")
        BY <2>2 DEF ReceivePayload, receive_message, AcceptReads, ServerReads, serverVars
      <3>2. OnWay(r)' => OnWay(r)
        BY <1>1, <3>1, MetasRead
      <3> QED BY <3>1, <3>2 DEF Held, IsMetaOf
    <2>3. ASSUME c2s' = c2s,
                 srv_pc' \notin {"recv_payload", "serve"} \/ UNCHANGED <<srv_pc, meta>>
          PROVE  OnWay(r) \/ Held(r)
      BY <2>3 DEF OnWay, Held, IsMetaOf
    <2>4. CASE serve_packet \/ HandlerReturns \/ HandlerPanics
      <3>1. c2s' = c2s /\ srv_pc' \in {"handler", "send"}
        BY <2>4 DEF serve_packet, ServePacketMeta, CallHandler, NoRoute, AnswerName,
                    Malformed, Respond, HandlerReturns, HandlerPanics, wireVars
      <3> QED BY <2>3, <3>1
    <2>5. CASE ReceiveError \/ ReceiveDisconnect \/ send_message \/ CheckMove \/ AcceptEnds
      <3>1. c2s' = c2s /\ srv_pc' \notin {"recv_payload", "serve"}
        BY <2>5 DEF ReceiveError, ReceiveDisconnect, send_message, CheckMove, AfterSend,
                    AcceptEnds, wireVars, ServerDrops, ServerSends, ServerSendFails
      <3> QED BY <2>3, <3>1
    <2>6. CASE DetachedTask \/ AcceptSends
      <3>1. UNCHANGED <<c2s, srv_pc, meta>>
        BY <2>6 DEF DetachedTask, AcceptSends, wireVars, ServerSends
      <3> QED BY <2>3, <3>1
    <2> QED BY <1>6, <2>1, <2>2, <2>4, <2>5, <2>6 DEF ConnectionTask, UserTasks
  <1> QED BY <1>4, <1>5, <1>6 DEF Next, vars

\* The loop, once left, is not entered again.
LEMMA WorkingBefore ==
  ASSUME [Next]_vars, Working'
  PROVE  Working
PROOF
  <1>1. CASE UNCHANGED serverVars
    BY <1>1 DEF Working, serverVars
  <1>2. CASE ConnectionTask \/ UserTasks
    BY <1>2 DEF ConnectionTask, UserTasks, ReceiveMeta, ReceivePayload, ReceiveError,
                ReceiveDisconnect, serve_packet, HandlerReturns, HandlerPanics,
                send_message, CheckMove, AcceptEnds, AcceptSends, AcceptReads,
                DetachedTask, serverVars, Working
  <1> QED BY <1>1, <1>2 DEF Next, vars

\* Who may be answered: the request being processed, by the reply to its own meta
\* or by an AcceptFn.
LEMMA AnsweredWhenServed ==
  ASSUME ExchangeInv, TypeInv', QueueInv, ServiceInv, RecvResponse, UNCHANGED serverVars
  PROVE  /\ Routed(cur) \/ move_sig = "sent"
         /\ Working => Routed(cur)
PROOF
  <1>1. /\ cl_pc = "response_wait" /\ ClientReads /\ s2c # <<>>
        /\ s2c \in Seq(ServerFrames)
    BY DEF RecvResponse, ClientReads, ExchangeInv, TypeInv, TypeOK, WireTypeOK
  <1>2. Head(s2c) = s2c[1] /\ 1 \in 1..Len(s2c)
    BY <1>1, TailFacts
  <1>3. Head(s2c).kind # "raw" => IsReply(Head(s2c), "PacketMeta", cur)
    BY <1>1, ClientTakesFrame
  <1>4. Head(s2c).kind # "raw" => Routed(cur)
    BY <1>2, <1>3 DEF IsReply, ServiceInv, RepliesBacked
  <1>5. Head(s2c).kind = "raw" => move_sig = "sent" /\ ~Working
    BY <1>2 DEF ServiceInv, TakeOverBacked, ExchangeInv, Lifetimes
  <1> QED BY <1>4, <1>5

\* A request that may still be served stays unanswered.
LEMMA UnansweredStep ==
  ASSUME ExchangeInv, TypeInv', QueueInv, OnceInv, ServiceInv, [Next]_vars
  PROVE  UnansweredFirst'
PROOF
  <1>1. TypeInv /\ outcome \in [Requests -> Outcomes] /\ MetasDistinct
    BY DEF ExchangeInv, TypeInv, TypeOK, ClientTypeOK, OnceInv
  <1> SUFFICES ASSUME Working', NEW r \in Requests, OnWay(r)' \/ Held(r)'
               PROVE  outcome'[r] # "sent"
    BY DEF UnansweredFirst
  <1>2. Working
    BY WorkingBefore
  <1>3. CASE r = cur /\ Busy /\ outcome' = outcome
    BY <1>3 DEF QueueInv, InProcess
  <1>4. CASE OnWay(r) \/ Held(r)
    <2>1. outcome[r] # "sent"
      BY <1>2, <1>4 DEF ServiceInv, UnansweredFirst
    <2>2. CASE RecvResponse /\ UNCHANGED serverVars
      <3>1. r # cur
        BY <1>2, <1>4, <2>2, AnsweredWhenServed DEF OnceInv, OnePlace
      <3> QED BY <1>1, <2>1, <2>2, <3>1 DEF RecvResponse
    <2>3. ASSUME outcome' = outcome \/ outcome' = [outcome EXCEPT ![cur] = "failed"]
          PROVE  outcome'[r] # "sent"
      BY <1>1, <2>1, <2>3
    <2>4. ASSUME ClientTask, ~RecvResponse
          PROVE  outcome' = outcome \/ outcome' = [outcome EXCEPT ![cur] = "failed"]
      BY <2>4 DEF ClientTask, RecvRequest, ConnectionLoopEnds, SendRouteRequest,
                  RecvRouteAnswer, SendMeta, SendPayload, ReadFails, RequestFails
    <2>5. ASSUME Callers \/ UNCHANGED clientVars PROVE outcome' = outcome
      BY <2>5 DEF Callers, dispatch_request, Abandon, DropClient, clientVars
    <2> QED BY <2>2, <2>3, <2>4, <2>5 DEF Next, vars
  <1> QED BY <1>1, <1>3, <1>4, MetasMoveOn

\* ServiceInv holds of every session with framable data.
LEMMA ServiceInvariant == ASSUME Framable PROVE Spec => []ServiceInv
PROOF
  <1>1. Init => ServiceInv
    BY DEF Init, WireInit, ServerInit, ClientInit, ServiceInv, RepliesBacked, TakeOverBacked,
           UnansweredFirst, MoveSignalKept
  <1>2. /\ ExchangeInv /\ QueueInv /\ OnceInv /\ ServiceInv
        /\ TypeInv' /\ [Next]_vars
        => ServiceInv'
    <2> SUFFICES ASSUME ExchangeInv, QueueInv, OnceInv, ServiceInv, TypeInv', [Next]_vars
                 PROVE  ServiceInv'
      OBVIOUS
    <2>1. TypeInv
      BY DEF ExchangeInv
    <2>2. UnansweredFirst'
      BY UnansweredStep
    <2>3. CASE ConnectionTask \/ UserTasks
      BY <2>1, <2>2, <2>3, RepliesServer DEF ServiceInv
    <2>4. CASE ~(ConnectionTask \/ UserTasks)
      BY <2>1, <2>2, <2>4, NotServerSteps, RepliesClient DEF ServiceInv
    <2> QED BY <2>3, <2>4
  <1> QED BY <1>1, <1>2, TypeInvariant, ExchangeInvariant, QueueInvariant, OnceInvariant, PTL
          DEF Spec
-----------------------------------------------------------------------------
(***************************************************************************)
(* The step simulation.                                                    *)
(***************************************************************************)
Statuses == [r \in Requests |-> Status(r)]
Served == {packets[i].req : i \in 1..Len(packets)}
TakenOver == move_sig = "sent"

\* A request's status, by its outcome.
LEMMA StatusOf ==
  ASSUME TypeInv, NEW r \in Requests
  PROVE  /\ outcome[r] = "sent" => Status(r) = "answered"
         /\ outcome[r] = "failed" => Status(r) = "failed"
         /\ outcome[r] = "none" /\ r \in Dispatched => Status(r) = "pending"
         /\ outcome[r] = "none" /\ r \notin Dispatched => Status(r) = "idle"
         /\ outcome[r] \in Outcomes
PROOF
  BY DEF Status, TypeInv, TypeOK, ClientTypeOK, Outcomes

\* Nothing becomes of the requests.
LEMMA StatusesKept ==
  ASSUME UNCHANGED <<outcome, order>>
  PROVE  Statuses' = Statuses
PROOF
  BY DEF Statuses, Status, Dispatched

\* A step of the client side is a Submit, an Answer, a Fail or a stutter.
LEMMA ClientSimulation ==
  ASSUME ExchangeInv, TypeInv', QueueInv, ServiceInv, [Next]_vars, UNCHANGED serverVars
  PROVE  /\ UNCHANGED <<Served, TakenOver>>
         /\ \/ Statuses' = Statuses
            \/ \E r \in Requests :
                   /\ Statuses[r] = "idle"
                   /\ Statuses' = [Statuses EXCEPT ![r] = "pending"]
            \/ \E r \in Requests :
                   /\ Statuses[r] = "pending" /\ (r \in Served \/ TakenOver)
                   /\ Statuses' = [Statuses EXCEPT ![r] = "answered"]
            \/ \E r \in Requests :
                   /\ Statuses[r] = "pending"
                   /\ Statuses' = [Statuses EXCEPT ![r] = "failed"]
PROOF
  <1>1. UNCHANGED <<Served, TakenOver>>
    BY DEF Served, TakenOver, serverVars
  <1>2. TypeInv /\ outcome \in [Requests -> Outcomes] /\ order \in Seq(Requests)
    BY DEF ExchangeInv, TypeInv, TypeOK, ClientTypeOK
  <1>3. CASE Unmoved \/ TakesNext
    BY <1>1, <1>3, StatusesKept DEF Unmoved, TakesNext
  <1>4. CASE QueuesNew
    <2>1. PICK r \in Requests \ Dispatched : ChannelSend(r)
      BY <1>4 DEF QueuesNew
    <2>2. outcome' = outcome /\ outcome[r] = "none"
      BY <1>4, <2>1 DEF QueuesNew, QueueInv, Untouched
    <2>3. Dispatched' = Dispatched \cup {r}
      <3>1. /\ Len(order) \in Nat /\ Len(order') = Len(order) + 1
            /\ \A i \in 1..Len(order) : order'[i] = order[i]
            /\ order'[Len(order) + 1] = r
        BY <1>2, <2>1, AppendFacts DEF ChannelSend
      <3>2. 1..Len(order') = 1..Len(order) \cup {Len(order) + 1}
        BY <3>1
      <3> QED BY <3>1, <3>2 DEF Dispatched
    <2>4. Statuses[r] = "idle" /\ Statuses'[r] = "pending"
      BY <1>2, <2>1, <2>2, <2>3, StatusOf DEF Statuses, Status
    <2>5. \A q \in Requests : q # r => Statuses'[q] = Statuses[q]
      BY <2>2, <2>3 DEF Statuses, Status
    <2>6. Statuses' = [Statuses EXCEPT ![r] = "pending"]
      BY <2>4, <2>5 DEF Statuses
    <2> QED BY <1>1, <2>4, <2>6
  <1>5. CASE FinishesOne
    <2>1. /\ Busy /\ UNCHANGED <<order, cur>>
          /\ cur \in Requests /\ outcome[cur] = "none" /\ cur \in Dispatched
      <3>1. Busy /\ UNCHANGED <<order, cur>>
        BY <1>5 DEF FinishesOne
      <3>2. Len(order) \in Nat /\ Len(queue) \in Nat
        BY DEF ExchangeInv, TypeInv, TypeOK, ClientTypeOK
      <3>3. order[Taken] = cur /\ Taken \in 1..Len(order) /\ outcome[cur] = "none"
        BY <3>1, <3>2 DEF QueueInv, InProcess, Taken
      <3> QED BY <1>2, <3>1, <3>3 DEF Dispatched
    <2>2. PICK o \in {"sent", "failed"} : outcome' = [outcome EXCEPT ![cur] = o]
      BY <1>5 DEF FinishesOne
    <2>3. Statuses[cur] = "pending"
      BY <1>2, <2>1, StatusOf DEF Statuses
    <2>4. Statuses'[cur] = IF o = "sent" THEN "answered" ELSE "failed"
      BY <1>2, <2>1, <2>2 DEF Statuses, Status
    <2>5. \A q \in Requests : q # cur => Statuses'[q] = Statuses[q]
      <3>1. Dispatched' = Dispatched
        BY <2>1 DEF Dispatched
      <3>2. \A q \in Requests : q # cur => outcome'[q] = outcome[q]
        BY <1>2, <2>1, <2>2
      <3>3. ASSUME NEW q \in Requests, q # cur PROVE Status(q)' = Status(q)
        <4>1. outcome'[q] = outcome[q] /\ (q \in Dispatched' <=> q \in Dispatched)
          BY <3>1, <3>2, <3>3
        <4>2. outcome[q] \in {"none", "sent", "failed"}
          BY <1>2 DEF Outcomes
        <4> QED BY <4>1, <4>2 DEF Status
      <3> QED BY <3>3 DEF Statuses
    <2>6. Statuses' = [Statuses EXCEPT ![cur] = IF o = "sent" THEN "answered" ELSE "failed"]
      BY <2>1, <2>4, <2>5 DEF Statuses
    <2>7. CASE o = "failed"
      BY <1>1, <2>1, <2>3, <2>6, <2>7
    <2>8. CASE o = "sent"
      <3>1. outcome' # outcome /\ outcome' # [outcome EXCEPT ![cur] = "failed"]
        BY <1>2, <2>1, <2>2, <2>8
      <3>2. RecvResponse
        <4>1. ASSUME ClientTask, ~RecvResponse
              PROVE  outcome' = outcome \/ outcome' = [outcome EXCEPT ![cur] = "failed"]
          BY <4>1 DEF ClientTask, RecvRequest, ConnectionLoopEnds, SendRouteRequest,
                      RecvRouteAnswer, SendMeta, SendPayload, ReadFails, RequestFails
        <4>2. ASSUME Callers \/ UNCHANGED clientVars PROVE outcome' = outcome
          BY <4>2 DEF Callers, dispatch_request, Abandon, DropClient, clientVars
        <4> QED BY <3>1, <4>1, <4>2 DEF Next, vars
      <3>3. cur \in Served \/ TakenOver
        BY <3>2, AnsweredWhenServed DEF Routed, Served, TakenOver
      <3> QED BY <1>1, <2>1, <2>3, <2>6, <2>8, <3>3
    <2> QED BY <2>7, <2>8
  <1> QED BY <1>3, <1>4, <1>5, RequestSteps

\* A step of the server side is a Serve, a TakeOver or a stutter.
LEMMA ServerSimulation ==
  ASSUME ExchangeInv, TypeInv', QueueInv, OnceInv, ServiceInv,
         ConnectionTask \/ UserTasks, UNCHANGED clientVars
  PROVE  /\ Statuses' = Statuses
         /\ \/ UNCHANGED <<Served, TakenOver>>
            \/ \E r \in Requests :
                   /\ Statuses[r] \in {"pending", "failed"}
                   /\ r \notin Served
                   /\ Served' = Served \cup {r}
                   /\ UNCHANGED TakenOver
            \/ Served # {} /\ TakenOver' = TRUE /\ UNCHANGED Served
PROOF
  <1>1. Statuses' = Statuses
    BY StatusesKept DEF clientVars
  <1>2. /\ TypeInv /\ packets \in Seq(RoutedPackets) /\ outcome \in [Requests -> Outcomes]
        /\ order \in Seq(Requests) /\ Len(order) \in Nat /\ Len(queue) \in Nat
    BY DEF ExchangeInv, TypeInv, TypeOK, ServerTypeOK, ClientTypeOK
  <1>3. CASE serve_packet /\ ServePacketMeta
    <2> DEFINE r == meta.req
               p == [req |-> meta.req, id |-> meta.id,
                     payload |-> IF payload = None THEN None ELSE payload.req]
    <2>1. /\ srv_pc = "serve" /\ meta \in ClientFrames /\ meta.kind = "PacketMeta"
          /\ packets' = Append(packets, p)
          /\ move_sig' = move_sig \/ move_sig' = "handler"
      BY <1>2, <1>3 DEF serve_packet, ServePacketMeta, CallHandler, NoRoute, Respond,
                        TypeInv, LocalsSet
    <2>2. r \in Requests /\ Held(r) /\ ~Routed(r) /\ MetaSentOf(r)
      BY <2>1 DEF ClientFrames, Held, IsMetaOf, OnceInv, OnePlace
    <2>3. p \in RoutedPackets
      <3>1. (IF payload = None THEN None ELSE payload.req) \in Requests \cup {None}
        BY <1>2 DEF TypeInv, TypeOK, ServerTypeOK, ClientFrames
      <3> QED BY <2>1, <2>2, <3>1 DEF RoutedPackets, ClientFrames
    <2>4. Served' = Served \cup {r}
      <3> HIDE DEF p
      <3>1. /\ Len(packets) \in Nat /\ Len(packets') = Len(packets) + 1
            /\ \A i \in 1..Len(packets) : packets'[i] = packets[i]
            /\ packets'[Len(packets) + 1] = p
        BY <1>2, <2>1, <2>3, AppendFacts
      <3>2. 1..Len(packets') = 1..Len(packets) \cup {Len(packets) + 1} /\ p.req = r
        BY <3>1 DEF p
      <3> QED BY <3>1, <3>2 DEF Served
    <2>5. r \notin Served
      BY <2>2 DEF Served, Routed
    <2>6. UNCHANGED TakenOver
      BY <2>1 DEF ServiceInv, MoveSignalKept, TakenOver
    <2>7. r \in Dispatched
      BY <1>2, <2>2 DEF MetaSentOf, Dispatched, Taken, QueueInv, Backlog
    <2>8. outcome[r] # "sent"
      BY <2>1, <2>2 DEF ServiceInv, UnansweredFirst, Working
    <2>9. Statuses[r] \in {"pending", "failed"}
      BY <1>2, <2>2, <2>7, <2>8, StatusOf DEF Statuses, Outcomes
    <2> QED BY <1>1, <2>2, <2>4, <2>5, <2>6, <2>9
  <1>4. CASE packets' = packets
    <2>1. UNCHANGED Served
      BY <1>4 DEF Served
    <2>2. CASE TakenOver' = TakenOver
      BY <1>1, <2>1, <2>2
    <2>3. CASE TakenOver' # TakenOver
      <3>1. move_sig' # move_sig
        BY <2>3 DEF TakenOver
      <3>2. move_sig \in {"handler", "detached"}
        <4>1. ReceiveMeta \/ ReceivePayload \/ ReceiveError \/ ReceiveDisconnect
                => move_sig' = move_sig
          BY DEF ReceiveMeta, ReceivePayload, ReceiveError, ReceiveDisconnect
        <4>2. send_message \/ CheckMove \/ AcceptSends \/ AcceptReads \/ AcceptEnds
                => move_sig' = move_sig
          BY DEF send_message, CheckMove, AcceptSends, AcceptReads, AcceptEnds, serverVars
        <4>3. serve_packet => ServePacketMeta \/ move_sig' = move_sig
          BY DEF serve_packet, AnswerName, Malformed, Respond
        <4>4. serve_packet /\ ServePacketMeta => TakenOver' = TakenOver
          BY DEF serve_packet, ServePacketMeta, CallHandler, NoRoute, Respond,
                 ServiceInv, MoveSignalKept, TakenOver
        <4>5. HandlerReturns \/ HandlerPanics => move_sig = "handler"
          BY DEF HandlerReturns, HandlerPanics, ServiceInv, TakeOverBacked
        <4>6. DetachedTask => move_sig = "detached"
          BY DEF DetachedTask
        <4> QED BY <2>3, <3>1, <4>1, <4>2, <4>3, <4>4, <4>5, <4>6
                DEF ConnectionTask, UserTasks
      <3>3. TakenOver' = TRUE
        BY <2>3, <3>2 DEF TakenOver
      <3>4. Served # {}
        BY <3>2 DEF ServiceInv, TakeOverBacked, Routed, Served
      <3> QED BY <1>1, <2>1, <3>3, <3>4
    <2> QED BY <2>2, <2>3
  <1>5. ~(serve_packet /\ ServePacketMeta) => packets' = packets
    BY DEF ConnectionTask, UserTasks, ReceiveMeta, ReceivePayload, ReceiveError,
           ReceiveDisconnect, serve_packet, AnswerName, Malformed, HandlerReturns,
           HandlerPanics, send_message, CheckMove, AcceptEnds, AcceptSends, AcceptReads,
           DetachedTask, serverVars
  <1> QED BY <1>3, <1>4, <1>5

(***************************************************************************)
(* ImplementsRpc: with framable data every behaviour of a session is, for  *)
(* its callers, one of RpcService.  Each request ends at most once; an     *)
(* answer comes after the request was served or after a handler took the   *)
(* stream over; a handler runs at most once, never for a request that was  *)
(* answered or not dispatched.                                             *)
(***************************************************************************)
THEOREM SessionImplementsRpc == ASSUME Framable PROVE Spec => ImplementsRpc
PROOF
  <1>1. Init => Rpc!Init
    <2> SUFFICES ASSUME Init PROVE Rpc!Init
      OBVIOUS
    <2>1. \A r \in Requests : Status(r) = "idle"
      <3>1. Dispatched = {}
        BY DEF Init, ClientInit, Dispatched
      <3>2. \A r \in Requests : outcome[r] = "none"
        BY DEF Init, ClientInit
      <3> QED BY <3>1, <3>2 DEF Status
    <2>2. {packets[i].req : i \in 1..Len(packets)} = {} /\ move_sig # "sent"
      BY DEF Init, ServerInit
    <2> QED BY <2>1, <2>2 DEF Rpc!Init
  <1>2. /\ ExchangeInv /\ QueueInv /\ OnceInv /\ ServiceInv
        /\ TypeInv' /\ [Next]_vars
        => [Rpc!Next]_Rpc!rpcVars
    <2> SUFFICES ASSUME ExchangeInv, QueueInv, OnceInv, ServiceInv, TypeInv', [Next]_vars
                 PROVE  [Rpc!Next]_Rpc!rpcVars
      OBVIOUS
    <2>1. CASE UNCHANGED serverVars
      BY <2>1, ClientSimulation
      DEF Statuses, Served, TakenOver, Rpc!Next, Rpc!rpcVars, Rpc!Submit, Rpc!Answer, Rpc!Fail
    <2>2. CASE (ConnectionTask \/ UserTasks) /\ UNCHANGED clientVars
      BY <2>2, ServerSimulation
      DEF Statuses, Served, TakenOver, Rpc!Next, Rpc!rpcVars, Rpc!Serve, Rpc!TakeOver
    <2> QED BY <2>1, <2>2 DEF Next, vars
  <1> QED BY <1>1, <1>2, TypeInvariant, ExchangeInvariant, QueueInvariant, OnceInvariant,
             ServiceInvariant, PTL
          DEF Spec, ImplementsRpc, Rpc!Spec
=============================================================================
