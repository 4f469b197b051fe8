---------------------------- MODULE SessionProofs ----------------------------
(***************************************************************************)
(* Proofs about Session, for any requests, handlers, routes and capacity.  *)
(***************************************************************************)
EXTENDS Session, TLAPS, SequenceTheorems

(***************************************************************************)
(* The type invariant needs to know which locals are set where.            *)
(***************************************************************************)
LocalsSet ==
    /\ cl_pc \notin {"recv", "ended"} => cur \in Requests
    /\ srv_pc \in {"recv_payload", "serve", "handler"} => meta \in ClientFrames
    /\ srv_pc = "send" => response \in ReplyFrames

TypeInv == TypeOK /\ LocalsSet
-----------------------------------------------------------------------------
(***************************************************************************)
(* Streams.                                                                *)
(***************************************************************************)

\* What reading the next frame does to a stream.
LEMMA TailFacts ==
  ASSUME NEW S, NEW s \in Seq(S), s # <<>>
  PROVE  /\ Len(s) \in Nat /\ Len(s) >= 1
         /\ Head(s) = s[1]
         /\ Tail(s) \in Seq(S)
         /\ Len(Tail(s)) = Len(s) - 1
         /\ Tail(s) = <<>> <=> Len(s) = 1
         /\ \A i \in 1..Len(Tail(s)) : Tail(s)[i] = s[i + 1] /\ i + 1 \in 1..Len(s)
PROOF
  <1>1. Len(s) \in Nat /\ Len(s) # 0
    BY EmptySeq
  <1>2. /\ Head(s) = s[1]
        /\ Tail(s) \in Seq(S)
        /\ Len(Tail(s)) = Len(s) - 1
        /\ \A i \in 1..Len(Tail(s)) : Tail(s)[i] = s[i + 1]
    BY HeadTailProperties
  <1>3. Tail(s) = <<>> <=> Len(Tail(s)) = 0
    BY <1>2, EmptySeq
  <1> QED BY <1>1, <1>2, <1>3

\* What sending a frame does to a stream.
LEMMA AppendFacts ==
  ASSUME NEW S, NEW s \in Seq(S), NEW f \in S
  PROVE  /\ Len(s) \in Nat
         /\ Append(s, f) \in Seq(S)
         /\ Append(s, f) # <<>>
         /\ Len(Append(s, f)) = Len(s) + 1
         /\ \A i \in 1..Len(s) : Append(s, f)[i] = s[i]
         /\ Append(s, f)[Len(s) + 1] = f
         /\ Head(Append(s, f)) = IF s = <<>> THEN f ELSE Head(s)
         /\ s = <<>> <=> Len(s) = 0
PROOF
  <1>1. Len(s) \in Nat /\ (s = <<>> <=> Len(s) = 0)
    BY EmptySeq
  <1>2. /\ Append(s, f) \in Seq(S)
        /\ Append(s, f) # <<>>
        /\ Len(Append(s, f)) = Len(s) + 1
        /\ \A i \in 1..Len(s) : Append(s, f)[i] = s[i]
        /\ Append(s, f)[Len(s) + 1] = f
    BY AppendProperties
  <1>3. Head(Append(s, f)) = Append(s, f)[1]
    BY <1>2, HeadTailProperties
  <1>4. s # <<>> => Head(s) = s[1] /\ 1 \in 1..Len(s)
    BY <1>1, HeadTailProperties
  <1> QED BY <1>1, <1>2, <1>3, <1>4
-----------------------------------------------------------------------------
(***************************************************************************)
(* Types.                                                                  *)
(***************************************************************************)

\* The streams keep their types under every use of them.
LEMMA WireTypes ==
  ASSUME WireTypeOK
  PROVE  /\ \A f \in ClientFrames : ClientSends(f) => WireTypeOK'
         /\ \A f \in ServerFrames : ServerSends(f) => WireTypeOK'
         /\ ClientSendFails \/ ServerSendFails => WireTypeOK'
         /\ ClientReads => WireTypeOK' /\ Head(s2c) \in ServerFrames
         /\ ServerReads => WireTypeOK' /\ Head(c2s) \in ClientFrames
         /\ ClientReadFails => WireTypeOK'
         /\ ClientDrops \/ ServerDrops \/ Break => WireTypeOK'
         /\ UNCHANGED wireVars => WireTypeOK'
PROOF
  <1> USE DEF WireTypeOK, wireVars
  <1>1. ASSUME NEW f \in ClientFrames, ClientSends(f) PROVE WireTypeOK'
    BY <1>1 DEF ClientSends
  <1>2. ASSUME NEW f \in ServerFrames, ServerSends(f) PROVE WireTypeOK'
    BY <1>2 DEF ServerSends
  <1>3. ASSUME ClientSendFails \/ ServerSendFails PROVE WireTypeOK'
    BY <1>3 DEF ClientSendFails, ServerSendFails
  <1>4. ASSUME ClientReads PROVE WireTypeOK' /\ Head(s2c) \in ServerFrames
    BY <1>4 DEF ClientReads
  <1>5. ASSUME ServerReads PROVE WireTypeOK' /\ Head(c2s) \in ClientFrames
    BY <1>5 DEF ServerReads
  <1>6. ASSUME ClientReadFails PROVE WireTypeOK'
    <2>1. s2c' \in Seq(ServerFrames)
      <3>1. s2c' = <<>> \/ s2c' = s2c
        BY <1>6 DEF ClientReadFails
      <3>2. <<>> \in Seq(ServerFrames)
        OBVIOUS
      <3> QED BY <3>1, <3>2
    <2>2. UNCHANGED <<c2s, link, cl_open, srv_open>>
      BY <1>6 DEF ClientReadFails
    <2> QED BY <2>1, <2>2
  <1>7. ASSUME ClientDrops \/ ServerDrops \/ Break PROVE WireTypeOK'
    BY <1>7 DEF ClientDrops, ServerDrops, Break
  <1>8. ASSUME UNCHANGED wireVars PROVE WireTypeOK'
    BY <1>8
  <1> QED BY <1>1, <1>2, <1>3, <1>4, <1>5, <1>6, <1>7, <1>8

\* A failed request keeps the client's types.
LEMMA RequestFailsTypes ==
  ASSUME ClientTypeOK, cur \in Requests, RequestFails, cl_in' \in Nat, cl_out' \in Nat
  PROVE  ClientTypeOK' /\ cl_pc' = "recv"
PROOF
  BY DEF ClientTypeOK, RequestFails, callerVars, ClientPc, Outcomes

\* A step of the client's connection task preserves the types.
LEMMA ClientTypes ==
  ASSUME TypeInv, ClientTask, UNCHANGED serverVars
  PROVE  TypeInv'
PROOF
  <1>1. ServerTypeOK' /\ (WireTypeOK /\ ClientTypeOK /\ ServerTypeOK /\ LocalsSet)
    BY DEF TypeInv, TypeOK, ServerTypeOK, serverVars
  <1> SUFFICES WireTypeOK' /\ ClientTypeOK'
               /\ (cl_pc' \notin {"recv", "ended"} => cur' \in Requests)
    BY <1>1 DEF TypeInv, TypeOK, LocalsSet, serverVars
  <1>2. CASE RecvRequest
    <2>1. WireTypeOK'
      BY <1>1, <1>2, WireTypes DEF RecvRequest, wireVars
    <2>2. queue' \in Seq(Requests) /\ Head(queue) \in Requests
      BY <1>1, <1>2 DEF RecvRequest, ClientTypeOK
    <2>3. KnownId(Head(queue)) \in HandlerIds \cup {None}
      BY <1>1, <2>2, PacketAssumption DEF KnownId, ClientTypeOK, HandlerInfo
    <2> QED BY <1>1, <1>2, <2>1, <2>2, <2>3 DEF RecvRequest, ClientTypeOK, ClientPc
  <1>3. CASE ConnectionLoopEnds
    BY <1>1, <1>3, WireTypes DEF ConnectionLoopEnds, ClientTypeOK, ClientPc, callerVars
  <1>4. CASE SendRouteRequest
    <2>1. cur \in Requests /\ cl_in' \in Nat /\ cl_out' \in Nat
      BY <1>1, <1>4 DEF SendRouteRequest, LocalsSet, ClientTypeOK
    <2>2. HandlerMetaReq(cur, cl_out + 1) \in ClientFrames
      BY <1>1, <2>1 DEF HandlerMetaReq, ClientFrames, ClientTypeOK
    <2>3. CASE ClientSendFails /\ RequestFails
      BY <1>1, <2>1, <2>3, WireTypes, RequestFailsTypes
    <2>4. CASE ~(ClientSendFails /\ RequestFails)
      BY <1>1, <1>4, <2>1, <2>2, <2>4, WireTypes
      DEF SendRouteRequest, ClientTypeOK, ClientPc, callerVars
    <2> QED BY <2>3, <2>4
  <1>5. CASE RecvRouteAnswer
    <2>1. cur \in Requests /\ cl_in' \in Nat /\ cl_out' \in Nat
      BY <1>1, <1>5 DEF RecvRouteAnswer, LocalsSet, ClientTypeOK
    <2>2. WireTypeOK' /\ Head(s2c) \in ServerFrames
      BY <1>1, <1>5, WireTypes DEF RecvRouteAnswer
    <2>3. CASE RequestFails
      BY <1>1, <2>1, <2>2, <2>3, RequestFailsTypes
    <2>4. CASE ~RequestFails
      <3>1. Head(s2c).id \in HandlerIds \cup {None}
        BY <2>2 DEF ServerFrames, ReplyFrames, RawFrame
      <3> QED BY <1>1, <1>5, <2>1, <2>2, <2>4, <3>1
              DEF RecvRouteAnswer, CacheRoute, ClientTypeOK, ClientPc, callerVars
    <2> QED BY <2>3, <2>4
  <1>6. CASE SendMeta
    <2>1. cur \in Requests /\ cl_in' \in Nat /\ cl_out' \in Nat
      BY <1>1, <1>6 DEF SendMeta, LocalsSet, ClientTypeOK
    <2>2. PacketMeta(cur, cur_id, cl_out + 1) \in ClientFrames
      BY <1>1, <2>1 DEF PacketMeta, ClientFrames, ClientTypeOK
    <2>3. CASE ClientSendFails /\ RequestFails
      BY <1>1, <2>1, <2>3, WireTypes, RequestFailsTypes
    <2>4. CASE ~(ClientSendFails /\ RequestFails)
      BY <1>1, <1>6, <2>1, <2>2, <2>4, WireTypes
      DEF SendMeta, ClientTypeOK, ClientPc, callerVars
    <2> QED BY <2>3, <2>4
  <1>7. CASE SendPayload
    <2>1. cur \in Requests /\ cl_in' \in Nat /\ cl_out' \in Nat
      BY <1>1, <1>7 DEF SendPayload, LocalsSet, ClientTypeOK
    <2>2. Payload(cur, cl_out) \in ClientFrames
      BY <1>1, <2>1 DEF Payload, ClientFrames, ClientTypeOK
    <2>3. CASE RequestFails
      <3>1. WireTypeOK'
        BY <1>1, <1>7, <2>2, WireTypes DEF SendPayload
      <3> QED BY <1>1, <2>1, <2>3, <3>1, RequestFailsTypes
    <2>4. CASE ~RequestFails
      BY <1>1, <1>7, <2>1, <2>2, <2>4, WireTypes
      DEF SendPayload, ClientTypeOK, ClientPc, callerVars
    <2> QED BY <2>3, <2>4
  <1>8. CASE RecvResponse
    <2>1. WireTypeOK' /\ Head(s2c) \in ServerFrames
      BY <1>1, <1>8, WireTypes DEF RecvResponse
    <2>2. delivered' \in [Requests -> ServerFrames \cup {None}]
      BY <1>1, <1>8, <2>1 DEF RecvResponse, ClientTypeOK
    <2>3. outcome' \in [Requests -> Outcomes]
      BY <1>1, <1>8 DEF RecvResponse, ClientTypeOK, Outcomes
    <2> QED BY <1>1, <1>8, <2>1, <2>2, <2>3
            DEF RecvResponse, ClientTypeOK, ClientPc, callerVars
  <1>9. CASE ReadFails
    <2>1. cur \in Requests /\ cl_in' \in Nat /\ cl_out' \in Nat
      BY <1>1, <1>9 DEF ReadFails, LocalsSet, ClientTypeOK
    <2>2. WireTypeOK' /\ RequestFails
      BY <1>1, <1>9, WireTypes DEF ReadFails
    <2> QED BY <1>1, <2>1, <2>2, RequestFailsTypes
  <1> QED BY <1>2, <1>3, <1>4, <1>5, <1>6, <1>7, <1>8, <1>9 DEF ClientTask

\* A caller's step preserves the types.
LEMMA CallerTypes ==
  ASSUME TypeInv, Callers, UNCHANGED serverVars
  PROVE  TypeInv'
PROOF
  <1>1. WireTypeOK /\ ClientTypeOK /\ ServerTypeOK /\ LocalsSet
    BY DEF TypeInv, TypeOK
  <1>2. /\ UNCHANGED wireVars
        /\ UNCHANGED <<outcome, delivered, cl_pc, cur, cur_id, known_routes, cl_out, cl_in>>
    BY DEF Callers, dispatch_request, Abandon, DropClient
  <1>3. handle' \in BOOLEAN /\ abandoned' \in SUBSET Requests
    BY <1>1 DEF Callers, dispatch_request, Abandon, DropClient, ClientTypeOK
  <1>4. queue' \in Seq(Requests) /\ order' \in Seq(Requests)
    <2>1. CASE \E r \in Requests : dispatch_request(r)
      BY <1>1, <2>1 DEF dispatch_request, ChannelSend, ClientTypeOK
    <2>2. CASE UNCHANGED <<queue, order>>
      BY <1>1, <2>2 DEF ClientTypeOK
    <2> QED BY <2>1, <2>2 DEF Callers, Abandon, DropClient
  <1>5. WireTypeOK'
    BY <1>1, <1>2, WireTypes
  <1>6. ClientTypeOK'
    BY <1>1, <1>2, <1>3, <1>4 DEF ClientTypeOK
  <1>7. ServerTypeOK' /\ LocalsSet'
    BY <1>1, <1>2 DEF ServerTypeOK, LocalsSet, serverVars
  <1> QED BY <1>5, <1>6, <1>7 DEF TypeInv, TypeOK

\* A reply to a frame of the client is a reply frame.
LEMMA ReplyType ==
  ASSUME NEW k \in ReplyKinds, NEW m \in ClientFrames,
         NEW h \in HandlerIds \cup {None}, NEW n \in Nat
  PROVE  Reply(k, m, h, n) \in ReplyFrames
PROOF
  BY DEF Reply, ReplyFrames, ClientFrames

\* A step of the server's connection task or of the user code in it preserves the
\* types.
LEMMA ServerTypes ==
  ASSUME TypeInv, ConnectionTask \/ UserTasks, UNCHANGED clientVars
  PROVE  TypeInv'
PROOF
  <1>1. ClientTypeOK' /\ (WireTypeOK /\ ClientTypeOK /\ ServerTypeOK /\ LocalsSet)
    BY DEF TypeInv, TypeOK, ClientTypeOK, clientVars
  <1> SUFFICES WireTypeOK' /\ ServerTypeOK' /\ LocalsSet'
    BY <1>1 DEF TypeInv, TypeOK
  <1>2. cl_pc' \notin {"recv", "ended"} => cur' \in Requests
    BY <1>1 DEF LocalsSet, clientVars
  <1>3. CASE ReceiveMeta
    <2>1. WireTypeOK' /\ Head(c2s) \in ClientFrames
      BY <1>1, <1>3, WireTypes DEF ReceiveMeta, receive_message
    <2> QED BY <1>1, <1>2, <1>3, <2>1
            DEF ReceiveMeta, receive_message, ServerTypeOK, ServerPc, LocalsSet
  <1>4. CASE ReceivePayload
    <2>1. WireTypeOK' /\ Head(c2s) \in ClientFrames
      BY <1>1, <1>4, WireTypes DEF ReceivePayload, receive_message
    <2> QED BY <1>1, <1>2, <1>4, <2>1
            DEF ReceivePayload, receive_message, ServerTypeOK, ServerPc, LocalsSet
  <1>5. CASE ReceiveError
    <2>1. WireTypeOK'
      BY <1>1, <1>5, WireTypes DEF ReceiveError, wireVars
    <2> QED BY <1>1, <1>2, <1>5, <2>1 DEF ReceiveError, ServerTypeOK, ServerPc, LocalsSet
  <1>6. CASE ReceiveDisconnect
    <2>1. WireTypeOK'
      BY <1>1, <1>6, WireTypes DEF ReceiveDisconnect
    <2> QED BY <1>1, <1>2, <1>6, <2>1
            DEF ReceiveDisconnect, ServerTypeOK, ServerPc, LocalsSet
  <1>7. CASE serve_packet
    <2>1. meta \in ClientFrames /\ srv_out + 1 \in Nat
      BY <1>1, <1>7 DEF serve_packet, LocalsSet, ServerTypeOK
    <2>2. WireTypeOK'
      BY <1>1, <1>7, WireTypes DEF serve_packet, wireVars
    <2>3. UNCHANGED <<meta, payload, send_ok, has_errored, raws, srv_in, srv_out>>
      BY <1>7 DEF serve_packet
    <2>4. ASSUME NEW k \in ReplyKinds, NEW h \in HandlerIds \cup {None}, Respond(k, h)
          PROVE  response' \in ReplyFrames /\ srv_pc' = "send" /\ move_sig' = move_sig
      BY <2>1, <2>4, ReplyType DEF Respond
    <2>5. \/ response' \in ReplyFrames /\ srv_pc' = "send" /\ move_sig' = move_sig
          \/ response' = response /\ srv_pc' = "handler" /\ move_sig' = "handler"
      <3>1. CASE ServePacketMeta
        BY <2>4, <3>1 DEF ServePacketMeta, CallHandler, NoRoute, ReplyKinds
      <3>2. CASE AnswerName
        <4>1. \A n \in DOMAIN routes_text_names : routes_text_names[n] \in HandlerIds
          BY RouterAssumption
        <4> QED BY <2>4, <3>2, <4>1 DEF AnswerName, ReplyKinds
      <3>3. CASE Malformed
        BY <2>4, <3>3 DEF Malformed, ReplyKinds
      <3> QED BY <1>7, <3>1, <3>2, <3>3 DEF serve_packet
    <2>6. packets' \in Seq(RoutedPackets)
      <3>1. CASE ServePacketMeta
        <4>1. [req |-> meta.req, id |-> meta.id,
               payload |-> IF payload = None THEN None ELSE payload.req] \in RoutedPackets
          <5>1. (IF payload = None THEN None ELSE payload.req) \in Requests \cup {None}
            BY <1>1 DEF ServerTypeOK, ClientFrames
          <5>2. meta.req \in Requests /\ meta.id \in HandlerIds \cup {None}
            BY <2>1 DEF ClientFrames
          <5> QED BY <5>1, <5>2 DEF RoutedPackets
        <4> QED BY <1>1, <3>1, <4>1 DEF ServePacketMeta, ServerTypeOK
      <3>2. CASE AnswerName \/ Malformed
        BY <1>1, <3>2 DEF AnswerName, Malformed, ServerTypeOK
      <3> QED BY <1>7, <3>1, <3>2 DEF serve_packet
    <2>7. ServerTypeOK'
      BY <1>1, <2>3, <2>5, <2>6 DEF ServerTypeOK, ServerPc, MoveSig
    <2>8. LocalsSet'
      BY <1>2, <2>1, <2>3, <2>5 DEF LocalsSet
    <2> QED BY <2>2, <2>7, <2>8
  <1>8. CASE HandlerReturns \/ HandlerPanics
    <2>1. meta \in ClientFrames /\ srv_out + 1 \in Nat
      BY <1>1, <1>8 DEF HandlerReturns, HandlerPanics, LocalsSet, ServerTypeOK
    <2>2. /\ response' \in ReplyFrames
          /\ srv_pc' = "send"
          /\ move_sig' \in {"held", "dropped", "sent", "detached"}
          /\ UNCHANGED <<wireVars, meta, payload, send_ok, has_errored, packets, raws,
                         srv_in, srv_out>>
      BY <1>8, <2>1, ReplyType DEF HandlerReturns, HandlerPanics, ReplyKinds
    <2>3. WireTypeOK'
      BY <1>1, <2>2, WireTypes
    <2> QED BY <1>1, <1>2, <2>2, <2>3 DEF ServerTypeOK, ServerPc, MoveSig, LocalsSet
  <1>9. CASE DetachedTask
    <2>1. WireTypeOK'
      BY <1>1, <1>9, WireTypes DEF DetachedTask, wireVars
    <2> QED BY <1>1, <1>2, <1>9, <2>1 DEF DetachedTask, ServerTypeOK, MoveSig, LocalsSet
  <1>10. CASE send_message
    <2>1. response \in ReplyFrames
      BY <1>1, <1>10 DEF send_message, LocalsSet
    <2>2. WireTypeOK'
      BY <1>1, <1>10, <2>1, WireTypes DEF send_message, ServerFrames
    <2>3. send_ok' \in BOOLEAN
      BY <1>10 DEF send_message
    <2>4. /\ srv_pc' = "check_move" /\ srv_out' = srv_out + 1
          /\ UNCHANGED <<meta, payload, response, move_sig, has_errored, packets, raws,
                         srv_in>>
      BY <1>10 DEF send_message
    <2> QED BY <1>1, <1>2, <2>2, <2>3, <2>4 DEF ServerTypeOK, ServerPc, LocalsSet
  <1>11. CASE CheckMove
    <2>1. WireTypeOK'
      BY <1>1, <1>11, WireTypes DEF CheckMove
    <2> QED BY <1>1, <1>2, <1>11, <2>1
            DEF CheckMove, AfterSend, ServerTypeOK, ServerPc, LocalsSet
  <1>12. CASE AcceptSends \/ AcceptReads \/ AcceptEnds
    <2>1. RawFrame \in ServerFrames
      BY DEF ServerFrames
    <2>2. WireTypeOK'
      BY <1>1, <1>12, <2>1, WireTypes DEF AcceptSends, AcceptReads, AcceptEnds
    <2> QED BY <1>1, <1>2, <1>12, <2>2
            DEF AcceptSends, AcceptReads, AcceptEnds, ServerTypeOK, ServerPc, LocalsSet,
                serverVars
  <1> QED
    BY <1>3, <1>4, <1>5, <1>6, <1>7, <1>8, <1>9, <1>10, <1>11, <1>12
    DEF ConnectionTask, UserTasks

\* TypeInv is inductive.
LEMMA TypeInvariant == Spec => []TypeInv
PROOF
  <1>1. Init => TypeInv
    <2> SUFFICES ASSUME Init PROVE TypeInv
      OBVIOUS
    <2>1. WireTypeOK
      BY DEF Init, WireInit, WireTypeOK
    <2>2. ClientTypeOK
      BY DEF Init, ClientInit, ClientTypeOK, ClientPc, Outcomes
    <2>3. ServerTypeOK
      <3>1. packets \in Seq(RoutedPackets)
        BY DEF Init, ServerInit
      <3> QED BY <3>1 DEF Init, ServerInit, ServerTypeOK, ServerPc, MoveSig
    <2>4. LocalsSet
      BY DEF Init, ClientInit, ServerInit, LocalsSet
    <2> QED BY <2>1, <2>2, <2>3, <2>4 DEF TypeInv, TypeOK
  <1>2. TypeInv /\ [Next]_vars => TypeInv'
    <2> SUFFICES ASSUME TypeInv, [Next]_vars PROVE TypeInv'
      OBVIOUS
    <2>1. CASE (ClientTask \/ Callers) /\ UNCHANGED serverVars
      BY <2>1, ClientTypes, CallerTypes
    <2>2. CASE (ConnectionTask \/ UserTasks) /\ UNCHANGED clientVars
      BY <2>2, ServerTypes
    <2>3. CASE Break /\ UNCHANGED <<clientVars, serverVars>>
      <3>1. WireTypeOK'
        BY <2>3, WireTypes DEF TypeInv, TypeOK
      <3> QED BY <2>3, <3>1 DEF TypeInv, TypeOK, ClientTypeOK, ServerTypeOK, LocalsSet,
                                clientVars, serverVars
    <2>4. CASE UNCHANGED vars
      BY <2>4 DEF vars, wireVars, clientVars, serverVars, TypeInv, TypeOK, WireTypeOK,
                  ClientTypeOK, ServerTypeOK, LocalsSet
    <2> QED BY <2>1, <2>2, <2>3, <2>4 DEF Next
  <1> QED BY <1>1, <1>2, PTL DEF Spec

(***************************************************************************)
(* TypeOK: every variable of the session keeps its type, whatever the two  *)
(* tasks, the callers, the user code and the network do.                   *)
(***************************************************************************)
THEOREM SessionTypeOK == Spec => []TypeOK
PROOF
  <1>1. TypeInv => TypeOK
    BY DEF TypeInv
  <1> QED BY <1>1, TypeInvariant, PTL

(***************************************************************************)
(* MoveSignalKept: the loop reads and routes frames only while it owns the *)
(* move-signal Sender.  The invariant is inductive as it stands: a handler *)
(* that does not give the Sender back is followed by CheckMove, which      *)
(* leaves the loop.                                                        *)
(***************************************************************************)
THEOREM MoveSignalAlwaysKept == Spec => []MoveSignalKept
PROOF
  <1>1. Init => MoveSignalKept
    BY DEF Init, ServerInit, MoveSignalKept
  <1>2. MoveSignalKept /\ [Next]_vars => MoveSignalKept'
    <2> SUFFICES ASSUME MoveSignalKept, [Next]_vars PROVE MoveSignalKept'
      OBVIOUS
    <2>1. CASE UNCHANGED <<srv_pc, move_sig>>
      BY <2>1 DEF MoveSignalKept
    <2>2. CASE ReceiveMeta \/ ReceivePayload \/ ReceiveError \/ ReceiveDisconnect
      BY <2>2 DEF ReceiveMeta, ReceivePayload, ReceiveError, ReceiveDisconnect,
                  MoveSignalKept
    <2>3. CASE serve_packet
      BY <2>3 DEF serve_packet, ServePacketMeta, CallHandler, NoRoute, AnswerName,
                  Malformed, Respond, MoveSignalKept
    <2>4. CASE HandlerReturns \/ HandlerPanics \/ send_message
      BY <2>4 DEF HandlerReturns, HandlerPanics, send_message, MoveSignalKept
    <2>5. CASE DetachedTask
      BY <2>5 DEF DetachedTask, MoveSignalKept
    <2>6. CASE CheckMove
      BY <2>6 DEF CheckMove, AfterSend, MoveSignalKept
    <2>7. CASE AcceptSends \/ AcceptReads \/ AcceptEnds
      BY <2>7 DEF AcceptSends, AcceptReads, AcceptEnds, serverVars, MoveSignalKept
    <2> QED BY <2>1, <2>2, <2>3, <2>4, <2>5, <2>6, <2>7
            DEF Next, vars, serverVars, ConnectionTask, UserTasks
  <1> QED BY <1>1, <1>2, PTL DEF Spec
=============================================================================
