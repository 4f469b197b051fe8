--------------------------- MODULE ExchangeProofs ---------------------------
(***************************************************************************)
(* Proof that request and response stay together: with data both encoders  *)
(* take, a consumer only ever gets the answer to its own request, the      *)
(* route cache agrees with the server and a handler gets the payload of    *)
(* the request that named it.                                              *)
(***************************************************************************)
EXTENDS SessionProofs

(***************************************************************************)
(* Every request has data that both encoders take: neither "empty", for    *)
(* which the client sends a frame the server does not expect, nor          *)
(* "over_client", for which it sends a meta without payload.               *)
(***************************************************************************)
Framable == \A r \in Requests : data[r] \in {"bytes", "over_server"}

Working == srv_pc \notin {"accepted", "closed"}
Idle == srv_pc \in {"recv_meta", "check_move"}

\* The client's decoder stands in front of a frame it refuses.
Poisoned == s2c # <<>> /\ Head(s2c).kind = "Oversize"

IsMeta(f, r) == f.kind = "PacketMeta" /\ f.req = r
IsPayloadOf(f, r) == f.kind = "payload" /\ f.req = r
IsNameReq(f, r) == f.kind = "HandlerMetaReq" /\ f.req = r
IsReply(f, k, r) == f.kind # "raw" /\ f.to = k /\ f.req = r

\* Who owns what, and what ends when.
Lifetimes ==
    /\ srv_open <=> srv_pc # "closed"
    /\ cl_open <=> cl_pc # "ended"
    /\ has_errored => srv_pc \in {"recv_meta", "closed"}
    /\ Working => \A i \in 1..Len(s2c) : s2c[i].kind # "raw"

(***************************************************************************)
(* The stream towards the server is made of name requests and of           *)
(* meta-payload pairs.  Only the last pair may lack its payload: while the *)
(* client is about to send it, or after the connection broke.              *)
(***************************************************************************)
PayloadDue(r) == link = "broken" \/ (cl_pc = "payload_send" /\ cur = r)

Paired ==
    \A i \in 1..Len(c2s) :
        /\ c2s[i].kind = "PacketMeta" /\ i = Len(c2s) => PayloadDue(c2s[i].req)
        /\ c2s[i].kind = "PacketMeta" /\ i # Len(c2s) => IsPayloadOf(c2s[i + 1], c2s[i].req)
        /\ c2s[i].kind = "payload" /\ i # 1 => c2s[i - 1].kind = "PacketMeta"

AtServer ==
    /\ srv_pc = "recv_payload" =>
           /\ meta.kind = "PacketMeta"
           /\ c2s = <<>> => PayloadDue(meta.req)
           /\ c2s # <<>> => IsPayloadOf(c2s[1], meta.req)
    /\ srv_pc # "recv_payload" /\ c2s # <<>> => c2s[1].kind # "payload"

Expected ==
    cl_pc = "payload_send" /\ link = "up" =>
        \/ c2s # <<>> /\ IsMeta(c2s[Len(c2s)], cur)
        \/ c2s = <<>> /\ srv_pc = "recv_payload" /\ IsMeta(meta, cur)

Grammar == Working /\ ~has_errored => Paired /\ AtServer /\ Expected

\* Every meta carries the id its request was meant for, and is served with the
\* payload of that request.
MetaRight(f) == f.kind = "PacketMeta" => f.id = Intended(f.req)

Targets ==
    /\ \A i \in 1..Len(c2s) : MetaRight(c2s[i])
    /\ srv_pc \in {"recv_payload", "serve"} => MetaRight(meta)
    /\ srv_pc = "serve" /\ meta.kind = "PacketMeta" =>
           payload # None /\ payload.req = meta.req
    /\ srv_pc = "serve" => meta.kind # "payload"
    /\ srv_pc = "handler" => meta.kind = "PacketMeta"
    /\ cl_pc \in {"meta_send", "payload_send"} => cur_id = Intended(cur)
    /\ cl_pc \in {"route_send", "route_wait"} => handler_info[cur].id = None

\* A HandlerMetaAns carries the id of the name its request asked for.
AnswerRight(f) ==
    f.kind = "HandlerMetaAns" =>
        /\ f.to = "HandlerMetaReq"
        /\ handler_info[f.req].named \in DOMAIN routes_text_names
        /\ f.id = routes_text_names[handler_info[f.req].named]

Answers ==
    /\ \A i \in 1..Len(s2c) : AnswerRight(s2c[i])
    /\ srv_pc = "send" => AnswerRight(response)

(***************************************************************************)
(* One exchange at a time.  While both ends talk, the server works on      *)
(* nothing but the frames of the request the client waits for, and nothing *)
(* is on its way to a client that does not wait.                           *)
(***************************************************************************)
NothingSent == c2s = <<>> /\ s2c = <<>> /\ Idle

MetaSent ==
    /\ s2c = <<>>
    /\ \/ Idle /\ Len(c2s) = 1 /\ IsMeta(c2s[1], cur)
       \/ srv_pc = "recv_payload" /\ c2s = <<>> /\ IsMeta(meta, cur)

RequestSent ==
    /\ s2c = <<>>
    /\ \/ Idle /\ Len(c2s) = 2 /\ IsMeta(c2s[1], cur) /\ IsPayloadOf(c2s[2], cur)
       \/ /\ srv_pc = "recv_payload" /\ Len(c2s) = 1
          /\ IsMeta(meta, cur) /\ IsPayloadOf(c2s[1], cur)
       \/ srv_pc \in {"serve", "handler"} /\ c2s = <<>> /\ IsMeta(meta, cur)
       \/ srv_pc = "send" /\ c2s = <<>> /\ IsReply(response, "PacketMeta", cur)

NameSent ==
    /\ s2c = <<>>
    /\ \/ Idle /\ Len(c2s) = 1 /\ IsNameReq(c2s[1], cur)
       \/ srv_pc = "serve" /\ c2s = <<>> /\ IsNameReq(meta, cur)
       \/ srv_pc = "send" /\ c2s = <<>> /\ IsReply(response, "HandlerMetaReq", cur)

Replied(k) == c2s = <<>> /\ Idle /\ Len(s2c) = 1 /\ IsReply(s2c[1], k, cur)
ReplyLost == c2s = <<>> /\ s2c = <<>> /\ srv_pc = "check_move" /\ ~send_ok

InStep ==
    /\ cl_pc \in {"recv", "route_send", "meta_send"} => NothingSent
    /\ cl_pc = "payload_send" => MetaSent
    /\ cl_pc = "response_wait" => RequestSent \/ Replied("PacketMeta") \/ ReplyLost
    /\ cl_pc = "route_wait" => NameSent \/ Replied("HandlerMetaReq") \/ ReplyLost

OneExchange ==
    link = "up" /\ cl_open /\ Working /\ ~has_errored /\ ~Poisoned => InStep

(***************************************************************************)
(* Also on a broken or taken-over connection, a reply in front of the      *)
(* client is the one it waits for, and only raw frames follow.             *)
(***************************************************************************)
HeadIsOwn ==
    s2c # <<>> /\ Head(s2c).kind \notin {"raw", "Oversize"} =>
        \/ cl_pc = "route_wait" /\ IsReply(Head(s2c), "HandlerMetaReq", cur)
        \/ cl_pc = "response_wait" /\ IsReply(Head(s2c), "PacketMeta", cur)

RestIsRaw == ~Poisoned => \A i \in 2..Len(s2c) : s2c[i].kind = "raw"

ExchangeInv ==
    /\ TypeInv
    /\ Lifetimes
    /\ Grammar
    /\ Targets
    /\ Answers
    /\ OneExchange
    /\ HeadIsOwn
    /\ RestIsRaw
    /\ ResponseMatchesRequest
    /\ RouteCacheAgrees
    /\ HandlerGetsItsRequest
-----------------------------------------------------------------------------
\* The initial state.
LEMMA InitExchange == Init /\ TypeInv => ExchangeInv
PROOF
  <1> SUFFICES ASSUME Init, TypeInv PROVE ExchangeInv
    OBVIOUS
  <1> USE DEF Init, WireInit, ClientInit, ServerInit
  <1>1. Lifetimes /\ Grammar /\ Targets /\ Answers
    BY DEF Lifetimes, Working, Grammar, Paired, AtServer, Expected, Targets, Answers
  <1>2. OneExchange /\ HeadIsOwn /\ RestIsRaw
    BY DEF OneExchange, InStep, NothingSent, Idle, HeadIsOwn, RestIsRaw
  <1>3. ResponseMatchesRequest /\ RouteCacheAgrees /\ HandlerGetsItsRequest
    BY DEF ResponseMatchesRequest, RouteCacheAgrees, HandlerGetsItsRequest
  <1> QED BY <1>1, <1>2, <1>3 DEF ExchangeInv

\* A caller, a detached task and stuttering touch nothing the invariant is about.
LEMMA UntouchedExchange ==
  ASSUME ExchangeInv, TypeInv',
         UNCHANGED <<wireVars, outcome, delivered, cl_pc, cur, cur_id, known_routes,
                     srv_pc, meta, payload, response, send_ok, has_errored, packets>>
  PROVE  ExchangeInv'
PROOF
  <1> USE DEF ExchangeInv, wireVars
  <1>1. Lifetimes' /\ Grammar' /\ Targets' /\ Answers'
    BY DEF Lifetimes, Working, Grammar, Paired, AtServer, Expected, PayloadDue, IsMeta,
           IsPayloadOf, Targets,
           MetaRight, Answers, AnswerRight
  <1>2. OneExchange'
    BY DEF OneExchange, InStep, NothingSent, MetaSent, RequestSent, NameSent, Replied,
           ReplyLost, Idle, IsMeta, IsPayloadOf, IsNameReq, IsReply, Working, Poisoned
  <1>3. HeadIsOwn' /\ RestIsRaw'
    BY DEF HeadIsOwn, RestIsRaw, IsReply, Poisoned
  <1>4. ResponseMatchesRequest' /\ RouteCacheAgrees' /\ HandlerGetsItsRequest'
    BY DEF ResponseMatchesRequest, AnswersOwnRequest, RouteCacheAgrees, HandlerGetsItsRequest
  <1> QED BY <1>1, <1>2, <1>3, <1>4

\* The network breaks the connection.
LEMMA BreakExchange ==
  ASSUME ExchangeInv, TypeInv', Break, UNCHANGED <<clientVars, serverVars>>
  PROVE  ExchangeInv'
PROOF
  <1> USE DEF ExchangeInv, Break, clientVars, serverVars
  <1>1. Lifetimes' /\ Targets' /\ Answers'
    BY DEF Lifetimes, Working, Targets, MetaRight, Answers, AnswerRight
  <1>2. Grammar'
    BY DEF Grammar, Working, Paired, AtServer, Expected, PayloadDue, IsMeta,
           IsPayloadOf
  <1>3. OneExchange' /\ HeadIsOwn' /\ RestIsRaw'
    BY DEF OneExchange, HeadIsOwn, RestIsRaw, IsReply, Poisoned
  <1>4. ResponseMatchesRequest' /\ RouteCacheAgrees' /\ HandlerGetsItsRequest'
    BY DEF ResponseMatchesRequest, AnswersOwnRequest, RouteCacheAgrees, HandlerGetsItsRequest
  <1> QED BY <1>1, <1>2, <1>3, <1>4

\* The task takes a request: it knows the handler's id, or will ask for it.
LEMMA RecvRequestExchange ==
  ASSUME ExchangeInv, TypeInv', RecvRequest, UNCHANGED serverVars
  PROVE  ExchangeInv'
PROOF
  <1> DEFINE r == Head(queue)
  <1>1. /\ cl_pc = "recv"
        /\ cur' = r /\ cur_id' = KnownId(r)
        /\ cl_pc' = IF KnownId(r) = None THEN "route_send" ELSE "meta_send"
        /\ UNCHANGED <<wireVars, serverVars, outcome, delivered, known_routes>>
    BY DEF RecvRequest
  <1>2. r \in Requests
    BY DEF RecvRequest, ExchangeInv, TypeInv, TypeOK, ClientTypeOK
  <1>3. handler_info[r] \in HandlerInfo /\ None \notin HandlerIds
    BY <1>2, PacketAssumption
  <1>4. KnownId(r) = None => handler_info[r].id = None
    BY <1>3 DEF KnownId, HandlerInfo
  <1>5. KnownId(r) # None => KnownId(r) = Intended(r)
    <2>1. CASE handler_info[r].id # None
      BY <2>1 DEF KnownId, Intended
    <2>2. CASE handler_info[r].id = None
      <3>1. handler_info[r].named \in Names
        BY <1>3, <2>2 DEF HandlerInfo
      <3> QED BY <2>2, <3>1 DEF KnownId, Intended, ExchangeInv, RouteCacheAgrees
    <2> QED BY <2>1, <2>2
  <1> USE DEF ExchangeInv, wireVars, serverVars
  <1>6. Lifetimes' /\ Answers'
    BY <1>1 DEF Lifetimes, Working, Answers, AnswerRight
  <1>7. Grammar'
    BY <1>1 DEF Grammar, Working, Paired, AtServer, Expected, PayloadDue, IsMeta,
           IsPayloadOf
  <1>8. Targets'
    BY <1>1, <1>4, <1>5 DEF Targets, MetaRight
  <1>9. OneExchange'
    BY <1>1 DEF OneExchange, InStep, NothingSent, Idle, Working, Poisoned
  <1>10. HeadIsOwn' /\ RestIsRaw'
    BY <1>1 DEF HeadIsOwn, RestIsRaw, IsReply, Poisoned
  <1>11. ResponseMatchesRequest' /\ RouteCacheAgrees' /\ HandlerGetsItsRequest'
    BY <1>1 DEF ResponseMatchesRequest, AnswersOwnRequest, RouteCacheAgrees,
                HandlerGetsItsRequest
  <1> QED BY <1>6, <1>7, <1>8, <1>9, <1>10, <1>11

\* The task ends and drops its socket.
LEMMA LoopEndsExchange ==
  ASSUME ExchangeInv, TypeInv', ConnectionLoopEnds, UNCHANGED serverVars
  PROVE  ExchangeInv'
PROOF
  <1>1. /\ cl_pc = "recv" /\ cl_pc' = "ended" /\ cl_open' = FALSE
        /\ link' = link \/ link' = "broken"
        /\ UNCHANGED <<c2s, s2c, srv_open, serverVars, outcome, delivered, cur, cur_id,
                       known_routes>>
    BY DEF ConnectionLoopEnds, ClientDrops
  <1> USE DEF ExchangeInv, serverVars
  <1>2. Lifetimes' /\ Answers'
    BY <1>1 DEF Lifetimes, Working, Answers, AnswerRight
  <1>3. Grammar'
    BY <1>1 DEF Grammar, Working, Paired, AtServer, Expected, PayloadDue, IsMeta,
           IsPayloadOf
  <1>4. Targets'
    BY <1>1 DEF Targets, MetaRight
  <1>5. OneExchange' /\ HeadIsOwn' /\ RestIsRaw'
    BY <1>1 DEF OneExchange, HeadIsOwn, RestIsRaw, IsReply, Poisoned
  <1>6. ResponseMatchesRequest' /\ RouteCacheAgrees' /\ HandlerGetsItsRequest'
    BY <1>1 DEF ResponseMatchesRequest, AnswersOwnRequest, RouteCacheAgrees,
                HandlerGetsItsRequest
  <1> QED BY <1>2, <1>3, <1>4, <1>5, <1>6

\* A send that does not reach the server, or fails, breaks the connection: no more
\* frames follow in either direction, whatever the task does next.
LEMMA LostSendExchange ==
  ASSUME ExchangeInv, TypeInv', UNCHANGED serverVars,
         UNCHANGED <<c2s, s2c, cl_open, srv_open, delivered, cur, cur_id, known_routes>>,
         link' = "broken",
         \/ cl_pc \in {"route_send", "meta_send", "payload_send"} /\ cl_pc' = "recv"
         \/ cl_pc = "route_send" /\ cl_pc' = "route_wait"
         \/ cl_pc = "meta_send" /\ cl_pc' = "payload_send"
         \/ cl_pc = "payload_send" /\ cl_pc' = "response_wait"
  PROVE  ExchangeInv'
PROOF
  <1> USE DEF ExchangeInv, serverVars
  <1>1. Lifetimes' /\ Answers'
    BY DEF Lifetimes, Working, Answers, AnswerRight
  <1>2. Grammar'
    BY DEF Grammar, Working, Paired, AtServer, Expected, PayloadDue, IsMeta,
           IsPayloadOf
  <1>3. Targets'
    BY DEF Targets, MetaRight
  <1>4. OneExchange' /\ HeadIsOwn' /\ RestIsRaw'
    BY DEF OneExchange, HeadIsOwn, RestIsRaw, IsReply, Poisoned
  <1>5. ResponseMatchesRequest' /\ RouteCacheAgrees' /\ HandlerGetsItsRequest'
    BY DEF ResponseMatchesRequest, AnswersOwnRequest, RouteCacheAgrees, HandlerGetsItsRequest
  <1> QED BY <1>1, <1>2, <1>3, <1>4, <1>5

\* A frame that reaches the stream continues it: a name request or a meta where
\* none is due, the payload where it is.
LEMMA SentFrameExchange ==
  ASSUME ExchangeInv, TypeInv', UNCHANGED serverVars,
         UNCHANGED <<s2c, link, cl_open, srv_open, delivered, cur, cur_id, known_routes>>,
         link = "up",
         NEW f \in ClientFrames, c2s' = Append(c2s, f), f.req = cur, MetaRight(f),
         \/ /\ f.kind = "HandlerMetaReq"
            /\ cl_pc = "route_send" /\ cl_pc' = "route_wait"
         \/ /\ f.kind = "PacketMeta"
            /\ cl_pc = "meta_send" /\ cl_pc' = "payload_send"
         \/ /\ f.kind = "payload"
            /\ cl_pc = "payload_send" /\ cl_pc' = "response_wait"
  PROVE  ExchangeInv'
PROOF
  <1>1. c2s \in Seq(ClientFrames)
    BY DEF ExchangeInv, TypeInv, TypeOK, WireTypeOK
  <1>2. /\ Len(c2s) \in Nat
        /\ c2s' # <<>>
        /\ Len(c2s') = Len(c2s) + 1
        /\ \A i \in 1..Len(c2s) : c2s'[i] = c2s[i]
        /\ c2s'[Len(c2s) + 1] = f
        /\ c2s = <<>> <=> Len(c2s) = 0
    BY <1>1, AppendFacts
  <1> USE DEF ExchangeInv, serverVars
  <1>3. Lifetimes' /\ Answers'
    BY DEF Lifetimes, Working, Answers, AnswerRight
  <1>4. Grammar'
    <2> SUFFICES ASSUME Working', ~has_errored' PROVE Paired' /\ AtServer' /\ Expected'
      BY DEF Grammar
    <2>1. Paired /\ AtServer /\ Expected
      BY DEF Grammar, Working
    <2>2. CASE c2s = <<>>
      <3>1. Len(c2s') = 1 /\ c2s'[1] = f
        BY <1>2, <2>2
      <3>2. Paired'
        BY <3>1 DEF Paired, PayloadDue
      <3>3. AtServer'
        BY <2>1, <2>2, <3>1 DEF AtServer, Expected, PayloadDue, IsMeta, IsPayloadOf
      <3>4. Expected'
        BY <1>2, <3>1 DEF Expected, IsMeta
      <3> QED BY <3>2, <3>3, <3>4
    <2>3. CASE c2s # <<>>
      <3> DEFINE n == Len(c2s)
      <3>1. n \in 1..n /\ 1 \in 1..n /\ Len(c2s') = n + 1 /\ c2s'[n + 1] = f
        BY <1>2, <2>3
      <3>2. IF f.kind = "payload" THEN IsMeta(c2s[n], cur) ELSE c2s[n].kind # "PacketMeta"
        BY <2>1, <2>3, <3>1 DEF Paired, Expected, PayloadDue
      <3>3. ASSUME NEW i \in 1..Len(c2s')
            PROVE  /\ c2s'[i].kind = "PacketMeta" /\ i = n + 1 =>
                          cl_pc' = "payload_send" /\ cur' = c2s'[i].req
                   /\ c2s'[i].kind = "PacketMeta" /\ i # n + 1 =>
                          c2s'[i + 1].kind = "payload" /\ c2s'[i + 1].req = c2s'[i].req
                   /\ c2s'[i].kind = "payload" /\ i # 1 => c2s'[i - 1].kind = "PacketMeta"
        <4>1. CASE i = n + 1
          <5>1. c2s'[i] = f /\ c2s'[i - 1] = c2s[n]
            BY <1>2, <3>1, <4>1
          <5>2. f.kind = "PacketMeta" => cl_pc' = "payload_send" /\ cur' = f.req
            OBVIOUS
          <5>3. f.kind = "payload" => c2s[n].kind = "PacketMeta"
            BY <3>2 DEF IsMeta
          <5> QED BY <4>1, <5>1, <5>2, <5>3
        <4>2. CASE i = n
          <5>1. c2s'[i] = c2s[n] /\ c2s'[i + 1] = f
            BY <1>2, <3>1, <4>2
          <5>2. i # 1 => c2s'[i - 1] = c2s[n - 1]
            BY <1>2, <3>1, <4>2
          <5>3. c2s[n].kind = "payload" /\ n # 1 => c2s[n - 1].kind = "PacketMeta"
            BY <2>1, <3>1 DEF Paired
          <5> QED BY <3>1, <3>2, <4>2, <5>1, <5>2, <5>3 DEF IsMeta
        <4>3. CASE i # n + 1 /\ i # n
          <5>1. i \in 1..n /\ i + 1 \in 1..n /\ c2s'[i] = c2s[i] /\ c2s'[i + 1] = c2s[i + 1]
            BY <1>2, <3>1, <4>3
          <5>2. i # 1 => c2s'[i - 1] = c2s[i - 1]
            BY <1>2, <5>1
          <5>3. /\ c2s[i].kind = "PacketMeta" => IsPayloadOf(c2s[i + 1], c2s[i].req)
                /\ c2s[i].kind = "payload" /\ i # 1 => c2s[i - 1].kind = "PacketMeta"
            BY <2>1, <4>3, <5>1 DEF Paired
          <5> QED BY <3>1, <4>3, <5>1, <5>2, <5>3 DEF IsPayloadOf
        <4> QED BY <4>1, <4>2, <4>3
      <3>4. Paired'
        <4> HIDE DEF n
        <4> QED BY <3>1, <3>3 DEF Paired, IsPayloadOf, PayloadDue
      <3>5. AtServer'
        BY <1>2, <2>1, <2>3, <3>1 DEF AtServer, IsPayloadOf
      <3>6. Expected'
        BY <1>2, <3>1 DEF Expected, IsMeta
      <3> QED BY <3>4, <3>5, <3>6
    <2> QED BY <2>2, <2>3
  <1>5. Targets'
    <2>1. \A i \in 1..Len(c2s') : MetaRight(c2s'[i])
      BY <1>2 DEF Targets
    <2> QED BY <2>1 DEF Targets, MetaRight
  <1>6. OneExchange'
    <2> SUFFICES ASSUME cl_open, Working, ~has_errored, ~Poisoned PROVE InStep'
      BY DEF OneExchange, Working, Poisoned
    <2>1. InStep
      BY DEF OneExchange
    <2>2. CASE f.kind = "HandlerMetaReq"
      <3>1. NothingSent
        BY <2>1, <2>2 DEF InStep
      <3>2. NameSent'
        BY <1>2, <2>2, <3>1 DEF NothingSent, NameSent, IsNameReq, Idle
      <3> QED BY <2>2, <3>2 DEF InStep
    <2>3. CASE f.kind = "PacketMeta"
      <3>1. NothingSent
        BY <2>1, <2>3 DEF InStep
      <3>2. MetaSent'
        BY <1>2, <2>3, <3>1 DEF NothingSent, MetaSent, IsMeta, Idle
      <3> QED BY <2>3, <3>2 DEF InStep
    <2>4. CASE f.kind = "payload"
      <3>1. MetaSent
        BY <2>1, <2>4 DEF InStep
      <3>2. RequestSent'
        BY <1>2, <2>4, <3>1 DEF MetaSent, RequestSent, IsMeta, IsPayloadOf, Idle
      <3> QED BY <2>4, <3>2 DEF InStep
    <2> QED BY <2>2, <2>3, <2>4
  <1>7. HeadIsOwn' /\ RestIsRaw'
    BY DEF HeadIsOwn, RestIsRaw, IsReply, Poisoned
  <1>8. ResponseMatchesRequest' /\ RouteCacheAgrees' /\ HandlerGetsItsRequest'
    BY DEF ResponseMatchesRequest, AnswersOwnRequest, RouteCacheAgrees, HandlerGetsItsRequest
  <1> QED BY <1>3, <1>4, <1>5, <1>6, <1>7, <1>8

\* The client's three sends.
LEMMA SendsExchange ==
  ASSUME Framable, ExchangeInv, TypeInv', UNCHANGED serverVars,
         SendRouteRequest \/ SendMeta \/ SendPayload
  PROVE  ExchangeInv'
PROOF
  <1>1. cur \in Requests /\ cl_out \in Nat /\ cur_id \in HandlerIds \cup {None}
    BY DEF ExchangeInv, TypeInv, TypeOK, ClientTypeOK, LocalsSet, SendRouteRequest,
           SendMeta, SendPayload
  <1>2. ASSUME NEW f \in ClientFrames, ClientSends(f), f.req = cur, MetaRight(f),
               UNCHANGED <<delivered, cur, cur_id, known_routes>>,
               \/ /\ f.kind = "HandlerMetaReq"
                  /\ cl_pc = "route_send" /\ cl_pc' = "route_wait"
               \/ /\ f.kind = "PacketMeta"
                  /\ cl_pc = "meta_send" /\ cl_pc' = "payload_send"
               \/ /\ f.kind = "payload"
                  /\ cl_pc = "payload_send" /\ cl_pc' = "response_wait"
        PROVE  ExchangeInv'
    <2>1. CASE link = "up" /\ srv_open
      <3>1. c2s' = Append(c2s, f) /\ UNCHANGED <<s2c, link, cl_open, srv_open>>
        BY <1>2, <2>1 DEF ClientSends
      <3> QED BY <1>2, <2>1, <3>1, SentFrameExchange
    <2>2. CASE ~(link = "up" /\ srv_open)
      <3>1. link' = "broken" /\ UNCHANGED <<c2s, s2c, cl_open, srv_open>>
        BY <1>2, <2>2 DEF ClientSends
      <3> QED BY <1>2, <3>1, LostSendExchange
    <2> QED BY <2>1, <2>2
  <1>3. ASSUME ClientSendFails, RequestFails,
               cl_pc \in {"route_send", "meta_send", "payload_send"}
        PROVE  ExchangeInv'
    <2>1. /\ link' = "broken" /\ cl_pc' = "recv"
          /\ UNCHANGED <<c2s, s2c, cl_open, srv_open, delivered, cur, cur_id, known_routes>>
      BY <1>3 DEF ClientSendFails, RequestFails
    <2> QED BY <1>3, <2>1, LostSendExchange
  <1>4. CASE SendRouteRequest
    <2> DEFINE f == HandlerMetaReq(cur, cl_out + 1)
    <2>1. f \in ClientFrames /\ f.kind = "HandlerMetaReq" /\ f.req = cur /\ MetaRight(f)
      BY <1>1 DEF HandlerMetaReq, ClientFrames, MetaRight
    <2>2. \/ /\ ClientSends(f) /\ cl_pc = "route_send" /\ cl_pc' = "route_wait"
             /\ UNCHANGED <<delivered, cur, cur_id, known_routes>>
          \/ ClientSendFails /\ RequestFails /\ cl_pc = "route_send"
      BY <1>4 DEF SendRouteRequest
    <2> HIDE DEF f
    <2> QED BY <1>2, <1>3, <2>1, <2>2
  <1>5. CASE SendMeta
    <2> DEFINE f == PacketMeta(cur, cur_id, cl_out + 1)
    <2>1. cl_pc = "meta_send" /\ cur_id = Intended(cur)
      BY <1>5 DEF SendMeta, ExchangeInv, Targets
    <2>2. f \in ClientFrames /\ f.kind = "PacketMeta" /\ f.req = cur /\ MetaRight(f)
      BY <1>1, <2>1 DEF PacketMeta, ClientFrames, MetaRight
    <2>3. \/ /\ ClientSends(f) /\ cl_pc' = "payload_send"
             /\ UNCHANGED <<delivered, cur, cur_id, known_routes>>
          \/ ClientSendFails /\ RequestFails
      BY <1>5 DEF SendMeta
    <2> HIDE DEF f
    <2> QED BY <1>2, <1>3, <2>1, <2>2, <2>3
  <1>6. CASE SendPayload
    <2> DEFINE f == Payload(cur, cl_out)
    <2>1. f \in ClientFrames /\ f.kind = "payload" /\ f.req = cur /\ MetaRight(f)
      BY <1>1 DEF Payload, ClientFrames, MetaRight
    <2>2. data[cur] # "over_client"
      BY <1>1 DEF Framable
    <2>3. \/ /\ ClientSends(f) /\ cl_pc' = "response_wait"
             /\ UNCHANGED <<delivered, cur, cur_id, known_routes>>
          \/ ClientSendFails /\ RequestFails
      BY <1>6, <2>2 DEF SendPayload
    <2>4. cl_pc = "payload_send"
      BY <1>6 DEF SendPayload
    <2> HIDE DEF f
    <2> QED BY <1>2, <1>3, <2>1, <2>3, <2>4
  <1> QED BY <1>4, <1>5, <1>6

(***************************************************************************)
(* The client takes a frame off its stream.  No reply is left behind it,   *)
(* and while both ends work the exchange is over: nothing is on its way.   *)
(***************************************************************************)
LEMMA ClientTakesFrame ==
  ASSUME ExchangeInv, TypeInv', ClientReads, UNCHANGED serverVars,
         cl_pc \in {"route_wait", "response_wait"}
  PROVE  /\ Head(s2c) \in ServerFrames /\ Head(s2c).kind # "Oversize"
         /\ AnswerRight(Head(s2c))
         /\ Head(s2c).kind # "raw" =>
                IsReply(Head(s2c), IF cl_pc = "route_wait" THEN "HandlerMetaReq"
                                   ELSE "PacketMeta", cur)
         /\ \A i \in 1..Len(s2c') : s2c'[i].kind = "raw"
         /\ HeadIsOwn' /\ RestIsRaw'
         /\ Answers'
         /\ ~Poisoned'
         /\ Working /\ link = "up" /\ cl_open /\ ~has_errored => NothingSent'
PROOF
  <1>1. s2c \in Seq(ServerFrames) /\ s2c # <<>> /\ Head(s2c).kind # "Oversize"
        /\ s2c' = Tail(s2c) /\ UNCHANGED <<c2s, link, cl_open, srv_open>>
    BY DEF ExchangeInv, TypeInv, TypeOK, WireTypeOK, ClientReads
  <1>2. /\ Len(s2c) \in Nat /\ Len(s2c) >= 1
        /\ Head(s2c) = s2c[1]
        /\ s2c' \in Seq(ServerFrames)
        /\ Len(s2c') = Len(s2c) - 1
        /\ s2c' = <<>> <=> Len(s2c) = 1
        /\ \A i \in 1..Len(s2c') : s2c'[i] = s2c[i + 1] /\ i + 1 \in 1..Len(s2c)
    BY <1>1, TailFacts
  <1>3. Head(s2c) \in ServerFrames
    BY <1>1, <1>2
  <1>4. ~Poisoned
    BY <1>1 DEF Poisoned
  <1>5. \A i \in 1..Len(s2c') : s2c'[i].kind = "raw"
    <2> TAKE i \in 1..Len(s2c')
    <2>1. i + 1 \in 2..Len(s2c) /\ s2c'[i] = s2c[i + 1]
      BY <1>2
    <2> QED BY <1>4, <2>1 DEF ExchangeInv, RestIsRaw
  <1>6. AnswerRight(Head(s2c))
    BY <1>2 DEF ExchangeInv, Answers
  <1>7. Head(s2c).kind # "raw" =>
            IsReply(Head(s2c), IF cl_pc = "route_wait" THEN "HandlerMetaReq"
                               ELSE "PacketMeta", cur)
    BY <1>1 DEF ExchangeInv, HeadIsOwn
  <1>8. s2c' # <<>> => Head(s2c').kind = "raw"
    <2> SUFFICES ASSUME s2c' # <<>> PROVE Head(s2c').kind = "raw"
      OBVIOUS
    <2>1. Head(s2c') = s2c'[1] /\ 1 \in 1..Len(s2c')
      BY <1>2, TailFacts
    <2> QED BY <1>5, <2>1
  <1>9. HeadIsOwn' /\ ~Poisoned'
    BY <1>8 DEF HeadIsOwn, Poisoned
  <1>10. RestIsRaw'
    <2>1. Len(s2c') \in Nat
      BY <1>2
    <2> QED BY <1>5, <2>1 DEF RestIsRaw
  <1>11. Answers'
    BY <1>2 DEF ExchangeInv, Answers, AnswerRight, serverVars
  <1>12. ASSUME Working, link = "up", cl_open, ~has_errored
         PROVE  NothingSent'
    <2>1. Len(s2c) = 1 \/ 2 \in 1..Len(s2c)
      BY <1>2
    <2>2. 2 \notin 1..Len(s2c)
      <3>1. 2 \in 1..Len(s2c) => s2c[2].kind = "raw"
        BY <1>4 DEF ExchangeInv, RestIsRaw
      <3> QED BY <1>12, <3>1 DEF ExchangeInv, Lifetimes
    <2>3. InStep
      BY <1>4, <1>12 DEF ExchangeInv, OneExchange
    <2>4. Replied("PacketMeta") \/ Replied("HandlerMetaReq")
      BY <1>1, <2>3 DEF InStep, RequestSent, NameSent, ReplyLost
    <2>5. c2s = <<>> /\ Idle /\ s2c' = <<>>
      BY <1>2, <2>1, <2>2, <2>4 DEF Replied
    <2> QED BY <1>1, <2>5 DEF NothingSent, Idle, serverVars
  <1> QED BY <1>1, <1>3, <1>5, <1>6, <1>7, <1>9, <1>10, <1>11, <1>12

\* After a read the task stands where nothing is on its way.
LEMMA AfterReadExchange ==
  ASSUME ExchangeInv, TypeInv', ClientReads, UNCHANGED <<serverVars, cur>>,
         cl_pc \in {"route_wait", "response_wait"},
         cl_pc' \in {"recv", "meta_send"},
         cl_pc' = "meta_send" => cur_id' = Intended(cur),
         ResponseMatchesRequest', RouteCacheAgrees'
  PROVE  ExchangeInv'
PROOF
  <1>1. UNCHANGED <<c2s, link, cl_open, srv_open>>
    BY DEF ClientReads
  <1>2. /\ \A i \in 1..Len(s2c') : s2c'[i].kind = "raw"
        /\ HeadIsOwn' /\ RestIsRaw' /\ Answers' /\ ~Poisoned'
        /\ Working /\ link = "up" /\ cl_open /\ ~has_errored => NothingSent'
    BY ClientTakesFrame
  <1> USE DEF ExchangeInv, serverVars
  <1>3. Lifetimes'
    <2>1. Working => \A i \in 1..Len(s2c') : s2c'[i].kind # "raw"
      <3> SUFFICES ASSUME Working PROVE \A i \in 1..Len(s2c') : s2c'[i].kind # "raw"
        OBVIOUS
      <3>1. s2c \in Seq(ServerFrames) /\ s2c # <<>> /\ s2c' = Tail(s2c)
        BY DEF TypeInv, TypeOK, WireTypeOK, ClientReads
      <3> QED BY <3>1, TailFacts DEF Lifetimes
    <2> QED BY <1>1, <2>1 DEF Lifetimes, Working
  <1>4. Grammar'
    BY <1>1 DEF Grammar, Working, Paired, AtServer, Expected, PayloadDue, IsMeta, IsPayloadOf
  <1>5. Targets'
    BY <1>1 DEF Targets, MetaRight
  <1>6. OneExchange'
    BY <1>1, <1>2 DEF OneExchange, InStep, Working
  <1>7. HandlerGetsItsRequest'
    BY DEF HandlerGetsItsRequest
  <1> QED BY <1>2, <1>3, <1>4, <1>5, <1>6, <1>7

\* The answer to a name request: a HandlerMetaAns is for the name the task asked.
LEMMA RouteAnswerExchange ==
  ASSUME ExchangeInv, TypeInv', RecvRouteAnswer, UNCHANGED serverVars
  PROVE  ExchangeInv'
PROOF
  <1>1. cl_pc = "route_wait" /\ ClientReads /\ cur' = cur /\ UNCHANGED delivered
    BY DEF RecvRouteAnswer, RequestFails
  <1>2. /\ Head(s2c) \in ServerFrames /\ AnswerRight(Head(s2c))
        /\ Head(s2c).kind # "raw" => IsReply(Head(s2c), "HandlerMetaReq", cur)
    BY <1>1, ClientTakesFrame
  <1>3. ResponseMatchesRequest'
    BY <1>1 DEF ExchangeInv, ResponseMatchesRequest, AnswersOwnRequest
  <1>4. CASE Head(s2c).kind = "HandlerMetaAns"
    <2> DEFINE name == handler_info[cur].named
    <2>1. /\ known_routes' = [known_routes EXCEPT ![name] = Head(s2c).id]
          /\ cur_id' = Head(s2c).id /\ cl_pc' = "meta_send"
      BY <1>4 DEF RecvRouteAnswer, CacheRoute
    <2>2. Head(s2c).req = cur
      BY <1>2, <1>4 DEF IsReply
    <2>3. name \in DOMAIN routes_text_names /\ Head(s2c).id = routes_text_names[name]
      BY <1>2, <1>4, <2>2 DEF AnswerRight
    <2>4. Intended(cur) = Head(s2c).id
      BY <1>1, <2>3 DEF Intended, ExchangeInv, Targets
    <2>5. known_routes \in [Names -> HandlerIds \cup {None}]
      BY DEF ExchangeInv, TypeInv, TypeOK, ClientTypeOK
    <2>6. RouteCacheAgrees'
      BY <2>1, <2>3, <2>5 DEF ExchangeInv, RouteCacheAgrees
    <2> QED BY <1>1, <1>3, <2>1, <2>4, <2>6, AfterReadExchange
  <1>5. CASE Head(s2c).kind # "HandlerMetaAns"
    <2>1. cl_pc' = "recv" /\ UNCHANGED known_routes
      BY <1>5 DEF RecvRouteAnswer, RequestFails
    <2>2. RouteCacheAgrees'
      BY <2>1 DEF ExchangeInv, RouteCacheAgrees
    <2> QED BY <1>1, <1>3, <2>1, <2>2, AfterReadExchange
  <1> QED BY <1>4, <1>5

\* The response: it answers the PacketMeta of the request its consumer belongs to.
LEMMA ResponseExchange ==
  ASSUME ExchangeInv, TypeInv', RecvResponse, UNCHANGED serverVars
  PROVE  ExchangeInv'
PROOF
  <1>1. /\ cl_pc = "response_wait" /\ ClientReads /\ cl_pc' = "recv"
        /\ UNCHANGED <<cur, known_routes>>
    BY DEF RecvResponse
  <1>2. Head(s2c).kind # "raw" => IsReply(Head(s2c), "PacketMeta", cur)
    BY <1>1, ClientTakesFrame
  <1>3. delivered \in [Requests -> ServerFrames \cup {None}]
    BY DEF ExchangeInv, TypeInv, TypeOK, ClientTypeOK
  <1>4. ResponseMatchesRequest'
    <2> SUFFICES ASSUME NEW r \in Requests, delivered'[r] # None
                 PROVE  AnswersOwnRequest(r, delivered'[r])
      BY DEF ResponseMatchesRequest, AnswersOwnRequest
    <2>1. delivered'[r] = delivered[r] \/ (r = cur /\ delivered'[r] = Head(s2c))
      BY <1>3 DEF RecvResponse
    <2> QED BY <1>2, <2>1 DEF ExchangeInv, ResponseMatchesRequest, AnswersOwnRequest, IsReply
  <1>5. RouteCacheAgrees'
    BY <1>1 DEF ExchangeInv, RouteCacheAgrees
  <1> QED BY <1>1, <1>4, <1>5, AfterReadExchange

(***************************************************************************)
(* A failed read leaves no reply behind either: the connection is broken   *)
(* and its input gone, the server has closed its end, or the decoder       *)
(* stands for good in front of an oversize frame.                          *)
(***************************************************************************)
LEMMA ReadFailsExchange ==
  ASSUME ExchangeInv, TypeInv', ReadFails, UNCHANGED serverVars
  PROVE  ExchangeInv'
PROOF
  <1>1. /\ cl_pc \in {"route_wait", "response_wait"} /\ cl_pc' = "recv"
        /\ UNCHANGED <<c2s, link, cl_open, srv_open, delivered, cur, cur_id, known_routes>>
    BY DEF ReadFails, ClientReadFails, RequestFails, wireVars
  <1>2. \/ link = "broken" /\ s2c' = <<>>
        \/ s2c' = s2c /\ s2c = <<>> /\ ~srv_open
        \/ s2c' = s2c /\ Poisoned
    BY DEF ReadFails, ClientReadFails, wireVars, Poisoned
  <1> USE DEF ExchangeInv, serverVars
  <1>3. s2c' = <<>> => Len(s2c') = 0
    OBVIOUS
  <1>4. Lifetimes'
    BY <1>1, <1>2, <1>3 DEF Lifetimes, Working
  <1>5. Grammar'
    BY <1>1 DEF Grammar, Working, Paired, AtServer, Expected, PayloadDue, IsMeta, IsPayloadOf
  <1>6. Targets'
    BY <1>1 DEF Targets, MetaRight
  <1>7. Answers'
    BY <1>1, <1>2, <1>3 DEF Answers, AnswerRight
  <1>8. OneExchange'
    BY <1>1, <1>2 DEF OneExchange, Lifetimes, Working, Poisoned
  <1>9. HeadIsOwn'
    BY <1>1, <1>2 DEF HeadIsOwn, Poisoned
  <1>10. RestIsRaw'
    BY <1>2, <1>3 DEF RestIsRaw, Poisoned
  <1>11. ResponseMatchesRequest' /\ RouteCacheAgrees' /\ HandlerGetsItsRequest'
    BY <1>1 DEF ResponseMatchesRequest, AnswersOwnRequest, RouteCacheAgrees,
                HandlerGetsItsRequest
  <1> QED BY <1>4, <1>5, <1>6, <1>7, <1>8, <1>9, <1>10, <1>11

\* The stream towards the server stays paired when its first frame is read.
LEMMA PairedTail ==
  ASSUME c2s \in Seq(ClientFrames), c2s # <<>>, c2s' = Tail(c2s), Paired,
         UNCHANGED <<link, cl_pc, cur>>
  PROVE  /\ Paired'
         /\ c2s' # <<>> => c2s'[1] = c2s[2] /\ 2 \in 1..Len(c2s)
         /\ c2s' # <<>> => c2s'[Len(c2s')] = c2s[Len(c2s)]
         /\ c2s' = <<>> <=> Len(c2s) = 1
         /\ Head(c2s) = c2s[1] /\ 1 \in 1..Len(c2s) /\ Len(c2s) \in Nat
         /\ Len(c2s') = Len(c2s) - 1
PROOF
  <1>1. /\ Len(c2s) \in Nat /\ Len(c2s) >= 1
        /\ Head(c2s) = c2s[1]
        /\ Len(c2s') = Len(c2s) - 1
        /\ c2s' = <<>> <=> Len(c2s) = 1
        /\ \A i \in 1..Len(c2s') : c2s'[i] = c2s[i + 1] /\ i + 1 \in 1..Len(c2s)
    BY TailFacts
  <1> DEFINE n == Len(c2s)
             m == Len(c2s')
  <1>2. ASSUME NEW i \in 1..m
        PROVE  /\ c2s'[i].kind = "PacketMeta" /\ i = m =>
                      link' = "broken" \/ (cl_pc' = "payload_send" /\ cur' = c2s'[i].req)
               /\ c2s'[i].kind = "PacketMeta" /\ i # m =>
                      c2s'[i + 1].kind = "payload" /\ c2s'[i + 1].req = c2s'[i].req
               /\ c2s'[i].kind = "payload" /\ i # 1 => c2s'[i - 1].kind = "PacketMeta"
    <2>1. c2s'[i] = c2s[i + 1] /\ i + 1 \in 1..n /\ (i = m <=> i + 1 = n)
      BY <1>1
    <2>2. i # m => c2s'[i + 1] = c2s[(i + 1) + 1]
      <3>1. m \in Nat
        BY <1>1
      <3>2. i # m => i + 1 \in 1..m
        <4> HIDE DEF m
        <4> QED BY <3>1
      <3> QED BY <1>1, <3>2
    <2>3. i # 1 => c2s'[i - 1] = c2s[(i + 1) - 1]
      BY <1>1
    <2>4. /\ c2s[i + 1].kind = "PacketMeta" /\ i + 1 = n => PayloadDue(c2s[i + 1].req)
          /\ c2s[i + 1].kind = "PacketMeta" /\ i + 1 # n =>
                 IsPayloadOf(c2s[(i + 1) + 1], c2s[i + 1].req)
          /\ c2s[i + 1].kind = "payload" => c2s[(i + 1) - 1].kind = "PacketMeta"
      <3> DEFINE j == i + 1
      <3>1. j \in 1..n /\ j # 1
        BY <2>1
      <3> HIDE DEF j
      <3>2. /\ c2s[j].kind = "PacketMeta" /\ j = n => PayloadDue(c2s[j].req)
            /\ c2s[j].kind = "PacketMeta" /\ j # n => IsPayloadOf(c2s[j + 1], c2s[j].req)
            /\ c2s[j].kind = "payload" => c2s[j - 1].kind = "PacketMeta"
        BY <3>1 DEF Paired
      <3> QED BY <3>2 DEF j
    <2> QED BY <2>1, <2>2, <2>3, <2>4 DEF PayloadDue, IsPayloadOf
  <1>3. Paired'
    <2> HIDE DEF n
    <2> QED BY <1>2 DEF Paired, IsPayloadOf, PayloadDue
  <1>4. c2s' # <<>> => c2s'[1] = c2s[2] /\ 2 \in 1..n /\ c2s'[m] = c2s[n]
    BY <1>1
  <1> QED BY <1>1, <1>3, <1>4

\* The server reads a meta frame: a PacketMeta, whose payload is next, or a name
\* request.
LEMMA ReceiveMetaExchange ==
  ASSUME Framable, ExchangeInv, TypeInv', ReceiveMeta, UNCHANGED clientVars
  PROVE  ExchangeInv'
PROOF
  <1>1. /\ srv_pc = "recv_meta" /\ ~has_errored /\ c2s # <<>> /\ c2s' = Tail(c2s)
        /\ meta' = Head(c2s) /\ payload' = None
        /\ UNCHANGED <<s2c, link, cl_open, srv_open, clientVars, response, send_ok,
                       has_errored, packets>>
    BY DEF ReceiveMeta, receive_message, ServerReads
  <1>2. c2s \in Seq(ClientFrames)
    BY DEF ExchangeInv, TypeInv, TypeOK, WireTypeOK
  <1>3. UNCHANGED <<outcome, delivered, cl_pc, cur, cur_id, known_routes>>
    BY DEF clientVars
  <1>4. Paired /\ AtServer /\ Expected
    BY <1>1 DEF ExchangeInv, Grammar, Working
  <1>5. /\ Paired'
        /\ c2s' # <<>> => c2s'[1] = c2s[2] /\ 2 \in 1..Len(c2s)
        /\ c2s' # <<>> => c2s'[Len(c2s')] = c2s[Len(c2s)]
        /\ c2s' = <<>> <=> Len(c2s) = 1
        /\ meta' = c2s[1] /\ 1 \in 1..Len(c2s) /\ Len(c2s) \in Nat
        /\ Len(c2s') = Len(c2s) - 1
    BY <1>1, <1>2, <1>3, <1>4, PairedTail
  <1>6. c2s[1].kind \in {"HandlerMetaReq", "PacketMeta"} /\ c2s[1].req \in Requests
    <2>1. c2s[1] \in ClientFrames
      BY <1>2, <1>5
    <2> QED BY <1>1, <1>4, <2>1 DEF AtServer, ClientFrames
  <1>7. srv_pc' = IF c2s[1].kind = "PacketMeta" THEN "recv_payload" ELSE "serve"
    BY <1>5, <1>6 DEF ReceiveMeta, Framable, has_payload
  <1> USE DEF ExchangeInv
  <1>8. Lifetimes'
    BY <1>1, <1>3, <1>7 DEF Lifetimes, Working
  <1>9. Grammar'
    <2>1. AtServer'
      <3>1. CASE c2s[1].kind = "PacketMeta"
        <4>1. c2s' = <<>> => PayloadDue(c2s[1].req)
          BY <1>4, <1>5, <3>1 DEF Paired
        <4>2. c2s' # <<>> => IsPayloadOf(c2s[2], c2s[1].req)
          BY <1>4, <1>5, <3>1 DEF Paired
        <4> QED BY <1>1, <1>3, <1>5, <1>7, <3>1, <4>1, <4>2
                DEF AtServer, PayloadDue, IsPayloadOf
      <3>2. CASE c2s[1].kind = "HandlerMetaReq"
        <4>1. c2s' # <<>> => c2s[2].kind # "payload"
          BY <1>4, <1>5, <3>2 DEF Paired
        <4> QED BY <1>5, <1>7, <3>2, <4>1 DEF AtServer
      <3> QED BY <1>6, <3>1, <3>2
    <2>2. Expected'
      <3> SUFFICES ASSUME cl_pc = "payload_send", link = "up" PROVE Expected'
        BY <1>1, <1>3 DEF Expected
      <3>1. IsMeta(c2s[Len(c2s)], cur)
        BY <1>1, <1>4 DEF Expected
      <3> QED BY <1>3, <1>5, <1>7, <3>1 DEF Expected, IsMeta
    <2> QED BY <1>5, <2>1, <2>2 DEF Grammar
  <1>10. Targets'
    <2>1. \A i \in 1..Len(c2s') : MetaRight(c2s'[i])
      BY <1>1, <1>2, TailFacts DEF Targets
    <2>2. MetaRight(meta')
      BY <1>5 DEF Targets
    <2> QED BY <1>1, <1>3, <1>5, <1>6, <1>7, <2>1, <2>2 DEF Targets, MetaRight
  <1>11. Answers'
    BY <1>1, <1>7 DEF Answers, AnswerRight
  <1>12. OneExchange'
    <2> SUFFICES ASSUME link = "up", cl_open, ~Poisoned PROVE InStep'
      BY <1>1 DEF OneExchange, Poisoned
    <2>1. InStep
      BY <1>1 DEF OneExchange, Working
    <2>2. cl_pc # "ended" /\ cl_pc \in ClientPc
      BY DEF Lifetimes, TypeInv, TypeOK, ClientTypeOK
    <2>3. CASE cl_pc \in {"recv", "route_send", "meta_send"}
      BY <1>1, <2>1, <2>3 DEF InStep, NothingSent
    <2>4. CASE cl_pc = "payload_send"
      <3>1. MetaSent
        BY <2>1, <2>4 DEF InStep
      <3>2. MetaSent'
        BY <1>1, <1>3, <1>5, <1>7, <3>1 DEF MetaSent, IsMeta
      <3> QED BY <1>3, <2>4, <3>2 DEF InStep
    <2>5. CASE cl_pc = "response_wait"
      <3>1. RequestSent
        BY <1>1, <2>1, <2>5 DEF InStep, Replied, ReplyLost
      <3>2. s2c = <<>> /\ Len(c2s) = 2 /\ IsMeta(c2s[1], cur) /\ IsPayloadOf(c2s[2], cur)
        BY <1>1, <3>1 DEF RequestSent
      <3>3. RequestSent'
        BY <1>1, <1>3, <1>5, <1>7, <3>2 DEF RequestSent, IsMeta, IsPayloadOf
      <3> QED BY <1>3, <2>5, <3>3 DEF InStep
    <2>6. CASE cl_pc = "route_wait"
      <3>1. NameSent
        BY <1>1, <2>1, <2>6 DEF InStep, Replied, ReplyLost
      <3>2. s2c = <<>> /\ Len(c2s) = 1 /\ IsNameReq(c2s[1], cur)
        BY <1>1, <3>1 DEF NameSent
      <3>3. NameSent'
        BY <1>1, <1>3, <1>5, <1>7, <3>2 DEF NameSent, IsNameReq
      <3> QED BY <1>3, <2>6, <3>3 DEF InStep
    <2> QED BY <2>2, <2>3, <2>4, <2>5, <2>6 DEF ClientPc
  <1>13. HeadIsOwn' /\ RestIsRaw'
    BY <1>1, <1>3 DEF HeadIsOwn, RestIsRaw, IsReply, Poisoned
  <1>14. ResponseMatchesRequest' /\ RouteCacheAgrees' /\ HandlerGetsItsRequest'
    BY <1>1, <1>3 DEF ResponseMatchesRequest, AnswersOwnRequest, RouteCacheAgrees,
                      HandlerGetsItsRequest
  <1> QED BY <1>8, <1>9, <1>10, <1>11, <1>12, <1>13, <1>14

\* The server reads the payload: it is the one of the meta it holds.
LEMMA ReceivePayloadExchange ==
  ASSUME ExchangeInv, TypeInv', ReceivePayload, UNCHANGED clientVars
  PROVE  ExchangeInv'
PROOF
  <1>1. /\ srv_pc = "recv_payload" /\ srv_pc' = "serve"
        /\ ~has_errored /\ c2s # <<>> /\ c2s' = Tail(c2s)
        /\ payload' = Head(c2s)
        /\ UNCHANGED <<s2c, link, cl_open, srv_open, clientVars, meta, response, send_ok,
                       has_errored, packets>>
    BY DEF ReceivePayload, receive_message, ServerReads
  <1>2. c2s \in Seq(ClientFrames)
    BY DEF ExchangeInv, TypeInv, TypeOK, WireTypeOK
  <1>3. UNCHANGED <<outcome, delivered, cl_pc, cur, cur_id, known_routes>>
    BY DEF clientVars
  <1>4. Paired /\ AtServer /\ Expected
    BY <1>1 DEF ExchangeInv, Grammar, Working
  <1>5. /\ Paired'
        /\ c2s' # <<>> => c2s'[1] = c2s[2] /\ 2 \in 1..Len(c2s)
        /\ c2s' # <<>> => c2s'[Len(c2s')] = c2s[Len(c2s)]
        /\ c2s' = <<>> <=> Len(c2s) = 1
        /\ payload' = c2s[1] /\ 1 \in 1..Len(c2s) /\ Len(c2s) \in Nat
        /\ Len(c2s') = Len(c2s) - 1
    BY <1>1, <1>2, <1>3, <1>4, PairedTail
  <1>6. meta.kind = "PacketMeta" /\ IsPayloadOf(c2s[1], meta.req)
    BY <1>1, <1>4 DEF AtServer
  <1>7. payload' # None /\ payload'.req = meta.req
    <2>1. c2s[1] \in ClientFrames
      BY <1>2, <1>5
    <2> QED BY <1>5, <1>6, <2>1, NoneAssumption DEF IsPayloadOf
  <1> USE DEF ExchangeInv
  <1>8. Lifetimes'
    BY <1>1, <1>3 DEF Lifetimes, Working
  <1>9. Grammar'
    <2>1. AtServer'
      <3>1. c2s' # <<>> => c2s[2].kind # "payload"
        BY <1>4, <1>5, <1>6 DEF Paired, IsPayloadOf
      <3> QED BY <1>1, <1>5, <3>1 DEF AtServer
    <2>2. Expected'
      <3> SUFFICES ASSUME cl_pc = "payload_send", link = "up" PROVE Expected'
        BY <1>1, <1>3 DEF Expected
      <3>1. IsMeta(c2s[Len(c2s)], cur)
        BY <1>1, <1>4 DEF Expected
      <3>2. Len(c2s) # 1
        BY <1>6, <3>1 DEF IsMeta, IsPayloadOf
      <3> QED BY <1>3, <1>5, <3>1, <3>2 DEF Expected, IsMeta
    <2> QED BY <1>5, <2>1, <2>2 DEF Grammar
  <1>10. Targets'
    <2>1. \A i \in 1..Len(c2s') : MetaRight(c2s'[i])
      BY <1>1, <1>2, TailFacts DEF Targets
    <2>2. MetaRight(meta')
      BY <1>1 DEF Targets
    <2> QED BY <1>1, <1>3, <1>6, <1>7, <2>1, <2>2 DEF Targets, MetaRight
  <1>11. Answers'
    BY <1>1 DEF Answers, AnswerRight
  <1>12. OneExchange'
    <2> SUFFICES ASSUME link = "up", cl_open, ~Poisoned PROVE InStep'
      BY <1>1 DEF OneExchange, Poisoned
    <2>1. InStep
      BY <1>1 DEF OneExchange, Working
    <2>2. cl_pc # "ended" /\ cl_pc \in ClientPc
      BY DEF Lifetimes, TypeInv, TypeOK, ClientTypeOK
    <2>3. cl_pc = "response_wait" /\ RequestSent
      BY <1>1, <2>1, <2>2 DEF InStep, ClientPc, NothingSent, MetaSent, NameSent, Replied,
                              ReplyLost, Idle
    <2>4. s2c = <<>> /\ Len(c2s) = 1 /\ IsMeta(meta, cur)
      BY <1>1, <2>3 DEF RequestSent, Idle
    <2>5. RequestSent'
      BY <1>1, <1>3, <1>5, <2>4 DEF RequestSent, IsMeta
    <2> QED BY <1>3, <2>3, <2>5 DEF InStep
  <1>13. HeadIsOwn' /\ RestIsRaw'
    BY <1>1, <1>3 DEF HeadIsOwn, RestIsRaw, IsReply, Poisoned
  <1>14. ResponseMatchesRequest' /\ RouteCacheAgrees' /\ HandlerGetsItsRequest'
    BY <1>1, <1>3 DEF ResponseMatchesRequest, AnswersOwnRequest, RouteCacheAgrees,
                      HandlerGetsItsRequest
  <1> QED BY <1>8, <1>9, <1>10, <1>11, <1>12, <1>13, <1>14

\* A read error stops the reading for good: the stream yields None from now on.
LEMMA ReceiveErrorExchange ==
  ASSUME ExchangeInv, TypeInv', ReceiveError, UNCHANGED clientVars
  PROVE  ExchangeInv'
PROOF
  <1>1. /\ srv_pc' = "recv_meta" /\ has_errored' = TRUE
        /\ srv_pc \in {"recv_meta", "recv_payload"}
        /\ UNCHANGED <<c2s, s2c, link, cl_open, srv_open, delivered, cl_pc, cur, cur_id,
                       known_routes, meta, payload, response, send_ok, packets>>
    BY DEF ReceiveError, wireVars, clientVars
  <1> USE DEF ExchangeInv
  <1>2. Lifetimes' /\ Grammar' /\ Targets' /\ Answers'
    BY <1>1 DEF Lifetimes, Working, Grammar, Targets, MetaRight, Answers, AnswerRight
  <1>3. OneExchange' /\ HeadIsOwn' /\ RestIsRaw'
    BY <1>1 DEF OneExchange, HeadIsOwn, RestIsRaw, IsReply, Poisoned
  <1>4. ResponseMatchesRequest' /\ RouteCacheAgrees' /\ HandlerGetsItsRequest'
    BY <1>1 DEF ResponseMatchesRequest, AnswersOwnRequest, RouteCacheAgrees,
                HandlerGetsItsRequest
  <1> QED BY <1>2, <1>3, <1>4

\* The loop is left, to an AcceptFn or for good.
LEMMA LeaveExchange ==
  ASSUME ExchangeInv, TypeInv', UNCHANGED clientVars,
         srv_pc' \in {"accepted", "closed"},
         srv_open' = (srv_pc' # "closed"),
         srv_pc' = "accepted" => ~has_errored,
         UNCHANGED <<c2s, s2c, cl_open, has_errored, packets, meta, payload>>
  PROVE  ExchangeInv'
PROOF
  <1>1. UNCHANGED <<delivered, cl_pc, cur, cur_id, known_routes>>
    BY DEF clientVars
  <1> USE DEF ExchangeInv
  <1>2. Lifetimes' /\ Grammar' /\ Targets' /\ Answers'
    BY <1>1 DEF Lifetimes, Working, Grammar, Targets, MetaRight, Answers, AnswerRight
  <1>3. OneExchange' /\ HeadIsOwn' /\ RestIsRaw'
    BY <1>1 DEF OneExchange, Working, HeadIsOwn, RestIsRaw, IsReply, Poisoned
  <1>4. ResponseMatchesRequest' /\ RouteCacheAgrees' /\ HandlerGetsItsRequest'
    BY <1>1 DEF ResponseMatchesRequest, AnswersOwnRequest, RouteCacheAgrees,
                HandlerGetsItsRequest
  <1> QED BY <1>2, <1>3, <1>4

(***************************************************************************)
(* The server computes the response: it is addressed to the frame being    *)
(* served, and a HandlerMetaAns in it is right.                            *)
(***************************************************************************)
LEMMA ComputeExchange ==
  ASSUME ExchangeInv, TypeInv', UNCHANGED clientVars,
         UNCHANGED <<wireVars, meta, payload, send_ok, has_errored>>,
         srv_pc \in {"serve", "handler"},
         meta.kind \in {"HandlerMetaReq", "PacketMeta"},
         \/ srv_pc' = "handler" /\ meta.kind = "PacketMeta"
         \/ srv_pc' = "send" /\ IsReply(response', meta.kind, meta.req)
                             /\ AnswerRight(response'),
         HandlerGetsItsRequest'
  PROVE  ExchangeInv'
PROOF
  <1>1. UNCHANGED <<c2s, s2c, link, cl_open, srv_open, delivered, cl_pc, cur, cur_id,
                    known_routes>>
    BY DEF clientVars, wireVars
  <1> USE DEF ExchangeInv
  <1>2. Lifetimes'
    BY <1>1 DEF Lifetimes, Working
  <1>3. Grammar'
    BY <1>1 DEF Grammar, Working, Paired, AtServer, Expected, PayloadDue, IsMeta, IsPayloadOf
  <1>4. Targets' /\ Answers'
    BY <1>1 DEF Targets, MetaRight, Answers, AnswerRight
  <1>5. OneExchange'
    <2> SUFFICES ASSUME link = "up", cl_open, ~has_errored, ~Poisoned PROVE InStep'
      BY <1>1 DEF OneExchange, Poisoned
    <2>1. InStep
      BY DEF OneExchange, Working
    <2>2. cl_pc # "ended" /\ cl_pc \in ClientPc
      BY DEF Lifetimes, TypeInv, TypeOK, ClientTypeOK
    <2>3. \/ cl_pc = "response_wait" /\ RequestSent
          \/ cl_pc = "route_wait" /\ NameSent
      BY <2>1, <2>2 DEF InStep, ClientPc, NothingSent, MetaSent, Replied, ReplyLost, Idle
    <2>4. CASE cl_pc = "response_wait" /\ RequestSent
      <3>1. s2c = <<>> /\ c2s = <<>> /\ IsMeta(meta, cur)
        BY <2>4 DEF RequestSent, Idle
      <3>2. RequestSent'
        BY <1>1, <3>1 DEF RequestSent, IsMeta, IsReply
      <3> QED BY <1>1, <2>4, <3>2 DEF InStep
    <2>5. CASE cl_pc = "route_wait" /\ NameSent
      <3>1. s2c = <<>> /\ c2s = <<>> /\ IsNameReq(meta, cur) /\ srv_pc = "serve"
        BY <2>5 DEF NameSent, Idle
      <3>2. NameSent'
        BY <1>1, <3>1 DEF NameSent, IsNameReq, IsReply
      <3> QED BY <1>1, <2>5, <3>2 DEF InStep
    <2> QED BY <2>3, <2>4, <2>5
  <1>6. HeadIsOwn' /\ RestIsRaw'
    BY <1>1 DEF HeadIsOwn, RestIsRaw, IsReply, Poisoned
  <1>7. ResponseMatchesRequest' /\ RouteCacheAgrees'
    BY <1>1 DEF ResponseMatchesRequest, AnswersOwnRequest, RouteCacheAgrees
  <1> QED BY <1>2, <1>3, <1>4, <1>5, <1>6, <1>7

\* serve_packet: no frame is malformed, a PacketMeta is routed with its own payload
\* and to the handler it was meant for.
LEMMA ServeExchange ==
  ASSUME Framable, ExchangeInv, TypeInv', serve_packet, UNCHANGED clientVars
  PROVE  ExchangeInv'
PROOF
  <1>1. /\ srv_pc = "serve" /\ meta \in ClientFrames
        /\ UNCHANGED <<wireVars, meta, payload, send_ok, has_errored>>
    BY DEF serve_packet, ExchangeInv, TypeInv, LocalsSet
  <1>2. meta.kind \in {"HandlerMetaReq", "PacketMeta"} /\ meta.req \in Requests
    BY <1>1 DEF ExchangeInv, Targets, ClientFrames
  <1>3. ASSUME NEW k, NEW h, Respond(k, h), k # "raw"
        PROVE  /\ srv_pc' = "send" /\ IsReply(response', meta.kind, meta.req)
               /\ response'.kind = k /\ response'.id = h
    BY <1>3 DEF Respond, Reply, IsReply
  <1>4. CASE ServePacketMeta
    <2>1. /\ meta.kind = "PacketMeta"
          /\ packets' = Append(packets, [req |-> meta.req, id |-> meta.id,
                              payload |-> IF payload = None THEN None ELSE payload.req])
      BY <1>4 DEF ServePacketMeta
    <2>2. meta.id = Intended(meta.req) /\ payload # None /\ payload.req = meta.req
      BY <1>1, <2>1 DEF ExchangeInv, Targets, MetaRight
    <2>3. has_payload(meta.req)
      BY <1>2 DEF Framable, has_payload
    <2>4. HandlerGetsItsRequest'
      <3> DEFINE p == [req |-> meta.req, id |-> meta.id, payload |-> meta.req]
      <3>1. packets' = Append(packets, p) /\ packets \in Seq(RoutedPackets)
        BY <2>1, <2>2 DEF ExchangeInv, TypeInv, TypeOK, ServerTypeOK
      <3>2. p \in RoutedPackets
        BY <1>1, <1>2 DEF RoutedPackets, ClientFrames
      <3>3. p.req = meta.req /\ p.id = meta.id /\ p.payload = meta.req
        OBVIOUS
      <3> HIDE DEF p
      <3>4. /\ Len(packets) \in Nat /\ Len(packets') = Len(packets) + 1
            /\ \A i \in 1..Len(packets) : packets'[i] = packets[i]
            /\ packets'[Len(packets) + 1] = p
        BY <3>1, <3>2, AppendFacts
      <3> SUFFICES ASSUME NEW i \in 1..Len(packets')
                   PROVE  /\ packets'[i].id = Intended(packets'[i].req)
                          /\ packets'[i].payload =
                                 IF has_payload(packets'[i].req) THEN packets'[i].req ELSE None
        BY DEF HandlerGetsItsRequest
      <3>5. CASE i \in 1..Len(packets)
        BY <3>4, <3>5 DEF ExchangeInv, HandlerGetsItsRequest
      <3>6. CASE i = Len(packets) + 1
        BY <2>2, <2>3, <3>3, <3>4, <3>6
      <3> QED BY <3>4, <3>5, <3>6
    <2>5. \/ srv_pc' = "handler"
          \/ srv_pc' = "send" /\ IsReply(response', meta.kind, meta.req)
                              /\ AnswerRight(response')
      <3>1. CASE CallHandler
        BY <3>1 DEF CallHandler
      <3>2. CASE NoRoute
        BY <1>3, <3>2 DEF NoRoute, AnswerRight
      <3> QED BY <1>4, <3>1, <3>2 DEF ServePacketMeta
    <2> QED BY <1>1, <2>1, <2>4, <2>5, ComputeExchange
  <1>5. CASE AnswerName
    <2> DEFINE name == handler_info[meta.req].named
    <2>1. /\ meta.kind = "HandlerMetaReq" /\ UNCHANGED packets
          /\ \/ /\ name \in DOMAIN routes_text_names
                /\ Respond("HandlerMetaAns", routes_text_names[name])
             \/ Respond("NoSuchHandler", None)
      BY <1>5 DEF AnswerName
    <2>2. /\ srv_pc' = "send" /\ IsReply(response', meta.kind, meta.req)
          /\ response'.kind = "HandlerMetaAns" =>
                 name \in DOMAIN routes_text_names /\ response'.id = routes_text_names[name]
      BY <1>3, <2>1
    <2>3. AnswerRight(response')
      BY <2>1, <2>2 DEF AnswerRight, IsReply
    <2>4. HandlerGetsItsRequest'
      BY <2>1 DEF ExchangeInv, HandlerGetsItsRequest
    <2> QED BY <1>1, <1>2, <2>2, <2>3, <2>4, ComputeExchange
  <1>6. CASE Malformed
    BY <1>2, <1>6 DEF Malformed
  <1> QED BY <1>4, <1>5, <1>6 DEF serve_packet

\* A handler returns or panics.
LEMMA HandlerExchange ==
  ASSUME ExchangeInv, TypeInv', HandlerReturns \/ HandlerPanics, UNCHANGED clientVars
  PROVE  ExchangeInv'
PROOF
  <1>1. /\ srv_pc = "handler" /\ srv_pc' = "send"
        /\ \E k \in {"Data", "Oversize", "Unsendable", "InternalError"} :
               response' = Reply(k, meta, None, srv_out + 1)
        /\ UNCHANGED <<wireVars, meta, payload, send_ok, has_errored, packets>>
    BY DEF HandlerReturns, HandlerPanics
  <1>2. meta.kind = "PacketMeta"
    BY <1>1 DEF ExchangeInv, Targets
  <1>3. IsReply(response', meta.kind, meta.req) /\ AnswerRight(response')
    BY <1>1 DEF IsReply, AnswerRight, Reply
  <1>4. HandlerGetsItsRequest'
    BY <1>1 DEF ExchangeInv, HandlerGetsItsRequest
  <1> QED BY <1>1, <1>2, <1>3, <1>4, ComputeExchange

(***************************************************************************)
(* The response is sent: it is the only frame on its way and the one the   *)
(* client waits for, unless the client's decoder is stuck already.         *)
(***************************************************************************)
LEMMA SendExchange ==
  ASSUME ExchangeInv, TypeInv', send_message, UNCHANGED clientVars
  PROVE  ExchangeInv'
PROOF
  <1>1. /\ srv_pc = "send" /\ srv_pc' = "check_move"
        /\ UNCHANGED <<c2s, cl_open, srv_open, delivered, cl_pc, cur, cur_id, known_routes,
                       meta, payload, response, has_errored, packets>>
    BY DEF send_message, ServerSends, ServerSendFails, wireVars, clientVars
  <1>2. /\ s2c \in Seq(ServerFrames) /\ response \in ReplyFrames /\ response \in ServerFrames
        /\ response.kind # "raw" /\ AnswerRight(response) /\ ~has_errored
    BY <1>1 DEF ExchangeInv, TypeInv, TypeOK, WireTypeOK, LocalsSet, ServerFrames,
                ReplyFrames, ReplyKinds, Answers, Lifetimes
  <1>3. \/ s2c' = Append(s2c, response) /\ link' = link /\ link = "up" /\ cl_open
        \/ s2c' = s2c /\ link' = "broken"
        \/ s2c' = s2c /\ link' = link /\ send_ok' = FALSE
    BY DEF send_message, ServerSends, ServerSendFails, wireVars
  <1>4. ASSUME link = "up", cl_open, ~Poisoned
        PROVE  /\ c2s = <<>> /\ s2c = <<>>
               /\ \/ cl_pc = "response_wait" /\ IsReply(response, "PacketMeta", cur)
                  \/ cl_pc = "route_wait" /\ IsReply(response, "HandlerMetaReq", cur)
    <2>1. InStep
      BY <1>1, <1>2, <1>4 DEF ExchangeInv, OneExchange, Working
    <2>2. cl_pc # "ended" /\ cl_pc \in ClientPc
      BY <1>4 DEF ExchangeInv, Lifetimes, TypeInv, TypeOK, ClientTypeOK
    <2>3. \/ cl_pc = "response_wait" /\ RequestSent
          \/ cl_pc = "route_wait" /\ NameSent
      BY <1>1, <2>1, <2>2 DEF InStep, ClientPc, NothingSent, MetaSent, Replied, ReplyLost, Idle
    <2> QED BY <1>1, <2>3 DEF RequestSent, NameSent, Idle
  <1>5. Targets'
    BY <1>1 DEF ExchangeInv, Targets, MetaRight
  <1>6. ResponseMatchesRequest' /\ RouteCacheAgrees' /\ HandlerGetsItsRequest'
    BY <1>1 DEF ExchangeInv, ResponseMatchesRequest, AnswersOwnRequest, RouteCacheAgrees,
                HandlerGetsItsRequest
  <1>7. Grammar'
    BY <1>1, <1>3 DEF ExchangeInv, Grammar, Working, Paired, AtServer, Expected, PayloadDue,
                      IsMeta, IsPayloadOf
  <1>8. CASE s2c' = Append(s2c, response) /\ link' = link /\ link = "up" /\ cl_open
    <2>1. /\ Len(s2c) \in Nat /\ Len(s2c') = Len(s2c) + 1
          /\ s2c' # <<>>
          /\ \A i \in 1..Len(s2c) : s2c'[i] = s2c[i]
          /\ s2c'[Len(s2c) + 1] = response
          /\ Head(s2c') = IF s2c = <<>> THEN response ELSE Head(s2c)
          /\ s2c = <<>> <=> Len(s2c) = 0
      BY <1>2, <1>8, AppendFacts
    <2>2. ~Poisoned' => ~Poisoned
      BY <2>1 DEF Poisoned
    <2>3. ~Poisoned => s2c = <<>> /\ Len(s2c') = 1 /\ s2c'[1] = response
      BY <1>4, <1>8, <2>1
    <2>4. Lifetimes'
      BY <1>1, <1>2, <2>1 DEF ExchangeInv, Lifetimes, Working
    <2>5. Answers'
      BY <1>1, <1>2, <2>1 DEF ExchangeInv, Answers, AnswerRight
    <2>6. OneExchange'
      <3> SUFFICES ASSUME ~Poisoned' PROVE InStep'
        BY DEF OneExchange
      <3>1. /\ c2s' = <<>> /\ srv_pc' = "check_move" /\ Len(s2c') = 1 /\ s2c'[1] = response
            /\ cur' = cur /\ cl_pc' = cl_pc
        BY <1>1, <1>4, <1>8, <2>2, <2>3
      <3>2. CASE cl_pc = "response_wait" /\ IsReply(response, "PacketMeta", cur)
        <4>1. Replied("PacketMeta")'
          BY <3>1, <3>2 DEF Replied, Idle, IsReply
        <4> QED BY <3>1, <3>2, <4>1 DEF InStep
      <3>3. CASE cl_pc = "route_wait" /\ IsReply(response, "HandlerMetaReq", cur)
        <4>1. Replied("HandlerMetaReq")'
          BY <3>1, <3>3 DEF Replied, Idle, IsReply
        <4> QED BY <3>1, <3>3, <4>1 DEF InStep
      <3> QED BY <1>4, <1>8, <2>2, <3>2, <3>3
    <2>7. HeadIsOwn'
      <3>1. CASE s2c = <<>>
        <4>1. ~Poisoned /\ Head(s2c') = response
          BY <2>1, <3>1 DEF Poisoned
        <4> QED BY <1>1, <1>4, <1>8, <4>1 DEF HeadIsOwn, IsReply
      <3>2. CASE s2c # <<>>
        BY <1>1, <2>1, <3>2 DEF ExchangeInv, HeadIsOwn, IsReply
      <3> QED BY <3>1, <3>2
    <2>8. RestIsRaw'
      <3>1. ~Poisoned' => Len(s2c') = 1
        BY <2>2, <2>3
      <3>2. Len(s2c') = 1 => 2..Len(s2c') = {}
        OBVIOUS
      <3> QED BY <3>1, <3>2 DEF RestIsRaw
    <2> QED BY <1>5, <1>6, <1>7, <2>4, <2>5, <2>6, <2>7, <2>8 DEF ExchangeInv
  <1>9. CASE s2c' = s2c
    <2>1. Lifetimes' /\ Answers' /\ HeadIsOwn' /\ RestIsRaw'
      BY <1>1, <1>9 DEF ExchangeInv, Lifetimes, Working, Answers, AnswerRight, HeadIsOwn,
                        RestIsRaw, IsReply, Poisoned
    <2>2. OneExchange'
      <3> SUFFICES ASSUME link' = "up", cl_open, ~Poisoned PROVE InStep'
        BY <1>1, <1>9 DEF OneExchange, Poisoned
      <3>1. c2s = <<>> /\ s2c = <<>> /\ cl_pc \in {"response_wait", "route_wait"}
        BY <1>3, <1>4, <1>9
      <3>2. send_ok' = FALSE
        <4>1. Len(Append(s2c, response)) = 1
          BY <1>2, <3>1, AppendFacts
        <4> QED BY <1>3, <1>9, <3>1, <4>1
      <3>3. ReplyLost'
        BY <1>1, <1>9, <3>1, <3>2 DEF ReplyLost
      <3> QED BY <1>1, <3>1, <3>3 DEF InStep
    <2> QED BY <1>5, <1>6, <1>7, <2>1, <2>2 DEF ExchangeInv
  <1> QED BY <1>3, <1>8, <1>9

\* After the send the loop reads on, or is left.
LEMMA CheckMoveExchange ==
  ASSUME ExchangeInv, TypeInv', CheckMove, UNCHANGED clientVars
  PROVE  ExchangeInv'
PROOF
  <1>1. /\ srv_pc = "check_move" /\ srv_pc' = AfterSend
        /\ UNCHANGED <<meta, payload, response, send_ok, has_errored, packets>>
    BY DEF CheckMove
  <1>2. ~has_errored /\ srv_open
    BY <1>1 DEF ExchangeInv, Lifetimes
  <1>3. CASE AfterSend \in {"accepted", "closed"}
    <2>1. UNCHANGED <<c2s, s2c, cl_open>> /\ srv_open' = (AfterSend # "closed")
      BY <1>2, <1>3 DEF CheckMove, ServerDrops, wireVars
    <2> QED BY <1>1, <1>2, <1>3, <2>1, LeaveExchange
  <1>4. CASE AfterSend = "recv_meta"
    <2>1. /\ srv_pc' = "recv_meta" /\ send_ok
          /\ UNCHANGED <<c2s, s2c, link, cl_open, srv_open, delivered, cl_pc, cur, cur_id,
                         known_routes>>
      BY <1>1, <1>4 DEF CheckMove, AfterSend, wireVars, clientVars
    <2> USE DEF ExchangeInv
    <2>2. Lifetimes' /\ Targets' /\ Answers'
      BY <1>1, <2>1 DEF Lifetimes, Working, Targets, MetaRight, Answers, AnswerRight
    <2>3. Grammar'
      BY <1>1, <2>1 DEF Grammar, Working, Paired, AtServer, Expected, PayloadDue, IsMeta,
                        IsPayloadOf
    <2>4. OneExchange'
      <3> SUFFICES ASSUME link = "up", cl_open, ~Poisoned PROVE InStep'
        BY <2>1 DEF OneExchange, Poisoned
      <3>1. InStep
        BY <1>1, <1>2 DEF OneExchange, Working
      <3> QED BY <1>1, <2>1, <3>1 DEF InStep, NothingSent, MetaSent, RequestSent, NameSent,
                 Replied, ReplyLost, Idle, IsMeta, IsPayloadOf, IsNameReq, IsReply
    <2>5. HeadIsOwn' /\ RestIsRaw'
      BY <2>1 DEF HeadIsOwn, RestIsRaw, IsReply, Poisoned
    <2>6. ResponseMatchesRequest' /\ RouteCacheAgrees' /\ HandlerGetsItsRequest'
      BY <1>1, <2>1 DEF ResponseMatchesRequest, AnswersOwnRequest, RouteCacheAgrees,
                        HandlerGetsItsRequest
    <2> QED BY <2>2, <2>3, <2>4, <2>5, <2>6
  <1> QED BY <1>3, <1>4 DEF AfterSend

\* An AcceptFn sends raw frames and reads what the client still sends.
LEMMA AcceptExchange ==
  ASSUME ExchangeInv, TypeInv', AcceptSends \/ AcceptReads, UNCHANGED clientVars
  PROVE  ExchangeInv'
PROOF
  <1>1. /\ srv_pc = "accepted" /\ srv_pc' = "accepted"
        /\ UNCHANGED <<cl_open, srv_open, delivered, cl_pc, cur, cur_id, known_routes,
                       meta, payload, response, has_errored, packets>>
    BY DEF AcceptSends, AcceptReads, ServerSends, ServerReads, serverVars, clientVars
  <1>2. /\ c2s \in Seq(ClientFrames) /\ s2c \in Seq(ServerFrames)
        /\ RawFrame \in ServerFrames /\ RawFrame.kind = "raw"
    BY DEF ExchangeInv, TypeInv, TypeOK, WireTypeOK, ServerFrames, RawFrame
  <1> USE DEF ExchangeInv
  <1>3. Lifetimes' /\ Grammar' /\ OneExchange'
    BY <1>1 DEF Lifetimes, Working, Grammar, OneExchange
  <1>4. Targets'
    <2>1. \A i \in 1..Len(c2s') : MetaRight(c2s'[i])
      <3>1. CASE c2s' = c2s
        BY <3>1 DEF Targets
      <3>2. CASE c2s # <<>> /\ c2s' = Tail(c2s)
        BY <1>2, <3>2, TailFacts DEF Targets
      <3> QED BY <3>1, <3>2 DEF AcceptSends, AcceptReads, ServerSends, ServerReads
    <2> QED BY <1>1, <2>1 DEF Targets, MetaRight
  <1>5. Answers' /\ HeadIsOwn' /\ RestIsRaw'
    <2>1. CASE s2c' = s2c
      BY <1>1, <2>1 DEF Answers, AnswerRight, HeadIsOwn, RestIsRaw, IsReply, Poisoned
    <2>2. CASE s2c' = Append(s2c, RawFrame)
      <3>1. /\ Len(s2c) \in Nat /\ Len(s2c') = Len(s2c) + 1
            /\ s2c' # <<>>
            /\ \A i \in 1..Len(s2c) : s2c'[i] = s2c[i]
            /\ s2c'[Len(s2c) + 1] = RawFrame
            /\ Head(s2c') = IF s2c = <<>> THEN RawFrame ELSE Head(s2c)
        BY <1>2, <2>2, AppendFacts
      <3>2. Answers'
        BY <1>1, <1>2, <3>1 DEF Answers, AnswerRight
      <3>3. HeadIsOwn'
        BY <1>1, <1>2, <3>1 DEF HeadIsOwn, IsReply
      <3>4. RestIsRaw'
        BY <1>2, <3>1 DEF RestIsRaw, Poisoned
      <3> QED BY <3>2, <3>3, <3>4
    <2> QED BY <2>1, <2>2 DEF AcceptSends, AcceptReads, ServerSends, ServerReads
  <1>6. ResponseMatchesRequest' /\ RouteCacheAgrees' /\ HandlerGetsItsRequest'
    BY <1>1 DEF ResponseMatchesRequest, AnswersOwnRequest, RouteCacheAgrees,
                HandlerGetsItsRequest
  <1> QED BY <1>3, <1>4, <1>5, <1>6

\* ExchangeInv is inductive.
LEMMA ExchangeInvariant == ASSUME Framable PROVE Spec => []ExchangeInv
PROOF
  <1>1. Init /\ TypeInv => ExchangeInv
    BY InitExchange
  <1>2. ExchangeInv /\ TypeInv' /\ [Next]_vars => ExchangeInv'
    <2> SUFFICES ASSUME ExchangeInv, TypeInv', [Next]_vars PROVE ExchangeInv'
      OBVIOUS
    <2>1. CASE ClientTask /\ UNCHANGED serverVars
      BY <2>1, RecvRequestExchange, LoopEndsExchange, SendsExchange, RouteAnswerExchange,
         ResponseExchange, ReadFailsExchange DEF ClientTask
    <2>2. CASE Callers /\ UNCHANGED serverVars
      <3>1. UNCHANGED <<wireVars, outcome, delivered, cl_pc, cur, cur_id, known_routes>>
        BY <2>2 DEF Callers, dispatch_request, Abandon, DropClient
      <3> QED BY <2>2, <3>1, UntouchedExchange DEF serverVars
    <2>3. CASE (ConnectionTask \/ UserTasks) /\ UNCHANGED clientVars
      <3>1. CASE DetachedTask
        BY <2>3, <3>1, UntouchedExchange DEF DetachedTask, clientVars
      <3>2. CASE ReceiveDisconnect \/ AcceptEnds
        BY <2>3, <3>2, LeaveExchange DEF ReceiveDisconnect, AcceptEnds, ServerDrops
      <3> QED BY <2>3, <3>1, <3>2, ReceiveMetaExchange, ReceivePayloadExchange,
                 ReceiveErrorExchange, ServeExchange, HandlerExchange, SendExchange,
                 CheckMoveExchange, AcceptExchange DEF ConnectionTask, UserTasks
    <2>4. CASE Break /\ UNCHANGED <<clientVars, serverVars>>
      BY <2>4, BreakExchange
    <2>5. CASE UNCHANGED vars
      BY <2>5, UntouchedExchange DEF vars, clientVars, serverVars
    <2> QED BY <2>1, <2>2, <2>3, <2>4, <2>5 DEF Next
  <1> QED BY <1>1, <1>2, TypeInvariant, PTL DEF Spec
-----------------------------------------------------------------------------
(***************************************************************************)
(* ResponseMatchesRequest: with framable data no consumer ever gets the    *)
(* answer to another request, also after refused, abandoned, oversize,     *)
(* failed and cut-off exchanges on the same connection.                    *)
(***************************************************************************)
THEOREM ResponsesMatch == ASSUME Framable PROVE Spec => []ResponseMatchesRequest
PROOF
  <1>1. ExchangeInv => ResponseMatchesRequest
    BY DEF ExchangeInv
  <1> QED BY <1>1, ExchangeInvariant, PTL

(***************************************************************************)
(* RouteCacheAgrees: with framable data every cached route is the one the  *)
(* server has committed under that name.                                   *)
(***************************************************************************)
THEOREM RouteCacheIsRight == ASSUME Framable PROVE Spec => []RouteCacheAgrees
PROOF
  <1>1. ExchangeInv => RouteCacheAgrees
    BY DEF ExchangeInv
  <1> QED BY <1>1, ExchangeInvariant, PTL

(***************************************************************************)
(* HandlerGetsItsRequest: with framable data a packet is routed to the     *)
(* handler its request named, with the payload of that request.            *)
(***************************************************************************)
THEOREM HandlersGetTheirRequests == ASSUME Framable PROVE Spec => []HandlerGetsItsRequest
PROOF
  <1>1. ExchangeInv => HandlerGetsItsRequest
    BY DEF ExchangeInv
  <1> QED BY <1>1, ExchangeInvariant, PTL
=============================================================================
