--------------------------- MODULE ExamplesProofs ---------------------------
(***************************************************************************)
(* Proofs about the example programs, for any number of rounds, any        *)
(* channel capacity and any window: they are a session with framable       *)
(* data, so what ExchangeProofs shows of sessions holds of them.           *)
(***************************************************************************)
EXTENDS Examples, ExchangeProofs

\* The requests, routes and names are the ones of the programs.
ExampleConstants ==
    /\ Requests = ExampleRequests
    /\ Names = ExampleNames
    /\ HandlerIds = ExampleIds
    /\ STypes = ExampleSType
    /\ handler_info = ExampleInfo
    /\ s_type = ExampleTags
    /\ data = ExampleData
    /\ routes = ExampleRoutes
    /\ routes_text_names = ExampleTextNames

\* main keeps its ClientConnect and its receivers, so the task outlives it.
MainHolds ==
    /\ handle
    /\ abandoned = {}
    /\ cl_pc # "ended"

MainRuns ==
    /\ sent \in 0..(2 * Rounds)
    /\ main_pc \in {"connect", "dispatch", "await", "panicked"}
    /\ main_pc = "await" => sent \in Requests

\* No handler keeps the Sender, and each runs with its own request's payload.
SenderReturned ==
    /\ srv_pc # "accepted"
    /\ srv_pc # "handler" => move_sig = "held"

HandlerReads ==
    srv_pc = "handler" =>
        meta.id = Intended(meta.req) /\ payload # None /\ payload.req = meta.req

\* Every reply is the one that was hoped for.
RightReply(f) ==
    \/ f.to = "PacketMeta" /\ f.kind = "Data"
    \/ f.to = "HandlerMetaReq" /\ f.kind = "HandlerMetaAns"

RepliesRight ==
    /\ \A i \in 1..Len(s2c) : RightReply(s2c[i])
    /\ srv_pc = "send" => RightReply(response)

DeliveriesRight ==
    \A r \in Requests :
        /\ outcome[r] = "sent" => delivered[r] # None
        /\ delivered[r] # None => delivered[r].kind = "Data" /\ delivered[r].req = r

\* Nothing but the network ends the connection.
OnlyNetworkFails ==
    link = "up" =>
        /\ srv_pc # "closed"
        /\ ~has_errored
        /\ srv_pc = "check_move" => send_ok
        /\ \A r \in Requests : outcome[r] # "failed"

ExampleInv ==
    /\ MainHolds
    /\ MainRuns
    /\ SenderReturned
    /\ HandlerReads
    /\ RepliesRight
    /\ DeliveriesRight
    /\ OnlyNetworkFails
-----------------------------------------------------------------------------
\* What the programs' constants come to.
LEMMA ExampleFacts ==
  ASSUME ExampleConstants
  PROVE  /\ Framable
         /\ \A r \in Requests :
               /\ data[r] = "bytes"
               /\ handler_info[r].named \in DOMAIN routes_text_names
               /\ Intended(r) = IF IsTest(r) THEN 0 ELSE 1
               /\ s_type[r] = IF IsTest(r) THEN "TestMessage" ELSE "ExpensiveResponse"
               /\ HasRoute(Intended(r), s_type[r])
PROOF
  <1>1. \A r \in Requests : data[r] = "bytes"
    BY DEF ExampleConstants, ExampleData
  <1>2. Framable
    BY <1>1 DEF Framable
  <1> SUFFICES ASSUME NEW r \in Requests
               PROVE  /\ handler_info[r].named \in DOMAIN routes_text_names
                      /\ Intended(r) = IF IsTest(r) THEN 0 ELSE 1
                      /\ s_type[r] = IF IsTest(r) THEN "TestMessage" ELSE "ExpensiveResponse"
                      /\ HasRoute(Intended(r), s_type[r])
    BY <1>1, <1>2
  <1>3. s_type[r] = IF IsTest(r) THEN "TestMessage" ELSE "ExpensiveResponse"
    BY DEF ExampleConstants, ExampleTags
  <1>4. /\ handler_info[r].id = None
        /\ handler_info[r].named = IF IsTest(r) THEN "TEST_HANDLER" ELSE "BIG_PAYLOAD"
    BY DEF ExampleConstants, ExampleInfo
  <1>5. /\ DOMAIN routes_text_names = {"TEST_HANDLER", "BIG_PAYLOAD"}
        /\ routes_text_names["TEST_HANDLER"] = 0 /\ routes_text_names["BIG_PAYLOAD"] = 1
    BY DEF ExampleConstants, ExampleTextNames, ExampleNames
  <1>6. Intended(r) = IF IsTest(r) THEN 0 ELSE 1
    BY <1>4, <1>5 DEF Intended
  <1>7. /\ DOMAIN routes = {0, 1}
        /\ "TestMessage" \in routes[0] /\ "ExpensiveResponse" \in routes[1]
    BY DEF ExampleConstants, ExampleRoutes, ExampleIds
  <1>8. HasRoute(Intended(r), s_type[r])
    BY <1>3, <1>6, <1>7 DEF HasRoute
  <1> QED BY <1>3, <1>4, <1>5, <1>6, <1>8

\* main counts its requests.
LEMMA SentBounded == ExampleSpec => [](sent \in 0..(2 * Rounds))
PROOF
  <1>1. ExampleInit => sent \in 0..(2 * Rounds)
    BY RoundsAssumption DEF ExampleInit
  <1>2. sent \in 0..(2 * Rounds) /\ [ExampleNext]_exampleVars => (sent \in 0..(2 * Rounds))'
    BY RoundsAssumption
    DEF ExampleNext, exampleVars, Connect, Main, MainDispatches, MainReceives,
        ConnectionLoop, ServerTask
  <1> QED BY <1>1, <1>2, PTL DEF ExampleSpec

\* Every step of the programs is one of a session, or none of its business.
LEMMA ExampleStepIsSession ==
  ASSUME ExampleConstants, sent \in 0..(2 * Rounds), [ExampleNext]_exampleVars
  PROVE  [Next]_vars
PROOF
  <1>1. CASE MainDispatches
    <2>1. sent < 2 * Rounds => sent + 1 \in Requests
      BY RoundsAssumption DEF ExampleConstants, ExampleRequests
    <2> QED BY <1>1, <2>1 DEF MainDispatches, Next, Callers
  <1>2. CASE MainReceives
    BY <1>2 DEF MainReceives
  <1>3. CASE ConnectionLoop
    BY <1>3 DEF ConnectionLoop, Next
  <1>4. CASE ServerTask
    BY <1>4 DEF ServerTask, Next
  <1>5. CASE Break /\ UNCHANGED <<clientVars, serverVars, sent, main_pc>>
    BY <1>5 DEF Next
  <1>6. CASE Connect \/ UNCHANGED exampleVars
    BY <1>6 DEF Connect, exampleVars
  <1> QED BY <1>1, <1>2, <1>3, <1>4, <1>5, <1>6 DEF ExampleNext, Main

(***************************************************************************)
(* The example programs are a session: main is one of the callers Session  *)
(* allows, the two handlers are handlers it allows, so every safety        *)
(* theorem about Spec holds of them.                                       *)
(***************************************************************************)
THEOREM ExamplesAreSessions == ASSUME ExampleConstants PROVE ExampleSpec => Spec
PROOF
  <1>1. ExampleInit => Init
    BY DEF ExampleInit
  <1>2. sent \in 0..(2 * Rounds) /\ [ExampleNext]_exampleVars => [Next]_vars
    BY ExampleStepIsSession
  <1> QED BY <1>1, <1>2, SentBounded, PTL DEF ExampleSpec, Spec
-----------------------------------------------------------------------------
(***************************************************************************)
(* The steps.                                                              *)
(***************************************************************************)

\* main dispatches to a task that runs, and is given the echo of its payload.
LEMMA MainKeeps ==
  ASSUME ExampleConstants, TypeInv, ExampleInv, Main
  PROVE  ExampleInv' /\ main_pc' # "panicked"
PROOF
  <1>1. CASE MainDispatches
    <2>1. /\ sent < 2 * Rounds /\ sent' = sent + 1 /\ main_pc' = "await"
          /\ UNCHANGED <<wireVars, handle, abandoned, outcome, delivered, cl_pc, serverVars>>
      BY <1>1 DEF MainDispatches, ExampleInv, MainHolds, dispatch_request
    <2>2. MainRuns'
      BY <2>1, RoundsAssumption DEF ExampleInv, MainRuns, ExampleConstants, ExampleRequests
    <2> QED BY <2>1, <2>2
            DEF ExampleInv, MainHolds, SenderReturned, HandlerReads, RepliesRight, RightReply,
                DeliveriesRight, OnlyNetworkFails, wireVars, serverVars
  <1>2. CASE MainReceives
    <2>1. sent \in Requests
      BY <1>2 DEF MainReceives, ExampleInv, MainRuns
    <2>2. ~IsTest(sent) /\ delivered[sent] # None => IsExpensiveResponse(delivered[sent])
      BY <2>1, ExampleFacts DEF ExampleInv, DeliveriesRight, IsExpensiveResponse
    <2>3. main_pc' = "dispatch" /\ UNCHANGED <<vars, sent>>
      BY <1>2, <2>2 DEF MainReceives
    <2> QED BY <2>3
            DEF ExampleInv, MainHolds, MainRuns, SenderReturned, HandlerReads, RepliesRight,
                RightReply, DeliveriesRight, OnlyNetworkFails, vars, wireVars, clientVars,
                serverVars
  <1> QED BY <1>1, <1>2 DEF Main

\* The network breaks.
LEMMA BreakKeeps ==
  ASSUME ExampleInv, link' = "broken",
         UNCHANGED <<s2c, clientVars, serverVars, sent, main_pc>>
  PROVE  ExampleInv'
PROOF
  BY DEF ExampleInv, MainHolds, MainRuns, SenderReturned, HandlerReads, RepliesRight,
         RightReply, DeliveriesRight, OnlyNetworkFails, clientVars, serverVars

(***************************************************************************)
(* What the client's task does to a request: nothing, give it the answer   *)
(* it waits for, or fail it on a broken connection.                        *)
(***************************************************************************)
LEMMA LoopSteps ==
  ASSUME ExampleConstants, ExchangeInv, ExampleInv, ClientTask, UNCHANGED serverVars
  PROVE  /\ cl_pc' # "ended"
         /\ s2c' \in {s2c, Tail(s2c), <<>>} /\ (s2c = <<>> => s2c' = <<>>)
         /\ link' = "up" => link = "up"
         /\ UNCHANGED <<handle, abandoned>>
         /\ \/ UNCHANGED <<outcome, delivered>>
            \/ /\ link' = "broken" /\ cur \in Requests
               /\ outcome' = [outcome EXCEPT ![cur] = "failed"] /\ UNCHANGED delivered
            \/ /\ cur \in Requests /\ s2c # <<>>
               /\ IsReply(Head(s2c), "PacketMeta", cur)
               /\ outcome' = [outcome EXCEPT ![cur] = "sent"]
               /\ delivered' = [delivered EXCEPT ![cur] = Head(s2c)]
PROOF
  <1>1. /\ TypeInv /\ Lifetimes /\ HeadIsOwn
        /\ MainHolds /\ RepliesRight /\ OnlyNetworkFails
    BY DEF ExchangeInv, ExampleInv
  <1>2. s2c # <<>> => RightReply(Head(s2c)) /\ Head(s2c).kind \in {"Data", "HandlerMetaAns"}
    <2>1. s2c # <<>> => Len(s2c) \in Nat /\ Len(s2c) >= 1 /\ Head(s2c) = s2c[1]
      BY <1>1, TailFacts DEF TypeInv, TypeOK, WireTypeOK
    <2> QED BY <1>1, <2>1 DEF RepliesRight, RightReply
  <1>3. link = "up" => srv_open
    BY <1>1 DEF Lifetimes, OnlyNetworkFails
  <1>4. link \in {"up", "broken"}
    BY <1>1 DEF TypeInv, TypeOK, WireTypeOK
  <1>5. cl_pc \notin {"recv", "ended"} => cur \in Requests
    BY <1>1 DEF TypeInv, LocalsSet
  <1>6. CASE RecvRequest
    BY <1>6 DEF RecvRequest, wireVars
  <1>7. CASE ConnectionLoopEnds
    BY <1>1, <1>7 DEF ConnectionLoopEnds, MainHolds
  <1>8. CASE SendRouteRequest
    BY <1>4, <1>5, <1>8 DEF SendRouteRequest, ClientSends, ClientSendFails, RequestFails,
                            callerVars
  <1>9. CASE RecvRouteAnswer
    <2>1. s2c # <<>> /\ cl_pc = "route_wait"
      BY <1>9 DEF RecvRouteAnswer, ClientReads
    <2>2. Head(s2c).kind = "HandlerMetaAns"
      BY <1>1, <1>2, <2>1 DEF HeadIsOwn, IsReply, RightReply
    <2> QED BY <1>9, <2>1, <2>2 DEF RecvRouteAnswer, ClientReads, callerVars
  <1>10. CASE SendMeta
    BY <1>4, <1>5, <1>10 DEF SendMeta, ClientSends, ClientSendFails, RequestFails, callerVars
  <1>11. CASE SendPayload
    <2>1. data[cur] # "over_client"
      BY <1>5, <1>11, ExampleFacts DEF SendPayload
    <2> QED BY <1>4, <1>5, <1>11, <2>1
            DEF SendPayload, ClientSends, ClientSendFails, RequestFails, callerVars
  <1>12. CASE RecvResponse
    <2>1. s2c # <<>> /\ cl_pc = "response_wait" /\ cur \notin abandoned
      BY <1>1, <1>12 DEF RecvResponse, ClientReads, MainHolds
    <2>2. IsReply(Head(s2c), "PacketMeta", cur)
      BY <1>1, <1>2, <2>1 DEF HeadIsOwn
    <2> QED BY <1>5, <1>12, <2>1, <2>2 DEF RecvResponse, ClientReads, callerVars
  <1>13. CASE ReadFails
    <2>1. link = "broken" /\ link' = link /\ s2c' \in {s2c, <<>>}
      BY <1>2, <1>3, <1>4, <1>13 DEF ReadFails, ClientReadFails, wireVars
    <2> QED BY <1>5, <1>13, <2>1 DEF ReadFails, RequestFails, callerVars
  <1> QED BY <1>6, <1>7, <1>8, <1>9, <1>10, <1>11, <1>12, <1>13 DEF ClientTask

LEMMA LoopKeeps ==
  ASSUME ExampleConstants, ExchangeInv, ExampleInv, ConnectionLoop
  PROVE  ExampleInv'
PROOF
  <1>1. TypeInv /\ ClientTask /\ UNCHANGED <<serverVars, sent, main_pc>>
    BY DEF ConnectionLoop, ExchangeInv
  <1>2. /\ cl_pc' # "ended"
        /\ s2c' \in {s2c, Tail(s2c), <<>>} /\ (s2c = <<>> => s2c' = <<>>)
        /\ link' = "up" => link = "up"
        /\ UNCHANGED <<handle, abandoned>>
    BY <1>1, LoopSteps
  <1>3. MainHolds' /\ MainRuns' /\ SenderReturned' /\ HandlerReads'
    BY <1>1, <1>2 DEF ExampleInv, MainHolds, MainRuns, SenderReturned, HandlerReads, serverVars
  <1>4. RepliesRight'
    <2>1. srv_pc' = "send" => RightReply(response')
      BY <1>1 DEF ExampleInv, RepliesRight, serverVars, RightReply
    <2>2. CASE s2c' = s2c
      BY <2>1, <2>2 DEF ExampleInv, RepliesRight, RightReply
    <2>3. CASE s2c' = <<>>
      <3>1. \A i \in 1..Len(s2c') : FALSE
        BY <2>3
      <3> QED BY <2>1, <3>1 DEF RepliesRight, RightReply
    <2>4. CASE s2c' = Tail(s2c) /\ s2c # <<>>
      <3>1. s2c \in Seq(ServerFrames)
        BY <1>1 DEF TypeInv, TypeOK, WireTypeOK
      <3>2. \A i \in 1..Len(Tail(s2c)) : Tail(s2c)[i] = s2c[i + 1] /\ i + 1 \in 1..Len(s2c)
        BY <2>4, <3>1, TailFacts
      <3> QED BY <2>1, <2>4, <3>2 DEF ExampleInv, RepliesRight, RightReply
    <2> QED BY <1>2, <2>2, <2>3, <2>4
  <1>5. /\ outcome \in [Requests -> Outcomes]
        /\ delivered \in [Requests -> ServerFrames \cup {None}]
        /\ s2c # <<>> => Head(s2c) # None /\ RightReply(Head(s2c))
    <2>1. s2c \in Seq(ServerFrames)
      BY <1>1 DEF TypeInv, TypeOK, WireTypeOK
    <2>2. s2c # <<>> => Len(s2c) \in Nat /\ Len(s2c) >= 1 /\ Head(s2c) = s2c[1]
      BY <2>1, TailFacts
    <2>3. s2c # <<>> => Head(s2c) \in ServerFrames
      BY <2>1, <2>2
    <2> QED BY <1>1, <2>2, <2>3, NoneAssumption
            DEF TypeInv, TypeOK, ClientTypeOK, ExampleInv, RepliesRight
  <1>6. CASE UNCHANGED <<outcome, delivered>>
    BY <1>1, <1>2, <1>3, <1>4, <1>6
    DEF ExampleInv, DeliveriesRight, OnlyNetworkFails, serverVars
  <1>7. CASE /\ link' = "broken" /\ cur \in Requests
             /\ outcome' = [outcome EXCEPT ![cur] = "failed"] /\ UNCHANGED delivered
    <2>1. DeliveriesRight'
      BY <1>5, <1>7 DEF ExampleInv, DeliveriesRight
    <2>2. OnlyNetworkFails'
      BY <1>7 DEF OnlyNetworkFails
    <2> QED BY <1>3, <1>4, <2>1, <2>2 DEF ExampleInv
  <1>8. CASE /\ cur \in Requests /\ s2c # <<>>
             /\ IsReply(Head(s2c), "PacketMeta", cur)
             /\ outcome' = [outcome EXCEPT ![cur] = "sent"]
             /\ delivered' = [delivered EXCEPT ![cur] = Head(s2c)]
    <2>1. Head(s2c) # None /\ Head(s2c).kind = "Data" /\ Head(s2c).req = cur
      BY <1>5, <1>8 DEF IsReply, RightReply
    <2>2. \A r \in Requests :
             /\ outcome'[r] = IF r = cur THEN "sent" ELSE outcome[r]
             /\ delivered'[r] = IF r = cur THEN Head(s2c) ELSE delivered[r]
      BY <1>5, <1>8
    <2>3. DeliveriesRight'
      BY <2>1, <2>2 DEF ExampleInv, DeliveriesRight
    <2>4. OnlyNetworkFails'
      BY <1>1, <1>2, <2>2 DEF ExampleInv, OnlyNetworkFails, serverVars
    <2> QED BY <1>3, <1>4, <2>3, <2>4 DEF ExampleInv
  <1> QED BY <1>1, <1>6, <1>7, <1>8, LoopSteps
\* The server's task: the handlers answer with data and give the Sender back, and
\* only the network makes it leave the loop.
LEMMA ServerKeeps ==
  ASSUME ExampleConstants, ExchangeInv, TypeInv', ExampleInv, ServerTask
  PROVE  ExampleInv'
PROOF
  <1>1. /\ TypeInv /\ Lifetimes /\ Targets
        /\ MainHolds /\ MainRuns /\ SenderReturned /\ HandlerReads /\ RepliesRight
        /\ DeliveriesRight /\ OnlyNetworkFails
    BY DEF ExchangeInv, ExampleInv
  <1>2. /\ ConnectionTask
        /\ srv_pc = "handler" => IF meta.id = 0 THEN test_handler ELSE handler_with_big_payload
        /\ UNCHANGED <<clientVars, sent, main_pc>>
    BY DEF ServerTask
  <1>3. MainHolds' /\ MainRuns' /\ DeliveriesRight'
    BY <1>1, <1>2 DEF MainHolds, MainRuns, DeliveriesRight, clientVars
  <1>4. cl_open /\ link \in {"up", "broken"} /\ (link = "up" => srv_open)
    BY <1>1 DEF Lifetimes, MainHolds, OnlyNetworkFails, TypeInv, TypeOK, WireTypeOK
  <1>5. \A f \in ClientFrames : ~DecodeFails(f)
    BY ExampleFacts DEF DecodeFails, ClientFrames
  <1> SUFFICES SenderReturned' /\ HandlerReads' /\ RepliesRight' /\ OnlyNetworkFails'
    BY <1>3 DEF ExampleInv
  <1>6. CASE ReceiveMeta \/ ReceivePayload
    <2>1. /\ srv_pc \in {"recv_meta", "recv_payload"}
          /\ srv_pc' \in {"recv_payload", "serve"}
          /\ UNCHANGED <<s2c, link, response, send_ok, move_sig, has_errored>>
      BY <1>6 DEF ReceiveMeta, ReceivePayload, receive_message, ServerReads
    <2> QED BY <1>1, <1>2, <2>1
            DEF SenderReturned, HandlerReads, RepliesRight, RightReply, OnlyNetworkFails,
                clientVars
  <1>7. CASE ReceiveError
    <2>1. c2s # <<>> => ~DecodeFails(Head(c2s))
      <3>1. c2s # <<>> => Head(c2s) \in ClientFrames
        BY <1>1 DEF TypeInv, TypeOK, WireTypeOK
      <3> QED BY <1>5, <3>1
    <2>2. /\ link = "broken" /\ srv_pc \in {"recv_meta", "recv_payload"}
          /\ srv_pc' = "recv_meta"
          /\ UNCHANGED <<s2c, link, move_sig>>
      BY <1>7, <2>1 DEF ReceiveError, wireVars
    <2> QED BY <1>1, <2>2 DEF SenderReturned, HandlerReads, RepliesRight, RightReply,
                              OnlyNetworkFails
  <1>8. CASE ReceiveDisconnect
    <2>1. /\ link = "broken" /\ link' = "broken"
          /\ srv_pc \in {"recv_meta", "recv_payload"} /\ srv_pc' = "closed"
          /\ UNCHANGED <<s2c, move_sig>>
      BY <1>1, <1>4, <1>8 DEF ReceiveDisconnect, ServerDrops, OnlyNetworkFails
    <2> QED BY <1>1, <2>1 DEF SenderReturned, HandlerReads, RepliesRight, RightReply,
                              OnlyNetworkFails
  <1>9. CASE serve_packet
    <2>1. /\ srv_pc = "serve" /\ meta \in ClientFrames /\ meta.req \in Requests
          /\ meta.kind \in {"PacketMeta", "HandlerMetaReq"}
          /\ UNCHANGED <<wireVars, meta, payload, send_ok, has_errored>>
      BY <1>1, <1>9 DEF serve_packet, TypeInv, LocalsSet, Targets, ClientFrames
    <2>2. CASE meta.kind = "PacketMeta"
      <3>1. /\ meta.id = Intended(meta.req) /\ payload # None /\ payload.req = meta.req
        BY <1>1, <2>1, <2>2 DEF Targets, MetaRight
      <3>2. HasRoute(meta.id, s_type[meta.req])
        BY <2>1, <3>1, ExampleFacts
      <3>3. srv_pc' = "handler"
        BY <1>9, <2>2, <3>2 DEF serve_packet, ServePacketMeta, CallHandler, NoRoute,
                                AnswerName, Malformed
      <3> QED BY <1>1, <1>2, <2>1, <3>1, <3>3
              DEF SenderReturned, HandlerReads, RepliesRight, RightReply, OnlyNetworkFails,
                  wireVars, clientVars, Intended
    <2>3. CASE meta.kind = "HandlerMetaReq"
      <3>1. handler_info[meta.req].named \in DOMAIN routes_text_names
        BY <2>1, ExampleFacts
      <3>2. \E h : Respond("HandlerMetaAns", h)
        BY <1>9, <2>3, <3>1 DEF serve_packet, ServePacketMeta, AnswerName, Malformed
      <3>3. srv_pc' = "send" /\ RightReply(response') /\ UNCHANGED move_sig
        BY <2>3, <3>2 DEF Respond, Reply, RightReply
      <3> QED BY <1>1, <1>2, <2>1, <3>3
              DEF SenderReturned, HandlerReads, RepliesRight, RightReply, OnlyNetworkFails,
                  wireVars, clientVars
    <2> QED BY <2>1, <2>2, <2>3
  <1>10. CASE HandlerReturns \/ HandlerPanics
    <2>1. /\ srv_pc = "handler" /\ srv_pc' = "send" /\ UNCHANGED <<wireVars, has_errored>>
          /\ response'.to = meta.kind
      BY <1>10 DEF HandlerReturns, HandlerPanics, Reply
    <2>2. /\ meta \in ClientFrames /\ meta.req \in Requests /\ meta.kind = "PacketMeta"
          /\ meta.id = Intended(meta.req) /\ payload # None /\ payload.req = meta.req
      BY <1>1, <2>1 DEF TypeInv, LocalsSet, ClientFrames, Targets, HandlerReads
    <2>3. Returns("Data")
      <3>1. CASE IsTest(meta.req)
        <4>1. meta.id = 0 /\ s_type[meta.req] = "TestMessage"
          BY <2>2, <3>1, ExampleFacts
        <4> QED BY <1>2, <2>1, <2>2, <4>1 DEF test_handler, Unwrapped, IsPayload
      <3>2. CASE ~IsTest(meta.req)
        <4>1. meta.id = 1 /\ s_type[meta.req] = "ExpensiveResponse"
          BY <2>2, <3>2, ExampleFacts
        <4> QED BY <1>2, <2>1, <4>1 DEF handler_with_big_payload
      <3> QED BY <3>1, <3>2
    <2>4. RightReply(response') /\ move_sig' = "held"
      BY <2>1, <2>2, <2>3 DEF RightReply, Returns
    <2> QED BY <1>1, <1>2, <2>1, <2>4
            DEF SenderReturned, HandlerReads, RepliesRight, RightReply, OnlyNetworkFails,
                wireVars, clientVars
  <1>11. CASE send_message
    <2>1. /\ srv_pc = "send" /\ srv_pc' = "check_move" /\ RightReply(response)
          /\ UNCHANGED <<response, move_sig, has_errored>>
      BY <1>1, <1>11 DEF send_message, RepliesRight
    <2>2. \/ send_ok' = TRUE /\ ServerSends(response)
          \/ link' = "broken" /\ s2c' = s2c
      BY <1>11, <2>1 DEF send_message, ServerSendFails, RightReply
    <2>3. /\ link' = "up" => link = "up" /\ send_ok'
          /\ s2c' \in {s2c, Append(s2c, response)}
      BY <1>4, <2>2 DEF ServerSends
    <2>4. \A i \in 1..Len(s2c') : RightReply(s2c'[i])
      <3>1. s2c \in Seq(ServerFrames) /\ response \in ServerFrames
        BY <1>1, <2>1 DEF TypeInv, TypeOK, WireTypeOK, LocalsSet, ServerFrames
      <3>2. \A i \in 1..Len(Append(s2c, response)) :
                Append(s2c, response)[i] = response \/
                    (i \in 1..Len(s2c) /\ Append(s2c, response)[i] = s2c[i])
        BY <3>1, AppendFacts
      <3> QED BY <1>1, <2>1, <2>3, <3>2 DEF RepliesRight
    <2> QED BY <1>1, <1>2, <2>1, <2>3, <2>4
            DEF SenderReturned, HandlerReads, RepliesRight, RightReply, OnlyNetworkFails,
                clientVars
  <1>12. CASE CheckMove
    <2>1. srv_pc = "check_move" /\ move_sig = "held" /\ srv_pc' = AfterSend
      BY <1>1, <1>12 DEF CheckMove, SenderReturned
    <2>2. /\ srv_pc' \in {"recv_meta", "closed"}
          /\ link = "up" => srv_pc' = "recv_meta"
          /\ link' = "up" => link = "up"
          /\ UNCHANGED <<s2c, move_sig, has_errored>>
      BY <1>1, <1>4, <1>12, <2>1 DEF CheckMove, AfterSend, ServerDrops, OnlyNetworkFails,
                                     wireVars
    <2> QED BY <1>1, <1>2, <2>1, <2>2
            DEF SenderReturned, HandlerReads, RepliesRight, RightReply, OnlyNetworkFails,
                clientVars
  <1>13. CASE AcceptEnds
    BY <1>1, <1>13 DEF AcceptEnds, SenderReturned
  <1> QED BY <1>2, <1>6, <1>7, <1>8, <1>9, <1>10, <1>11, <1>12, <1>13 DEF ConnectionTask
-----------------------------------------------------------------------------
\* ExampleInv is inductive, on top of what holds of every session.
LEMMA ExampleInvariant ==
  ASSUME ExampleConstants PROVE ExampleSpec => [](ExampleInv /\ ExchangeInv)
PROOF
  <1>1. ExampleInit => ExampleInv
    <2> SUFFICES ASSUME ExampleInit PROVE ExampleInv
      OBVIOUS
    <2> USE DEF ExampleInit, Init, WireInit, ClientInit, ServerInit
    <2>1. MainHolds /\ MainRuns /\ SenderReturned /\ HandlerReads
      BY RoundsAssumption DEF MainHolds, MainRuns, SenderReturned, HandlerReads
    <2>2. RepliesRight
      <3>1. \A i \in 1..Len(s2c) : FALSE
        OBVIOUS
      <3> QED BY <3>1 DEF RepliesRight
    <2>3. DeliveriesRight /\ OnlyNetworkFails
      BY DEF DeliveriesRight, OnlyNetworkFails
    <2> QED BY <2>1, <2>2, <2>3 DEF ExampleInv
  <1>2. ExchangeInv => TypeInv
    BY DEF ExchangeInv
  <1>3. ExampleInv /\ ExchangeInv /\ TypeInv' /\ [ExampleNext]_exampleVars => ExampleInv'
    <2> SUFFICES ASSUME ExampleInv, ExchangeInv, TypeInv', [ExampleNext]_exampleVars
                 PROVE  ExampleInv'
      OBVIOUS
    <2>1. CASE Main
      BY <1>2, <2>1, MainKeeps
    <2>2. CASE ConnectionLoop
      BY <2>2, LoopKeeps
    <2>3. CASE ServerTask
      BY <2>3, ServerKeeps
    <2>4. CASE Break /\ UNCHANGED <<clientVars, serverVars, sent, main_pc>>
      BY <2>4, BreakKeeps DEF Break
    <2>5. CASE Connect \/ UNCHANGED exampleVars
      <3>1. UNCHANGED <<vars, sent>> /\ MainRuns'
        BY <2>5 DEF ExampleInv, MainRuns, Connect, exampleVars
      <3> QED BY <3>1
              DEF ExampleInv, MainHolds, SenderReturned, HandlerReads, RepliesRight,
                  RightReply, DeliveriesRight, OnlyNetworkFails, vars, wireVars, clientVars,
                  serverVars
    <2> QED BY <2>1, <2>2, <2>3, <2>4, <2>5 DEF ExampleNext
  <1>4. Spec => []ExchangeInv
    BY ExampleFacts, ExchangeInvariant
  <1> QED BY <1>1, <1>2, <1>3, <1>4, ExamplesAreSessions, PTL DEF ExampleSpec

(***************************************************************************)
(* PanicsOnlyConnecting: once client_ex's main has its connection it never *)
(* panics, however many rounds it runs and whenever the connection breaks; *)
(* the only panic left is that of the expect after ClientConnect::new.     *)
(***************************************************************************)
THEOREM MainSurvives == ASSUME ExampleConstants PROVE ExampleSpec => PanicsOnlyConnecting
PROOF
  <1> DEFINE Quiet == main_pc' = "panicked" => main_pc \in {"connect", "panicked"}
  <1>1. ExchangeInv => TypeInv
    BY DEF ExchangeInv
  <1>2. ExampleInv /\ ExchangeInv /\ [ExampleNext]_exampleVars => [Quiet]_exampleVars
    <2> SUFFICES ASSUME ExampleInv, ExchangeInv, ExampleNext PROVE Quiet
      OBVIOUS
    <2>1. CASE Main
      BY <1>1, <2>1, MainKeeps
    <2>2. CASE Connect
      BY <2>2 DEF Connect
    <2>3. CASE UNCHANGED main_pc
      BY <2>3
    <2> QED BY <2>1, <2>2, <2>3 DEF ExampleNext, ConnectionLoop, ServerTask
  <1> QED BY <1>2, ExampleInvariant, PTL DEF ExampleSpec, PanicsOnlyConnecting

(***************************************************************************)
(* ServedWhileConnected: as long as the network holds, server_ex keeps the *)
(* connection and answers every request with data.                         *)
(***************************************************************************)
THEOREM ServedUntilBroken == ASSUME ExampleConstants PROVE ExampleSpec => []ServedWhileConnected
PROOF
  <1>1. ExampleInv /\ ExchangeInv => ServedWhileConnected
    <2> SUFFICES ASSUME ExampleInv, ExchangeInv, link = "up"
                 PROVE  /\ srv_open
                        /\ \A r \in Requests : outcome[r] # "none" =>
                               delivered[r] # None /\ delivered[r].kind = "Data"
      BY DEF ServedWhileConnected
    <2>1. srv_open
      BY DEF ExampleInv, OnlyNetworkFails, ExchangeInv, Lifetimes
    <2>2. \A r \in Requests : outcome[r] \in {"none", "sent", "failed"}
      BY DEF ExchangeInv, TypeInv, TypeOK, ClientTypeOK, Outcomes
    <2> QED BY <2>1, <2>2 DEF ExampleInv, OnlyNetworkFails, DeliveriesRight
  <1> QED BY <1>1, ExampleInvariant, PTL
=============================================================================
