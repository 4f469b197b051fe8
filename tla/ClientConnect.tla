--------------------------- MODULE ClientConnect ---------------------------
(***************************************************************************)
(* The client: ClientConnect, its connection task and the TargetRouter the *)
(* task owns.  Callers queue requests on a bounded mpsc channel; the task  *)
(* takes one at a time, resolves its handler name, sends PacketMeta and    *)
(* payload, and hands the next frame it reads to the request's oneshot     *)
(* consumer.                                                               *)
(***************************************************************************)
EXTENDS Wire

CONSTANT max_request_in_time   \* capacity of the mpsc channel

\* tokio's mpsc::channel panics on a capacity of zero.
ASSUME CapacityAssumption == max_request_in_time \in Nat \ {0}

VARIABLES
    handle,        \* a ClientConnect (the channel's Sender) is still alive
    queue,         \* requests in the mpsc channel
    order,         \* history: every request, in the order the channel took it
    abandoned,     \* requests whose caller dropped its oneshot receiver
    outcome,       \* what process_request did with each request
    delivered,     \* the frame passed to each request's consumer
    cl_pc,         \* where the connection task stands
    cur,           \* the request being processed
    cur_id,        \* handler_id of the request being processed
    known_routes,  \* TargetRouter.known_routes
    cl_out,        \* post_process_traffic calls of the task's processor
    cl_in          \* pre_process_traffic calls of the task's processor

clientVars == <<handle, queue, order, abandoned, outcome, delivered,
                cl_pc, cur, cur_id, known_routes, cl_out, cl_in>>
callerVars == <<handle, queue, order, abandoned>>

\* What becomes of a request: no ClientError of process_request reaches its caller,
\* every one of them drops the request with its consumer ("failed").
Outcomes == {"none", "sent", "failed"}

ClientPc == {"recv", "route_send", "route_wait", "meta_send", "payload_send",
             "response_wait", "ended"}

ClientTypeOK ==
    /\ handle \in BOOLEAN
    /\ queue \in Seq(Requests)
    /\ order \in Seq(Requests)
    /\ abandoned \in SUBSET Requests
    /\ outcome \in [Requests -> Outcomes]
    /\ delivered \in [Requests -> ServerFrames \cup {None}]
    /\ cl_pc \in ClientPc
    /\ cur \in Requests \cup {None}
    /\ cur_id \in HandlerIds \cup {None}
    /\ known_routes \in [Names -> HandlerIds \cup {None}]
    /\ cl_out \in Nat
    /\ cl_in \in Nat

\* ClientConnect::new, once the transport is connected and set up.
ClientInit ==
    /\ handle = TRUE
    /\ queue = <<>>
    /\ order = <<>>
    /\ abandoned = {}
    /\ outcome = [r \in Requests |-> "none"]
    /\ delivered = [r \in Requests |-> None]
    /\ cl_pc = "recv"
    /\ cur = None
    /\ cur_id = None
    /\ known_routes = [n \in Names |-> None]
    /\ cl_out = 0
    /\ cl_in = 0

Dispatched == {order[i] : i \in 1..Len(order)}
-----------------------------------------------------------------------------
(***************************************************************************)
(* The callers.                                                            *)
(***************************************************************************)

\* Mutants: a channel that takes one request too many; one that is a stack.
ChannelOverfills(r) ==
    /\ Len(queue) <= max_request_in_time
    /\ queue' = Append(queue, r)
    /\ order' = Append(order, r)
ChannelPushesFront(r) ==
    /\ Len(queue) < max_request_in_time
    /\ queue' = <<r>> \o queue
    /\ order' = Append(order, r)

\* tx.send(request).await completes once the channel has room.
ChannelSend(r) ==
    /\ Len(queue) < max_request_in_time
    /\ queue' = Append(queue, r)
    /\ order' = Append(order, r)

\* Err(ChannelClosed) is never met: the task ends only after the ClientConnect was
\* dropped.  (A panic of a processor, codec or serializer in the task, which would
\* close the channel early, is not modelled.)
dispatch_request(r) ==
    /\ handle
    /\ r \notin Dispatched
    /\ ChannelSend(r)
    /\ UNCHANGED <<wireVars, handle, abandoned, outcome, delivered, cl_pc, cur,
                   cur_id, known_routes, cl_out, cl_in>>

\* The caller stops waiting (a timeout around rx.await) and drops its receiver.
Abandon(r) ==
    /\ r \in Dispatched
    /\ r \notin abandoned
    /\ outcome[r] = "none"
    /\ abandoned' = abandoned \cup {r}
    /\ UNCHANGED <<wireVars, handle, queue, order, outcome, delivered, cl_pc, cur,
                   cur_id, known_routes, cl_out, cl_in>>

\* The last ClientConnect is dropped and with it the channel's Sender.
DropClient ==
    /\ handle
    /\ handle' = FALSE
    /\ UNCHANGED <<wireVars, queue, order, abandoned, outcome, delivered, cl_pc,
                   cur, cur_id, known_routes, cl_out, cl_in>>
-----------------------------------------------------------------------------
(***************************************************************************)
(* The connection task.                                                    *)
(***************************************************************************)

\* Mutants: a request that failed is queued again; its consumer is not dropped.
RequestRetried ==
    /\ queue' = Append(queue, cur)
    /\ cl_pc' = "recv"
    /\ UNCHANGED <<handle, order, abandoned, outcome, delivered, cur, cur_id, known_routes>>
RequestForgotten ==
    /\ cl_pc' = "recv"
    /\ UNCHANGED <<callerVars, outcome, delivered, cur, cur_id, known_routes>>

\* process_request returned Err: the loop logs it and drops the consumer.
RequestFails ==
    /\ outcome' = [outcome EXCEPT ![cur] = "failed"]
    /\ cl_pc' = "recv"
    /\ UNCHANGED <<callerVars, delivered, cur, cur_id, known_routes>>

\* Mutant: the id of the previous request is kept.
StaleId(r) ==
    IF cur_id # None THEN cur_id
    ELSE IF handler_info[r].id # None THEN handler_info[r].id
    ELSE known_routes[handler_info[r].named]

\* HandlerInfo::id, else TargetRouter::lookup_route.
KnownId(r) ==
    IF handler_info[r].id # None THEN handler_info[r].id
    ELSE known_routes[handler_info[r].named]

\* rx.recv() yields a request; a handler id that is not known is asked for.
RecvRequest ==
    /\ cl_pc = "recv"
    /\ queue # <<>>
    /\ queue' = Tail(queue)
    /\ cur' = Head(queue)
    /\ cur_id' = KnownId(Head(queue))
    /\ cl_pc' = IF KnownId(Head(queue)) = None THEN "route_send" ELSE "meta_send"
    /\ UNCHANGED <<wireVars, handle, order, abandoned, outcome, delivered,
                   known_routes, cl_out, cl_in>>

\* rx.recv() yields None: every Sender is gone and the channel is drained.
ConnectionLoopEnds ==
    /\ cl_pc = "recv"
    /\ queue = <<>>
    /\ ~handle
    /\ cl_pc' = "ended"
    /\ ClientDrops
    /\ UNCHANGED <<callerVars, outcome, delivered, cur, cur_id, known_routes,
                   cl_out, cl_in>>

\* request_route_from_server: post-process and send HandlerMetaReq.
SendRouteRequest ==
    /\ cl_pc = "route_send"
    /\ cl_out' = cl_out + 1
    /\ cl_in' = cl_in
    /\ \/ /\ ClientSends(HandlerMetaReq(cur, cl_out + 1))
          /\ cl_pc' = "route_wait"
          /\ UNCHANGED <<callerVars, outcome, delivered, cur, cur_id, known_routes>>
       \/ ClientSendFails /\ RequestFails

\* Mutant: the answer is cached under every name.
CacheRouteForAll(name, id) == known_routes' = [n \in Names |-> id]

\* known_routes.insert
CacheRoute(name, id) == known_routes' = [known_routes EXCEPT ![name] = id]

\* request_route_from_server: the next frame must be a HandlerMetaAns, whose id
\* request_route then caches under the name.
RecvRouteAnswer ==
    /\ cl_pc = "route_wait"
    /\ ClientReads
    /\ cl_in' = cl_in + 1
    /\ cl_out' = cl_out
    /\ IF Head(s2c).kind = "HandlerMetaAns"
       THEN /\ CacheRoute(handler_info[cur].named, Head(s2c).id)
            /\ cur_id' = Head(s2c).id
            /\ cl_pc' = "meta_send"
            /\ UNCHANGED <<callerVars, outcome, delivered, cur>>
       ELSE RequestFails

\* PacketMeta and payload are both post-processed before either is sent.
SendMeta ==
    /\ cl_pc = "meta_send"
    /\ cl_out' = cl_out + 2
    /\ cl_in' = cl_in
    /\ \/ /\ ClientSends(PacketMeta(cur, cur_id, cl_out + 1))
          /\ cl_pc' = "payload_send"
          /\ UNCHANGED <<callerVars, outcome, delivered, cur, cur_id, known_routes>>
       \/ ClientSendFails /\ RequestFails

\* The payload is sent whether or not it is empty; the encoder refuses one
\* longer than its frame limit and writes nothing.
SendPayload ==
    /\ cl_pc = "payload_send"
    /\ UNCHANGED <<cl_out, cl_in>>
    /\ \/ /\ data[cur] # "over_client"
          /\ ClientSends(Payload(cur, cl_out))
          /\ cl_pc' = "response_wait"
          /\ UNCHANGED <<callerVars, outcome, delivered, cur, cur_id, known_routes>>
       \/ /\ data[cur] # "over_client"
          /\ ClientSendFails
          /\ RequestFails
       \/ /\ data[cur] = "over_client"
          /\ UNCHANGED wireVars
          /\ RequestFails

\* The next frame is the response; a consumer whose receiver is gone refuses it
\* and process_request ignores that.
RecvResponse ==
    /\ cl_pc = "response_wait"
    /\ ClientReads
    /\ cl_in' = cl_in + 1
    /\ outcome' = [outcome EXCEPT ![cur] = "sent"]
    /\ delivered' = IF cur \in abandoned THEN delivered
                    ELSE [delivered EXCEPT ![cur] = Head(s2c)]
    /\ cl_pc' = "recv"
    /\ UNCHANGED <<callerVars, cur, cur_id, known_routes, cl_out>>

\* wait_for_data returned an error; the task goes on with the next request.
ReadFails ==
    /\ cl_pc \in {"route_wait", "response_wait"}
    /\ ClientReadFails
    /\ RequestFails
    /\ UNCHANGED <<cl_out, cl_in>>

ClientTask ==
    \/ RecvRequest
    \/ ConnectionLoopEnds
    \/ SendRouteRequest
    \/ RecvRouteAnswer
    \/ SendMeta
    \/ SendPayload
    \/ RecvResponse
    \/ ReadFails

Callers ==
    \/ \E r \in Requests : dispatch_request(r) \/ Abandon(r)
    \/ DropClient
=============================================================================
