------------------------------- MODULE Session -------------------------------
(***************************************************************************)
(* One client connection end to end: the callers, the client's connection  *)
(* task, the two streams of frames, the server's connection task and the   *)
(* user code that runs in it.                                              *)
(***************************************************************************)
EXTENDS ClientConnect, ServerConnection, FiniteSets

vars == <<wireVars, clientVars, serverVars>>

TypeOK == WireTypeOK /\ ClientTypeOK /\ ServerTypeOK

Init == WireInit /\ ClientInit /\ ServerInit

Next ==
    \/ (ClientTask \/ Callers) /\ UNCHANGED serverVars
    \/ (ConnectionTask \/ UserTasks) /\ UNCHANGED clientVars
    \/ Break /\ UNCHANGED <<clientVars, serverVars>>

(***************************************************************************)
(* tokio polls a task that can make progress, so both connection tasks are *)
(* weakly fair; a handler and an AcceptFn are taken to end.  Nothing makes *)
(* a caller dispatch or the network break.                                 *)
(***************************************************************************)
Fairness ==
    /\ WF_vars(ClientTask /\ UNCHANGED serverVars)
    /\ WF_vars(ConnectionTask /\ UNCHANGED clientVars)

Spec == Init /\ [][Next]_vars
FairSpec == Spec /\ Fairness
-----------------------------------------------------------------------------
InFlight == {r \in Dispatched : outcome[r] = "none"}

\* The handler a request is meant for; None when its name is not registered.
Intended(r) ==
    LET info == handler_info[r]
    IN  IF info.id # None THEN info.id
        ELSE IF info.named \in DOMAIN routes_text_names
             THEN routes_text_names[info.named] ELSE None

(***************************************************************************)
(* The frame a consumer receives answers that consumer's own PacketMeta,   *)
(* however requests were queued, abandoned, refused or cut off before it;  *)
(* only a frame of an AcceptFn that took the stream over may arrive        *)
(* instead.                                                                *)
(***************************************************************************)
AnswersOwnRequest(r, f) == f.kind = "raw" \/ (f.to = "PacketMeta" /\ f.req = r)

ResponseMatchesRequest ==
    \A r \in Requests : delivered[r] # None => AnswersOwnRequest(r, delivered[r])

(***************************************************************************)
(* Every id the client's TargetRouter has cached is the id under which the *)
(* server's router holds that name.                                        *)
(***************************************************************************)
RouteCacheAgrees ==
    \A n \in Names : known_routes[n] # None =>
        n \in DOMAIN routes_text_names /\ known_routes[n] = routes_text_names[n]

(***************************************************************************)
(* A PacketMeta is routed to the handler its request was meant for, with   *)
(* the payload of that same request.                                       *)
(***************************************************************************)
HandlerGetsItsRequest ==
    \A i \in 1..Len(packets) :
        /\ packets[i].id = Intended(packets[i].req)
        /\ packets[i].payload = IF has_payload(packets[i].req) THEN packets[i].req ELSE None

(***************************************************************************)
(* No request runs its handler twice, whatever fails on the way.           *)
(***************************************************************************)
AtMostOnce ==
    \A i, j \in 1..Len(packets) : packets[i].req = packets[j].req => i = j

(***************************************************************************)
(* The client task finishes requests in the order the channel took them.   *)
(***************************************************************************)
FifoResolution ==
    \A i, j \in 1..Len(order) :
        i < j /\ outcome[order[j]] # "none" => outcome[order[i]] # "none"

(***************************************************************************)
(* Dispatched and unfinished requests: a full channel and the one request  *)
(* the task has taken out of it.                                           *)
(***************************************************************************)
InFlightBound == Cardinality(InFlight) <= max_request_in_time + 1

(***************************************************************************)
(* The traffic processors of the two ends stay in step: the n-th frame one *)
(* end pre-processes is the n-th frame the other end post-processed, which *)
(* a processor with state (a counter, a key stream) depends on.            *)
(***************************************************************************)
TrafficInStep ==
    /\ srv_pc \notin {"accepted", "closed"} =>
           \A i \in 1..Len(c2s) : c2s[i].seq = srv_in + i
    /\ \A i \in 1..Len(s2c) : s2c[i].kind # "raw" => s2c[i].seq = cl_in + i

(***************************************************************************)
(* Whenever the server reads or routes a frame it owns the move-signal     *)
(* Sender, so every handler it calls can ask for the stream.               *)
(***************************************************************************)
MoveSignalKept ==
    srv_pc \in {"recv_meta", "recv_payload", "serve"} => move_sig = "held"

(***************************************************************************)
(* Every dispatched request ends: its consumer gets a frame or is dropped, *)
(* also after the caller dropped the ClientConnect, the connection broke,  *)
(* the server closed it or a handler took the stream over.  Handlers and   *)
(* AcceptFns are taken to end, by returning or by a panic; beyond them     *)
(* only one thing can keep a request: both tasks wait in a send, with the  *)
(* buffers of both directions full for good.                               *)
(***************************************************************************)
BothFull == Len(c2s) = Window /\ Len(s2c) = Window

EveryRequestEnds ==
    \A r \in Requests : (r \in InFlight) ~> (outcome[r] # "none" \/ []BothFull)

(***************************************************************************)
(* The session implements RpcService: the caller-visible life of every     *)
(* request is one the abstract service allows.                             *)
(***************************************************************************)
Status(r) ==
    CASE outcome[r] = "sent" -> "answered"
      [] outcome[r] = "failed" -> "failed"
      [] outcome[r] = "none" -> IF r \in Dispatched THEN "pending" ELSE "idle"

Rpc == INSTANCE RpcService WITH
           status <- [r \in Requests |-> Status(r)],
           served <- {packets[i].req : i \in 1..Len(packets)},
           takenOver <- (move_sig = "sent")

ImplementsRpc == Rpc!Spec
-----------------------------------------------------------------------------
(***************************************************************************)
(* Documentation of the repository, as properties.                         *)
(***************************************************************************)

\* client/mod.rs: a ClientRequest wraps "the channel that receives the server
\* response".  So something always becomes of a dispatched request.
DocEveryRequestEnds ==
    \A r \in Requests : (r \in InFlight) ~> (outcome[r] # "none")

\* README.md: the last argument of ClientConnect::new is "max in-flight requests".
DocMaxInFlight == Cardinality(InFlight) <= max_request_in_time

\* handler.rs on the Sender in ServeFuture: "If returned, it signals the server to
\* hand off the underlying raw stream".  So the loop does not read on after a
\* handler's response with the Sender back in its hands.
DocReturnedSenderHandsOff ==
    srv_pc = "recv_meta" /\ move_sig = "held" /\ response # None =>
        response.kind \notin {"Data", "InternalError"}
=============================================================================
