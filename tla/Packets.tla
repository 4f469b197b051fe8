------------------------------ MODULE Packets ------------------------------
(***************************************************************************)
(* What the client and the server put on a connection.  The byte contents  *)
(* of a frame are abstracted to the request they were made from: a         *)
(* request's tag, handler and data are constant, so a frame that carries   *)
(* the request carries them.                                               *)
(***************************************************************************)
EXTENDS Naturals, Sequences

CONSTANTS
    Requests,      \* the ClientRequests the callers may dispatch
    Names,         \* handler names
    HandlerIds,    \* handler ids (u64)
    STypes,        \* values of the project's structure-type enum
    None,          \* Option::None
    handler_info,  \* DataRequest.handler_info of each request
    s_type,        \* DataRequest.s_type of each request
    data           \* DataRequest.data of each request, by what framing tells apart

\* HandlerInfo is built by new_named or new_id only: exactly one field is set.
HandlerInfo ==
    [id : HandlerIds, named : {None}] \cup [id : {None}, named : Names]

\* "bytes"        non-empty and within the frame limit of both codecs
\* "empty"        no bytes at all
\* "over_client"  longer than the client codec's frame limit: its encoder fails
\* "over_server"  passes the client's encoder and fails the server's decoder
DataKinds == {"bytes", "empty", "over_client", "over_server"}

ASSUME PacketAssumption ==
    /\ None \notin Requests
    /\ None \notin Names
    /\ None \notin HandlerIds
    /\ handler_info \in [Requests -> HandlerInfo]
    /\ s_type \in [Requests -> STypes]
    /\ data \in [Requests -> DataKinds]

\* Mutant: the negation in front of is_empty() is missing.
HasPayloadNegated(r) == data[r] = "empty"

\* PacketMeta.has_payload, as process_request fills it in.
has_payload(r) == data[r] # "empty"

(***************************************************************************)
(* Frames towards the server.  seq is the number of the post_process       *)
(* call of the sender's traffic processor that produced the frame.         *)
(***************************************************************************)
ClientFrames ==
    [kind : {"HandlerMetaReq", "PacketMeta", "payload"},
     req : Requests, id : HandlerIds \cup {None}, seq : Nat]

HandlerMetaReq(r, n) ==
    [kind |-> "HandlerMetaReq", req |-> r, id |-> None, seq |-> n]

\* Mutant: the meta carries the id after the one that was resolved.
MetaNextId(r, h, n) ==
    [kind |-> "PacketMeta", req |-> r, id |-> h + 1, seq |-> n]
PacketMeta(r, h, n) ==
    [kind |-> "PacketMeta", req |-> r, id |-> h, seq |-> n]

\* Mutant: the payload is sent without post_process_traffic.
UnprocessedPayload(r, n) ==
    [kind |-> "payload", req |-> r, id |-> None, seq |-> 0]
Payload(r, n) ==
    [kind |-> "payload", req |-> r, id |-> None, seq |-> n]

(***************************************************************************)
(* Frames towards the client: the answer to a frame of kind "to" made      *)
(* from request req, or a frame of the application that took the stream    *)
(* over.                                                                   *)
(***************************************************************************)
\* A handler's response is "Oversize" when it passes the server's encoder and is
\* longer than the client's decoder accepts, "Unsendable" when the server's encoder
\* refuses it.
ReplyKinds ==
    {"HandlerMetaAns", "Data", "Oversize", "Unsendable", "InternalError",
     "NoSuchHandler", "MalformedMetaInfo"}
ReplyFrames ==
    [kind : ReplyKinds, to : {"HandlerMetaReq", "PacketMeta", "payload"},
     req : Requests, id : HandlerIds \cup {None}, seq : Nat]
RawFrame == [kind |-> "raw", to |-> None, req |-> None, id |-> None, seq |-> 0]
ServerFrames == ReplyFrames \cup {RawFrame}

ASSUME NoneAssumption == None \notin ClientFrames /\ None \notin ServerFrames

Reply(k, m, h, n) == [kind |-> k, to |-> m.kind, req |-> m.req, id |-> h, seq |-> n]

\* The server's decoder reports InvalidData for this frame.
DecodeFails(f) == f.kind = "payload" /\ data[f.req] = "over_server"
=============================================================================
