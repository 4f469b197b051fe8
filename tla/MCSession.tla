----------------------------- MODULE MCSession -----------------------------
(***************************************************************************)
(* Instances of Session for TLC: three requests over two registered        *)
(* handlers and a name the server does not know.                           *)
(***************************************************************************)
EXTENDS Session, TLC

CONSTANTS r1, r2, r3

Named(n) == [id |-> None, named |-> n]
ById(h) == [id |-> h, named |-> None]

MCRequests == {r1, r2, r3}
MCNames == {"A", "B", "unknown"}
MCHandlerIds == {0, 1}
MCSTypes == {"t", "u"}
MCRoutes == 0 :> {"t"} @@ 1 :> {"t", "u"}
MCTextNames == "A" :> 0 @@ "B" :> 1

\* Two names, so that an answer to one can be taken for the other's, and one of them
\* twice, so that the cache is hit.
MCInfo == r1 :> Named("A") @@ r2 :> Named("B") @@ r3 :> Named("A")
MCTypeNames == r1 :> "t" @@ r2 :> "u" @@ r3 :> "t"
MCType == r1 :> "t" @@ r2 :> "t" @@ r3 :> "u"
MCBytes == [r \in MCRequests |-> "bytes"]

\* For the liveness run: one request without data, one whose data the client's
\* encoder refuses, and an ordinary one.
MCInfoLive == r1 :> Named("A") @@ r2 :> ById(0) @@ r3 :> ById(0)
MCDataLive == r1 :> "empty" @@ r2 :> "over_client" @@ r3 :> "bytes"

\* Two requests, for the runs about the documentation.
MCRequests2 == {r1, r2}
MCInfo2 == r1 :> Named("A") @@ r2 :> Named("A")
MCType2 == [r \in MCRequests2 |-> "t"]
MCBytes2 == [r \in MCRequests2 |-> "bytes"]

\* A name that is not registered, a tag its route does not serve, and a payload
\* the server's decoder refuses.
MCInfoRefused == r1 :> Named("unknown") @@ r2 :> Named("A") @@ r3 :> Named("B")
MCTypeRefused == r1 :> "t" @@ r2 :> "u" @@ r3 :> "u"
MCDataRefused == r1 :> "bytes" @@ r2 :> "bytes" @@ r3 :> "over_server"

\* Two names; the first request has no data, or too much of it.
MCInfoNames == r1 :> ById(0) @@ r2 :> Named("A") @@ r3 :> Named("B")
MCEmpty == r1 :> "empty" @@ r2 :> "bytes" @@ r3 :> "bytes"
MCOver == r1 :> "over_client" @@ r2 :> "bytes" @@ r3 :> "bytes"

\* Three ordinary requests with an id.
MCInfoIds == [r \in MCRequests |-> ById(0)]
MCTypeIds == [r \in MCRequests |-> "t"]
=============================================================================
