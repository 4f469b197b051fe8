----------------------------- MODULE RpcService -----------------------------
(***************************************************************************)
(* What the library promises a caller, without queue, frames or tasks: a   *)
(* submitted request ends once, answered or failed; its handler runs at    *)
(* most once and never without a submission; an answer comes only after    *)
(* the request was served, unless a handler took the connection over.      *)
(***************************************************************************)
CONSTANT Requests

VARIABLES
    status,     \* each request: "idle", "pending", "answered" or "failed"
    served,     \* requests the server has dealt with
    takenOver   \* a handler asked for the stream

rpcVars == <<status, served, takenOver>>

Init ==
    /\ status = [r \in Requests |-> "idle"]
    /\ served = {}
    /\ takenOver = FALSE

Submit(r) ==
    /\ status[r] = "idle"
    /\ status' = [status EXCEPT ![r] = "pending"]
    /\ UNCHANGED <<served, takenOver>>

\* The server may still serve a request that the client has given up.
Serve(r) ==
    /\ status[r] \in {"pending", "failed"}
    /\ r \notin served
    /\ served' = served \cup {r}
    /\ UNCHANGED <<status, takenOver>>

TakeOver ==
    /\ served # {}
    /\ takenOver' = TRUE
    /\ UNCHANGED <<status, served>>

Answer(r) ==
    /\ status[r] = "pending"
    /\ r \in served \/ takenOver
    /\ status' = [status EXCEPT ![r] = "answered"]
    /\ UNCHANGED <<served, takenOver>>

Fail(r) ==
    /\ status[r] = "pending"
    /\ status' = [status EXCEPT ![r] = "failed"]
    /\ UNCHANGED <<served, takenOver>>

Next ==
    \/ \E r \in Requests : Submit(r) \/ Serve(r) \/ Answer(r) \/ Fail(r)
    \/ TakeOver

Spec == Init /\ [][Next]_rpcVars
=============================================================================
