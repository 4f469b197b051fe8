------------------------------ MODULE Examples ------------------------------
(***************************************************************************)
(* The example programs on one connection: main of client_ex, which        *)
(* connects, sends a test request and a big payload in turn and panics     *)
(* when it cannot connect or cannot read the answer to the latter, against *)
(* the routes main of server_ex registers and their handlers.              *)
(***************************************************************************)
EXTENDS Session

CONSTANT Rounds   \* bound on the rounds of main's loop

ASSUME RoundsAssumption == Rounds \in Nat \ {0}

VARIABLES
    sent,      \* requests main has dispatched
    main_pc    \* "connect", "dispatch", "await", or "panicked"

exampleVars == <<vars, sent, main_pc>>
-----------------------------------------------------------------------------
(***************************************************************************)
(* Values for the constants of Session.  The requests are numbered in the  *)
(* order main makes them: the odd ones by make_test_request, the even ones *)
(* by make_big_payload_request.                                            *)
(***************************************************************************)
ExampleSType == {"TestMessage", "TestResponse", "ExpensiveMessage", "ExpensiveResponse",
                 "ManualHandlerRequest"}

ExampleRequests == 1..(2 * Rounds)

IsTest(r) == r % 2 = 1

ExampleInfo ==
    [r \in ExampleRequests |->
        [id |-> None, named |-> IF IsTest(r) THEN "TEST_HANDLER" ELSE "BIG_PAYLOAD"]]
ExampleTags ==
    [r \in ExampleRequests |-> IF IsTest(r) THEN "TestMessage" ELSE "ExpensiveResponse"]
ExampleData == [r \in ExampleRequests |-> "bytes"]

ExampleNames == {"TEST_HANDLER", "BIG_PAYLOAD"}
ExampleIds == {0, 1}
ExampleTextNames == [n \in ExampleNames |-> IF n = "TEST_HANDLER" THEN 0 ELSE 1]
ExampleRoutes ==
    [h \in ExampleIds |-> IF h = 0 THEN {"TestMessage", "TestResponse"}
                          ELSE {"ExpensiveMessage", "ExpensiveResponse"}]
-----------------------------------------------------------------------------
(***************************************************************************)
(* The handlers, as what they make of HandlerReturns and HandlerPanics.    *)
(***************************************************************************)
Returns(kind) == response'.kind = kind /\ move_sig' = "held"
Panics == response'.kind = "InternalError" /\ move_sig' = "dropped"

\* s_type::from_slice of the payload, and the unwrap of its result.
IsPayload(tag) == payload # None /\ s_type[payload.req] = tag
Unwrapped(tag) == IF IsPayload(tag) THEN Returns("Data") ELSE Panics

\* Mutant: the handler keeps the Sender.
TestHandlerKeepsSender ==
    /\ response'.kind = IF IsPayload(s_type[meta.req]) THEN "Data" ELSE "InternalError"
    /\ move_sig' = "dropped"

\* test_handler: the greeting is added to the message the tag announces.
test_handler ==
    IF s_type[meta.req] \in {"TestMessage", "TestResponse"}
    THEN Unwrapped(s_type[meta.req]) ELSE Returns("InternalError")

\* Mutant: there is no arm for ExpensiveResponse.
BigPayloadOneArm ==
    IF s_type[meta.req] = "ExpensiveMessage" THEN Unwrapped("ExpensiveMessage")
    ELSE Returns("InternalError")

\* handler_with_big_payload: a message is read and sorted, a response echoed as it
\* is; the handoff to its accept_stream is commented out.
handler_with_big_payload ==
    CASE s_type[meta.req] = "ExpensiveMessage" -> Unwrapped("ExpensiveMessage")
      [] s_type[meta.req] = "ExpensiveResponse" -> Returns("Data")
      [] OTHER -> Returns("InternalError")

\* main runs with the connection it made.  Until then, and once the process is
\* gone, there is none, and nothing happens on it.
Connected == main_pc \in {"dispatch", "await"}

ServerTask ==
    /\ Connected
    /\ ConnectionTask
    /\ srv_pc = "handler" => IF meta.id = 0 THEN test_handler ELSE handler_with_big_payload
    /\ UNCHANGED <<clientVars, sent, main_pc>>
-----------------------------------------------------------------------------
(***************************************************************************)
(* main of client_ex.                                                      *)
(***************************************************************************)

\* ClientConnect::new(..).await.expect(..): the connection of Session's Init, or an
\* Err and the panic.  How it comes to either, if it does, is Establishment.
Connect ==
    /\ main_pc = "connect"
    /\ main_pc' \in {"dispatch", "panicked"}
    /\ UNCHANGED <<vars, sent>>

\* dispatch_request(..).await.expect(..): an Err, and the panic, once the task has
\* ended.
MainDispatches ==
    /\ main_pc = "dispatch"
    /\ sent < 2 * Rounds
    /\ IF cl_pc = "ended"
       THEN main_pc' = "panicked" /\ UNCHANGED <<vars, sent>>
       ELSE /\ dispatch_request(sent + 1)
            /\ sent' = sent + 1
            /\ main_pc' = "await"
            /\ UNCHANGED serverVars

\* s_type::from_slice::<ExpensiveResponse>: an error packet is no such structure, and
\* a handler answers with the structure it was sent.
IsExpensiveResponse(f) == f.kind = "Data" /\ s_type[f.req] = "ExpensiveResponse"

\* rx.await: an Err (the consumer was dropped) is printed or ignored.  Of the answer
\* to a test request nothing is read; the other is parsed, and the result unwrapped.
MainReceives ==
    /\ main_pc = "await"
    /\ outcome[sent] # "none"
    /\ main_pc' = IF ~IsTest(sent) /\ delivered[sent] # None
                     /\ ~IsExpensiveResponse(delivered[sent])
                  THEN "panicked" ELSE "dispatch"
    /\ UNCHANGED <<vars, sent>>

Main == MainDispatches \/ MainReceives

ConnectionLoop == Connected /\ ClientTask /\ UNCHANGED <<serverVars, sent, main_pc>>

ExampleInit == Init /\ sent = 0 /\ main_pc = "connect"

ExampleNext ==
    \/ Connect
    \/ Main
    \/ ConnectionLoop
    \/ ServerTask
    \/ Connected /\ Break /\ UNCHANGED <<clientVars, serverVars, sent, main_pc>>

\* tokio polls the main task and the two connection tasks.  Nothing is assumed of
\* Connect: new has no timeout.
ExampleSpec ==
    /\ ExampleInit /\ [][ExampleNext]_exampleVars
    /\ WF_exampleVars(Main) /\ WF_exampleVars(ConnectionLoop) /\ WF_exampleVars(ServerTask)
-----------------------------------------------------------------------------
(***************************************************************************)
(* main panics only where it connects (.expect("Connecting to server       *)
(* failed")).  From there on it survives every break of the connection:    *)
(* the connection task outlives it, so dispatch_request succeeds, and what *)
(* it unwraps is the echo of its own payload and never an error packet or  *)
(* the answer to another request.                                          *)
(***************************************************************************)
PanicsOnlyConnecting ==
    [][main_pc' = "panicked" => main_pc \in {"connect", "panicked"}]_exampleVars

(***************************************************************************)
(* As long as the network holds, the server keeps the connection and every *)
(* request is answered by its handler, not by an error and not by losing   *)
(* it: the handlers return the Sender and parse what they are sent.        *)
(***************************************************************************)
ServedWhileConnected ==
    link = "up" =>
        /\ srv_open
        /\ \A r \in Requests :
               outcome[r] # "none" => delivered[r] # None /\ delivered[r].kind = "Data"

(***************************************************************************)
(* Once connected, main gets through all its rounds: every request it      *)
(* awaits ends, also on a connection that broke.  (It then sees every      *)
(* further request fail: nothing reconnects, and nothing ends the loop.)   *)
(***************************************************************************)
MainGoesOn == (main_pc = "dispatch") ~> (sent = 2 * Rounds /\ main_pc = "dispatch")
=============================================================================
