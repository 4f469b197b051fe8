---------------------------- MODULE ClientSetup ----------------------------
(***************************************************************************)
(* ClientConnect::new: the connection attempt of a client, up to the spawn *)
(* of its connection task.  Peers that are not this client (a port probe,  *)
(* a client of another mode) connect and then do as they like.             *)
(***************************************************************************)
EXTENDS Handshake

CONSTANT Foreign   \* connections of such other peers

ASSUME ClientSetupAssumption == Foreign \subseteq Conns

\* TcpStream::connect, or the one inside Transport::connect: the kernel completes
\* it and queues the connection.
Dial(c) ==
    /\ peer[c] = "idle"
    /\ peer' = [peer EXCEPT ![c] = IF c \in Foreign THEN "silent" ELSE "connecting"]
    /\ conn' = [conn EXCEPT ![c] = "backlog"]
    /\ UNCHANGED cl_passed

\* It fails: ClientError::Io, and nothing reached the server.
DialFails(c) ==
    /\ peer[c] = "idle"
    /\ peer' = [peer EXCEPT ![c] = "failed"]
    /\ UNCHANGED <<conn, cl_passed>>

\* Another peer begins to talk.
Speaks(c) ==
    /\ peer[c] = "silent"
    /\ peer' = [peer EXCEPT ![c] = "connecting"]
    /\ UNCHANGED <<conn, cl_passed>>

Waiting(c) == peer[c] = "connecting" /\ cl_passed[c] < Len(ClientStages)

NextClientStage(c) == ClientStages[cl_passed[c] + 1]

\* Mutant: the handshake does not wait for the server's part.
StagePassesUnanswered(c) ==
    /\ Waiting(c)
    /\ cl_passed' = [cl_passed EXCEPT ![c] = @ + 1]
    /\ UNCHANGED <<conn, peer>>

ClientStagePasses(c) ==
    /\ Waiting(c)
    /\ Alone(NextClientStage(c)) \/ ServerIn(c, NextClientStage(c))
    /\ cl_passed' = [cl_passed EXCEPT ![c] = @ + 1]
    /\ UNCHANGED <<conn, peer>>

\* Mutant: an error of the handshake is not looked at while the server is silent.
StageFailsOnAnswer(c) ==
    /\ Waiting(c)
    /\ ServerIn(c, NextClientStage(c)) /\ conn[c] # "refused"
    /\ peer' = [peer EXCEPT ![c] = "failed"]
    /\ UNCHANGED <<conn, cl_passed>>

\* The handshake or initial_setup fails, or the server dropped the connection:
\* Err(Tls), Err(Io) or Err(Setup), and the transport is dropped.
ClientStageFails(c) ==
    /\ Waiting(c)
    /\ \/ Alone(NextClientStage(c))
       \/ ServerIn(c, NextClientStage(c))
       \/ conn[c] = "refused"
    /\ peer' = [peer EXCEPT ![c] = "failed"]
    /\ UNCHANGED <<conn, cl_passed>>

\* The attempt ends by itself: an invalid server_name, no credentials, or a caller
\* that drops the future of new.
GivesUp(c) ==
    /\ Waiting(c)
    /\ peer' = [peer EXCEPT ![c] = "failed"]
    /\ UNCHANGED <<conn, cl_passed>>

\* A probe of the port, as the benchmarks' wait_for_port makes it, closes the
\* connection at once.
wait_for_port(c) ==
    /\ peer[c] = "silent"
    /\ peer' = [peer EXCEPT ![c] = "left"]
    /\ UNCHANGED <<conn, cl_passed>>

\* mpsc::channel, which panics on a capacity of zero, and connection_main.
NewReturns(c) ==
    /\ peer[c] = "connecting"
    /\ cl_passed[c] = Len(ClientStages)
    /\ \E max_request_in_time \in 0..1 :
           peer' = [peer EXCEPT ![c] = IF max_request_in_time = 0 THEN "panicked" ELSE "up"]
    /\ UNCHANGED <<conn, cl_passed>>

NewStep(c) == ClientStagePasses(c) \/ ClientStageFails(c) \/ NewReturns(c)

Environment(c) ==
    Dial(c) \/ DialFails(c) \/ Speaks(c) \/ GivesUp(c) \/ wait_for_port(c)
=============================================================================
