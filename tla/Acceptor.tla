------------------------------ MODULE Acceptor ------------------------------
(***************************************************************************)
(* TfServer: start, send_stop and the acceptor task.  The task selects     *)
(* between the listener and the shutdown signal, and takes a new           *)
(* connection through its handshakes inline before it selects again.       *)
(***************************************************************************)
EXTENDS Handshake

CONSTANTS
    Tasks,      \* acceptor tasks, one per call of start
    MaxErrors,  \* bound on accept() errors
    None

ASSUME AcceptorAssumption == MaxErrors \in Nat /\ None \notin Conns

VARIABLES
    processor,  \* TfServer.processor is still Some
    pc,         \* where each acceptor task stands
    held,       \* the connection an acceptor task works on
    own,        \* whose TrafficProcessorHolder a task runs: "user" or "default"
    woken,      \* notify_waiters reached the task's pending notified()
    errors      \* accept() errors so far

taskVars == <<processor, pc, held, own, woken, errors>>

AcceptorTypeOK ==
    /\ processor \in BOOLEAN
    /\ pc \in [Tasks -> {"absent", "spawned", "select", "handshake", "done", "panicked"}]
    /\ held \in [Tasks -> Conns \cup {None}]
    /\ own \in [Tasks -> {"user", "default"}]
    /\ woken \in [Tasks -> BOOLEAN]
    /\ errors \in 0..MaxErrors

\* TfServer::new, given a processor.
AcceptorInit ==
    /\ processor = TRUE
    /\ pc = [t \in Tasks |-> "absent"]
    /\ held = [t \in Tasks |-> None]
    /\ own = [t \in Tasks |-> "default"]
    /\ woken = [t \in Tasks |-> FALSE]
    /\ errors = 0
-----------------------------------------------------------------------------
\* start: self.processor.take(), and tokio::spawn.
Spawn(t, holder) ==
    /\ pc[t] = "absent"
    /\ pc' = [pc EXCEPT ![t] = "spawned"]
    /\ own' = [own EXCEPT ![t] = holder]
    /\ processor' = FALSE
    /\ UNCHANGED <<held, woken, conn, passed, errors>>

\* Mutant: no holder is made when self.processor is None.
StartWithoutHolder(t) == Spawn(t, IF processor THEN "user" ELSE "none")

start(t) == Spawn(t, IF processor THEN "user" ELSE "default")

\* send_stop: notify_waiters wakes the notified() futures that exist now and
\* stores nothing for later ones.
send_stop ==
    /\ woken' = [t \in Tasks |-> woken[t] \/ pc[t] = "select"]
    /\ UNCHANGED <<processor, pc, held, own, conn, passed, errors>>
-----------------------------------------------------------------------------
\* The loop reaches select!, which creates a fresh notified().
Reselect(t) ==
    /\ pc' = [pc EXCEPT ![t] = "select"]
    /\ woken' = [woken EXCEPT ![t] = FALSE]

\* The spawned task is polled for the first time.
Polled(t) ==
    /\ pc[t] = "spawned"
    /\ Reselect(t)
    /\ UNCHANGED <<processor, held, own, conn, passed, errors>>

\* select! takes the accept branch, also when the signal is ready too: the
\* notified() future is dropped with the wake-up it got.
AcceptBranch(t, c) ==
    /\ pc[t] = "select"
    /\ conn[c] = "backlog"
    /\ pc' = [pc EXCEPT ![t] = "handshake"]
    /\ held' = [held EXCEPT ![t] = c]
    /\ conn' = [conn EXCEPT ![c] = "accepted"]
    /\ woken' = [woken EXCEPT ![t] = FALSE]
    /\ UNCHANGED <<processor, own, passed, errors>>

\* accept() returned Err: logged, and the loop goes round.
AcceptError(t) ==
    /\ pc[t] = "select"
    /\ errors < MaxErrors
    /\ errors' = errors + 1
    /\ Reselect(t)
    /\ UNCHANGED <<processor, held, own, conn, passed>>

\* Mutant: the branch falls through to the next round.
StopContinues(t) ==
    /\ pc[t] = "select"
    /\ woken[t]
    /\ Reselect(t)
    /\ UNCHANGED <<processor, held, own, conn, passed, errors>>

\* select! takes the shutdown branch and the task ends.
StopBranch(t) ==
    /\ pc[t] = "select"
    /\ woken[t]
    /\ pc' = [pc EXCEPT ![t] = "done"]
    /\ UNCHANGED <<processor, held, own, woken, conn, passed, errors>>
-----------------------------------------------------------------------------
\* Mutant: the processor's hooks run before the handshakes.
NextStageReversed(c) == Stages[Len(Stages) - Len(passed[c])]

NextStage(c) == Stages[Len(passed[c]) + 1]

InStage(t) == pc[t] = "handshake" /\ Len(passed[held[t]]) < Len(Stages)

\* The await can complete, for better or worse.
Ready(c) == Alone(NextStage(c)) \/ PeerIn(c, NextStage(c))

\* One await of initial_accept, or of the processor's two hooks, lets the
\* connection through.
StagePasses(t) ==
    /\ InStage(t)
    /\ Ready(held[t])
    /\ passed' = [passed EXCEPT ![held[t]] = Append(@, NextStage(held[t]))]
    /\ UNCHANGED <<conn, taskVars>>

\* The task is rid of the connection.
LetGo(t, fate) ==
    /\ conn' = [conn EXCEPT ![held[t]] = fate]
    /\ held' = [held EXCEPT ![t] = None]
    /\ UNCHANGED <<processor, own, passed, errors>>

\* ... or refuses it: the stream is dropped (shut down first by initial_connect).
\* A handshake also fails when the peer has gone.
StageRefuses(t) ==
    /\ InStage(t)
    /\ Ready(held[t]) \/ PeerGone(held[t])
    /\ LetGo(t, "refused")
    /\ Reselect(t)

\* Mutant: the unwinding task keeps the stream.
PanicKeepsStream(t) ==
    /\ InStage(t)
    /\ NextStage(held[t]) \in UserStages
    /\ Ready(held[t])
    /\ pc' = [pc EXCEPT ![t] = "panicked"]
    /\ UNCHANGED <<processor, held, own, woken, conn, passed, errors>>

\* A hook of the codec or the processor panics.  Nothing catches it: the task
\* unwinds, and the stream is dropped with it.
StagePanics(t) ==
    /\ InStage(t)
    /\ NextStage(held[t]) \in UserStages
    /\ Ready(held[t])
    /\ LetGo(t, "refused")
    /\ pc' = [pc EXCEPT ![t] = "panicked"]
    /\ UNCHANGED woken

\* Everything passed: handle_connection is spawned with a clone of the processor.
Serve(t) ==
    /\ pc[t] = "handshake"
    /\ Len(passed[held[t]]) = Len(Stages)
    /\ LetGo(t, "serving")
    /\ Reselect(t)

Step(t) ==
    \/ Polled(t)
    \/ \E c \in Conns : AcceptBranch(t, c)
    \/ AcceptError(t)
    \/ StopBranch(t)
    \/ StagePasses(t)
    \/ StageRefuses(t)
    \/ StagePanics(t)
    \/ Serve(t)
=============================================================================
