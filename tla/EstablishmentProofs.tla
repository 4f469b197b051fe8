------------------------ MODULE EstablishmentProofs ------------------------
(***************************************************************************)
(* Proofs about Establishment, for any number of connections and acceptor  *)
(* tasks and every combination of TLS, WebSocket and a talking codec.      *)
(***************************************************************************)
EXTENDS Establishment, TLAPS, SequenceTheorems

(***************************************************************************)
(* A task holds a connection exactly while it takes it through the         *)
(* handshakes, and no two tasks hold the same one.                         *)
(***************************************************************************)
Holding ==
    /\ \A t \in Tasks : pc[t] = "handshake" <=> held[t] # None
    /\ \A t \in Tasks : held[t] # None => conn[held[t]] = "accepted"
    /\ \A t, u \in Tasks : held[t] # None /\ held[t] = held[u] => t = u

\* Every accepted connection is held.
NoneLost ==
    \A c \in Conns : conn[c] = "accepted" => \E t \in Tasks : held[t] = c

(***************************************************************************)
(* What a connection passed is a beginning of Stages, and its peer took    *)
(* part wherever two are needed; a served one passed all of it.            *)
(***************************************************************************)
Attended(c, s) == Alone(s) \/ PeerIn(c, s)

InOrder ==
    \A c \in Conns :
        /\ Len(passed[c]) <= Len(Stages)
        /\ \A i \in 1..Len(passed[c]) : passed[c][i] = Stages[i] /\ Attended(c, Stages[i])
        /\ conn[c] = "serving" => Len(passed[c]) = Len(Stages)

(***************************************************************************)
(* The same from the other end: the server took part in what a peer        *)
(* passed, wherever two are needed; new returns after all of it.           *)
(***************************************************************************)
Answered(c, s) == Alone(s) \/ ServerIn(c, s)

Met ==
    \A c \in Conns :
        /\ \A i \in 1..cl_passed[c] : Answered(c, ClientStages[i])
        /\ peer[c] = "up" => cl_passed[c] = Len(ClientStages)

\* A peer that has not dialled has no connection.
Undialled == \A c \in Conns : peer[c] = "idle" => conn[c] = "none"

EstablishmentInv == TypeOK /\ Holding /\ NoneLost /\ InOrder /\ Met /\ Undialled
-----------------------------------------------------------------------------
(***************************************************************************)
(* Stages.                                                                 *)
(***************************************************************************)

\* A sequence is one of its own elements.
LEMMA OwnElements ==
  ASSUME NEW S, NEW s \in Seq(S)
  PROVE  s \in Seq(First(s, Len(s))) /\ Len(s) \in Nat
PROOF
  <1>1. Len(s) \in Nat /\ s \in [1..Len(s) -> S]
    BY LenProperties
  <1>2. s \in [1..Len(s) -> First(s, Len(s))]
    BY <1>1 DEF First
  <1> QED BY <1>1, <1>2, SeqDef

\* Both lists of stages are sequences of names.
LEMMA StagesTypes ==
  /\ Stages \in Seq(First(Stages, Len(Stages))) /\ Len(Stages) \in Nat
  /\ Len(ClientStages) \in Nat
PROOF
  <1> DEFINE Names == {"tls", "websocket", "initial_setup", "initial_connect",
                       "initial_framed_connect"}
  <1>1. Layers \in Seq(Names)
    <2>1. <<"tls">> \in Seq(Names) /\ <<"websocket">> \in Seq(Names) /\ <<>> \in Seq(Names)
      OBVIOUS
    <2>2. /\ (IF Tls THEN <<"tls">> ELSE <<>>) \in Seq(Names)
          /\ (IF WebSocket THEN <<"websocket">> ELSE <<>>) \in Seq(Names)
      BY <2>1
    <2> HIDE DEF Names
    <2> QED BY <2>2, ConcatProperties DEF Layers
  <1>2. /\ <<"initial_setup", "initial_connect", "initial_framed_connect">> \in Seq(Names)
        /\ <<"initial_setup">> \in Seq(Names)
    OBVIOUS
  <1> HIDE DEF Names
  <1>3. Stages \in Seq(Names)
    BY <1>1, <1>2, ConcatProperties DEF Stages
  <1>4. ClientStages \in Seq(Names)
    BY <1>1, <1>2, ConcatProperties DEF ClientStages
  <1> QED BY <1>3, <1>4, OwnElements

\* Who took part in a stage stays part of it.
LEMMA AttendedKept ==
  ASSUME TypeOK, NEW c \in Conns, NEW s, Attended(c, s),
         peer'[c] \in {"idle", "silent", "left"} => peer[c] \in {"idle", "silent", "left"},
         cl_passed'[c] \in Nat, cl_passed'[c] >= cl_passed[c]
  PROVE  Attended(c, s)'
PROOF
  <1>1. cl_passed[c] \in Nat
    BY StagesTypes DEF TypeOK, HandshakeTypeOK
  <1>2. PeerIn(c, s) => PeerIn(c, s)'
    BY <1>1, StagesTypes DEF PeerIn
  <1> QED BY <1>2 DEF Attended, Alone

\* The same of the server.
LEMMA AnsweredKept ==
  ASSUME NEW c \in Conns, NEW s, Answered(c, s),
         conn'[c] \in {"none", "backlog"} => conn[c] \in {"none", "backlog"},
         Len(passed[c]) \in Nat, Len(passed'[c]) \in Nat, Len(passed'[c]) >= Len(passed[c])
  PROVE  Answered(c, s)'
PROOF
  <1>1. ServerIn(c, s) => ServerIn(c, s)'
    BY StagesTypes DEF ServerIn
  <1> QED BY <1>1 DEF Answered, Alone
-----------------------------------------------------------------------------
(***************************************************************************)
(* The peers' steps.                                                       *)
(***************************************************************************)

\* What a step of a peer can change.
LEMMA PeerSteps ==
  ASSUME TypeOK, NEW c \in Conns, NewStep(c) \/ Environment(c)
  PROVE  /\ peer' \in [Conns -> {"idle", "silent", "left", "connecting", "up", "failed",
                                  "panicked"}]
         /\ cl_passed' \in [Conns -> 0..Len(ClientStages)]
         /\ \A d \in Conns :
                /\ peer'[d] \in {"idle", "silent", "left"} =>
                       peer[d] \in {"idle", "silent", "left"}
                /\ cl_passed'[d] \in Nat /\ cl_passed'[d] >= cl_passed[d]
                /\ peer'[d] = "idle" => peer[d] = "idle"
         /\ \/ conn' = conn
            \/ /\ peer[c] = "idle" /\ peer'[c] # "idle"
               /\ conn' = [conn EXCEPT ![c] = "backlog"]
PROOF
  <1>1. /\ peer \in [Conns -> {"idle", "silent", "left", "connecting", "up", "failed",
                                "panicked"}]
        /\ cl_passed \in [Conns -> 0..Len(ClientStages)]
        /\ Len(ClientStages) \in Nat
    BY StagesTypes DEF TypeOK, HandshakeTypeOK
  <1>2. CASE ClientStagePasses(c)
    <2>1. cl_passed[c] < Len(ClientStages) /\ UNCHANGED <<conn, peer>>
          /\ cl_passed' = [cl_passed EXCEPT ![c] = cl_passed[c] + 1]
      BY <1>2 DEF ClientStagePasses, Waiting
    <2>2. cl_passed[c] + 1 \in 0..Len(ClientStages)
      BY <1>1, <2>1
    <2> QED BY <1>1, <2>1, <2>2
  <1>3. CASE ClientStageFails(c) \/ NewReturns(c) \/ GivesUp(c)
    <2>1. /\ peer[c] = "connecting" /\ UNCHANGED <<conn, cl_passed>>
          /\ \E p \in {"up", "failed", "panicked"} : peer' = [peer EXCEPT ![c] = p]
      BY <1>3 DEF ClientStageFails, NewReturns, GivesUp, Waiting
    <2> QED BY <1>1, <2>1
  <1>4. CASE DialFails(c) \/ Speaks(c) \/ wait_for_port(c)
    <2>1. /\ peer[c] \in {"idle", "silent"} /\ UNCHANGED <<conn, cl_passed>>
          /\ \E p \in {"failed", "connecting", "left"} : peer' = [peer EXCEPT ![c] = p]
      BY <1>4 DEF DialFails, Speaks, wait_for_port
    <2> QED BY <1>1, <2>1
  <1>5. CASE Dial(c)
    <2>1. /\ peer[c] = "idle" /\ UNCHANGED cl_passed
          /\ conn' = [conn EXCEPT ![c] = "backlog"]
          /\ \E p \in {"silent", "connecting"} : peer' = [peer EXCEPT ![c] = p]
      BY <1>5 DEF Dial
    <2> QED BY <1>1, <2>1
  <1> QED BY <1>2, <1>3, <1>4, <1>5 DEF NewStep, Environment

\* A peer passes a stage when the server has entered it.
LEMMA PeerMeets ==
  ASSUME EstablishmentInv, NEW c \in Conns, NewStep(c) \/ Environment(c), UNCHANGED passed
  PROVE  Met'
PROOF
  <1>1. /\ TypeOK /\ Met
        /\ conn \in [Conns -> {"none", "backlog", "accepted", "serving", "refused"}]
        /\ peer \in [Conns -> {"idle", "silent", "left", "connecting", "up", "failed",
                                "panicked"}]
        /\ cl_passed \in [Conns -> 0..Len(ClientStages)]
        /\ passed \in [Conns -> Seq(First(Stages, Len(Stages)))]
        /\ Len(ClientStages) \in Nat
    BY StagesTypes DEF EstablishmentInv, TypeOK, HandshakeTypeOK
  <1>2. \A d \in Conns : conn'[d] \in {"none", "backlog"} => conn[d] \in {"none", "backlog"}
    BY <1>1, PeerSteps DEF EstablishmentInv, Undialled
  <1>3. \A d \in Conns : \A s : Answered(d, s) => Answered(d, s)'
    <2>1. \A d \in Conns : Len(passed[d]) \in Nat
      BY <1>1
    <2> QED BY <1>1, <1>2, <2>1, AnsweredKept
  <1>4. CASE ClientStagePasses(c)
    <2>1. /\ peer[c] = "connecting" /\ cl_passed[c] < Len(ClientStages)
          /\ Answered(c, ClientStages[cl_passed[c] + 1])
          /\ UNCHANGED peer /\ cl_passed' = [cl_passed EXCEPT ![c] = cl_passed[c] + 1]
      BY <1>4 DEF ClientStagePasses, Waiting, NextClientStage, Answered
    <2>2. \A d \in Conns : cl_passed'[d] = IF d = c THEN cl_passed[c] + 1 ELSE cl_passed[d]
      BY <1>1, <2>1
    <2>3. \A i \in 1..(cl_passed[c] + 1) : i \in 1..cl_passed[c] \/ i = cl_passed[c] + 1
      BY <1>1
    <2>4. ASSUME NEW d \in Conns
          PROVE  /\ \A i \in 1..cl_passed'[d] : Answered(d, ClientStages[i])
                 /\ peer'[d] = "up" => cl_passed'[d] = Len(ClientStages)
      <3>1. CASE d = c
        BY <1>1, <2>1, <2>2, <2>3, <3>1 DEF Met
      <3>2. CASE d # c
        BY <1>1, <2>1, <2>2, <3>2 DEF Met
      <3> QED BY <3>1, <3>2
    <2> QED BY <1>3, <2>4 DEF Met
  <1>5. CASE ~ClientStagePasses(c)
    <2>1. UNCHANGED cl_passed
      BY <1>5 DEF NewStep, Environment, ClientStageFails, NewReturns, GivesUp, Dial,
                  DialFails, Speaks, wait_for_port
    <2>2. ASSUME NEW d \in Conns, peer'[d] = "up"
          PROVE  cl_passed[d] = Len(ClientStages)
      <3>1. CASE peer[d] = "up"
        BY <1>1, <3>1 DEF Met
      <3>2. CASE peer[d] # "up"
        <4>1. d = c /\ NewReturns(c)
          BY <1>1, <1>5, <2>2, <3>2
          DEF NewStep, Environment, ClientStageFails, NewReturns, GivesUp, Dial,
              DialFails, Speaks, wait_for_port
        <4> QED BY <4>1 DEF NewReturns
      <3> QED BY <3>1, <3>2
    <2> QED BY <1>1, <1>3, <2>1, <2>2 DEF Met
  <1> QED BY <1>4, <1>5

\* A step of a peer disturbs no task and no connection that was dialled.
LEMMA PeerKeeps ==
  ASSUME EstablishmentInv, NEW c \in Conns, NewStep(c) \/ Environment(c),
         UNCHANGED <<passed, taskVars>>
  PROVE  EstablishmentInv'
PROOF
  <1>1. TypeOK /\ conn \in [Conns -> {"none", "backlog", "accepted", "serving", "refused"}]
    BY DEF EstablishmentInv, TypeOK, HandshakeTypeOK
  <1>2. conn' = conn \/ (conn[c] = "none" /\ conn' = [conn EXCEPT ![c] = "backlog"]
                         /\ peer'[c] # "idle")
    BY <1>1, PeerSteps DEF EstablishmentInv, Undialled
  <1>3. /\ conn' \in [Conns -> {"none", "backlog", "accepted", "serving", "refused"}]
        /\ \A d \in Conns : conn'[d] = "accepted" <=> conn[d] = "accepted"
        /\ \A d \in Conns : conn'[d] = "serving" <=> conn[d] = "serving"
    BY <1>1, <1>2
  <1>4. TypeOK'
    BY <1>1, <1>3, PeerSteps DEF TypeOK, HandshakeTypeOK, AcceptorTypeOK, taskVars
  <1>5. Holding' /\ NoneLost'
    <2>1. \A t \in Tasks : held[t] \in Conns \cup {None}
      BY <1>1 DEF TypeOK, AcceptorTypeOK
    <2> QED BY <1>3, <2>1 DEF EstablishmentInv, Holding, NoneLost, taskVars
  <1>6. InOrder'
    <2>1. \A d \in Conns : \A s : Attended(d, s) => Attended(d, s)'
      BY <1>1, PeerSteps, AttendedKept
    <2> QED BY <1>3, <2>1 DEF EstablishmentInv, InOrder
  <1>7. Undialled'
    BY <1>1, <1>2, PeerSteps DEF EstablishmentInv, Undialled
  <1> QED BY <1>4, <1>5, <1>6, <1>7, PeerMeets DEF EstablishmentInv
-----------------------------------------------------------------------------
(***************************************************************************)
(* The acceptor tasks' steps.                                              *)
(***************************************************************************)

\* The types of the variables.
LEMMA Types ==
  ASSUME TypeOK
  PROVE  /\ conn \in [Conns -> {"none", "backlog", "accepted", "serving", "refused"}]
         /\ passed \in [Conns -> Seq(First(Stages, Len(Stages)))]
         /\ pc \in [Tasks -> {"absent", "spawned", "select", "handshake", "done", "panicked"}]
         /\ held \in [Tasks -> Conns \cup {None}]
         /\ own \in [Tasks -> {"user", "default"}]
         /\ woken \in [Tasks -> BOOLEAN]
         /\ None \notin Conns
PROOF
  BY AcceptorAssumption DEF TypeOK, HandshakeTypeOK, AcceptorTypeOK

\* A task takes no connection back and undoes no stage.
LEMMA TaskMeets ==
  ASSUME EstablishmentInv, UNCHANGED peerVars,
         \A d \in Conns : conn'[d] \in {"none", "backlog"} => conn[d] \in {"none", "backlog"},
         \A d \in Conns : Len(passed'[d]) \in Nat /\ Len(passed'[d]) >= Len(passed[d])
  PROVE  Met'
PROOF
  <1>1. \A d \in Conns : Len(passed[d]) \in Nat
    BY Types DEF EstablishmentInv
  <1>2. \A d \in Conns : \A s : Answered(d, s) => Answered(d, s)'
    BY <1>1, AnsweredKept
  <1> QED BY <1>2 DEF EstablishmentInv, Met, peerVars

\* A step that moves no connection: send_stop, and the loop around select!.
LEMMA IdleStepKeeps ==
  ASSUME EstablishmentInv, UNCHANGED <<peerVars, conn, passed, held, own, processor>>,
         pc' \in [Tasks -> {"absent", "spawned", "select", "handshake", "done", "panicked"}],
         woken' \in [Tasks -> BOOLEAN], errors' \in 0..MaxErrors,
         \A t \in Tasks : pc'[t] = "handshake" <=> pc[t] = "handshake"
  PROVE  EstablishmentInv'
PROOF
  <1>1. TypeOK'
    BY DEF EstablishmentInv, TypeOK, HandshakeTypeOK, AcceptorTypeOK, peerVars
  <1>2. Holding' /\ NoneLost' /\ Undialled'
    BY DEF EstablishmentInv, Holding, NoneLost, Undialled, peerVars
  <1>3. InOrder'
    BY DEF EstablishmentInv, InOrder, Attended, Alone, PeerIn, peerVars
  <1>4. Met'
    BY DEF EstablishmentInv, Met, Answered, Alone, ServerIn, peerVars
  <1> QED BY <1>1, <1>2, <1>3, <1>4 DEF EstablishmentInv

\* start adds a task that holds nothing.
LEMMA StartKeeps ==
  ASSUME EstablishmentInv, NEW t \in Tasks, start(t), UNCHANGED peerVars
  PROVE  EstablishmentInv'
PROOF
  <1>1. /\ pc[t] = "absent" /\ pc' = [pc EXCEPT ![t] = "spawned"]
        /\ own' = [own EXCEPT ![t] = IF processor THEN "user" ELSE "default"]
        /\ processor' = FALSE
        /\ UNCHANGED <<held, woken, conn, passed, errors>>
    BY DEF start, Spawn
  <1>2. TypeOK
    BY DEF EstablishmentInv
  <1>3. TypeOK'
    <2>1. /\ pc' \in [Tasks -> {"absent", "spawned", "select", "handshake", "done",
                                 "panicked"}]
          /\ own' \in [Tasks -> {"user", "default"}]
      BY <1>1, <1>2, Types
    <2> QED BY <1>1, <1>2, <2>1 DEF TypeOK, HandshakeTypeOK, AcceptorTypeOK, peerVars
  <1>4. \A u \in Tasks : pc'[u] = IF u = t THEN "spawned" ELSE pc[u]
    BY <1>1, <1>2, Types
  <1>5. Holding' /\ NoneLost' /\ Undialled'
    BY <1>1, <1>4 DEF EstablishmentInv, Holding, NoneLost, Undialled, peerVars
  <1>6. InOrder'
    BY <1>1 DEF EstablishmentInv, InOrder, Attended, Alone, PeerIn, peerVars
  <1>7. Met'
    BY <1>1 DEF EstablishmentInv, Met, Answered, Alone, ServerIn, peerVars
  <1> QED BY <1>3, <1>5, <1>6, <1>7 DEF EstablishmentInv

\* select! takes a connection from the backlog: nobody else holds it.
LEMMA AcceptKeeps ==
  ASSUME EstablishmentInv, NEW t \in Tasks, NEW c \in Conns, AcceptBranch(t, c),
         UNCHANGED peerVars
  PROVE  EstablishmentInv'
PROOF
  <1>1. /\ pc[t] = "select" /\ conn[c] = "backlog"
        /\ pc' = [pc EXCEPT ![t] = "handshake"]
        /\ held' = [held EXCEPT ![t] = c]
        /\ conn' = [conn EXCEPT ![c] = "accepted"]
        /\ woken' = [woken EXCEPT ![t] = FALSE]
        /\ UNCHANGED <<processor, own, passed, errors>>
    BY DEF AcceptBranch
  <1>2. TypeOK
    BY DEF EstablishmentInv
  <1>3. TypeOK'
    <2>1. /\ pc' \in [Tasks -> {"absent", "spawned", "select", "handshake", "done",
                                 "panicked"}]
          /\ held' \in [Tasks -> Conns \cup {None}]
          /\ conn' \in [Conns -> {"none", "backlog", "accepted", "serving", "refused"}]
          /\ woken' \in [Tasks -> BOOLEAN]
      BY <1>1, <1>2, Types
    <2> QED BY <1>1, <1>2, <2>1 DEF TypeOK, HandshakeTypeOK, AcceptorTypeOK, peerVars
  <1>4. /\ \A u \in Tasks : pc'[u] = IF u = t THEN "handshake" ELSE pc[u]
        /\ \A u \in Tasks : held'[u] = IF u = t THEN c ELSE held[u]
        /\ \A d \in Conns : conn'[d] = IF d = c THEN "accepted" ELSE conn[d]
        /\ c # None
    BY <1>1, <1>2, Types
  <1>5. \A u \in Tasks : held[u] # c
    BY <1>1, <1>4 DEF EstablishmentInv, Holding
  <1>6. Holding'
    <2>1. \A u \in Tasks : held[u] \in Conns \cup {None}
      BY <1>2, Types
    <2> QED BY <1>4, <1>5, <2>1 DEF EstablishmentInv, Holding
  <1>7. NoneLost' /\ Undialled'
    <2>1. held[t] = None
      BY <1>1 DEF EstablishmentInv, Holding
    <2>2. \A d \in Conns : conn'[d] = "accepted" => \E u \in Tasks : held'[u] = d
      <3> SUFFICES ASSUME NEW d \in Conns, conn'[d] = "accepted"
                   PROVE  \E u \in Tasks : held'[u] = d
        OBVIOUS
      <3>1. CASE d = c
        BY <1>4, <3>1
      <3>2. CASE d # c
        <4>1. PICK u \in Tasks : held[u] = d
          BY <1>4, <3>2 DEF EstablishmentInv, NoneLost
        <4>2. d # None
          BY <1>2, Types
        <4> QED BY <1>4, <2>1, <4>1, <4>2
      <3> QED BY <3>1, <3>2
    <2>3. Undialled'
      BY <1>1, <1>4 DEF EstablishmentInv, Undialled, peerVars
    <2> QED BY <2>2, <2>3 DEF NoneLost
  <1>8. InOrder'
    BY <1>1, <1>4 DEF EstablishmentInv, InOrder, Attended, Alone, PeerIn, peerVars
  <1>9. Met'
    <2>1. \A d \in Conns : Len(passed'[d]) \in Nat /\ Len(passed'[d]) >= Len(passed[d])
      BY <1>1, <1>2, Types
    <2> QED BY <1>4, <2>1, TaskMeets
  <1> QED BY <1>3, <1>6, <1>7, <1>8, <1>9 DEF EstablishmentInv

\* One more await completes: the next stage, with the peer where it takes two.
LEMMA StagePassesKeeps ==
  ASSUME EstablishmentInv, NEW t \in Tasks, StagePasses(t), UNCHANGED peerVars
  PROVE  EstablishmentInv'
PROOF
  <1> DEFINE c == held[t]
             s == NextStage(c)
  <1>1. TypeOK
    BY DEF EstablishmentInv
  <1>2. /\ pc[t] = "handshake" /\ Len(passed[c]) < Len(Stages) /\ Attended(c, s)
        /\ passed' = [passed EXCEPT ![c] = Append(passed[c], s)]
        /\ UNCHANGED <<conn, taskVars>>
    BY DEF StagePasses, InStage, Ready, Attended
  <1>3. c \in Conns /\ conn[c] = "accepted"
    BY <1>1, <1>2, Types DEF EstablishmentInv, Holding
  <1>4. /\ passed[c] \in Seq(First(Stages, Len(Stages))) /\ Len(passed[c]) \in Nat
        /\ Len(Stages) \in Nat
    BY <1>1, <1>3, Types, StagesTypes
  <1>5. s = Stages[Len(passed[c]) + 1] /\ s \in First(Stages, Len(Stages))
    BY <1>2, <1>4 DEF NextStage, First
  <1> HIDE DEF c, s
  <1>6. /\ passed' \in [Conns -> Seq(First(Stages, Len(Stages)))]
        /\ passed'[c] = Append(passed[c], s)
        /\ \A d \in Conns : d # c => passed'[d] = passed[d]
    <2>1. Append(passed[c], s) \in Seq(First(Stages, Len(Stages)))
      BY <1>4, <1>5, AppendProperties
    <2> QED BY <1>1, <1>2, <1>3, <2>1, Types
  <1>7. TypeOK'
    BY <1>1, <1>2, <1>6 DEF TypeOK, HandshakeTypeOK, AcceptorTypeOK, taskVars, peerVars
  <1>8. Holding' /\ NoneLost' /\ Undialled'
    BY <1>2 DEF EstablishmentInv, Holding, NoneLost, Undialled, taskVars, peerVars
  <1>9. Met'
    <2>1. Len(passed'[c]) \in Nat /\ Len(passed'[c]) >= Len(passed[c])
      BY <1>4, <1>5, <1>6, AppendProperties
    <2>2. \A d \in Conns : Len(passed[d]) \in Nat
      BY <1>1, Types
    <2>3. \A d \in Conns : Len(passed'[d]) \in Nat /\ Len(passed'[d]) >= Len(passed[d])
      BY <1>6, <2>1, <2>2
    <2> QED BY <1>2, <2>3, TaskMeets
  <1>10. \A d \in Conns : \A x : Attended(d, x)' <=> Attended(d, x)
    BY DEF Attended, Alone, PeerIn, peerVars
  <1>11. /\ Len(passed'[c]) = Len(passed[c]) + 1
         /\ \A i \in 1..Len(passed[c]) : passed'[c][i] = passed[c][i]
         /\ passed'[c][Len(passed[c]) + 1] = s
    BY <1>4, <1>5, <1>6, AppendProperties
  <1>12. \A i \in 1..Len(passed'[c]) : passed'[c][i] = Stages[i] /\ Attended(c, Stages[i])
    <2> SUFFICES ASSUME NEW i \in 1..Len(passed'[c])
                 PROVE  passed'[c][i] = Stages[i] /\ Attended(c, Stages[i])
      OBVIOUS
    <2>1. CASE i \in 1..Len(passed[c])
      BY <1>3, <1>11, <2>1 DEF EstablishmentInv, InOrder
    <2>2. CASE i = Len(passed[c]) + 1
      BY <1>2, <1>5, <1>11, <2>2
    <2> QED BY <1>4, <1>11, <2>1, <2>2
  <1>13. InOrder'
    <2>1. ASSUME NEW d \in Conns
          PROVE  /\ Len(passed'[d]) <= Len(Stages)
                 /\ \A i \in 1..Len(passed'[d]) :
                        passed'[d][i] = Stages[i] /\ Attended(d, Stages[i])
                 /\ conn'[d] = "serving" => Len(passed'[d]) = Len(Stages)
      <3>1. CASE d = c
        BY <1>2, <1>3, <1>4, <1>11, <1>12, <3>1
      <3>2. CASE d # c
        BY <1>2, <1>6, <3>2 DEF EstablishmentInv, InOrder
      <3> QED BY <3>1, <3>2
    <2> QED BY <1>10, <2>1 DEF InOrder
  <1> QED BY <1>7, <1>8, <1>9, <1>13 DEF EstablishmentInv

\* The task gives its connection up or hands it on.
LEMMA LetGoKeeps ==
  ASSUME EstablishmentInv, NEW t \in Tasks, NEW fate \in {"refused", "serving"},
         LetGo(t, fate), pc[t] = "handshake",
         NEW p \in {"select", "panicked"}, pc' = [pc EXCEPT ![t] = p],
         woken' \in [Tasks -> BOOLEAN],
         fate = "serving" => Len(passed[held[t]]) = Len(Stages),
         UNCHANGED peerVars
  PROVE  EstablishmentInv'
PROOF
  <1> DEFINE c == held[t]
  <1>1. TypeOK
    BY DEF EstablishmentInv
  <1>2. /\ conn' = [conn EXCEPT ![c] = fate] /\ held' = [held EXCEPT ![t] = None]
        /\ UNCHANGED <<processor, own, passed, errors>>
    BY DEF LetGo
  <1>3. c \in Conns /\ conn[c] = "accepted" /\ \A u \in Tasks : held[u] = c => u = t
    BY <1>1, Types DEF EstablishmentInv, Holding
  <1> HIDE DEF c
  <1>4. /\ \A u \in Tasks : pc'[u] = IF u = t THEN p ELSE pc[u]
        /\ \A u \in Tasks : held'[u] = IF u = t THEN None ELSE held[u]
        /\ \A d \in Conns : conn'[d] = IF d = c THEN fate ELSE conn[d]
    BY <1>1, <1>2, <1>3, Types
  <1>5. TypeOK'
    <2>1. /\ pc' \in [Tasks -> {"absent", "spawned", "select", "handshake", "done",
                                 "panicked"}]
          /\ held' \in [Tasks -> Conns \cup {None}]
          /\ conn' \in [Conns -> {"none", "backlog", "accepted", "serving", "refused"}]
      BY <1>1, <1>2, <1>3, Types
    <2> QED BY <1>1, <1>2, <2>1 DEF TypeOK, HandshakeTypeOK, AcceptorTypeOK, peerVars
  <1>6. Holding'
    <2>1. \A u \in Tasks : u # t /\ held[u] # None => held[u] \in Conns /\ held[u] # c
      BY <1>1, <1>3, Types
    <2> QED BY <1>4, <2>1 DEF EstablishmentInv, Holding
  <1>7. NoneLost' /\ Undialled'
    <2>1. NoneLost'
      BY <1>3, <1>4 DEF EstablishmentInv, NoneLost, c
    <2>2. Undialled'
      BY <1>3, <1>4 DEF EstablishmentInv, Undialled, peerVars
    <2> QED BY <2>1, <2>2
  <1>8. InOrder'
    <2>1. \A d \in Conns : \A x : Attended(d, x)' <=> Attended(d, x)
      BY DEF Attended, Alone, PeerIn, peerVars
    <2>2. fate = "serving" => Len(passed[c]) = Len(Stages)
      BY DEF c
    <2> QED BY <1>2, <1>3, <1>4, <2>1, <2>2 DEF EstablishmentInv, InOrder
  <1>9. Met'
    <2>1. \A d \in Conns : Len(passed'[d]) \in Nat /\ Len(passed'[d]) >= Len(passed[d])
      BY <1>1, <1>2, Types
    <2> QED BY <1>4, <2>1, TaskMeets
  <1> QED BY <1>5, <1>6, <1>7, <1>8, <1>9 DEF EstablishmentInv

\* A step of an acceptor task keeps the invariant.
LEMMA TaskKeeps ==
  ASSUME EstablishmentInv, NEW t \in Tasks, TaskStep(t)
  PROVE  EstablishmentInv'
PROOF
  <1>1. /\ TypeOK /\ UNCHANGED peerVars
        /\ errors \in 0..MaxErrors /\ MaxErrors \in Nat
    BY AcceptorAssumption DEF EstablishmentInv, TypeOK, AcceptorTypeOK, TaskStep
  <1>2. ASSUME Reselect(t)
        PROVE  /\ pc' = [pc EXCEPT ![t] = "select"]
               /\ woken' \in [Tasks -> BOOLEAN]
    BY <1>1, <1>2, Types DEF Reselect
  <1>3. CASE Polled(t) \/ AcceptError(t)
    <2>1. /\ pc[t] \in {"spawned", "select"} /\ Reselect(t)
          /\ UNCHANGED <<processor, held, own, conn, passed>>
          /\ errors' \in 0..MaxErrors
      BY <1>1, <1>3 DEF Polled, AcceptError
    <2>2. \A u \in Tasks : pc'[u] = IF u = t THEN "select" ELSE pc[u]
      BY <1>1, <1>2, <2>1, Types
    <2>3. pc' \in [Tasks -> {"absent", "spawned", "select", "handshake", "done", "panicked"}]
      BY <1>1, <1>2, <2>1, Types
    <2> QED BY <1>1, <1>2, <2>1, <2>2, <2>3, IdleStepKeeps
  <1>4. CASE StopBranch(t)
    <2>1. /\ pc[t] = "select" /\ pc' = [pc EXCEPT ![t] = "done"]
          /\ UNCHANGED <<processor, held, own, woken, conn, passed, errors>>
      BY <1>4 DEF StopBranch
    <2>2. \A u \in Tasks : pc'[u] = IF u = t THEN "done" ELSE pc[u]
      BY <1>1, <2>1, Types
    <2>3. /\ pc' \in [Tasks -> {"absent", "spawned", "select", "handshake", "done",
                                 "panicked"}]
          /\ woken' \in [Tasks -> BOOLEAN]
      BY <1>1, <2>1, Types
    <2> QED BY <1>1, <2>1, <2>2, <2>3, IdleStepKeeps
  <1>5. CASE \E c \in Conns : AcceptBranch(t, c)
    BY <1>1, <1>5, AcceptKeeps
  <1>6. CASE StagePasses(t)
    BY <1>1, <1>6, StagePassesKeeps
  <1>7. CASE StageRefuses(t)
    <2>1. LetGo(t, "refused") /\ Reselect(t) /\ pc[t] = "handshake"
      BY <1>7 DEF StageRefuses, InStage
    <2> QED BY <1>1, <1>2, <2>1, LetGoKeeps
  <1>8. CASE StagePanics(t)
    <2>1. /\ LetGo(t, "refused") /\ UNCHANGED woken /\ pc[t] = "handshake"
          /\ pc' = [pc EXCEPT ![t] = "panicked"]
      BY <1>8 DEF StagePanics, InStage
    <2>2. woken' \in [Tasks -> BOOLEAN]
      BY <1>1, <2>1, Types
    <2> QED BY <1>1, <2>1, <2>2, LetGoKeeps
  <1>9. CASE Serve(t)
    <2>1. /\ LetGo(t, "serving") /\ Reselect(t) /\ pc[t] = "handshake"
          /\ Len(passed[held[t]]) = Len(Stages)
      BY <1>9 DEF Serve
    <2> QED BY <1>1, <1>2, <2>1, LetGoKeeps
  <1> QED BY <1>3, <1>4, <1>5, <1>6, <1>7, <1>8, <1>9 DEF TaskStep, Step

\* EstablishmentInv is inductive.
LEMMA EstablishmentInvariant == Spec => []EstablishmentInv
PROOF
  <1>1. Init => EstablishmentInv
    <2> SUFFICES ASSUME Init PROVE EstablishmentInv
      OBVIOUS
    <2> USE DEF Init, HandshakeInit, AcceptorInit
    <2>1. TypeOK
      <3>1. <<>> \in Seq(First(Stages, Len(Stages)))
        OBVIOUS
      <3>2. 0 \in 0..Len(ClientStages) /\ 0 \in 0..MaxErrors
        BY StagesTypes, AcceptorAssumption
      <3> QED BY <3>1, <3>2 DEF TypeOK, HandshakeTypeOK, AcceptorTypeOK
    <2>2. Holding /\ NoneLost /\ Undialled
      BY DEF Holding, NoneLost, Undialled
    <2>3. InOrder
      <3>1. \A c \in Conns : passed[c] = <<>> /\ conn[c] # "serving"
        OBVIOUS
      <3>2. \A c \in Conns : Len(passed[c]) = 0
        BY <3>1
      <3>3. 0 <= Len(Stages) /\ 1..0 = {}
        BY StagesTypes
      <3>4. \A c \in Conns : \A i \in 1..Len(passed[c]) : FALSE
        BY <3>2, <3>3
      <3> QED BY ONLY <3>1, <3>2, <3>3, <3>4 DEF InOrder
    <2>4. Met
      <3>1. \A c \in Conns : cl_passed[c] = 0 /\ peer[c] # "up"
        OBVIOUS
      <3>2. \A c \in Conns : \A i \in 1..cl_passed[c] : FALSE
        BY <3>1
      <3> QED BY ONLY <3>1, <3>2 DEF Met
    <2> QED BY <2>1, <2>2, <2>3, <2>4 DEF EstablishmentInv
  <1>2. EstablishmentInv /\ [Next]_vars => EstablishmentInv'
    <2> SUFFICES ASSUME EstablishmentInv, [Next]_vars PROVE EstablishmentInv'
      OBVIOUS
    <2>1. TypeOK
      BY DEF EstablishmentInv
    <2>2. CASE Stop
      <3>1. /\ woken' = [t \in Tasks |-> woken[t] \/ pc[t] = "select"]
            /\ UNCHANGED <<peerVars, processor, pc, held, own, conn, passed, errors>>
        BY <2>2 DEF Stop, send_stop
      <3>2. woken' \in [Tasks -> BOOLEAN]
        BY <2>1, <3>1, Types
      <3>3. pc' \in [Tasks -> {"absent", "spawned", "select", "handshake", "done",
                                "panicked"}]
        BY <2>1, <3>1, Types
      <3>4. errors' \in 0..MaxErrors
        BY <2>1, <3>1 DEF TypeOK, AcceptorTypeOK
      <3> QED BY <3>1, <3>2, <3>3, <3>4, IdleStepKeeps
    <2>3. CASE UNCHANGED vars
      <3>1. UNCHANGED <<peerVars, conn, passed, processor, pc, held, own, woken, errors>>
        BY <2>3 DEF vars, taskVars
      <3>2. /\ pc' \in [Tasks -> {"absent", "spawned", "select", "handshake", "done",
                                   "panicked"}]
            /\ woken' \in [Tasks -> BOOLEAN]
        BY <2>1, <3>1, Types
      <3>3. errors' \in 0..MaxErrors
        BY <2>1, <3>1 DEF TypeOK, AcceptorTypeOK
      <3> QED BY <3>1, <3>2, <3>3, IdleStepKeeps
    <2> QED BY <2>2, <2>3, StartKeeps, TaskKeeps, PeerKeeps DEF Next, ClientStep
  <1> QED BY <1>1, <1>2, PTL DEF Spec

(***************************************************************************)
(* TypeOK: the state of peers, connections and acceptor tasks keeps its    *)
(* type, and no connection passes a stage that is not one of Stages.       *)
(***************************************************************************)
THEOREM EstablishmentTypeOK == Spec => []TypeOK
PROOF
  <1>1. EstablishmentInv => TypeOK
    BY DEF EstablishmentInv
  <1> QED BY <1>1, EstablishmentInvariant, PTL

(***************************************************************************)
(* AcceptedIsHeld: whatever stops, panics and other acceptors do, an       *)
(* accepted connection is in the hands of exactly one running task.        *)
(***************************************************************************)
THEOREM AcceptedAlwaysHeld == Spec => []AcceptedIsHeld
PROOF
  <1>1. EstablishmentInv => AcceptedIsHeld
    <2> SUFFICES ASSUME EstablishmentInv, NEW c \in Conns, conn[c] = "accepted"
                 PROVE  \E t \in Tasks :
                            /\ pc[t] = "handshake" /\ held[t] = c
                            /\ \A u \in Tasks : held[u] = c => u = t
      BY DEF AcceptedIsHeld
    <2>1. PICK t \in Tasks : held[t] = c
      BY DEF EstablishmentInv, NoneLost
    <2>2. c # None
      BY AcceptorAssumption
    <2> QED BY <2>1, <2>2 DEF EstablishmentInv, Holding
  <1> QED BY <1>1, EstablishmentInvariant, PTL

(***************************************************************************)
(* ServedIsVetted: for every combination of TLS, WebSocket and codec, a    *)
(* connection is served only after all checks, in their order, with its    *)
(* peer in those that need two.                                            *)
(***************************************************************************)
THEOREM ServedAlwaysVetted == Spec => []ServedIsVetted
PROOF
  <1>1. EstablishmentInv => ServedIsVetted
    <2> SUFFICES ASSUME EstablishmentInv, NEW c \in Conns, conn[c] = "serving"
                 PROVE  /\ passed[c] = Stages
                        /\ \A i \in 1..Len(Stages) : Alone(Stages[i]) \/ PeerIn(c, Stages[i])
      BY DEF ServedIsVetted
    <2>1. /\ Len(passed[c]) = Len(Stages)
          /\ \A i \in 1..Len(passed[c]) : passed[c][i] = Stages[i] /\ Attended(c, Stages[i])
      BY DEF EstablishmentInv, InOrder
    <2>2. passed[c] \in Seq(First(Stages, Len(Stages)))
      BY Types DEF EstablishmentInv
    <2>3. passed[c] = Stages
      BY <2>1, <2>2, StagesTypes, SeqEqual
    <2> QED BY <2>1, <2>3 DEF Attended
  <1> QED BY <1>1, EstablishmentInvariant, PTL

(***************************************************************************)
(* ConnectedIsTakenUp: for every combination of TLS, WebSocket and codec,  *)
(* a client that ClientConnect::new returned was taken through every       *)
(* handshake that needs two by an acceptor task, and was not lost since.   *)
(***************************************************************************)
THEOREM ConnectedAlwaysTakenUp == Spec => []ConnectedIsTakenUp
PROOF
  <1>1. EstablishmentInv => ConnectedIsTakenUp
    <2> SUFFICES ASSUME EstablishmentInv, NEW c \in Conns, peer[c] = "up",
                        NEW i \in 1..Len(ClientStages), ~Alone(ClientStages[i])
                 PROVE  /\ ServerIn(c, ClientStages[i])
                        /\ \/ conn[c] \in {"serving", "refused"}
                           \/ \E t \in Tasks : pc[t] = "handshake" /\ held[t] = c
      BY DEF ConnectedIsTakenUp
    <2>1. ServerIn(c, ClientStages[i])
      BY DEF EstablishmentInv, Met, Answered
    <2>2. conn[c] \in {"accepted", "serving", "refused"}
      BY <2>1, Types DEF EstablishmentInv, ServerIn
    <2>3. CASE conn[c] = "accepted"
      <3>1. PICK t \in Tasks : held[t] = c
        BY <2>3 DEF EstablishmentInv, NoneLost
      <3>2. c # None
        BY AcceptorAssumption
      <3> QED BY <2>1, <3>1, <3>2 DEF EstablishmentInv, Holding
    <2> QED BY <2>1, <2>2, <2>3
  <1> QED BY <1>1, EstablishmentInvariant, PTL
=============================================================================
