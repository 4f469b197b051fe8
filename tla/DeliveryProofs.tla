--------------------------- MODULE DeliveryProofs ---------------------------
(***************************************************************************)
(* What a session guarantees for requests of any data: the client finishes *)
(* them in the order of the channel, at most one more than the channel     *)
(* holds is unfinished, and no handler runs twice for one request.  And,   *)
(* unless the client's encoder refuses a payload, that the processors of   *)
(* the two ends count the same frames.                                     *)
(***************************************************************************)
EXTENDS SessionProofs, FiniteSetTheorems

\* How many requests the task has taken out of the channel.
Taken == Len(order) - Len(queue)

\* The task is in process_request.
Busy == cl_pc \notin {"recv", "ended"}

(***************************************************************************)
(* The channel holds the end of the dispatch order, untouched; what was    *)
(* taken before is finished, up to the one request being processed.        *)
(***************************************************************************)
DispatchedOnce == \A i, j \in 1..Len(order) : order[i] = order[j] => i = j

Backlog ==
    /\ Len(queue) <= Len(order)
    /\ Len(queue) <= max_request_in_time
    /\ \A i \in 1..Len(queue) : queue[i] = order[Taken + i]

Untouched ==
    /\ \A i \in 1..Len(order) : i > Taken => outcome[order[i]] = "none"
    /\ \A r \in Requests : outcome[r] # "none" => r \in Dispatched

InProcess == Busy => Taken >= 1 /\ order[Taken] = cur /\ outcome[cur] = "none"

Finished ==
    \A i \in 1..Len(order) :
        i < Taken \/ (i = Taken /\ ~Busy) => outcome[order[i]] # "none"

QueueInv == DispatchedOnce /\ Backlog /\ Untouched /\ InProcess /\ Finished

(***************************************************************************)
(* Where a request's PacketMeta can be: on its way, with the loop, routed. *)
(* A meta exists only from SendMeta on, and in one of those places.        *)
(***************************************************************************)
IsMetaOf(f, r) == f.kind = "PacketMeta" /\ f.req = r
OnWay(r) == \E i \in 1..Len(c2s) : IsMetaOf(c2s[i], r)
Held(r) == srv_pc \in {"recv_payload", "serve"} /\ IsMetaOf(meta, r)
Routed(r) == \E i \in 1..Len(packets) : packets[i].req = r

MetaSentOf(r) ==
    /\ \E i \in 1..Taken : order[i] = r
    /\ Busy /\ cur = r => cl_pc \in {"payload_send", "response_wait"}

MetasDistinct ==
    \A i, j \in 1..Len(c2s) :
        /\ c2s[i].kind = "PacketMeta" /\ c2s[j].kind = "PacketMeta"
        /\ c2s[i].req = c2s[j].req
        => i = j

OnePlace ==
    \A r \in Requests :
        /\ OnWay(r) => ~Held(r) /\ ~Routed(r)
        /\ Held(r) => ~Routed(r)
        /\ OnWay(r) \/ Held(r) \/ Routed(r) => MetaSentOf(r)

OnceInv == AtMostOnce /\ MetasDistinct /\ OnePlace

(***************************************************************************)
(* The two ends count the same frames while the server's loop works: what  *)
(* the sender has processed is what the reader has, and what is on its     *)
(* way, and the payload processed together with its meta.                  *)
(***************************************************************************)
Looping == srv_pc \notin {"accepted", "closed"}

ToServer ==
    link = "up" /\ Looping =>
        cl_out = srv_in + Len(c2s) + (IF cl_pc = "payload_send" THEN 1 ELSE 0)

ToClient ==
    /\ link = "up" /\ cl_open /\ Looping /\ (srv_pc = "check_move" => send_ok) =>
           srv_out = cl_in + Len(s2c)
    /\ srv_pc = "send" => response.seq = srv_out + 1

Ends == (srv_open <=> srv_pc # "closed") /\ (cl_open <=> cl_pc # "ended")

TrafficInv == TrafficInStep /\ ToServer /\ ToClient /\ Ends
-----------------------------------------------------------------------------
(***************************************************************************)
(* What a step can do to the requests: nothing, finish the one being       *)
(* processed, take the next one or queue a new one.                        *)
(***************************************************************************)
Unmoved == UNCHANGED <<queue, order, outcome, cur>> /\ Busy' = Busy

FinishesOne ==
    /\ Busy /\ ~Busy'
    /\ \E o \in {"sent", "failed"} : outcome' = [outcome EXCEPT ![cur] = o]
    /\ UNCHANGED <<queue, order, cur>>

TakesNext ==
    /\ ~Busy /\ cl_pc' \in {"route_send", "meta_send"}
    /\ queue # <<>> /\ queue' = Tail(queue) /\ cur' = Head(queue)
    /\ UNCHANGED <<order, outcome>>

QueuesNew ==
    /\ \E r \in Requests \ Dispatched : ChannelSend(r)
    /\ UNCHANGED <<outcome, cur, cl_pc>>

\* Every step of the session is one of these four.
LEMMA RequestSteps ==
  ASSUME [Next]_vars
  PROVE  Unmoved \/ FinishesOne \/ TakesNext \/ QueuesNew
PROOF
  <1>1. ASSUME RequestFails, Busy PROVE FinishesOne
    BY <1>1 DEF RequestFails, callerVars, FinishesOne, Busy
  <1>2. CASE RecvRequest
    BY <1>2 DEF RecvRequest, TakesNext, Busy
  <1>3. CASE ConnectionLoopEnds
    BY <1>3 DEF ConnectionLoopEnds, callerVars, Unmoved, Busy
  <1>4. CASE SendRouteRequest
    BY <1>1, <1>4 DEF SendRouteRequest, callerVars, Unmoved, Busy
  <1>5. CASE RecvRouteAnswer
    BY <1>1, <1>5 DEF RecvRouteAnswer, callerVars, Unmoved, Busy
  <1>6. CASE SendMeta
    BY <1>1, <1>6 DEF SendMeta, callerVars, Unmoved, Busy
  <1>7. CASE SendPayload
    BY <1>1, <1>7 DEF SendPayload, callerVars, Unmoved, Busy
  <1>8. CASE RecvResponse
    BY <1>8 DEF RecvResponse, callerVars, FinishesOne, Busy
  <1>9. CASE ReadFails
    BY <1>1, <1>9 DEF ReadFails, Busy
  <1>10. CASE Callers
    BY <1>10 DEF Callers, dispatch_request, Abandon, DropClient, QueuesNew, Unmoved, Busy
  <1>11. CASE UNCHANGED clientVars
    BY <1>11 DEF clientVars, Unmoved, Busy
  <1> QED BY <1>2, <1>3, <1>4, <1>5, <1>6, <1>7, <1>8, <1>9, <1>10, <1>11
          DEF Next, vars, ClientTask

\* The channel's bookkeeping survives a step that touches no request.
LEMMA UnmovedQueue ==
  ASSUME QueueInv, Unmoved
  PROVE  QueueInv'
PROOF
  BY DEF QueueInv, Unmoved, DispatchedOnce, Backlog, Untouched, InProcess, Finished,
         Taken, Dispatched

\* The request being processed ends: it joins the finished ones.
LEMMA EndsQueue ==
  ASSUME TypeInv, QueueInv, FinishesOne
  PROVE  QueueInv'
PROOF
  <1>1. /\ order \in Seq(Requests) /\ queue \in Seq(Requests)
        /\ outcome \in [Requests -> Outcomes]
    BY DEF TypeInv, TypeOK, ClientTypeOK
  <1>2. Len(order) \in Nat /\ Len(queue) \in Nat /\ Len(queue) <= Len(order)
    BY <1>1 DEF QueueInv, Backlog
  <1>3. /\ Taken \in 1..Len(order) /\ order[Taken] = cur /\ cur \in Requests
        /\ UNCHANGED <<queue, order, cur, Taken>> /\ Busy /\ ~Busy'
    BY <1>1, <1>2 DEF QueueInv, InProcess, FinishesOne, Taken
  <1>4. /\ \A r \in Requests : r # cur => outcome'[r] = outcome[r]
        /\ outcome'[cur] # "none"
    BY <1>1, <1>3 DEF FinishesOne
  <1>5. DispatchedOnce' /\ Backlog'
    BY <1>3 DEF QueueInv, DispatchedOnce, Backlog
  <1>6. ASSUME NEW i \in 1..Len(order) PROVE order[i] \in Requests /\ (order[i] = cur => i = Taken)
    BY <1>1, <1>3 DEF QueueInv, DispatchedOnce
  <1>7. Untouched'
    <2>1. \A i \in 1..Len(order) : i > Taken => outcome'[order[i]] = "none"
      BY <1>2, <1>3, <1>4, <1>6 DEF QueueInv, Untouched
    <2>2. \A r \in Requests : outcome'[r] # "none" => r \in Dispatched
      BY <1>3, <1>4 DEF QueueInv, Untouched, Dispatched
    <2> QED BY <1>3, <2>1, <2>2 DEF Untouched, Dispatched
  <1>8. InProcess' /\ Finished'
    <2>1. \A i \in 1..Len(order) : i <= Taken => outcome'[order[i]] # "none"
      BY <1>2, <1>3, <1>4, <1>6 DEF QueueInv, Finished
    <2> QED BY <1>2, <1>3, <2>1 DEF InProcess, Finished
  <1> QED BY <1>5, <1>7, <1>8 DEF QueueInv

\* The oldest request leaves the channel and is processed.
LEMMA TakesQueue ==
  ASSUME TypeInv, QueueInv, TakesNext
  PROVE  QueueInv'
PROOF
  <1>1. /\ order \in Seq(Requests) /\ queue \in Seq(Requests)
        /\ max_request_in_time \in Nat
    BY CapacityAssumption DEF TypeInv, TypeOK, ClientTypeOK
  <1>2. /\ Len(queue) \in Nat /\ Len(queue) >= 1 /\ Head(queue) = queue[1]
        /\ Len(queue') = Len(queue) - 1
        /\ \A i \in 1..Len(queue') : queue'[i] = queue[i + 1] /\ i + 1 \in 1..Len(queue)
    BY <1>1, TailFacts DEF TakesNext
  <1>3. Len(order) \in Nat /\ Len(queue) <= Len(order)
    BY <1>1 DEF QueueInv, Backlog
  <1>4. /\ Taken \in Nat /\ Taken' = Taken + 1 /\ Taken + 1 \in 1..Len(order)
        /\ cur' = order[Taken + 1]
        /\ UNCHANGED <<order, outcome>> /\ ~Busy /\ Busy'
    BY <1>2, <1>3 DEF QueueInv, Backlog, TakesNext, Taken, Busy
  <1>5. Backlog'
    <2>1. \A i \in 1..Len(queue') : queue'[i] = order[Taken' + i]
      BY <1>2, <1>4 DEF QueueInv, Backlog
    <2> QED BY <1>1, <1>2, <1>3, <1>4, <2>1 DEF QueueInv, Backlog
  <1>6. DispatchedOnce' /\ Untouched'
    BY <1>3, <1>4 DEF QueueInv, DispatchedOnce, Untouched, Dispatched
  <1>7. InProcess' /\ Finished'
    BY <1>3, <1>4 DEF QueueInv, InProcess, Finished, Untouched
  <1> QED BY <1>5, <1>6, <1>7 DEF QueueInv

\* A new request joins the end of the channel and of the order.
LEMMA QueuesQueue ==
  ASSUME TypeInv, QueueInv, QueuesNew
  PROVE  QueueInv'
PROOF
  <1>1. /\ order \in Seq(Requests) /\ queue \in Seq(Requests)
        /\ max_request_in_time \in Nat
    BY CapacityAssumption DEF TypeInv, TypeOK, ClientTypeOK
  <1>2. PICK r \in Requests \ Dispatched : ChannelSend(r)
    BY DEF QueuesNew
  <1>3. /\ Len(queue) \in Nat /\ Len(queue') = Len(queue) + 1
        /\ \A i \in 1..Len(queue) : queue'[i] = queue[i]
        /\ queue'[Len(queue) + 1] = r
    BY <1>1, <1>2, AppendFacts DEF ChannelSend
  <1>4. /\ Len(order) \in Nat /\ Len(order') = Len(order) + 1
        /\ \A i \in 1..Len(order) : order'[i] = order[i]
        /\ order'[Len(order) + 1] = r
    BY <1>1, <1>2, AppendFacts DEF ChannelSend
  <1>5. /\ Len(queue) <= Len(order) /\ Taken \in Nat /\ Taken = Len(order) - Len(queue)
        /\ UNCHANGED <<Taken, outcome, cur, Busy>>
    BY <1>3, <1>4 DEF QueueInv, Backlog, Taken, QueuesNew, Busy
  <1>6. \A i \in 1..Len(order) : order[i] # r
    BY <1>2 DEF Dispatched
  <1>7. outcome[r] = "none" /\ Dispatched \subseteq Dispatched'
    BY <1>2, <1>4 DEF QueueInv, Untouched, Dispatched
  <1>8. DispatchedOnce'
    BY <1>4, <1>6 DEF QueueInv, DispatchedOnce
  <1>9. Backlog'
    <2>1. \A i \in 1..Len(queue) : queue'[i] = order'[Taken' + i]
      <3> SUFFICES ASSUME NEW i \in 1..Len(queue) PROVE queue'[i] = order'[Taken' + i]
        OBVIOUS
      <3>1. Taken + i \in 1..Len(order)
        BY <1>3, <1>4, <1>5
      <3> QED BY <1>3, <1>4, <1>5, <3>1 DEF QueueInv, Backlog
    <2>2. queue'[Len(queue) + 1] = order'[Taken' + (Len(queue) + 1)]
      <3>1. Taken + (Len(queue) + 1) = Len(order) + 1
        BY <1>3, <1>4, <1>5
      <3> QED BY <1>3, <1>4, <1>5, <3>1
    <2>3. Len(queue') <= max_request_in_time
      BY <1>1, <1>2, <1>3 DEF ChannelSend
    <2> QED BY <1>3, <1>4, <1>5, <2>1, <2>2, <2>3 DEF Backlog
  <1>10. Untouched'
    <2>1. \A i \in 1..Len(order') : i > Taken' => outcome'[order'[i]] = "none"
      BY <1>3, <1>4, <1>5, <1>7 DEF QueueInv, Untouched
    <2> QED BY <1>5, <1>7, <2>1 DEF QueueInv, Untouched
  <1>11. InProcess'
    BY <1>3, <1>4, <1>5 DEF QueueInv, InProcess
  <1>12. Finished'
    BY <1>3, <1>4, <1>5 DEF QueueInv, Finished
  <1> QED BY <1>8, <1>9, <1>10, <1>11, <1>12 DEF QueueInv

\* QueueInv is inductive, given the types.
LEMMA QueueInvariant == Spec => []QueueInv
PROOF
  <1>1. Init => QueueInv
    <2> SUFFICES ASSUME Init PROVE QueueInv
      OBVIOUS
    <2> USE DEF Init, ClientInit
    <2>1. Len(order) = 0 /\ Len(queue) = 0 /\ Taken = 0 /\ ~Busy
      BY DEF Taken, Busy
    <2> QED BY <2>1, CapacityAssumption
            DEF QueueInv, DispatchedOnce, Backlog, Untouched, InProcess, Finished
  <1>2. TypeInv /\ QueueInv /\ [Next]_vars => QueueInv'
    BY RequestSteps, UnmovedQueue, EndsQueue, TakesQueue, QueuesQueue
  <1> QED BY <1>1, <1>2, TypeInvariant, PTL DEF Spec

(***************************************************************************)
(* FifoResolution: the client task finishes requests in the order in which *)
(* the channel took them, whatever fails or is abandoned on the way.       *)
(***************************************************************************)
THEOREM FifoResolved == Spec => []FifoResolution
PROOF
  <1>1. TypeInv /\ QueueInv => FifoResolution
    <2> SUFFICES ASSUME TypeInv, QueueInv,
                        NEW i \in 1..Len(order), NEW j \in 1..Len(order),
                        i < j, outcome[order[j]] # "none"
                 PROVE  outcome[order[i]] # "none"
      BY DEF FifoResolution
    <2>1. Len(order) \in Nat /\ Len(queue) \in Nat
      BY DEF TypeInv, TypeOK, ClientTypeOK
    <2>2. j <= Taken
      BY <2>1 DEF QueueInv, Untouched, Taken
    <2> QED BY <2>1, <2>2 DEF QueueInv, Finished, Taken
  <1> QED BY <1>1, TypeInvariant, QueueInvariant, PTL

\* What is in flight was dispatched last: its places in the order are those of the
\* channel's requests and the one before them.
LEMMA InFlightIsTheEnd ==
  ASSUME TypeInv, QueueInv
  PROVE  \A r \in InFlight :
             \E i \in Len(order) - Len(queue) .. Len(order) :
                 i \in 1..Len(order) /\ order[i] = r
PROOF
  <1> SUFFICES ASSUME NEW r \in InFlight
               PROVE  \E i \in Len(order) - Len(queue) .. Len(order) :
                          i \in 1..Len(order) /\ order[i] = r
    OBVIOUS
  <1>1. Len(order) \in Nat /\ Len(queue) \in Nat
    BY DEF TypeInv, TypeOK, ClientTypeOK
  <1>2. PICK i \in 1..Len(order) : order[i] = r
    BY DEF InFlight, Dispatched
  <1>3. i >= Taken
    BY <1>1, <1>2 DEF QueueInv, Finished, InFlight, Taken
  <1> QED BY <1>1, <1>2, <1>3 DEF Taken

(***************************************************************************)
(* InFlightBound: never more dispatched and unfinished requests than the   *)
(* channel holds and the one the task has taken out of it.                 *)
(***************************************************************************)
THEOREM InFlightBounded == Spec => []InFlightBound
PROOF
  <1>1. TypeInv /\ QueueInv => InFlightBound
    <2> SUFFICES ASSUME TypeInv, QueueInv PROVE InFlightBound
      OBVIOUS
    <2> DEFINE lo == Len(order) - Len(queue)
               End == lo .. Len(order)
               place == [r \in InFlight |-> CHOOSE i \in End : i \in 1..Len(order) /\ order[i] = r]
    <2>1. /\ Len(order) \in Nat /\ Len(queue) \in Nat /\ Len(queue) <= Len(order)
          /\ Len(queue) <= max_request_in_time /\ max_request_in_time \in Nat
      BY CapacityAssumption DEF TypeInv, TypeOK, ClientTypeOK, QueueInv, Backlog
    <2>2. lo \in Int /\ Len(order) \in Int /\ lo <= Len(order)
      BY <2>1
    <2>3. IsFiniteSet(End) /\ Cardinality(End) = Len(queue) + 1
      <3>1. /\ IsFiniteSet(End)
            /\ Cardinality(End) = IF lo > Len(order) THEN 0 ELSE Len(order) - lo + 1
        BY <2>2, FS_Interval
      <3> QED BY <2>1, <2>2, <3>1
    <2>4. \A r \in InFlight : place[r] \in End /\ order[place[r]] = r
      BY InFlightIsTheEnd
    <2>5. place \in Injection(InFlight, End)
      BY <2>4 DEF Injection, IsInjective
    <2>6. Cardinality(InFlight) <= Cardinality(End)
      BY <2>3, <2>5, FS_Injection
    <2>7. IsFiniteSet(InFlight) /\ Cardinality(InFlight) \in Nat
      BY <2>3, <2>5, FS_Injection, FS_CardinalityType
    <2> QED BY <2>1, <2>3, <2>6, <2>7 DEF InFlightBound
  <1> QED BY <1>1, TypeInvariant, QueueInvariant, PTL
-----------------------------------------------------------------------------
(***************************************************************************)
(* At most once.                                                           *)
(***************************************************************************)

\* After its PacketMeta a request only waits or ends.
LEMMA MetaSentOnce ==
  ASSUME [Next]_vars, cl_pc \in {"payload_send", "response_wait"}
  PROVE  cl_pc' \in {"payload_send", "response_wait", "recv"}
PROOF
  <1>1. CASE ClientTask
    BY <1>1 DEF ClientTask, RecvRequest, ConnectionLoopEnds, SendRouteRequest,
                RecvRouteAnswer, SendMeta, SendPayload, RecvResponse, ReadFails, RequestFails
  <1>2. CASE Callers
    BY <1>2 DEF Callers, dispatch_request, Abandon, DropClient
  <1>3. CASE UNCHANGED clientVars
    BY <1>3 DEF clientVars
  <1> QED BY <1>1, <1>2, <1>3 DEF Next, vars

\* No step makes a request whose meta was sent one whose meta is still to be sent.
LEMMA MetaSentKept ==
  ASSUME TypeInv, QueueInv, [Next]_vars, NEW r \in Requests, MetaSentOf(r)
  PROVE  MetaSentOf(r)'
PROOF
  <1>1. /\ order \in Seq(Requests) /\ queue \in Seq(Requests)
        /\ Len(order) \in Nat /\ Len(queue) \in Nat /\ Len(queue) <= Len(order)
        /\ Taken \in Nat /\ Taken <= Len(order)
    BY DEF TypeInv, TypeOK, ClientTypeOK, QueueInv, Backlog, Taken
  <1>2. PICK i \in 1..Taken : order[i] = r
    BY DEF MetaSentOf
  <1>3. CASE Unmoved
    <2>1. UNCHANGED <<Taken, order, cur>> /\ Busy' = Busy
      BY <1>3 DEF Unmoved, Taken
    <2>2. Busy' /\ cur' = r => cl_pc' \in {"payload_send", "response_wait"}
      BY <2>1, MetaSentOnce DEF MetaSentOf, Busy
    <2> QED BY <1>2, <2>1, <2>2 DEF MetaSentOf
  <1>4. CASE FinishesOne
    BY <1>2, <1>4 DEF FinishesOne, MetaSentOf, Taken
  <1>5. CASE TakesNext
    <2>1. /\ Len(queue) >= 1 /\ Head(queue) = queue[1] /\ Len(queue') = Len(queue) - 1
      BY <1>1, <1>5, TailFacts DEF TakesNext
    <2>2. /\ Taken' = Taken + 1 /\ UNCHANGED order
          /\ cur' = order[Taken + 1] /\ Taken + 1 \in 1..Len(order)
      BY <1>1, <1>5, <2>1 DEF TakesNext, Taken, QueueInv, Backlog
    <2>3. cur' # r
      BY <1>1, <1>2, <2>2 DEF QueueInv, DispatchedOnce
    <2>4. i \in 1..Taken' /\ order'[i] = r
      BY <1>1, <1>2, <2>2
    <2> QED BY <2>3, <2>4 DEF MetaSentOf
  <1>6. CASE QueuesNew
    <2>1. PICK q \in Requests : ChannelSend(q)
      BY <1>6 DEF QueuesNew
    <2>2. Len(queue') = Len(queue) + 1
      BY <1>1, <2>1, AppendFacts DEF ChannelSend
    <2>3. Len(order') = Len(order) + 1 /\ \A k \in 1..Len(order) : order'[k] = order[k]
      BY <1>1, <2>1, AppendFacts DEF ChannelSend
    <2>4. Taken' = Taken /\ order'[i] = r
      BY <1>1, <1>2, <2>2, <2>3 DEF Taken
    <2> QED BY <1>2, <1>6, <2>4 DEF MetaSentOf, QueuesNew, Busy
  <1> QED BY <1>3, <1>4, <1>5, <1>6, RequestSteps

\* Reading the stream towards the server takes the meta in front off it.
LEMMA MetasRead ==
  ASSUME c2s \in Seq(ClientFrames), c2s # <<>>, c2s' = Tail(c2s), MetasDistinct
  PROVE  /\ MetasDistinct'
         /\ \A r : OnWay(r)' => OnWay(r)
         /\ \A r : IsMetaOf(Head(c2s), r) => OnWay(r) /\ ~OnWay(r)'
PROOF
  <1>1. /\ Len(c2s) \in Nat /\ Len(c2s) >= 1 /\ Head(c2s) = c2s[1]
        /\ Len(c2s') = Len(c2s) - 1
        /\ \A i \in 1..Len(c2s') : c2s'[i] = c2s[i + 1] /\ i + 1 \in 1..Len(c2s)
    BY TailFacts
  <1>2. MetasDistinct'
    BY <1>1 DEF MetasDistinct
  <1>3. ASSUME NEW r, OnWay(r)' PROVE OnWay(r)
    BY <1>1, <1>3 DEF OnWay
  <1>4. ASSUME NEW r, IsMetaOf(Head(c2s), r) PROVE OnWay(r) /\ ~OnWay(r)'
    <2>1. OnWay(r)
      BY <1>1, <1>4 DEF OnWay
    <2>2. ASSUME NEW i \in 1..Len(c2s') PROVE ~IsMetaOf(c2s'[i], r)
      BY <1>1, <1>4 DEF MetasDistinct, IsMetaOf
    <2> QED BY <2>1, <2>2 DEF OnWay
  <1> QED BY <1>2, <1>3, <1>4

\* Sending a meta that is not on its way yet keeps the metas distinct.
LEMMA MetasAppended ==
  ASSUME c2s \in Seq(ClientFrames), NEW f \in ClientFrames, c2s' = Append(c2s, f),
         MetasDistinct, f.kind = "PacketMeta" => ~OnWay(f.req)
  PROVE  /\ MetasDistinct'
         /\ \A r : OnWay(r)' => OnWay(r) \/ IsMetaOf(f, r)
PROOF
  <1>1. /\ Len(c2s) \in Nat /\ Len(c2s') = Len(c2s) + 1
        /\ \A i \in 1..Len(c2s) : c2s'[i] = c2s[i]
        /\ c2s'[Len(c2s) + 1] = f
    BY AppendFacts
  <1>2. \A i \in 1..Len(c2s') : i \in 1..Len(c2s) \/ i = Len(c2s) + 1
    BY <1>1
  <1>3. MetasDistinct'
    BY <1>1, <1>2 DEF MetasDistinct, OnWay, IsMetaOf
  <1>4. ASSUME NEW r, OnWay(r)' PROVE OnWay(r) \/ IsMetaOf(f, r)
    BY <1>1, <1>2, <1>4 DEF OnWay
  <1> QED BY <1>3, <1>4

\* Metas that are only lost, or stay where they are, stay in one place.
LEMMA OnceShrinks ==
  ASSUME OnceInv, MetasDistinct', packets' = packets,
         \A r \in Requests : MetaSentOf(r) => MetaSentOf(r)',
         \A r \in Requests : OnWay(r)' => OnWay(r),
         \A r \in Requests : Held(r)' => Held(r)
  PROVE  OnceInv'
PROOF
  <1>1. AtMostOnce'
    BY DEF OnceInv, AtMostOnce
  <1>2. \A r \in Requests : Routed(r)' <=> Routed(r)
    BY DEF Routed
  <1>3. OnePlace'
    BY <1>2 DEF OnceInv, OnePlace
  <1> QED BY <1>1, <1>3 DEF OnceInv

\* The client sends a frame: a PacketMeta is the first of its request.
LEMMA OnceClient ==
  ASSUME TypeInv, QueueInv, OnceInv, [Next]_vars, ClientTask, UNCHANGED serverVars,
         \A r \in Requests : MetaSentOf(r) => MetaSentOf(r)'
  PROVE  OnceInv'
PROOF
  <1>1. /\ c2s \in Seq(ClientFrames) /\ cl_out \in Nat
        /\ cur_id \in HandlerIds \cup {None}
    BY DEF TypeInv, TypeOK, WireTypeOK, ClientTypeOK
  <1>2. /\ packets' = packets
        /\ \A r \in Requests : Held(r)' <=> Held(r)
        /\ \A r \in Requests : Routed(r)' <=> Routed(r)
    BY DEF serverVars, Held, Routed
  <1>3. CASE c2s' = c2s
    <2>1. MetasDistinct' /\ \A r \in Requests : OnWay(r)' => OnWay(r)
      BY <1>3 DEF OnceInv, MetasDistinct, OnWay
    <2> QED BY <1>2, <2>1, OnceShrinks
  <1>4. ASSUME NEW f \in ClientFrames, c2s' = Append(c2s, f), f.kind # "PacketMeta"
        PROVE  OnceInv'
    <2>1. MetasDistinct' /\ \A r : OnWay(r)' => OnWay(r)
      BY <1>1, <1>4, MetasAppended DEF OnceInv, IsMetaOf
    <2> QED BY <1>2, <2>1, OnceShrinks
  <1>5. CASE SendMeta /\ c2s' # c2s
    <2> DEFINE f == PacketMeta(cur, cur_id, cl_out + 1)
    <2>1. cl_pc = "meta_send" /\ c2s' = Append(c2s, f) /\ cl_pc' = "payload_send"
          /\ UNCHANGED <<queue, order, cur>>
      BY <1>5 DEF SendMeta, ClientSends, ClientSendFails, callerVars
    <2>2. cur \in Requests /\ f \in ClientFrames /\ \A r : IsMetaOf(f, r) <=> r = cur
      BY <1>1, <2>1 DEF TypeInv, LocalsSet, PacketMeta, ClientFrames, IsMetaOf
    <2>3. ~OnWay(cur) /\ ~Held(cur) /\ ~Routed(cur)
      BY <2>1, <2>2 DEF OnceInv, OnePlace, MetaSentOf, Busy
    <2>4. MetaSentOf(cur)'
      <3>1. Len(order) \in Nat /\ Len(queue) \in Nat
        BY DEF TypeInv, TypeOK, ClientTypeOK
      <3>2. Taken >= 1 /\ order[Taken] = cur
        BY <2>1 DEF QueueInv, InProcess, Busy
      <3>3. Taken \in 1..Taken /\ Taken' = Taken
        BY <2>1, <3>1, <3>2 DEF Taken
      <3> QED BY <2>1, <3>2, <3>3 DEF MetaSentOf
    <2>5. MetasDistinct' /\ \A r : OnWay(r)' => OnWay(r) \/ r = cur
      <3>1. ASSUME NEW g \in ClientFrames, c2s' = Append(c2s, g), g.req = cur
            PROVE  MetasDistinct' /\ \A r : OnWay(r)' => OnWay(r) \/ r = cur
        BY <1>1, <2>3, <3>1, MetasAppended DEF OnceInv, IsMetaOf
      <3>2. f.req = cur
        BY DEF PacketMeta
      <3> HIDE DEF f
      <3> QED BY <2>1, <2>2, <3>1, <3>2
    <2>6. OnePlace'
      <3> SUFFICES ASSUME NEW r \in Requests
                   PROVE  /\ OnWay(r)' => ~Held(r)' /\ ~Routed(r)'
                          /\ Held(r)' => ~Routed(r)'
                          /\ OnWay(r)' \/ Held(r)' \/ Routed(r)' => MetaSentOf(r)'
        BY DEF OnePlace
      <3>1. CASE r = cur
        <4>1. ~Held(r)' /\ ~Routed(r)'
          BY <1>2, <2>3, <3>1
        <4>2. MetaSentOf(r)'
          <5>1. r = cur'
            BY <2>1, <3>1
          <5>2. \E i \in 1..Taken' : order'[i] = r
            BY <2>4, <5>1 DEF MetaSentOf
          <5> QED BY <2>1, <5>2 DEF MetaSentOf
        <4> QED BY <4>1, <4>2
      <3>2. CASE r # cur
        BY <1>2, <2>5, <3>2 DEF OnceInv, OnePlace
      <3> QED BY <3>1, <3>2
    <2>7. AtMostOnce'
      BY <1>2 DEF OnceInv, AtMostOnce
    <2> QED BY <2>5, <2>6, <2>7 DEF OnceInv
  <1>6. CASE SendRouteRequest /\ c2s' # c2s
    <2>1. /\ c2s' = Append(c2s, HandlerMetaReq(cur, cl_out + 1)) /\ cl_pc = "route_send"
      BY <1>6 DEF SendRouteRequest, ClientSends, ClientSendFails
    <2>2. /\ HandlerMetaReq(cur, cl_out + 1) \in ClientFrames
          /\ HandlerMetaReq(cur, cl_out + 1).kind # "PacketMeta"
      BY <1>1, <2>1 DEF TypeInv, LocalsSet, HandlerMetaReq, ClientFrames
    <2> QED BY <1>4, <2>1, <2>2
  <1>7. CASE SendPayload /\ c2s' # c2s
    <2>1. c2s' = Append(c2s, Payload(cur, cl_out)) /\ cl_pc = "payload_send"
      BY <1>7 DEF SendPayload, ClientSends, ClientSendFails, wireVars
    <2>2. Payload(cur, cl_out) \in ClientFrames /\ Payload(cur, cl_out).kind # "PacketMeta"
      BY <1>1, <2>1 DEF TypeInv, LocalsSet, Payload, ClientFrames
    <2> QED BY <1>4, <2>1, <2>2
  <1>8. CASE RecvRequest \/ ConnectionLoopEnds \/ RecvRouteAnswer \/ RecvResponse \/ ReadFails
    <2>1. c2s' = c2s
      BY <1>8 DEF RecvRequest, ConnectionLoopEnds, RecvRouteAnswer, RecvResponse, ReadFails,
                  wireVars, ClientDrops, ClientReads, ClientReadFails
    <2> QED BY <1>3, <2>1
  <1> QED BY <1>3, <1>5, <1>6, <1>7, <1>8 DEF ClientTask

\* The server reads, serves or leaves: a meta moves on or is lost.
LEMMA OnceServer ==
  ASSUME TypeInv, OnceInv, ConnectionTask \/ UserTasks,
         \A r \in Requests : MetaSentOf(r) => MetaSentOf(r)'
  PROVE  OnceInv'
PROOF
  <1>1. c2s \in Seq(ClientFrames) /\ packets \in Seq(RoutedPackets)
    BY DEF TypeInv, TypeOK, WireTypeOK, ServerTypeOK
  <1>2. ASSUME c2s' = c2s
        PROVE  MetasDistinct' /\ \A r \in Requests : OnWay(r)' <=> OnWay(r)
    BY <1>2 DEF OnceInv, MetasDistinct, OnWay
  <1>3. CASE ReceiveMeta
    <2>1. /\ srv_pc = "recv_meta" /\ c2s # <<>> /\ c2s' = Tail(c2s)
          /\ meta' = Head(c2s) /\ packets' = packets
      BY <1>3 DEF ReceiveMeta, receive_message, ServerReads
    <2>2. /\ MetasDistinct'
          /\ \A r : OnWay(r)' => OnWay(r)
          /\ \A r : IsMetaOf(meta', r) => OnWay(r) /\ ~OnWay(r)'
      BY <1>1, <2>1, MetasRead DEF OnceInv
    <2>3. \A r \in Requests : /\ Routed(r)' <=> Routed(r)
                              /\ ~Held(r)
                              /\ Held(r)' => IsMetaOf(meta', r)
      BY <2>1 DEF Routed, Held, IsMetaOf
    <2>4. OnePlace'
      BY <2>2, <2>3 DEF OnceInv, OnePlace
    <2>5. AtMostOnce'
      BY <2>1 DEF OnceInv, AtMostOnce
    <2> QED BY <2>2, <2>4, <2>5 DEF OnceInv
  <1>4. CASE ReceivePayload \/ AcceptReads
    <2>1. /\ c2s # <<>> /\ c2s' = Tail(c2s) /\ UNCHANGED <<meta, packets>>
          /\ srv_pc' = srv_pc \/ (srv_pc = "recv_payload" /\ srv_pc' = "serve")
      BY <1>4 DEF ReceivePayload, receive_message, AcceptReads, ServerReads, serverVars
    <2>2. MetasDistinct' /\ \A r : OnWay(r)' => OnWay(r)
      BY <1>1, <2>1, MetasRead DEF OnceInv
    <2>3. \A r \in Requests : Held(r)' => Held(r)
      BY <2>1 DEF Held, IsMetaOf
    <2> QED BY <2>1, <2>2, <2>3, OnceShrinks
  <1>5. CASE ServePacketMeta /\ serve_packet
    <2>1. /\ srv_pc = "serve" /\ srv_pc' \in {"handler", "send"}
          /\ meta.kind = "PacketMeta" /\ c2s' = c2s
          /\ packets' = Append(packets, [req |-> meta.req, id |-> meta.id,
                            payload |-> IF payload = None THEN None ELSE payload.req])
      BY <1>5 DEF serve_packet, ServePacketMeta, CallHandler, NoRoute, Respond, wireVars
    <2>2. meta \in ClientFrames /\ meta.req \in Requests
      BY <2>1 DEF TypeInv, LocalsSet, ClientFrames
    <2>3. Held(meta.req) /\ ~OnWay(meta.req) /\ ~Routed(meta.req) /\ MetaSentOf(meta.req)
      BY <2>1, <2>2 DEF OnceInv, OnePlace, Held, IsMetaOf
    <2>4. [req |-> meta.req, id |-> meta.id,
           payload |-> IF payload = None THEN None ELSE payload.req] \in RoutedPackets
      <3>1. (IF payload = None THEN None ELSE payload.req) \in Requests \cup {None}
        BY DEF TypeInv, TypeOK, ServerTypeOK, ClientFrames
      <3> QED BY <2>2, <3>1 DEF RoutedPackets, ClientFrames
    <2>5. /\ Len(packets) \in Nat /\ Len(packets') = Len(packets) + 1
          /\ \A i \in 1..Len(packets) : packets'[i] = packets[i]
          /\ packets'[Len(packets) + 1].req = meta.req
      BY <1>1, <2>1, <2>4, AppendFacts
    <2>6. \A i \in 1..Len(packets') : i \in 1..Len(packets) \/ i = Len(packets) + 1
      BY <2>5
    <2>7. AtMostOnce'
      BY <2>3, <2>5, <2>6 DEF OnceInv, AtMostOnce, Routed
    <2>8. \A r \in Requests : ~Held(r)' /\ (Routed(r)' => Routed(r) \/ r = meta.req)
      BY <2>1, <2>5, <2>6 DEF Held, Routed
    <2>9. OnePlace'
      BY <1>2, <2>1, <2>3, <2>8 DEF OnceInv, OnePlace
    <2> QED BY <1>2, <2>1, <2>7, <2>9 DEF OnceInv
  <1>6. ASSUME UNCHANGED <<c2s, packets>>,
               srv_pc' \notin {"recv_payload", "serve"} \/ UNCHANGED <<srv_pc, meta>>
        PROVE  OnceInv'
    <2>1. \A r \in Requests : Held(r)' => Held(r)
      BY <1>6 DEF Held, IsMetaOf
    <2> QED BY <1>2, <1>6, <2>1, OnceShrinks
  <1>7. CASE serve_packet /\ ~ServePacketMeta
    <2>1. UNCHANGED <<c2s, packets>> /\ srv_pc' = "send"
      BY <1>7 DEF serve_packet, AnswerName, Malformed, Respond, wireVars
    <2> QED BY <1>6, <2>1
  <1>8. CASE ReceiveError \/ ReceiveDisconnect \/ HandlerReturns \/ HandlerPanics
    <2>1. UNCHANGED <<c2s, packets>> /\ srv_pc' \notin {"recv_payload", "serve"}
      BY <1>8 DEF ReceiveError, ReceiveDisconnect, HandlerReturns, HandlerPanics, wireVars,
                  ServerDrops
    <2> QED BY <1>6, <2>1
  <1>9. CASE send_message \/ CheckMove \/ AcceptEnds
    <2>1. UNCHANGED <<c2s, packets>> /\ srv_pc' \notin {"recv_payload", "serve"}
      BY <1>9 DEF send_message, CheckMove, AfterSend, AcceptEnds, wireVars, ServerDrops,
                   ServerSends, ServerSendFails
    <2> QED BY <1>6, <2>1
  <1>10. CASE DetachedTask \/ AcceptSends
    <2>1. UNCHANGED <<c2s, packets, srv_pc, meta>>
      BY <1>10 DEF DetachedTask, AcceptSends, wireVars, ServerSends
    <2> QED BY <1>6, <2>1
  <1> QED BY <1>3, <1>4, <1>5, <1>7, <1>8, <1>9, <1>10 DEF ConnectionTask, UserTasks

\* OnceInv is inductive, given the types and the channel's bookkeeping.
LEMMA OnceInvariant == Spec => []OnceInv
PROOF
  <1>1. Init => OnceInv
    BY DEF Init, WireInit, ServerInit, OnceInv, AtMostOnce, MetasDistinct, OnePlace, OnWay,
           Held, Routed
  <1>2. TypeInv /\ QueueInv /\ OnceInv /\ [Next]_vars => OnceInv'
    <2> SUFFICES ASSUME TypeInv, QueueInv, OnceInv, [Next]_vars PROVE OnceInv'
      OBVIOUS
    <2>1. \A r \in Requests : MetaSentOf(r) => MetaSentOf(r)'
      BY MetaSentKept
    <2>2. CASE ClientTask /\ UNCHANGED serverVars
      BY <2>1, <2>2, OnceClient
    <2>3. CASE ConnectionTask \/ UserTasks
      BY <2>1, <2>3, OnceServer
    <2>4. CASE UNCHANGED <<c2s, serverVars>>
      <3>1. MetasDistinct' /\ \A r \in Requests : OnWay(r)' => OnWay(r)
        BY <2>4 DEF OnceInv, MetasDistinct, OnWay
      <3>2. packets' = packets /\ \A r \in Requests : Held(r)' => Held(r)
        BY <2>4 DEF serverVars, Held
      <3> QED BY <2>1, <3>1, <3>2, OnceShrinks
    <2>5. Callers \/ Break \/ UNCHANGED vars => c2s' = c2s
      BY DEF Callers, dispatch_request, Abandon, DropClient, Break, vars, wireVars
    <2> QED BY <2>2, <2>3, <2>4, <2>5 DEF Next, vars
  <1> QED BY <1>1, <1>2, TypeInvariant, QueueInvariant, PTL DEF Spec

(***************************************************************************)
(* AtMostOnce: the server routes at most one PacketMeta of each request.   *)
(* The client never sends a second one, also not after a failure, and the  *)
(* stream and the loop never duplicate one.                                *)
(***************************************************************************)
THEOREM ServedAtMostOnce == Spec => []AtMostOnce
PROOF
  <1>1. OnceInv => AtMostOnce
    BY DEF OnceInv
  <1> QED BY <1>1, OnceInvariant, PTL
-----------------------------------------------------------------------------
(***************************************************************************)
(* Traffic processors.  The client post-processes a payload before it      *)
(* knows whether the encoder takes it, so the two ends stay in step only   *)
(* if it takes every payload.                                              *)
(***************************************************************************)
Encodable == \A r \in Requests : data[r] # "over_client"

\* The types the counting needs.
LEMMA TrafficTypes ==
  ASSUME TypeInv
  PROVE  /\ c2s \in Seq(ClientFrames) /\ s2c \in Seq(ServerFrames)
         /\ Len(c2s) \in Nat /\ Len(s2c) \in Nat
         /\ cl_out \in Nat /\ cl_in \in Nat /\ srv_out \in Nat /\ srv_in \in Nat
PROOF
  BY DEF TypeInv, TypeOK, WireTypeOK, ClientTypeOK, ServerTypeOK

\* A step of the client that leaves the stream towards the server alone and, unless
\* it breaks the connection, owes no other payload than before.
LEMMA TrafficQuietClient ==
  ASSUME TypeInv, TrafficInv, UNCHANGED <<c2s, s2c, srv_open, serverVars, cl_in>>,
         \/ link' = "broken"
         \/ link' = link /\ cl_out' = cl_out
                         /\ (cl_pc' = "payload_send" <=> cl_pc = "payload_send"),
         cl_open' <=> cl_pc' # "ended", cl_open' => cl_open
  PROVE  TrafficInv'
PROOF
  <1> USE DEF TrafficInv, serverVars
  <1>1. TrafficInStep'
    BY DEF TrafficInStep
  <1>2. ToServer' /\ ToClient' /\ Ends'
    BY DEF ToServer, ToClient, Ends, Looping
  <1> QED BY <1>1, <1>2

\* A frame with the next number goes out to the server.
LEMMA TrafficSent ==
  ASSUME TypeInv, TrafficInv, UNCHANGED <<s2c, link, cl_open, srv_open, serverVars, cl_in>>,
         NEW f \in ClientFrames, c2s' = Append(c2s, f), link = "up",
         cl_pc # "ended", cl_pc' # "ended",
         Looping =>
             /\ f.seq = srv_in + Len(c2s) + 1
             /\ cl_out' = f.seq + (IF cl_pc' = "payload_send" THEN 1 ELSE 0)
  PROVE  TrafficInv'
PROOF
  <1>1. /\ Len(c2s') = Len(c2s) + 1 /\ c2s'[Len(c2s) + 1] = f
        /\ \A i \in 1..Len(c2s) : c2s'[i] = c2s[i]
    BY TrafficTypes, AppendFacts
  <1>2. Len(c2s) \in Nat /\ srv_in \in Nat
    BY TrafficTypes
  <1> USE DEF TrafficInv, serverVars
  <1>3. Looping' => \A i \in 1..Len(c2s') : c2s'[i].seq = srv_in' + i
    <2> SUFFICES ASSUME Looping', NEW i \in 1..Len(c2s') PROVE c2s'[i].seq = srv_in' + i
      OBVIOUS
    <2>1. CASE i \in 1..Len(c2s)
      BY <1>1, <2>1 DEF TrafficInStep, Looping
    <2>2. CASE i = Len(c2s) + 1
      BY <1>1, <1>2, <2>2 DEF Looping
    <2> QED BY <1>1, <1>2, <2>1, <2>2
  <1>4. TrafficInStep'
    BY <1>3 DEF TrafficInStep, Looping
  <1>5. ToServer' /\ ToClient' /\ Ends'
    BY <1>1, <1>2 DEF ToServer, ToClient, Ends, Looping
  <1> QED BY <1>4, <1>5

\* The client takes the next frame of its stream.
LEMMA TrafficClientReads ==
  ASSUME TypeInv, TrafficInv, ClientReads, UNCHANGED <<serverVars, cl_out>>,
         cl_in' = cl_in + 1, cl_pc \in {"route_wait", "response_wait"},
         cl_pc' \in {"meta_send", "recv"}
  PROVE  TrafficInv'
PROOF
  <1>1. /\ s2c # <<>> /\ s2c' = Tail(s2c) /\ UNCHANGED <<c2s, link, cl_open, srv_open>>
    BY DEF ClientReads
  <1>2. /\ Len(s2c') = Len(s2c) - 1
        /\ \A i \in 1..Len(s2c') : s2c'[i] = s2c[i + 1] /\ i + 1 \in 1..Len(s2c)
    BY <1>1, TrafficTypes, TailFacts
  <1>3. Len(s2c) \in Nat /\ cl_in \in Nat /\ Len(s2c') \in Nat
    BY <1>1, TrafficTypes, TailFacts
  <1> USE DEF TrafficInv, serverVars
  <1>4. \A i \in 1..Len(s2c') : s2c'[i].kind # "raw" => s2c'[i].seq = cl_in' + i
    BY <1>2, <1>3 DEF TrafficInStep
  <1>5. TrafficInStep'
    BY <1>1, <1>4 DEF TrafficInStep
  <1>6. ToServer' /\ ToClient' /\ Ends'
    BY <1>1, <1>2, <1>3, TrafficTypes DEF ToServer, ToClient, Ends, Looping
  <1> QED BY <1>5, <1>6

\* A step of the client's connection task keeps the ends in step.
LEMMA TrafficClient ==
  ASSUME Encodable, TypeInv, TrafficInv, ClientTask, UNCHANGED serverVars
  PROVE  TrafficInv'
PROOF
  <1>1. /\ Len(c2s) \in Nat /\ cl_out \in Nat /\ srv_in \in Nat
        /\ cur_id \in HandlerIds \cup {None}
        /\ (cl_open <=> cl_pc # "ended") /\ (srv_open <=> srv_pc # "closed")
    BY TrafficTypes DEF TrafficInv, Ends, TypeInv, TypeOK, ClientTypeOK
  <1>2. ASSUME NEW f \in ClientFrames, ClientSends(f), UNCHANGED cl_in,
               cl_pc # "ended", cl_pc' # "ended",
               Looping /\ link = "up" =>
                   /\ f.seq = srv_in + Len(c2s) + 1
                   /\ cl_out' = f.seq + (IF cl_pc' = "payload_send" THEN 1 ELSE 0)
        PROVE  TrafficInv'
    <2>1. CASE link = "up" /\ srv_open
      <3>1. c2s' = Append(c2s, f) /\ UNCHANGED <<s2c, link, cl_open, srv_open>>
        BY <1>2, <2>1 DEF ClientSends
      <3> QED BY <1>2, <2>1, <3>1, TrafficSent
    <2>2. CASE ~(link = "up" /\ srv_open)
      <3>1. link' = "broken" /\ UNCHANGED <<c2s, s2c, cl_open, srv_open>>
        BY <1>2, <2>2 DEF ClientSends
      <3> QED BY <1>1, <1>2, <3>1, TrafficQuietClient
    <2> QED BY <2>1, <2>2
  <1>3. ASSUME ClientSendFails, UNCHANGED cl_in, cl_pc # "ended", cl_pc' # "ended"
        PROVE  TrafficInv'
    <2>1. link' = "broken" /\ UNCHANGED <<c2s, s2c, cl_open, srv_open>>
      BY <1>3 DEF ClientSendFails
    <2> QED BY <1>1, <1>3, <2>1, TrafficQuietClient
  <1>4. Looping /\ link = "up" =>
            cl_out = srv_in + Len(c2s) + (IF cl_pc = "payload_send" THEN 1 ELSE 0)
    BY DEF TrafficInv, ToServer
  <1>5. CASE RecvRequest
    <2>1. /\ UNCHANGED <<c2s, s2c, link, cl_open, srv_open, cl_in, cl_out>>
          /\ cl_pc = "recv" /\ cl_pc' \in {"route_send", "meta_send"}
      BY <1>5 DEF RecvRequest, wireVars
    <2> QED BY <1>1, <2>1, TrafficQuietClient
  <1>6. CASE ConnectionLoopEnds
    <2>1. /\ UNCHANGED <<c2s, s2c, srv_open, cl_in, cl_out>>
          /\ cl_pc = "recv" /\ cl_pc' = "ended" /\ cl_open' = FALSE
          /\ link' = link \/ link' = "broken"
      BY <1>6 DEF ConnectionLoopEnds, ClientDrops
    <2> QED BY <1>1, <2>1, TrafficQuietClient
  <1>7. CASE SendRouteRequest
    <2> DEFINE f == HandlerMetaReq(cur, cl_out + 1)
    <2>1. cl_pc = "route_send" /\ cl_pc' \in {"route_wait", "recv"}
          /\ cl_out' = cl_out + 1 /\ UNCHANGED cl_in
      BY <1>7 DEF SendRouteRequest, RequestFails
    <2>2. ClientSendFails \/ ClientSends(f)
      BY <1>7 DEF SendRouteRequest
    <2>3. f \in ClientFrames /\ f.seq = cl_out + 1
      BY <1>1, <2>1 DEF TypeInv, LocalsSet, HandlerMetaReq, ClientFrames
    <2> HIDE DEF f
    <2> QED BY <1>1, <1>2, <1>3, <1>4, <2>1, <2>2, <2>3
  <1>8. CASE SendMeta
    <2> DEFINE f == PacketMeta(cur, cur_id, cl_out + 1)
    <2>1. cl_pc = "meta_send" /\ cl_pc' \in {"payload_send", "recv"}
          /\ cl_out' = cl_out + 2 /\ UNCHANGED cl_in
      BY <1>8 DEF SendMeta, RequestFails
    <2>2. ClientSendFails \/ (ClientSends(f) /\ cl_pc' = "payload_send")
      BY <1>8 DEF SendMeta
    <2>3. f \in ClientFrames /\ f.seq = cl_out + 1
      BY <1>1, <2>1 DEF TypeInv, LocalsSet, PacketMeta, ClientFrames
    <2> HIDE DEF f
    <2> QED BY <1>1, <1>2, <1>3, <1>4, <2>1, <2>2, <2>3
  <1>9. CASE SendPayload
    <2> DEFINE f == Payload(cur, cl_out)
    <2>1. cl_pc = "payload_send" /\ cl_pc' \in {"response_wait", "recv"}
          /\ UNCHANGED <<cl_out, cl_in>> /\ cur \in Requests
      BY <1>9 DEF SendPayload, RequestFails, TypeInv, LocalsSet
    <2>2. ClientSendFails \/ ClientSends(f)
      BY <1>9, <2>1 DEF SendPayload, Encodable
    <2>3. f \in ClientFrames /\ f.seq = cl_out
      BY <1>1, <2>1 DEF Payload, ClientFrames
    <2> HIDE DEF f
    <2> QED BY <1>1, <1>2, <1>3, <1>4, <2>1, <2>2, <2>3
  <1>10. CASE RecvRouteAnswer \/ RecvResponse
    <2>1. /\ ClientReads /\ cl_in' = cl_in + 1 /\ cl_out' = cl_out
          /\ cl_pc \in {"route_wait", "response_wait"} /\ cl_pc' \in {"meta_send", "recv"}
      BY <1>10 DEF RecvRouteAnswer, RecvResponse, RequestFails
    <2> QED BY <2>1, TrafficClientReads
  <1>11. CASE ReadFails
    <2>1. /\ UNCHANGED <<c2s, link, cl_open, srv_open, cl_in, cl_out>>
          /\ cl_pc \in {"route_wait", "response_wait"} /\ cl_pc' = "recv"
          /\ s2c' = s2c \/ (link = "broken" /\ s2c' = <<>>)
      BY <1>11 DEF ReadFails, ClientReadFails, RequestFails, wireVars
    <2>2. CASE s2c' = s2c
      BY <1>1, <2>1, <2>2, TrafficQuietClient
    <2>3. CASE link = "broken" /\ s2c' = <<>>
      <3> USE DEF TrafficInv, serverVars
      <3>1. TrafficInStep'
        BY <2>1, <2>3 DEF TrafficInStep
      <3>2. ToServer' /\ ToClient' /\ Ends'
        BY <2>1, <2>3 DEF ToServer, ToClient, Ends
      <3> QED BY <3>1, <3>2
    <2> QED BY <2>1, <2>2, <2>3
  <1> QED BY <1>5, <1>6, <1>7, <1>8, <1>9, <1>10, <1>11 DEF ClientTask

\* A step of the server's loop that sends and reads nothing.
LEMMA TrafficQuietServer ==
  ASSUME TypeInv, TrafficInv,
         UNCHANGED <<c2s, s2c, cl_open, clientVars, srv_in, srv_out>>,
         link' = link \/ link' = "broken",
         srv_open' <=> srv_pc' # "closed",
         Looping' => Looping,
         Looping' /\ srv_pc' # "check_move" => (srv_pc = "check_move" => send_ok),
         Looping' /\ srv_pc' = "check_move" =>
             srv_pc = "check_move" /\ UNCHANGED send_ok,
         srv_pc' = "send" => response'.seq = srv_out + 1
  PROVE  TrafficInv'
PROOF
  <1> USE DEF TrafficInv, clientVars
  <1>1. TrafficInStep'
    BY DEF TrafficInStep, Looping
  <1>2. ToServer' /\ Ends'
    BY DEF ToServer, Ends, Looping
  <1>3. ToClient'
    BY DEF ToClient, Looping
  <1> QED BY <1>1, <1>2, <1>3

\* The server takes the next frame: its loop counts it, an AcceptFn does not.
LEMMA TrafficServerReads ==
  ASSUME TypeInv, TrafficInv, ServerReads, UNCHANGED <<clientVars, srv_out>>,
         \/ /\ Looping /\ srv_in' = srv_in + 1
            /\ srv_pc # "check_move" /\ srv_pc' \in {"recv_payload", "serve"}
         \/ srv_pc = "accepted" /\ srv_pc' = "accepted" /\ srv_in' = srv_in
  PROVE  TrafficInv'
PROOF
  <1>1. c2s # <<>> /\ c2s' = Tail(c2s) /\ UNCHANGED <<s2c, link, cl_open, srv_open>>
    BY DEF ServerReads
  <1>2. /\ Len(c2s') = Len(c2s) - 1
        /\ \A i \in 1..Len(c2s') : c2s'[i] = c2s[i + 1] /\ i + 1 \in 1..Len(c2s)
    BY <1>1, TrafficTypes, TailFacts
  <1>3. Len(c2s) \in Nat /\ srv_in \in Nat /\ cl_out \in Nat
    BY TrafficTypes
  <1> USE DEF TrafficInv, clientVars
  <1>4. Looping' => \A i \in 1..Len(c2s') : c2s'[i].seq = srv_in' + i
    <2> SUFFICES ASSUME Looping', NEW i \in 1..Len(c2s') PROVE c2s'[i].seq = srv_in' + i
      OBVIOUS
    <2>1. srv_in' = srv_in + 1 /\ Looping
      BY DEF Looping
    <2>2. c2s[i + 1].seq = srv_in + (i + 1) /\ i \in Int
      BY <1>2, <2>1 DEF TrafficInStep, Looping
    <2>3. c2s'[i].seq = srv_in + (i + 1)
      BY <1>2, <2>2
    <2>4. srv_in + (i + 1) = (srv_in + 1) + i
      BY <1>3, <2>2
    <2> QED BY <2>1, <2>3, <2>4
  <1>5. TrafficInStep'
    BY <1>1, <1>4 DEF TrafficInStep, Looping
  <1>6. ToServer' /\ ToClient' /\ Ends'
    BY <1>1, <1>2, <1>3 DEF ToServer, ToClient, Ends, Looping
  <1> QED BY <1>5, <1>6

\* send_message: the response goes out with the next number, or breaks the
\* connection, or the loop knows that it did not go out.
LEMMA TrafficSendMessage ==
  ASSUME TypeInv, TrafficInv, send_message, UNCHANGED clientVars
  PROVE  TrafficInv'
PROOF
  <1>1. /\ srv_pc = "send" /\ srv_pc' = "check_move" /\ srv_out' = srv_out + 1
        /\ response \in ReplyFrames /\ response.seq = srv_out + 1
        /\ UNCHANGED <<c2s, cl_open, srv_open, srv_in, response>>
    BY DEF send_message, ServerSends, ServerSendFails, wireVars, TrafficInv, ToClient,
           TypeInv, LocalsSet
  <1>2. /\ Len(s2c) \in Nat /\ srv_out \in Nat /\ cl_in \in Nat
        /\ s2c \in Seq(ServerFrames) /\ response \in ServerFrames
    BY <1>1, TrafficTypes DEF ServerFrames
  <1>3. \/ s2c' = Append(s2c, response) /\ link' = link /\ link = "up" /\ cl_open
        \/ s2c' = s2c /\ link' = "broken"
        \/ s2c' = s2c /\ link' = link /\ send_ok' = FALSE
    BY DEF send_message, ServerSends, ServerSendFails, wireVars
  <1> USE DEF TrafficInv, clientVars
  <1>4. ToServer' /\ Ends'
    BY <1>1, <1>3 DEF ToServer, Ends, Looping
  <1>5. srv_pc' \notin {"accepted", "closed"} =>
            \A i \in 1..Len(c2s') : c2s'[i].seq = srv_in' + i
    BY <1>1 DEF TrafficInStep
  <1>6. CASE s2c' = Append(s2c, response) /\ link' = link /\ link = "up" /\ cl_open
    <2>1. /\ Len(s2c') = Len(s2c) + 1 /\ s2c'[Len(s2c) + 1] = response
          /\ \A i \in 1..Len(s2c) : s2c'[i] = s2c[i]
      BY <1>2, <1>6, AppendFacts
    <2>2. srv_out = cl_in + Len(s2c)
      BY <1>1, <1>6 DEF ToClient, Looping
    <2>3. ASSUME NEW i \in 1..Len(s2c'), s2c'[i].kind # "raw" PROVE s2c'[i].seq = cl_in + i
      <3>1. CASE i \in 1..Len(s2c)
        BY <2>1, <2>3, <3>1 DEF TrafficInStep
      <3>2. CASE i = Len(s2c) + 1
        BY <1>1, <1>2, <2>1, <2>2, <3>2
      <3> QED BY <1>2, <2>1, <3>1, <3>2
    <2>4. TrafficInStep'
      BY <1>5, <2>3 DEF TrafficInStep
    <2>5. ToClient'
      BY <1>1, <1>2, <2>1, <2>2 DEF ToClient
    <2> QED BY <1>4, <2>4, <2>5
  <1>7. CASE s2c' = s2c /\ (link' = "broken" \/ send_ok' = FALSE)
    <2>1. TrafficInStep'
      BY <1>5, <1>7 DEF TrafficInStep
    <2>2. ToClient'
      BY <1>1, <1>7 DEF ToClient
    <2> QED BY <1>4, <2>1, <2>2
  <1> QED BY <1>3, <1>6, <1>7

\* A step of the server's connection task or of the user code keeps the ends in step.
LEMMA TrafficServer ==
  ASSUME TypeInv, TrafficInv, ConnectionTask \/ UserTasks, UNCHANGED clientVars
  PROVE  TrafficInv'
PROOF
  <1>1. srv_open <=> srv_pc # "closed"
    BY DEF TrafficInv, Ends
  <1>2. CASE ReceiveMeta \/ ReceivePayload
    <2>1. /\ ServerReads /\ srv_in' = srv_in + 1 /\ UNCHANGED srv_out
          /\ srv_pc \in {"recv_meta", "recv_payload"}
          /\ srv_pc' \in {"recv_payload", "serve"}
      BY <1>2 DEF ReceiveMeta, ReceivePayload, receive_message
    <2> QED BY <2>1, TrafficServerReads DEF Looping
  <1>3. CASE ReceiveError
    <2>1. /\ srv_pc \in {"recv_meta", "recv_payload"} /\ srv_pc' = "recv_meta"
          /\ UNCHANGED <<c2s, s2c, link, cl_open, srv_open, srv_in, srv_out>>
      BY <1>3 DEF ReceiveError, wireVars
    <2> QED BY <1>1, <2>1, TrafficQuietServer DEF Looping
  <1>4. CASE ReceiveDisconnect \/ AcceptEnds
    <2>1. /\ srv_pc' = "closed" /\ srv_open' = FALSE /\ (link' = link \/ link' = "broken")
          /\ UNCHANGED <<c2s, s2c, cl_open, srv_in, srv_out>>
      BY <1>4 DEF ReceiveDisconnect, AcceptEnds, ServerDrops
    <2> QED BY <2>1, TrafficQuietServer DEF Looping
  <1>5. CASE serve_packet \/ HandlerReturns \/ HandlerPanics
    <2>1. /\ srv_pc \in {"serve", "handler"} /\ srv_pc' \in {"handler", "send"}
          /\ UNCHANGED <<c2s, s2c, link, cl_open, srv_open, srv_in, srv_out>>
      BY <1>5 DEF serve_packet, ServePacketMeta, CallHandler, NoRoute, AnswerName, Malformed,
                  Respond, HandlerReturns, HandlerPanics, wireVars
    <2>2. srv_pc' = "send" => response'.seq = srv_out + 1
      <3>1. CASE HandlerReturns \/ HandlerPanics
        BY <3>1 DEF HandlerReturns, HandlerPanics, Reply
      <3>2. CASE serve_packet
        BY <3>2 DEF serve_packet, ServePacketMeta, CallHandler, NoRoute, AnswerName,
                    Malformed, Respond, Reply
      <3> QED BY <1>5, <3>1, <3>2
    <2> QED BY <1>1, <2>1, <2>2, TrafficQuietServer DEF Looping
  <1>6. CASE send_message
    BY <1>6, TrafficSendMessage
  <1>7. CASE CheckMove
    <2>1. /\ srv_pc = "check_move" /\ srv_pc' \in {"accepted", "recv_meta", "closed"}
          /\ srv_pc' = "recv_meta" => send_ok
          /\ IF srv_pc' = "closed" THEN ServerDrops ELSE UNCHANGED wireVars
          /\ UNCHANGED <<srv_in, srv_out>>
      BY <1>7 DEF CheckMove, AfterSend
    <2>2. /\ srv_open' <=> srv_pc' # "closed"
          /\ link' = link \/ link' = "broken"
          /\ UNCHANGED <<c2s, s2c, cl_open>>
      BY <1>1, <2>1 DEF ServerDrops, wireVars
    <2> QED BY <2>1, <2>2, TrafficQuietServer DEF Looping
  <1>8. CASE DetachedTask
    <2>1. UNCHANGED <<c2s, s2c, link, cl_open, srv_open, srv_in, srv_out, srv_pc, send_ok,
                      response>>
      BY <1>8 DEF DetachedTask, wireVars
    <2>2. srv_pc' = "send" => response'.seq = srv_out + 1
      BY <2>1 DEF TrafficInv, ToClient
    <2> QED BY <1>1, <2>1, <2>2, TrafficQuietServer DEF Looping
  <1>9. CASE AcceptReads
    BY <1>9, TrafficServerReads DEF AcceptReads, serverVars
  <1>10. CASE AcceptSends
    <2>1. /\ srv_pc = "accepted" /\ srv_pc' = "accepted"
          /\ UNCHANGED <<c2s, cl_open, srv_open, srv_in, srv_out>>
          /\ s2c' = s2c \/ s2c' = Append(s2c, RawFrame)
      BY <1>10 DEF AcceptSends, ServerSends
    <2>2. s2c \in Seq(ServerFrames) /\ RawFrame \in ServerFrames /\ Len(s2c) \in Nat
      BY TrafficTypes DEF ServerFrames
    <2>3. ASSUME NEW i \in 1..Len(s2c'), s2c'[i].kind # "raw"
          PROVE  i \in 1..Len(s2c) /\ s2c'[i] = s2c[i]
      <3>1. CASE s2c' = s2c
        BY <3>1
      <3>2. CASE s2c' = Append(s2c, RawFrame)
        <4>1. /\ Len(s2c') = Len(s2c) + 1 /\ s2c'[Len(s2c) + 1] = RawFrame
              /\ \A k \in 1..Len(s2c) : s2c'[k] = s2c[k]
          BY <2>2, <3>2, AppendFacts
        <4>2. i # Len(s2c) + 1
          BY <2>3, <4>1 DEF RawFrame
        <4> QED BY <2>2, <4>1, <4>2
      <3> QED BY <2>1, <3>1, <3>2
    <2>4. TrafficInStep'
      BY <2>1, <2>3 DEF TrafficInv, TrafficInStep, clientVars
    <2>5. ToServer' /\ ToClient' /\ Ends'
      BY <2>1 DEF TrafficInv, ToServer, ToClient, Ends, Looping, clientVars
    <2> QED BY <2>4, <2>5 DEF TrafficInv
  <1> QED BY <1>2, <1>3, <1>4, <1>5, <1>6, <1>7, <1>8, <1>9, <1>10
          DEF ConnectionTask, UserTasks

(***************************************************************************)
(* TrafficInStep: when the client's encoder takes every payload, the n-th  *)
(* frame one end's processor handles is the n-th one the other end's       *)
(* processor made, in both directions, until a handler takes the stream    *)
(* over.                                                                   *)
(***************************************************************************)
THEOREM ProcessorsStayInStep == ASSUME Encodable PROVE Spec => []TrafficInStep
PROOF
  <1>1. Init => TrafficInv
    BY DEF Init, WireInit, ClientInit, ServerInit, TrafficInv, TrafficInStep, ToServer,
           ToClient, Ends
  <1>2. TypeInv /\ TrafficInv /\ [Next]_vars => TrafficInv'
    <2> SUFFICES ASSUME TypeInv, TrafficInv, [Next]_vars PROVE TrafficInv'
      OBVIOUS
    <2>1. CASE ClientTask /\ UNCHANGED serverVars
      BY <2>1, TrafficClient
    <2>2. CASE (ConnectionTask \/ UserTasks) /\ UNCHANGED clientVars
      BY <2>2, TrafficServer
    <2>3. CASE /\ UNCHANGED <<c2s, s2c, cl_open, srv_open, serverVars, cl_in, cl_out, cl_pc>>
               /\ link' = link \/ link' = "broken"
      BY <2>3, TrafficQuietClient DEF TrafficInv, Ends
    <2>4. ASSUME Callers \/ Break \/ UNCHANGED wireVars
          PROVE  UNCHANGED <<c2s, s2c, cl_open, srv_open>> /\ (link' = link \/ link' = "broken")
      BY <2>4 DEF Callers, dispatch_request, Abandon, DropClient, Break, wireVars
    <2>5. ASSUME Callers \/ UNCHANGED clientVars PROVE UNCHANGED <<cl_in, cl_out, cl_pc>>
      BY <2>5 DEF Callers, dispatch_request, Abandon, DropClient, clientVars
    <2> QED BY <2>1, <2>2, <2>3, <2>4, <2>5 DEF Next, vars
  <1>3. TrafficInv => TrafficInStep
    BY DEF TrafficInv
  <1> QED BY <1>1, <1>2, <1>3, TypeInvariant, PTL DEF Spec
=============================================================================
