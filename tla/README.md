# The Fourth Server: TLA+ models, checks and proofs

The library in `src/src` is an async RPC server and client. A client sends framed
requests over one connection; the server routes each to a handler by id and
structure-type tag and sends one response back. Handler names are resolved to ids on
first use. A handler may take the raw stream over.

This directory models the library's own logic. The transports (TCP, TLS, WebSocket),
the codecs and the traffic-processor chain live in the crate `the_fourth_utils` and are
modelled from how `src/` uses them.

## Inventory

| Part (source) | State | Operations | Talks to |
|---|---|---|---|
| Connecting (`client/mod.rs`) | none until it succeeds | `ClientConnect::new`, `connect` | server's acceptor, by handshakes; starts the client task |
| Client task (`client/mod.rs`) | mpsc channel, request in progress, socket, processor | `dispatch_request`, `connection_main`, `process_request`, `wait_for_data` | callers by channel and oneshot consumers, server by frames |
| Target router (`client/target_router.rs`) | `known_routes` | `lookup_route`, `request_route`, `request_route_from_server` | owned by the client task, uses its socket |
| Server task (`server/server.rs`) | stream, processor, move signal | `handle_connection`, `receive_message`, `send_message` | client by frames, router by call, AcceptFn by hand-off |
| Router, routing (`server/server_router.rs`) | committed maps | `serve_packet` | handlers, which get the move-signal Sender |
| Router, registration (same file) | pending Vec, maps, counter, flag | `new`, `add_route`, `commit_routes`, `get_routes` | the program, then shared in an `Arc` |
| Acceptor (`server/server.rs`) | listener, `Notify`, processor | `new`, `start`, `initial_accept`, `send_stop` | peers; spawns server tasks |
| Handler types (`server/handler.rs`) | none | `ServeFn`, `AcceptFn` signatures | user code |
| Example programs (`tf-examples`) | the loop of the client's `main` | two mains, two route handlers | the library, as caller and as handlers |
| Logging, benchmarks | none of the library's | | |

What is hard here:

- *Correlation by position.* No frame carries a request number. A response belongs to a
  request only because both ends count frames alike. Every error path on either end
  (failed send, refused frame, panic, abandoned caller, unknown name) has to keep the
  count, and a stray frame shifts everything after it, including the route cache.
- *Ownership of the move signal.* One oneshot Sender goes into every handler call and
  has to come back, be used or be lost; a handler may leave it with a task that acts at
  any time.
- *Breaks anywhere.* Each await can be the last one on a connection, and there is no
  timeout: requests must end by the tasks' own logic.
- *Two tasks that do not read while they send.* Whatever stays unread in one direction
  can stop the other.
- *The acceptor.* A `select!` between a listener and a `Notify` without stored permits,
  with handshakes and user hooks inline, no timeout and no `catch_unwind`.
- *Two lists of handshakes*, one per end, that have to be gone through in step.

What makes each part correct is stated as the properties below; `PROJECT.json` lists
the hazards at their lines and the properties aimed at each.

## Modules

| Module | Models |
|---|---|
| `Packets` | requests and the frames both ends exchange |
| `Wire` | one established `Framed` pair: two FIFO streams with bounded buffers, breaks, drops (external) |
| `ClientConnect` | callers, channel, client task, target router |
| `ServerConnection` | `handle_connection`, `serve_packet`, handlers, AcceptFn |
| `Session` | client and server on one wire; the properties |
| `RpcService` | abstract: what a caller may rely on |
| `ServerRouter` | registration and commit |
| `Handshake` | a connection under way: the stages of either end and who waits for whom (external handshakes) |
| `ClientSetup` | `ClientConnect::new`; peers that are no client of this library |
| `Acceptor` | `start`, `send_stop`, the accept loop, `initial_accept`, the hooks |
| `Establishment` | `ClientSetup` and `Acceptor` together; the properties |
| `Examples` | `client_ex` and `server_ex` with their handlers, on top of `Session` |
| `MCSession`, `MCServerRouter`, `MCEstablishment` | instances for TLC |
| `SessionProofs` | types, the move signal; lemmas on streams |
| `ExchangeProofs` | request and response stay together |
| `DeliveryProofs` | order, number and single delivery of requests; processors in step |
| `RpcProofs` | `Session` implements `RpcService` |
| `ServerRouterProofs`, `EstablishmentProofs`, `ExamplesProofs` | theorems about the module of that name |

**State and actions.** A task is a program counter (`cl_pc`, `srv_pc`, `pc[t]`) with one
action per await: everything the code does between two awaits is one step. In
`ClientConnect` these are `RecvRequest`, `SendRouteRequest`, `RecvRouteAnswer`,
`SendMeta`, `SendPayload`, `RecvResponse`, and their failures; in `ServerConnection`
`ReceiveMeta`, `ReceivePayload`, `ReceiveError` (`Err(false)`, the loop goes on),
`ReceiveDisconnect` (`Err(true)`), `serve_packet`, `HandlerReturns`, `HandlerPanics`,
`send_message`, `CheckMove`, and the AcceptFn's steps. In `ClientSetup` and `Acceptor`
each handshake, and each hook, is an await (`ClientStagePasses`, `StagePasses`) that may
fail (`ClientStageFails`, `StageRefuses`) and, where user code runs, panic
(`StagePanics`). `Examples` keeps the tasks of `Session`, restricts what a handler may
return to what the two example handlers do, and puts `main` in the place of the callers;
`main` first connects or panics (`Connect`), and the session begins where it connected.
`order`, `packets` and `calls` are history variables. Operators whose comment says "Mutant" are
plausible wrong versions of the operator below them; nothing uses them.

**Data.** A frame carries the request it was made from, its kind, the id it names and
the number of the `post_process_traffic` call that made it (`seq`). A request's data is
one of four kinds, by what framing tells apart: `bytes`, `empty`, `over_client` (the
client's encoder refuses it) and `over_server` (the server's decoder refuses it).

**What is assumed of external code.**

- A send to a live peer waits until the frame fits (`Window` frames per direction, which
  stand for the socket buffers and the codec's write buffer) and then arrives, in order.
  A frame fits once the peer has read what was before it; a frame larger than the buffers
  themselves would need less to jam the stream. A peer that is gone makes sends fail or
  vanish and the connection break. A break loses what was buffered, or not.
- After `Framed` yielded an error its next item is `None`. The decoder does not skip a
  frame over its limit: the client's reads fail from then on. (Every second one of them
  first moves one more chunk from the socket into the decoder's buffer. A response that
  outgrows the socket buffers by more than these chunks, as those over the default limit
  of 8 MiB do, still blocks the server's send; the model leaves the chunks out.)
- Bytes of a payload do not happen to parse as a `PacketMeta` or a `HandlerMetaReq`.
- `TypeTuple` lookup finds the route registered under the id if its tags contain the
  requested one.
- A handler returns only the Sender it was given. Handlers and AcceptFns end, by
  returning or by a panic.
- A TLS or WebSocket handshake, and an `initial_setup` that exchanges messages, completes
  on one end only if the other end takes part in the same one. The processor's hooks on
  the server end by themselves (the client has no counterpart they could wait for).
- Processors, codecs and serializers do not panic inside a connection task. (In the
  client's it would end the task, and later calls of `dispatch_request` would return
  `ChannelClosed`.) Panics of handlers and of the hooks of the establishment are modelled.
- `s_type::from_slice` accepts exactly the bytes `to_bytes` made of the same structure.

## Runs

| Run | Instance | Shows |
|---|---|---|
| `session` | 3 requests (two names, one of them twice), capacity 1, `MaxRaw` 1; 923 k states | `TypeOK`, `ResponseMatchesRequest`, `RouteCacheAgrees`, `HandlerGetsItsRequest`, `AtMostOnce`, `InFlightBound`, `TrafficInStep`, `MoveSignalKept`, and that `Session` implements `RpcService` |
| `session_refused` | unknown name, wrong tag, `over_server` data, capacity 2 | the three matching properties and `FifoResolution` |
| `session_live` | `empty` data, `over_client` data and an ordinary request; capacity 1, `Window` 1, `MaxRaw` 0; 466 k states | `EveryRequestEnds`, also when the two ends are out of step |
| `server_router` | 3 calls, 2 names, 2 tags, 2 routes; 120 k states | ids, names, snapshots, finality |
| `establishment` | 2 acceptor tasks, a client and a foreign peer, TLS, WebSocket and a talking codec, 1 accept error; 223 k states | `AcceptedIsHeld`, `ServedIsVetted`, `ConnectedIsTakenUp`; `EveryPeerDecided`, `EveryNewEnds`, `RepeatedStopEnds` |
| `examples` | 2 rounds (4 requests), capacity 1, `Window` 1; 2 k states | `PanicsOnlyConnecting`, `ServedWhileConnected`, `MainGoesOn` |
| `jammed_stream`, `empty_route`, `oversize_payload`, `stop_lost`, `doc_inflight`, `doc_handoff` | | violations, below |

Deadlock is not checked: a session whose requests are done and whose tasks have ended
stops, as do a shared router, an acceptor that was stopped and the bounded `main`. That
everyone waiting for everyone is found all the same is the work of the liveness
properties.

**Bounds.** Three requests are one that disturbs the stream, one that is hit, and one to
see whether the stream recovers; two names, so that the
answer to one can be taken for the other's, one of them used twice to hit the cache, and
capacity 1 for a full channel. `MaxRaw` bounds the frames an AcceptFn sends: one is enough
to be taken for a response. `MaxCalls` bounds `add_route` calls: three give one name two ids and a call
after the commit. `MaxErrors` bounds `accept` errors: the round one costs may swallow a
stop signal, and nothing else depends on how many there are, but liveness needs them to
end. `Window` is 1 where liveness is at stake, the tightest buffers, and 9 elsewhere,
all that three requests can send, so that every order of sends and reads happens. `Rounds`
bounds `main`'s loop: in the second round the names come out of the cache, and a break
in the first has its effect. Two peers are the one in hand and the one behind it.

**Fairness.** Both connection tasks, each acceptor task, each client's future of `new` and
the loop of the example's `main` are weakly fair: tokio polls a task that was woken. Its
`Connect` is not: `new` may wait for ever. A handler's and an AcceptFn's end is part of the server task. Nothing is assumed of callers, the network,
foreign peers or detached tasks. `RepeatedStopEnds` has the fairness it needs as its
hypothesis: an operator who goes on calling `send_stop`; weak fairness is enough to reach
a selecting task because it stays so until something happens.

**Exceptions inside liveness properties.** Where the code gives no guarantee the property
says so, and only for a condition that then holds for good: `EveryRequestEnds` leaves out
two ends that both wait in a send with both directions full (`[]BothFull`);
`EveryPeerDecided` and `EveryNewEnds` leave out a server all of whose acceptors have
ended, panicked or wait for a silent foreign peer (`[]` over `Lost`). The first exception
is a finding (`jammed_stream`); the second is how a server without handshake timeouts
behaves. The listener outlives the acceptor tasks, so a client that connects to a stopped
server waits in `new` with no error; `ConnectedIsTakenUp` says that it does not get a
client either, unless there is no handshake to wait for (plain TCP and a codec whose
`initial_setup` exchanges nothing). That liveness takes handlers and AcceptFns to end is assumed above.

### Findings

- **A stream can jam** (`jammed_stream`). A response over the client decoder's limit is
  never consumed; the client's task reports an error and goes on with the next request on
  the same connection. Responses pile up behind that frame until the server waits in its
  send, and the client waits in its own (`client/mod.rs:272`): no request on this client
  ends any more, and none fails. One response of many megabytes and a few requests larger
  than the chunks a failing read takes are enough. Requests without data get there too, by the stray
  answers they cause.
- **Empty data shifts the stream** (`empty_route`). The meta says
  `has_payload = false`, the payload frame is sent anyway (`client/mod.rs:273`). The
  server answers the empty frame with `MalformedMetaInfo`, which the next request
  receives; the shift can put a wrong id into the route cache for good.
- **A payload over the client's limit** (`oversize_payload`) fails after its meta was
  sent; the server passes the next request's meta to the handler as data.
- **A single `send_stop` can be lost** (`stop_lost`): `notify_waiters` stores nothing,
  and `select!` may take the accept branch although the signal is ready.
- **Returned Sender** (`doc_handoff`): `handler.rs:17` says that returning the Sender
  hands the stream off; in the code only using it does.
- **In-flight limit** (`doc_inflight`): the README's `max in-flight requests` is the
  channel's capacity; one more is in flight. `InFlightBound` is the bound that holds.

## Proofs

Every invariant and action property of the runs that pass, and the refinement, is a
theorem: for arbitrary sets of requests, names, ids, tags and routes, any capacity, any
`Window`, any number of calls, connections, acceptor tasks and rounds, from the
assumptions on constants named in the modules. Each inductive invariant below was
model-checked on the instances of the runs before it was proved.

- `SessionProofs`: `SessionTypeOK` and `MoveSignalAlwaysKept`. `TypeOK` is not
  inductive: an action uses locals (`cur`, `meta`, `response`) that are only set at some
  program counters; `LocalsSet` says where.
- `ExchangeProofs`: `ResponsesMatch`, `RouteCacheIsRight`, `HandlersGetTheirRequests`,
  under the hypothesis `Framable` (no request has `empty` or `over_client` data). The
  runs `empty_route` and `oversize_payload` show that it cannot be dropped. The inductive
  invariant `ExchangeInv` says that
  - the stream towards the server consists of name requests and meta-payload pairs, and
    what the server holds fits its front (`Grammar`);
  - while both ends work, only frames of the request the client waits for exist
    (`OneExchange`), one state of the exchange per pair of program counters;
  - a broken connection, an errored stream, a closed or taken-over server and a stuck
    decoder end this for good, and all that is left in front of the client then is its
    own reply or raw frames (`HeadIsOwn`, `RestIsRaw`);
  - ids are right where they travel (`Targets`, `Answers`).
  The three properties support each other: the cache is right because answers match, and
  handlers are right because the cache is.
- `DeliveryProofs`. The first three theorems hold for any data, the kinds that put the
  two ends out of step included:
  - `FifoResolved` and `InFlightBounded`. `QueueInv` reads the history `order` as three
    stretches: finished requests, the one in process, and the queue, which is its end.
    What is in flight is therefore the end of `order` from the request in process on, no
    longer than a full queue and one.
  - `ServedAtMostOnce`. `OnceInv` says where the meta of a request can be: not sent, on
    its way, with the server, or routed, in one place and once. A failed request is
    never sent again because it is no longer in process.
  - `ProcessorsStayInStep`, under `Encodable` (no `over_client` data). The invariant
    counts, per direction, frames processed by one end, frames under way, and frames
    processed by the other; the payload is numbered with the meta and sent after it, and
    once the connection broke frames may be missing at the end only. The instance of
    `oversize_payload` violates `TrafficInStep`: a payload that was numbered and not sent
    leaves a gap, so `Encodable` is needed.
- `RpcProofs`: `SessionImplementsRpc`, under `Framable`. Most steps stutter;
  `dispatch_request` is `Submit`, `serve_packet` on a meta is `Serve`, the use of the
  Sender is `TakeOver`, the end of `process_request` is `Answer` or `Fail`. Three facts
  make them steps of `RpcService`: a reply to a meta exists only when its request was
  routed (`RepliesBacked`), a raw frame only after a takeover, and the Sender leaves the
  loop only with a handler, so after a request was routed (`TakeOverBacked`), and a
  request with its meta still to be served is not answered (`UnansweredFirst`). That the
  reply in front of the client answers the request it waits for is `ExchangeInv`. On the instance of
  `empty_route` the refinement fails: a request is answered before it was served.
- `ServerRouterProofs`: the five properties of `ServerRouter`. The invariant relates the
  pending Vec to the history of calls: until the commit, entry *i* is call *i* with id
  *i* - 1. That a name resolves says nothing about tags: a request whose tag the route
  does not serve is answered `NoSuchHandler` all the same (`session_refused`).
- `EstablishmentProofs`: `EstablishmentTypeOK`, `AcceptedAlwaysHeld`, `ServedAlwaysVetted`
  and `ConnectedAlwaysTakenUp`. The invariant: a task holds a connection exactly while it
  takes it through handshakes, no two hold the same (`Holding`), none is lost
  (`NoneLost`); what a connection passed is a beginning of `Stages`, attended by its peer
  wherever two are needed, and stays attended although the peer fails later (`InOrder`);
  what a peer passed was attended by the server likewise (`Met`);
  a peer that has not dialled has no connection that dialling could overwrite
  (`Undialled`).
- `ExamplesProofs`, with the requests, routes and names of the programs for the constants
  of `Session` (`ExampleConstants`): `ExamplesAreSessions`, by which the theorems about
  `Session` hold of the programs, and on top of it `MainSurvives` (once connected
  `main` does not panic; the action property `PanicsOnlyConnecting`) and `ServedUntilBroken`. The invariant says that `main` keeps its client and its receivers,
  that a handler runs with the payload of its own request and returns the Sender, that
  every reply is the one hoped for, and that on a connection that is up nothing has
  failed.

**Only model-checked**: liveness under fairness (`EveryRequestEnds`, `EveryPeerDecided`,
`EveryNewEnds`, `RepeatedStopEnds`, `MainGoesOn`), which is out of the prover's reach, and
the violations.

## Not modelled

- Bytes, serialization and cryptography: in `the_fourth_utils`.
- A peer that vanishes without a reset. No code notices it, so there is no step to model:
  the await stays pending until a caller's own timeout.
- Logging. Of the benchmarks, all but the port probe (`wait_for_port`, a foreign peer):
  they measure times. `manual_handler.rs` is one comment, and
  `make_very_big_payload_request` is called only from one; it would meet the finding of
  `oversize_payload`, its 250 MB being over the codec's default limit.
- Several connections at once: they share nothing but the committed, immutable router and
  user state.

## Plan

Order of work: `Packets`, `Wire`, `ClientConnect`, `ServerConnection`, `Session` with its
runs first, since correlation is what the system stands on; `ServerRouter` and the
acceptor next; then both ends of the establishment, bounded buffers and the example
programs; proofs of types, then of the exchange, of delivery and the refinement, and of
the establishment and the examples. All of these are done. What could be added:

1. the refinement under a weaker hypothesis: data over the client's limit does not
   violate it on the instance of `oversize_payload`, but the proof rests on `ExchangeInv`;
2. the safety core of the liveness properties, such as that a task that is not stuck
   always has a next step, as invariants without `ENABLED`.
