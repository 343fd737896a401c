# TLA+ models of the PDX UDS service endpoint

This directory holds TLA+ models of `src/libs/vr/libpdx_uds/service_endpoint.cpp`, the server side of
PDX IPC over Unix domain sockets. The models are checked with TLC.

## The system

`Endpoint` owns three things:

* a listening socket;
* a table of channels, one per connected client;
* one epoll instance that multiplexes all of them.

Any number of service dispatch threads call `MessageReceive` concurrently, and then
`MessageReply` for the message they received. Its parts are:

| Part | Code | State | Operations |
|---|---|---|---|
| Channel table | 236-337, 396-418 | `channels_`, `channel_fd_to_id_`, `last_channel_id_`, all under `channel_mutex_` | `OnNewChannelLocked`, `CloseChannelLocked`, `SetChannel`, `ModifyChannelEvents`, `GetChannelId`, `GetChannelSocketFd`, `GetChannelEventFd` |
| Event dispatch | 201-229, 420-532 | epoll registrations and their one-shot arming, the cancel eventfd | `AcceptConnection`, `ReceiveMessageForChannel`, `BuildCloseMessage`, `MessageReceive`, `ReenableEpollEvent` |
| Reply | 534-570 | (socket of the message's channel) | `MessageReply` (CHANNEL_OPEN / CHANNEL_CLOSE / ordinary) |
| Per-message state | 33-122, 573-663 | `MessageState` in the message | `MessageReplyFd`, `MessageReplyChannelHandle`, `PushFileHandle`, `ReadMessageData`, ... |
| PushChannel | 339-380 | socketpair, table entry | `PushChannel` |
| Construction | 130-193, 671-681 | listening socket, epoll, cancel eventfd | constructor, `Create` |
| Cancel | 665-669 | cancel eventfd | `Cancel` |
| Clients | not in src/ | peer sockets | connect + CHANNEL_OPEN, calls, impulses, close |

### How the parts interact

* **Arming.** The listening socket and every channel socket are registered with
  `EPOLLIN|EPOLLRDHUP|EPOLLONESHOT`.
  * A thread that `epoll_wait` returns an fd to "owns" that fd until it calls `ReenableEpollEvent`.
  * For the listener, that happens after the accept.
  * For a channel, it happens after the reply, or right after the header of an impulse.
* **Cancel.** The cancel eventfd is level-triggered, so every thread sees it once `Cancel` has written to it.
* **Accept.** An accept registers the new socket already armed (line 255). It then reads the first
  request of that socket on the accepting thread (line 227).
* **Push.** `PushChannel`, called from a handler, registers a new channel (armed) for its local
  socket and puts the remote socket into the message's `sockets_to_close`. The reply hands the
  remote end to the client, and the message's destruction closes the endpoint's copy.
* **Close.** Hang-up or end of stream yields a CHANNEL_CLOSE message. Its reply calls
  `CloseChannel`, which removes the socket from epoll and the table and closes it. The kernel may then
  hand the same fd number to the next accept.

## Modules

### ChannelTable.tla: the channel table

* **State.** The variables `channels`, `channel_fd_to_id` and `last_channel_id` are the two maps and the
  counter. Each map is a TLA+ function whose domain is the set of keys in use.
* **Operations.** Each locked operation is one operator, and one atomic step.
* **Id allocation.** The id scan of `OnNewChannelLocked` is the RECURSIVE `ScanFreeId`, with the wrap at
  `INT32_MAX` → 1 (`MaxChannelId`).
  * `FirstFreeAfter` is its reference definition: the free id at the least cyclic distance from the
    counter.
  * `AllocationFollowsCounter` checks that the two agree on every allocation.
* **Inserts.** `Emplace` is `std::map::emplace`, so it never overwrites an existing key.

### Endpoint.tla: the endpoint

It extends ChannelTable. Its state is:

* **Kernel:**
  * `epoll_set` — the registered fds;
  * `armed` — registered fds whose one-shot event is enabled;
  * `listen_armed`, `cancelled`;
  * `fd_conn` — the open fds and the client connection behind each;
  * `to_close` — per thread, the remote ends of pushed channels held by its message;
  * `backlog` — the listen queue, at most `ListenQueue = kMaxBackLogForSocketListen + 1`.
* **Clients:**
  * `conn_state` — idle, queued, pushed (the far end of a pushed channel, not yet handed over),
    accepted or dropped;
  * `to_server` — the byte stream, as whole messages;
  * `hup`, `awaiting`;
  * `sent` — what the client sent, in order (a history variable);
  * `replies` — where the replies went.
* **Each dispatch thread:**
  * `pc` — its place in the `MessageReceive`/`MessageReply` loop;
  * `wfd`, `wconn`, `from_accept`;
  * `msg` — the `Message`: channel id, op, origin connection, return code and its position in
    what the client sent;
  * `handled` — per client, the positions of the messages the service has handled (history).

| Action | Code |
|---|---|
| `ReceiveCancel`, `ReceiveListen`, `ReceiveChannel` | the three branches of `MessageReceive` after `epoll_wait` (maxevents = 1); `ReceiveChannel` keeps only the fd number and the events |
| `LookupChannel` | the rest of a channel event, after `epoll_wait` has returned: `GetChannelId(channel_fd)` for `BuildCloseMessage` on EPOLLRDHUP (line 527) or before the recv (line 423). The number names whatever socket holds it by then; a closed fd makes the recv fail (EBADF) |
| `AcceptConnection` | accept4 (EMFILE when no fd is free), `OnNewChannelLocked`, then the thread goes on to read the first request |
| `ReceiveMessageForChannel` | request, impulse (re-arm first; a re-arm failure closes the channel), ESHUTDOWN before the header or in the payload → `BuildCloseMessage`; `Consumed` is the recv taking the message off the stream, `PayloadRead` the read of all `send_len` payload bytes |
| `HandleImpulse` | the service's handler of an impulse, after the early re-arm (spec-modelled) |
| `MessageReply` | CHANNEL_CLOSE → `CloseChannel`; CHANNEL_OPEN with ret < 0 → `CloseChannel`; otherwise the send |
| `ReplyOpenEventFd` | an accepted CHANNEL_OPEN: `GetChannelEventFd` in a second lock section and `PushFileHandle`; a channel closed since its socket fd was borrowed gives an empty handle, and -1 is sent as the return code (line 550) |
| `SendReply` | the send of `MessageReply`: EBADF / EPIPE return the error; success re-arms the channel |
| `ReleaseMessage` | part of the actions that end `MessageReply`: the message is destroyed and `sockets_to_close` closed |
| `PushChannel` | `PushChannel` from a call's handler: socketpair on the two lowest free fds, `OnNewChannelLocked` of the local end, the remote end kept in `sockets_to_close` |
| `ServiceCloseChannel` | the public `CloseChannel`, called by the service from any thread at any time |
| `Cancel` | `Cancel` |
| `Connect`, `SendCall`, `SendImpulse`, `CrashMidCall`, `Hangup` | the client library (spec-modelled): connect and CHANNEL_OPEN, one call at a time, impulses, a process that dies after the header of a call ("part" on the stream), close |

* **Reads and sends.** A blocking recv stays bound to the connection it started on (`wconn`), even if
  its fd number is later closed and reused. A send to a peer that has closed fails with EPIPE.
* **Scenario constants.** `ServiceCloses`, `PushChannels`, `SilentConns` and `CrashingConns` switch on
  service-initiated closes, channel pushes, clients that connect and write nothing, and clients that
  die in the middle of a call. A cfg leaves a behaviour out
  only where its run is about something else.
* **Grouping.** `ListenRearmedIfAccepting` re-arms the listener when a thread returns from the
  accept path. It is part of the action that ends `MessageReceive`, never a step of its own.

### MessageState.tla: one message's state

* **State.** `request_data` and its read cursor, `request.file_descriptors` and `request.channels`,
  `response_data`, the response's fds and channels, and the reply as sent. `reads`, `writes`,
  `pushes` and `pulls` are histories of what the service's calls returned. A handle is its
  descriptor value; a negative value is an empty handle, and a moved-from handle holds -1.
* **Pure operators.** The iovec loops of `ReadData` and `WriteData` are the RECURSIVE `ReadLoop`
  and `WriteLoop`. `PushFileHandle`, `PushChannelPair`, `PushKnownChannel`, `GetLocalFileHandle` and
  `GetLocalChannelHandle` each return the new list with the result.
* **Actions.** One per Endpoint wrapper: `ReadMessageData`, `WriteMessageData`, `PushFile`,
  `PushChannel`, `GetFileHandle`, `GetChannelHandle`, and the replies `Reply`, `ReplyOpen`
  (CHANNEL_OPEN's event-fd push), `ReplyFd` and `ReplyChannelHandle`.
* **Init.** The state `ReceiveMessageForChannel` leaves: any payload up to `MaxData`, and distinct
  request fds.
* **References.** `ReadRef` is the reference definition of a read: the bytes from the cursor on,
  cut at the iovec boundaries.
* **`PullOnce`.** A reference is pulled at most once, as pdx services do. The code moves the
  handle out, so a second pull of the same reference returns an empty handle with a success
  status. With `PullOnce = FALSE`, `PullsResolve` is violated (see the hazard at line 38).

### ChannelService.tla: what a client is promised

This is the abstract specification. Each client's channel is idle, open or closed. The service
handles the client's messages in the order sent, each at most once. Every reply the client gets
answers one of its own handled requests, at most one reply per request. A call its sender did not
finish writing ("part") is never handled. A refused CHANNEL_OPEN closes the channel.

Endpoint maps onto it as follows:

* `ServiceStatus` maps `conn_state` to the abstract status.
* `sent`, `handled` and `replies` map to themselves.
* The `Service == INSTANCE ChannelService WITH ...` step is checked as the PROPERTY
  `EndpointImplementsService`.

### MC_ChannelTable.tla, MC_Endpoint.tla, MC_MessageState.tla

These modules define the bounds used in the cfgs. `kMaxBackLogForSocketListen` is 1, as in the code.
Sets with negative handle values are defined in MC_MessageState, because a cfg cannot hold them.
MC_Endpoint also defines `NoAcceptRace`, an action constraint that leaves out the steps where epoll
hands a thread an event of a connection another thread is serving (finding 1). MC_MessageState
defines the constraint `PayloadOrHandles`.

## Runs

| Run | Cfg | Expect | Checks |
|---|---|---|---|
| table | table.cfg | pass | `TableTypeOK`, `MapsConsistent`, `AllocationFollowsCounter` over every order of register / close / attach / modify, ids 1..3 and fds {1,2} (the counter wraps, and fds are reused under new ids) |
| single | single.cfg | pass | one thread, clients c1 c2, fds {1,2}, 3 messages each, service closes, c2 may die in the middle of a call: `TypeOK`, `TableConsistent` (the maps are inverse, epoll holds exactly the channel fds, every other open fd is a pushed remote end held by a message being replied to, and only registered fds are armed), `RequestsAnswered`, `ConnectionsAccepted`, `EndpointImplementsService` |
| pool | pool.cfg | pass | two threads, two clients, one fd (so EMFILE, fd reuse and the impulse re-arm failure happen): `TableConsistent`, `CancelStopsWorkers` (the type invariant is checked once, in single: these configurations reach no new kind of value) |
| accept_race | accept_race.cfg | violation | `ChannelExclusive`: two threads read the same freshly accepted channel |
| listen_rearm | listen_rearm.cfg | violation | `ConnectionsAccepted`: after one EMFILE the listener is never re-armed |
| reply_epipe_leak | reply_epipe_leak.cfg | violation | `HungUpChannelClosed`: a failed reply leaves a hung-up channel un-armed and never closed |
| push | push.cfg | pass | one thread, fds {1,2,3}, handlers push channels: `TableConsistent` (no remote end outlives its message), `RequestsAnswered` (a pushed client is served), `AbandonedChannelClosed` (a channel whose client hung up before sending anything, such as a pushed channel whose reply failed, is closed), `EndpointImplementsService` |
| message | message.cfg | pass | `TypeOK`, `ReadMatchesReference`, `ReadsInOrder`, `WritesInOrder` over every payload of up to 3 bytes and every sequence of 2 reads and 1 write of up to 2 iovecs; `RefsResolve` (a returned reference names the pushed handle in the response as sent), `PullsResolve` (a pulled reference resolves to the handle sent at that index) over 2 pushes and 2 pulls. The CONSTRAINT `PayloadOrHandles` explores payload calls and handle calls in separate messages: they touch disjoint state and only the reply reads both |
| cross_talk | cross_talk.cfg | violation | `NoCrossTalk`: a reply goes to another client |
| close_other | close_other.cfg | violation | `CloseNamesHungUpClient`: a hang-up becomes a CHANNEL_CLOSE of another client's live channel. Its `CONSTRAINT ChannelExclusive` and `ACTION_CONSTRAINT NoAcceptRace` (MC_Endpoint) leave out the accept race, so that the trace shows this cause alone |
| silent_client | silent_client.cfg | violation | `ConnectionsAccepted`: a silent client stalls all accepts |
| impulse_order | impulse_order.cfg | violation | `HandledInOrder`: a call is handled before an earlier impulse. Its `CONSTRAINT ChannelExclusive` leaves out the accept race, so that the trace shows this cause alone |

### Findings

1. **Accept race (line 255, with line 227).** The accepted socket is armed before its first request
   is read on the accepting thread. A second thread blocked in `epoll_wait` gets the same fd.
   * TLC trace: Connect, ReceiveListen(w1), AcceptConnection(w1), ReceiveChannel(w2, 1).
   * Both threads are then in recv on one channel.
2. **Listener not re-armed after a failed accept (lines 519-521).** `MessageReceive` returns the
   error before `ReenableEpollEvent(socket_fd_)`, and the listener is one-shot.
   * TLC trace: c1 is connected and holds the only fd. c2 connects, and the accept fails with EMFILE.
     c1 closes and its channel is closed.
   * c2 then stays queued for ever, although an fd is free.
3. **Reply failure leaks the channel (line 567).** `MessageReply` re-arms the channel only after a
   successful send. A client that closes while its call is served makes the send fail with EPIPE.
   * The channel is then never re-armed, so its hang-up is never seen. It is never closed, and its
     id and fd leak.

4. **A reply can reach another client (lines 536, 561).** `MessageReply` borrows the socket fd under
   the lock and sends after releasing it. A `CloseChannel` by the service in between frees the fd,
   and an accept reuses its number for another client.
   * That client receives the reply, and its channel is re-armed by someone else's reply.
5. **A silent client stalls the endpoint (lines 204, 227, 424).** The first request of a new
   connection is read by a blocking recv, with the listener disarmed. The spec (§4.3) says this
   step synthesizes a close.
6. **Impulses are not ordered with later messages (line 465).** The early re-arm lets another
   thread handle the client's next call first. This contradicts the spec's strict per-channel
   ordering (§5) whenever there is more than one dispatch thread.
7. **A hang-up closes another client's channel (lines 527, 423).** `MessageReceive` keeps only the fd
   number from `epoll_wait` and looks the channel id up afterwards, in a separate lock section.
   * TLC trace: c1's reply is sent and its channel re-armed. c1 hangs up, and w1 takes the EPOLLRDHUP
     event. The service closes c1's channel; c2 connects and is accepted on the same fd. w1 then
     builds a CHANNEL_CLOSE with c2's channel id, and its reply closes c2's live channel.
   * The spec (§4.3, step 5) says the close message is for the channel whose hang-up was reported.

The refinement `EndpointImplementsService` holds in the single-thread and push runs. The traces
of findings 4 and 6 also violate it. Finding 7 does not: the abstract service may close an open
channel at any time, so it is stated as its own invariant.

### Why the bounds suffice

* **ChannelTable.** Three ids with two fds make the counter wrap while a lower id is still in use.
  A freed fd number is then registered again under a different id.
* **Endpoint.**
  * Two connections and two fds give every interleaving of two channels' open / call / impulse / close.
  * One fd with two connections makes the fd table run out and makes fd numbers be reused.
  * `MaxSends = 3` lets a channel carry a message after its first reply. That is what re-arming
    must enable: the accept path leaves the channel armed, so two messages would not tell a missing
    re-arm apart.
  * Two threads are the least that can race.
  * **single.** With `MaxSends = 3`, c2 can die after CHANNEL_OPEN and a call, or in its first call.
    The dead sender's header is read before or after its socket is closed, and the close is seen
    by epoll or by the payload read.
  * **close_other.** One fd makes the accept after the service's close take the number the stale
    event names.
  * **push.** Three fds fit the caller's channel and a socket pair. Two clients let c2 be either
    a connecting or a pushed client, and `MaxSends = 2` lets it send after the handover.
* **MessageState.**
  * `PayloadOrHandles` (message) keeps payload calls and handle calls apart. They touch disjoint
    state, so each property is checked over all its calls without the product of the two histories.
  * Three bytes with iovecs of at most two bytes make both clamps of `ReadData` bite: the iovec
    length, and what is left of the payload.
  * Two reads carry the cursor across calls; two iovecs in a write show their order.
  * The handle sets hold a valid and an empty value of each kind, an unknown channel, and
    references below, inside and above the request lists.
* **Mutants.** Every property of the passing runs is broken by a mutant of the code it is about
  (PROJECT.json lists them), under the same bounds.

### Fairness

* **Each dispatch thread: weak fairness** on the steps it takes without waiting on anything else:
  accept, reading the message, `MessageReply` and the send.
* **Each thread: strong fairness on `ReceiveCancel`.** The eventfd stays readable once written, but a
  thread may take other events first.
* **Strong fairness on "some thread takes the listener" and on "some thread takes channel fd f".**
  epoll keeps ready fds on a FIFO ready list, so an fd that is repeatedly ready and armed is
  eventually reported.
* **Clients, service closes and channel pushes: no fairness.** They may never happen.
* **A client that died mid-call: weak fairness on `Hangup`.** The kernel closes the sockets of an
  exited process; until then the thread reading its payload stays blocked.
* **Deadlock checking is off in the endpoint cfgs.** The endpoint really does stop once `Cancel` has
  been called and every thread has left its loop. Before that, `Cancel` is always enabled.

## Not modelled

* **`PushChannel` from an impulse or CHANNEL_OPEN handler.** These and the socketpair/setsockopt
  failures are left out. A failure changes no state, and a push from another handler ends the same
  way, with the remote end closed when the message is destroyed.
* **Short payload reads other than a dead sender.** A request is transferred whole unless its
  sender dies after the header (`CrashMidCall`); a recv that returns part of the payload and then
  the rest is the wire layer's loop (ipc_helper, not under src/).
* **`GetNextAvailableMessageId`, credentials, and `GetChannelState`.** These
  are reads or counters that no property depends on.
* **`CheckChannel`.** A stub that returns EFAULT.
* **The constructor's socket setup, and `Create`.** These are I/O whose failures abort the process
  (CHECK). Init is the state they leave.
* **The wire format (ipc_helper).** Payload bytes and partial reads are abstracted: a message is
  transferred whole, with its error outcomes.
* **The client library, handle classes and ChannelManager.** They are not under src/. Clients are
  modelled from the spec.

## Plan

Done: the channel table; the dispatch loop; accept, receive, reply and cancel; service closes;
silent clients; impulse ordering; MessageState; PushChannel; the ChannelService refinement; the
fd number looked up after `epoll_wait` (finding 7); a client that dies in the middle of a call;
the event-fd lookup of the CHANNEL_OPEN reply; liveness of abandoned pushed channels.

Most important first:

1. **Composition of MessageState into Endpoint.** `ReplyOpen`'s empty event fd would then come
   from the actual `GetChannelEventFd` race (line 550), not from a chosen value.
2. **A larger instance.** Two threads with three fds and pushes, once a state constraint keeps
   it within minutes.
