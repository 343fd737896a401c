------------------------------- MODULE Endpoint -------------------------------
(***************************************************************************)
(* Endpoint (service_endpoint.cpp) driven by a pool of dispatch threads,   *)
(* each looping MessageReceive -> service -> MessageReply, and by clients  *)
(* that connect to the listening socket and exchange requests with it.     *)
(*                                                                         *)
(* Shared state: the channel table (ChannelTable.tla, under                *)
(* channel_mutex_), the epoll interest list with its one-shot arming, the  *)
(* listening socket, the cancel eventfd and the kernel's fd table.         *)
(* Socket I/O runs without the lock; each step below is what one thread    *)
(* does between two points where another thread's step can matter.        *)
(***************************************************************************)
EXTENDS ChannelTable, Sequences, FiniteSetsExt

CONSTANTS
    Workers,        \* dispatch threads calling MessageReceive/MessageReply
    Conns,          \* client connections, each one socket lifetime
    NoConn,         \* fd_conn of an fd number that is not open
    MaxSends,       \* bound on the messages one client sends
    ListenQueue,    \* pending connections the listening socket holds
    SilentConns,    \* clients that connect and never write a request
    CrashingConns,  \* clients whose process may die in the middle of a call
    ServiceCloses,  \* whether the service closes channels on its own
    PushChannels    \* whether handlers push new channels (PushChannel)

ASSUME NoConn \notin Conns
ASSUME SilentConns \subseteq Conns
ASSUME CrashingConns \subseteq Conns
ASSUME ServiceCloses \in BOOLEAN
ASSUME PushChannels \in BOOLEAN
ASSUME MaxSends \in Nat \ {0}
ASSUME ListenQueue \in Nat \ {0}

VARIABLES
    epoll_set,      \* channel fds added to epoll_fd_
    armed,          \* channel fds whose EPOLLONESHOT interest is armed
    listen_armed,   \* socket_fd_'s EPOLLONESHOT interest is armed
    cancelled,      \* cancel_event_fd_ has been written (level-triggered)
    fd_conn,        \* kernel: the connection an open socket fd refers to
    backlog,        \* kernel: connections queued on the listening socket
    to_close,       \* per thread, the message's sockets_to_close: remote
                    \* ends of pushed channels, closed with the message
    conn_state,     \* client: "idle", "queued", "pushed" (the far end of
                    \* a pushed channel, not yet handed over), "accepted"
                    \* or "dropped"
    to_server,      \* client -> server bytes, as whole messages
    hup,            \* client has closed its end
    awaiting,       \* client has a request outstanding
    sent,           \* messages the client has sent, in order (history)
    replies,        \* replies the client received, by the connection they answer
    pc,             \* dispatch thread: where it is in the loop
    wfd,            \* the fd the thread is reading or writing
    wconn,          \* the socket a blocking recv on wfd is bound to
    from_accept,    \* the read is the first one, inside AcceptConnection
    msg,            \* the Message the thread holds
    handled         \* per client, the messages the service has handled,
                    \* by their position in sent (history)

epoll_vars  == <<epoll_set, armed, listen_armed, cancelled>>
kernel_vars == <<fd_conn, backlog, to_close>>
client_vars == <<conn_state, to_server, hup, awaiting, sent, replies>>
worker_vars == <<pc, wfd, wconn, from_accept, msg, handled>>
vars == <<table_vars, epoll_vars, kernel_vars, client_vars, worker_vars>>

\* Opcodes: CHANNEL_OPEN, an ordinary call, an impulse and the locally
\* synthesised CHANNEL_CLOSE.  On the wire, "part" is a call whose sender
\* died before all of its payload was written.
Ops == {"open", "call", "imp", "close"}
WireOps == {"open", "call", "imp", "part"}
\* seq: the message's position in what its client sent (0: none yet, or a
\* synthesised CHANNEL_CLOSE).
Message == [cid : ChannelIds \cup {NoChannelId}, op : Ops \cup {"none"},
            origin : Conns \cup {NoConn}, ret : {0, -1}, seq : 0..MaxSends]
NoMessage == [cid |-> NoChannelId, op |-> "none", origin |-> NoConn, ret |-> 0,
              seq |-> 0]

PCs == {"wait", "accept", "lookup", "recv", "handle", "reply", "event", "send",
        "done"}

TypeOK ==
    /\ TableTypeOK
    /\ epoll_set \subseteq Fds /\ armed \subseteq Fds
    /\ listen_armed \in BOOLEAN /\ cancelled \in BOOLEAN
    /\ fd_conn \in [Fds -> Conns \cup {NoConn}]
    /\ backlog \in Seq(Conns) /\ Len(backlog) <= ListenQueue
    /\ conn_state \in [Conns -> {"idle", "queued", "pushed", "accepted", "dropped"}]
    /\ to_close \in [Workers -> SUBSET Fds]
    /\ to_server \in [Conns -> Seq(WireOps)]
    /\ hup \in [Conns -> BOOLEAN] /\ awaiting \in [Conns -> BOOLEAN]
    /\ sent \in [Conns -> Seq(WireOps)]
    /\ \A c \in Conns : Len(sent[c]) <= MaxSends
    /\ replies \in [Conns -> Seq(Conns)]
    /\ pc \in [Workers -> PCs]
    /\ wfd \in [Workers -> Fds \cup {NoFd}]
    /\ wconn \in [Workers -> Conns \cup {NoConn}]
    /\ from_accept \in [Workers -> BOOLEAN]
    /\ msg \in [Workers -> Message \cup {NoMessage}]
    /\ handled \in [Conns -> Seq(1..MaxSends)]

OpenFds == {fd \in Fds : fd_conn[fd] # NoConn}

\* A socket is readable, or reports EPOLLRDHUP, once its peer wrote or hung up.
Readable(c) == to_server[c] # <<>> \/ hup[c]

-----------------------------------------------------------------------------
(* Endpoint::Endpoint: socket_fd_ and cancel_event_fd_ added to epoll_fd_; *)
(* the listening socket with EPOLLONESHOT, so it starts armed.             *)
Init ==
    /\ TableInit
    /\ epoll_set = {} /\ armed = {}
    /\ listen_armed = TRUE /\ cancelled = FALSE
    /\ fd_conn = [fd \in Fds |-> NoConn] /\ backlog = <<>>
    /\ to_close = [w \in Workers |-> {}]
    /\ conn_state = [c \in Conns |-> "idle"]
    /\ to_server = [c \in Conns |-> <<>>]
    /\ hup = [c \in Conns |-> FALSE] /\ awaiting = [c \in Conns |-> FALSE]
    /\ sent = [c \in Conns |-> <<>>] /\ replies = [c \in Conns |-> <<>>]
    /\ pc = [w \in Workers |-> "wait"] /\ wfd = [w \in Workers |-> NoFd]
    /\ wconn = [w \in Workers |-> NoConn]
    /\ from_accept = [w \in Workers |-> FALSE]
    /\ msg = [w \in Workers |-> NoMessage]
    /\ handled = [c \in Conns |-> <<>>]

\* A thread finishes the call it was in and goes back to MessageReceive.
Return(w) ==
    /\ pc' = [pc EXCEPT ![w] = "wait"]
    /\ wfd' = [wfd EXCEPT ![w] = NoFd]
    /\ wconn' = [wconn EXCEPT ![w] = NoConn]
    /\ from_accept' = [from_accept EXCEPT ![w] = FALSE]
    /\ msg' = [msg EXCEPT ![w] = NoMessage]

\* Mutant: EPOLL_CTL_MOD without EPOLLONESHOT's re-arm (events left 0).
ReenableEpollEventNoop(fd) == armed

\* ReenableEpollEvent(fd): EPOLL_CTL_MOD, which fails (ENOENT) for an fd
\* that is not in the interest list.
ReenableEpollEvent(fd) ==
    IF fd \in epoll_set THEN armed \cup {fd} ELSE armed

\* Mutant: the channel is added with an event mask that leaves it disarmed.
AddToEpollDisarmed(fd) ==
    /\ epoll_set' = epoll_set \cup {fd}
    /\ armed' = armed

\* OnNewChannelLocked's EPOLL_CTL_ADD, with EPOLLIN | EPOLLRDHUP |
\* EPOLLONESHOT: the new channel is armed at once.
AddToEpoll(fd) ==
    /\ epoll_set' = epoll_set \cup {fd}
    /\ armed' = armed \cup {fd}

\* CloseChannel(channel_id) for a channel in the table: EPOLL_CTL_DEL, both
\* map entries erased, and the owned data_fd closed with the ChannelData.
CloseChannel(id) ==
    LET fd == channels[id].data_fd
    IN  /\ CloseChannelLocked(id)
        /\ epoll_set' = epoll_set \ {fd}
        /\ armed' = armed \ {fd}
        /\ fd_conn' = [fd_conn EXCEPT ![fd] = NoConn]
        /\ conn_state' = [conn_state EXCEPT ![fd_conn[fd]] = "dropped"]

\* CloseChannel of an id that may not be in the table (EINVAL, no change).
CloseChannelIfPresent(id) ==
    IF id \in DOMAIN channels
    THEN CloseChannel(id)
    ELSE UNCHANGED <<table_vars, epoll_set, armed, fd_conn, conn_state>>

\* The thread moves on within MessageReceive or MessageReply.
Continue(w, where, fd, c, m) ==
    /\ pc' = [pc EXCEPT ![w] = where]
    /\ wfd' = [wfd EXCEPT ![w] = fd]
    /\ wconn' = [wconn EXCEPT ![w] = c]
    /\ msg' = [msg EXCEPT ![w] = m]

\* Mutant: socket_fd_ is not re-armed after an accept.
ListenNotRearmed(w) == listen_armed' = listen_armed

\* AcceptConnection returned OK: MessageReceive re-arms socket_fd_.
ListenRearmedIfAccepting(w) ==
    listen_armed' = (listen_armed \/ from_accept[w])

-----------------------------------------------------------------------------
(***************************************************************************)
(* MessageReceive: epoll_wait(maxevents = 1) hands the thread one ready    *)
(* event, and a one-shot source is disarmed as it is handed out.           *)
(***************************************************************************)

\* Mutant: the cancel eventfd added with EPOLLONESHOT, so one wait consumes it.
ReceiveCancelOneShot(w) ==
    /\ pc[w] = "wait" /\ cancelled
    /\ pc' = [pc EXCEPT ![w] = "done"]
    /\ cancelled' = FALSE
    /\ UNCHANGED <<table_vars, epoll_set, armed, listen_armed, kernel_vars,
                   client_vars, wfd, wconn, from_accept, msg, handled>>

\* The cancel eventfd is level-triggered: every call sees ESHUTDOWN, and the
\* dispatch loop of the thread ends.
ReceiveCancel(w) ==
    /\ pc[w] = "wait" /\ cancelled
    /\ pc' = [pc EXCEPT ![w] = "done"]
    /\ UNCHANGED <<table_vars, epoll_vars, kernel_vars, client_vars,
                   wfd, wconn, from_accept, msg, handled>>

\* socket_fd_ is ready: go on to AcceptConnection.
ReceiveListen(w) ==
    /\ pc[w] = "wait" /\ listen_armed /\ backlog # <<>>
    /\ listen_armed' = FALSE
    /\ pc' = [pc EXCEPT ![w] = "accept"]
    /\ UNCHANGED <<table_vars, epoll_set, armed, cancelled, kernel_vars,
                   client_vars, wfd, wconn, from_accept, msg, handled>>

\* A channel fd is ready: epoll_wait returns its number and the events,
\* and the one-shot interest is disarmed.  Nothing is looked up yet.
ReceiveChannel(w, fd) ==
    LET c == fd_conn[fd]
    IN  /\ pc[w] = "wait" /\ fd \in armed /\ Readable(c)
        /\ armed' = armed \ {fd}
        /\ Continue(w, "lookup", fd, NoConn,
                    [NoMessage EXCEPT !.op = IF hup[c] THEN "close" ELSE "none"])
        /\ UNCHANGED <<table_vars, epoll_set, listen_armed, cancelled,
                       kernel_vars, client_vars, from_accept, handled>>

(***************************************************************************)
(* The rest of MessageReceive for a channel event, after epoll_wait        *)
(* returned: the fd number is looked up now, so if its channel was closed  *)
(* meanwhile and the number reused, it names the new socket.               *)
(*  - EPOLLRDHUP/EPOLLHUP: BuildCloseMessage(GetChannelId(fd)), unread    *)
(*    data left in the socket;                                            *)
(*  - otherwise ReceiveMessageForChannel: GetChannelId, then the blocking *)
(*    recv, bound to the socket the fd names; on a closed fd it fails      *)
(*    (EBADF), CloseChannel of the missing id fails, and the error is     *)
(*    returned.                                                            *)
(***************************************************************************)
LookupChannel(w) ==
    LET fd == wfd[w]
        c == fd_conn[fd]
        m == [NoMessage EXCEPT !.cid = GetChannelId(fd), !.op = msg[w].op,
                               !.origin = c]
    IN  /\ pc[w] = "lookup"
        /\ \/ /\ m.op = "close"
              /\ Continue(w, "reply", NoFd, NoConn, m)
           \/ /\ m.op = "none" /\ c # NoConn
              /\ Continue(w, "recv", fd, c, m)
           \/ /\ m.op = "none" /\ c = NoConn
              /\ Return(w)
        /\ UNCHANGED <<table_vars, epoll_vars, kernel_vars, client_vars,
                       from_accept, handled>>

(***************************************************************************)
(* AcceptConnection.  accept4 takes the head of the listen queue and the   *)
(* lowest free fd; with none free it fails (EMFILE) and MessageReceive     *)
(* returns the error before re-arming socket_fd_.  On success the socket   *)
(* is added to epoll (armed, EPOLLONESHOT), registered by                  *)
(* OnNewChannelLocked, and its first request is read on this thread, with *)
(* a blocking recv (accept4 is not given SOCK_NONBLOCK).                   *)
(***************************************************************************)
AcceptConnection(w) ==
    LET c == Head(backlog)
        free == Fds \ OpenFds
        fd == Min(free)
        id == ScanFreeId(DOMAIN channels, last_channel_id)
    IN  /\ pc[w] = "accept"
        /\ \/ /\ free = {}
              /\ Return(w)
              /\ UNCHANGED <<table_vars, epoll_vars, kernel_vars, client_vars,
                             handled>>
           \/ /\ free # {}
              /\ OnNewChannelLocked(fd, NullState)
              /\ AddToEpoll(fd)
              /\ fd_conn' = [fd_conn EXCEPT ![fd] = c]
              /\ backlog' = Tail(backlog)
              /\ UNCHANGED to_close
              /\ conn_state' = [conn_state EXCEPT ![c] = "accepted"]
              /\ Continue(w, "recv", fd, c,
                          [cid |-> id, op |-> "none", origin |-> c, ret |-> 0,
                           seq |-> 0])
              /\ from_accept' = [from_accept EXCEPT ![w] = TRUE]
              /\ UNCHANGED <<listen_armed, cancelled, to_server, hup, awaiting,
                             sent, replies, handled>>

\* ReceiveData of the request header (and payload) takes the message off
\* the socket's stream.
\* Mutant: the header is read with MSG_PEEK and stays in the stream.
ConsumedPeek(c) == to_server

Consumed(c) == [to_server EXCEPT ![c] = Tail(@)]

\* The payload of a request, send_len bytes, is read in full.  A sender
\* that died after its header left less: the recv blocks until the socket
\* is closed and then ends in ESHUTDOWN.
\* Mutant: the payload read's status is dropped, as if it had succeeded.
PayloadReadUnchecked(c) == TRUE

PayloadRead(c) == Head(to_server[c]) # "part"

(***************************************************************************)
(* ReceiveMessageForChannel, once its blocking recv returns.  The recv is  *)
(* bound to the socket the fd named when it started (wconn).              *)
(*  - a request: header and payload read; the channel stays disarmed until *)
(*    MessageReply;                                                        *)
(*  - an impulse: header read, then ReenableEpollEvent, and the message    *)
(*    goes to the service, which handles it without a reply; if the       *)
(*    re-arm fails the channel is closed and the error returned;          *)
(*  - end of stream (ESHUTDOWN), before the header or in the payload:     *)
(*    BuildCloseMessage, returned as success.                              *)
(* A successful return from the AcceptConnection path re-arms socket_fd_.  *)
(* The message's seq is its position in what the client sent.             *)
(***************************************************************************)
ReceiveMessageForChannel(w) ==
    LET c == wconn[w]
        fd == wfd[w]
        m == msg[w]
        op == Head(to_server[c])
        header == IF op = "part" THEN "call" ELSE op
        seq == Len(sent[c]) - Len(to_server[c]) + 1
    IN  /\ pc[w] = "recv"
        /\ \/ /\ to_server[c] # <<>> /\ op # "imp" /\ PayloadRead(c)
              /\ to_server' = Consumed(c)
              /\ Continue(w, "reply", NoFd, NoConn, [m EXCEPT !.op = header, !.seq = seq])
              /\ ListenRearmedIfAccepting(w)
              /\ UNCHANGED <<table_vars, epoll_set, armed, cancelled, kernel_vars,
                             conn_state, hup, awaiting, sent, replies>>
           \/ /\ to_server[c] # <<>> /\ op = "imp" /\ fd \in epoll_set
              /\ to_server' = Consumed(c)
              /\ armed' = ReenableEpollEvent(fd)
              /\ ListenRearmedIfAccepting(w)
              /\ Continue(w, "handle", NoFd, NoConn, [m EXCEPT !.op = op, !.seq = seq])
              /\ UNCHANGED <<table_vars, epoll_set, cancelled, kernel_vars,
                             conn_state, hup, awaiting, sent, replies>>
           \/ /\ to_server[c] # <<>> /\ op = "imp" /\ fd \notin epoll_set
              /\ to_server' = Consumed(c)
              /\ CloseChannelIfPresent(m.cid)
              /\ Return(w)
              /\ UNCHANGED <<listen_armed, cancelled, backlog, to_close, hup, awaiting,
                             sent, replies>>
           \/ /\ to_server[c] # <<>> /\ op # "imp" /\ ~PayloadRead(c) /\ hup[c]
              /\ to_server' = Consumed(c)
              /\ Continue(w, "reply", NoFd, NoConn, [m EXCEPT !.op = "close"])
              /\ ListenRearmedIfAccepting(w)
              /\ UNCHANGED <<table_vars, epoll_set, armed, cancelled, kernel_vars,
                             conn_state, hup, awaiting, sent, replies>>
           \/ /\ to_server[c] = <<>> /\ hup[c]
              /\ Continue(w, "reply", NoFd, NoConn, [m EXCEPT !.op = "close"])
              /\ ListenRearmedIfAccepting(w)
              /\ UNCHANGED <<table_vars, epoll_set, armed, cancelled,
                             kernel_vars, client_vars>>
        /\ from_accept' = [from_accept EXCEPT ![w] = FALSE]
        /\ UNCHANGED handled

\* The service's handler for an impulse, after MessageReceive has returned
\* it; no MessageReply follows.
HandleImpulse(w) ==
    /\ pc[w] = "handle"
    /\ handled' = [handled EXCEPT ![msg[w].origin] = Append(@, msg[w].seq)]
    /\ Return(w)
    /\ UNCHANGED <<table_vars, epoll_vars, kernel_vars, client_vars>>

(***************************************************************************)
(* The service destroys the message once MessageReply returns, and with    *)
(* it the MessageState: sockets_to_close are closed.  The far end of a     *)
(* pushed channel reached its client only if the reply carrying it was    *)
(* sent; otherwise closing it leaves the pushed channel's peer gone, and   *)
(* epoll reports EPOLLRDHUP on the local end.                              *)
(***************************************************************************)
\* Mutant: sockets_to_close are released without being closed.
ReleaseMessageKeepRemote(w, delivered) ==
    LET peers == {fd_conn[fd] : fd \in to_close[w]}
    IN  /\ to_close' = [to_close EXCEPT ![w] = {}]
        /\ conn_state' = [c \in Conns |->
                             IF c \in peers /\ conn_state[c] = "pushed"
                             THEN "accepted" ELSE conn_state[c]]
        /\ hup' = [c \in Conns |-> hup[c] \/ (c \in peers /\ ~delivered)]
        /\ UNCHANGED fd_conn

ReleaseMessage(w, delivered) ==
    LET peers == {fd_conn[fd] : fd \in to_close[w]}
    IN  /\ to_close' = [to_close EXCEPT ![w] = {}]
        /\ fd_conn' = [fd \in Fds |->
                          IF fd \in to_close[w] THEN NoConn ELSE fd_conn[fd]]
        /\ conn_state' = [c \in Conns |->
                             IF c \in peers /\ conn_state[c] = "pushed"
                             THEN "accepted" ELSE conn_state[c]]
        /\ hup' = [c \in Conns |-> hup[c] \/ (c \in peers /\ ~delivered)]

(***************************************************************************)
(* MessageReply(message, return_code), up to the send: GetChannelSocketFd  *)
(* (EBADF when the channel is gone); CHANNEL_CLOSE, and CHANNEL_OPEN with  *)
(* a negative return code, close the channel and write nothing; any other *)
(* reply goes on to SendData with the borrowed socket fd.  The service     *)
(* has handled the message and picked the return code before it replies; *)
(* only CHANNEL_OPEN's sign changes the path.                              *)
(***************************************************************************)
MessageReply(w) ==
    LET m == msg[w]
        sock == GetChannelSocketFd(m.cid)
    IN  /\ pc[w] = "reply"
        /\ handled' = IF m.op \in WireOps
                      THEN [handled EXCEPT ![m.origin] = Append(@, m.seq)]
                      ELSE handled
        /\ \E ret \in IF m.op = "open" THEN {0, -1} ELSE {0} :
              \/ /\ sock = NoFd
                 /\ ReleaseMessage(w, FALSE)
                 /\ Return(w)
                 /\ UNCHANGED <<table_vars, epoll_vars, backlog, to_server,
                                awaiting, sent, replies>>
              \/ /\ sock # NoFd
                 /\ m.op = "close" \/ (m.op = "open" /\ ret < 0)
                 /\ CloseChannel(m.cid)
                 /\ Return(w)
                 /\ UNCHANGED <<listen_armed, cancelled, backlog, to_close, to_server, hup,
                                awaiting, sent, replies>>
              \/ /\ sock # NoFd
                 /\ m.op = "call" \/ (m.op = "open" /\ ret >= 0)
                 /\ Continue(w, IF m.op = "open" THEN "event" ELSE "send", sock,
                             NoConn, [m EXCEPT !.ret = ret])
                 /\ UNCHANGED <<table_vars, epoll_vars, kernel_vars, client_vars,
                                from_accept>>

(***************************************************************************)
(* MessageReply of an accepted CHANNEL_OPEN: GetChannelEventFd, in a lock  *)
(* section of its own, and PushFileHandle of the handle; the reference it  *)
(* returns (0) becomes the return code.  If the channel was closed since   *)
(* its socket fd was borrowed, the handle is empty and PushFileHandle      *)
(* returns its value, -1, as a success: -1 is sent as the return code, on  *)
(* the borrowed fd.                                                        *)
(***************************************************************************)
ReplyOpenEventFd(w) ==
    LET m == msg[w]
    IN  /\ pc[w] = "event"
        /\ Continue(w, "send", wfd[w], NoConn,
                    [m EXCEPT !.ret = IF GetChannelEventFd(m.cid) = NoFd THEN -1 ELSE 0])
        /\ UNCHANGED <<table_vars, epoll_vars, kernel_vars, client_vars,
                       from_accept, handled>>

(***************************************************************************)
(* MessageReply, the rest: SendData of the response header and payload on *)
(* the fd borrowed above, then ReenableEpollEvent.  The send fails with    *)
(* EBADF on a closed fd and EPIPE once the peer has closed; either error   *)
(* is returned without re-arming the channel.  The fd is used as it is    *)
(* now, whatever socket it names by then.                                  *)
(***************************************************************************)
PeerOpen(c) == c # NoConn /\ ~hup[c]

SendReply(w) ==
    LET fd == wfd[w]
        c == fd_conn[fd]
    IN  /\ pc[w] = "send"
        /\ \/ /\ ~PeerOpen(c)
              /\ ReleaseMessage(w, FALSE)
              /\ UNCHANGED <<epoll_vars, to_server, awaiting, sent, replies>>
           \/ /\ PeerOpen(c)
              /\ replies' = [replies EXCEPT ![c] = Append(@, msg[w].origin)]
              /\ awaiting' = [awaiting EXCEPT ![c] = FALSE]
              /\ armed' = ReenableEpollEvent(fd)
              /\ ReleaseMessage(w, TRUE)
              /\ UNCHANGED <<epoll_set, listen_armed, cancelled, to_server, sent>>
        /\ Return(w)
        /\ UNCHANGED <<table_vars, backlog, handled>>

\* Cancel(): eventfd_write on cancel_event_fd_, from any thread.
Cancel ==
    /\ ~cancelled
    /\ cancelled' = TRUE
    /\ UNCHANGED <<table_vars, epoll_set, armed, listen_armed, kernel_vars,
                   client_vars, worker_vars>>

\* CloseChannel(channel_id) called by the service, from any of its threads
\* and at any time (a handler dropping a connection, service shutdown).
ServiceCloseChannel(id) ==
    /\ ServiceCloses
    /\ CloseChannel(id)
    /\ UNCHANGED <<listen_armed, cancelled, backlog, to_close, to_server, hup, awaiting,
                   sent, replies, worker_vars>>

-----------------------------------------------------------------------------
(***************************************************************************)
(* Clients (the pdx client library, outside this file).  A client connects *)
(* and at once sends CHANNEL_OPEN; it then sends calls, one outstanding at *)
(* a time, and impulses, which expect no reply; it may close its socket at *)
(* any point.  connect() blocks while the listen queue is full.  A silent *)
(* client (any local process may connect) connects and writes nothing.    *)
(***************************************************************************)
Connect(c) ==
    LET first == IF c \in SilentConns THEN <<>> ELSE <<"open">>
    IN  /\ conn_state[c] = "idle" /\ Len(backlog) < ListenQueue
        /\ backlog' = Append(backlog, c)
        /\ conn_state' = [conn_state EXCEPT ![c] = "queued"]
        /\ to_server' = [to_server EXCEPT ![c] = first]
        /\ sent' = [sent EXCEPT ![c] = first]
        /\ awaiting' = [awaiting EXCEPT ![c] = first # <<>>]
        /\ UNCHANGED <<table_vars, epoll_vars, fd_conn, to_close, hup, replies,
                       worker_vars>>

\* The client's process died in the middle of a call.
Crashed(c) == \E i \in DOMAIN sent[c] : sent[c][i] = "part"

CanSend(c) ==
    /\ c \notin SilentConns /\ ~Crashed(c)
    /\ conn_state[c] \in {"queued", "accepted"} /\ ~hup[c]
    /\ Len(sent[c]) < MaxSends

SendCall(c) ==
    /\ CanSend(c) /\ ~awaiting[c]
    /\ to_server' = [to_server EXCEPT ![c] = Append(@, "call")]
    /\ sent' = [sent EXCEPT ![c] = Append(@, "call")]
    /\ awaiting' = [awaiting EXCEPT ![c] = TRUE]
    /\ UNCHANGED <<table_vars, epoll_vars, kernel_vars, conn_state, hup,
                   replies, worker_vars>>

SendImpulse(c) ==
    /\ CanSend(c)
    /\ to_server' = [to_server EXCEPT ![c] = Append(@, "imp")]
    /\ sent' = [sent EXCEPT ![c] = Append(@, "imp")]
    /\ UNCHANGED <<table_vars, epoll_vars, kernel_vars, conn_state, hup,
                   awaiting, replies, worker_vars>>

\* A crashing client's process dies after writing the header of a call and
\* part of its payload; the kernel closes its socket later (Hangup).
CrashMidCall(c) ==
    /\ c \in CrashingConns /\ CanSend(c) /\ ~awaiting[c]
    /\ to_server' = [to_server EXCEPT ![c] = Append(@, "part")]
    /\ sent' = [sent EXCEPT ![c] = Append(@, "part")]
    /\ UNCHANGED <<table_vars, epoll_vars, kernel_vars, conn_state, hup,
                   awaiting, replies, worker_vars>>

Hangup(c) ==
    /\ conn_state[c] \notin {"idle", "pushed"} /\ ~hup[c]
    /\ hup' = [hup EXCEPT ![c] = TRUE]
    /\ UNCHANGED <<table_vars, epoll_vars, kernel_vars, conn_state, to_server,
                   awaiting, sent, replies, worker_vars>>

(***************************************************************************)
(* PushChannel, from the service's handler of a call the thread holds      *)
(* (before its MessageReply).  socketpair takes the two lowest free fds;  *)
(* with fewer free it fails (EMFILE) and nothing changes.  The local end   *)
(* is registered by OnNewChannelLocked, already armed in epoll; the remote *)
(* end is pushed into the message's state and kept in sockets_to_close.   *)
(* c is the client process that will own the remote end.  One push per   *)
(* message bounds the model.                                               *)
(***************************************************************************)
PushChannel(w, c, s) ==
    LET free == Fds \ OpenFds
        local == Min(free)
        remote == Min(free \ {local})
    IN  /\ PushChannels
        /\ pc[w] = "reply" /\ msg[w].op = "call" /\ to_close[w] = {}
        /\ conn_state[c] = "idle" /\ Cardinality(free) >= 2
        /\ OnNewChannelLocked(local, s)
        /\ AddToEpoll(local)
        /\ fd_conn' = [fd_conn EXCEPT ![local] = c, ![remote] = c]
        /\ to_close' = [to_close EXCEPT ![w] = {remote}]
        /\ conn_state' = [conn_state EXCEPT ![c] = "pushed"]
        /\ UNCHANGED <<listen_armed, cancelled, backlog, to_server, hup,
                       awaiting, sent, replies, worker_vars>>

-----------------------------------------------------------------------------
WorkerStep(w) ==
    \/ ReceiveCancel(w)
    \/ ReceiveListen(w)
    \/ \E fd \in Fds : ReceiveChannel(w, fd)
    \/ LookupChannel(w)
    \/ AcceptConnection(w)
    \/ ReceiveMessageForChannel(w)
    \/ HandleImpulse(w)
    \/ MessageReply(w)
    \/ ReplyOpenEventFd(w)
    \/ SendReply(w)

ClientStep(c) ==
    \/ Connect(c)
    \/ SendCall(c)
    \/ SendImpulse(c)
    \/ CrashMidCall(c)
    \/ Hangup(c)

Next ==
    \/ \E w \in Workers : WorkerStep(w)
    \/ \E c \in Conns : ClientStep(c)
    \/ \E id \in DOMAIN channels : ServiceCloseChannel(id)
    \/ \E w \in Workers, c \in Conns, s \in ChannelStates : PushChannel(w, c, s)
    \/ Cancel

(***************************************************************************)
(* Fairness.  A thread that can go on with the call it is in eventually    *)
(* does (the OS schedules it).  epoll keeps ready sources on a FIFO ready  *)
(* list and returns its head, so a source that is ready every time some    *)
(* thread calls epoll_wait is eventually handed out: strong fairness for   *)
(* the listening socket, each channel fd and, per thread, the cancel fd.   *)
(* Clients and service-initiated closes get no fairness: they may never   *)
(* happen; but the kernel closes the socket of a process that died.       *)
(***************************************************************************)
Fairness ==
    /\ \A w \in Workers :
          /\ WF_vars(LookupChannel(w) \/ AcceptConnection(w)
                     \/ ReceiveMessageForChannel(w) \/ HandleImpulse(w)
                     \/ MessageReply(w) \/ ReplyOpenEventFd(w) \/ SendReply(w))
          /\ SF_vars(ReceiveCancel(w))
    /\ SF_vars(\E w \in Workers : ReceiveListen(w))
    /\ \A fd \in Fds : SF_vars(\E w \in Workers : ReceiveChannel(w, fd))
    /\ \A c \in CrashingConns : WF_vars(Crashed(c) /\ Hangup(c))

Spec == Init /\ [][Next]_vars /\ Fairness

-----------------------------------------------------------------------------
ChannelFds == {channels[id].data_fd : id \in DOMAIN channels}
HeldFds == UNION {to_close[w] : w \in Workers}

\* The table agrees with the kernel and with epoll after any interleaving
\* of accepts, closes and fd reuse: the two maps are mutual inverses, the
\* channel sockets are exactly the fds in epoll, and only those can be
\* armed; every other open fd is the remote end of a pushed channel, held
\* by a message that is still being replied to (no fd outlives it).
TableConsistent ==
    /\ MapsConsistent
    /\ epoll_set = ChannelFds
    /\ OpenFds = ChannelFds \cup HeldFds
    /\ \A w \in Workers : to_close[w] # {} => pc[w] \in {"reply", "send"}
    /\ armed \subseteq epoll_set

\* A client whose request is outstanding gets a reply, unless it hangs up,
\* its channel is closed or the endpoint is cancelled: MessageReceive and
\* MessageReply keep every channel and the listening socket re-armed.
RequestsAnswered ==
    \A c \in Conns :
        (awaiting[c] /\ ~hup[c])
            ~> (~awaiting[c] \/ hup[c] \/ cancelled \/ conn_state[c] = "dropped")

\* A queued connection stays unaccepted for ever only if the fds stay
\* exhausted for ever: an accept error is recoverable, and once an fd is
\* free again the next MessageReceive accepts the connection.
ConnectionsAccepted ==
    \A c \in Conns :
        <>[](conn_state[c] = "queued" /\ ~cancelled) => <>[](OpenFds = Fds)

\* Once Cancel() is called every dispatch thread leaves its loop, except one
\* blocked in a recv, which cancellation does not interrupt.
CancelStopsWorkers ==
    cancelled ~> \A w \in Workers : pc[w] \in {"done", "recv"}

\* One-shot arming gives each channel to one thread at a time: no two
\* threads read from, or hold a request of, the same connection.
ChannelExclusive ==
    \A w1, w2 \in Workers :
        (w1 # w2 /\ pc[w1] \in {"recv", "reply", "send"}
                 /\ pc[w2] \in {"recv", "reply", "send"})
            => msg[w1].origin # msg[w2].origin

\* A client that hangs up has its channel closed: the hang-up is reported
\* by epoll, becomes a CHANNEL_CLOSE message and MessageReply closes it.
HungUpChannelClosed ==
    \A c \in Conns :
        (hup[c] /\ conn_state[c] = "accepted")
            ~> (conn_state[c] = "dropped" \/ cancelled)

\* A CHANNEL_CLOSE that MessageReply is about to apply closes the channel
\* of a client that hung up.  MessageReceive takes the event's fd number
\* from epoll_wait and looks its channel id up only afterwards; if the
\* service closed that channel in between and an accept reused the number,
\* the id is the new client's.
CloseNamesHungUpClient ==
    \A w \in Workers :
        (pc[w] = "reply" /\ msg[w].op = "close" /\ msg[w].cid \in DOMAIN channels)
            => hup[fd_conn[channels[msg[w].cid].data_fd]]

\* A channel whose client hung up before sending anything is closed: the
\* far end of a pushed channel whose reply never carried it to a client is
\* closed when the message is destroyed, and the local end, armed when
\* PushChannel registered it, reports the hang-up, which becomes a
\* CHANNEL_CLOSE that MessageReply applies.
AbandonedChannelClosed ==
    \A c \in Conns :
        (conn_state[c] = "accepted" /\ hup[c] /\ sent[c] = <<>>)
            ~> (conn_state[c] = "dropped" \/ cancelled)

\* A reply reaches only the client whose request it answers.  MessageReply
\* borrows the channel's socket fd under channel_mutex_ and writes to it
\* after releasing the lock; a CloseChannel in between closes that fd, and
\* the next accept may reuse its number for another client.
NoCrossTalk ==
    \A c \in Conns : \A i \in 1..Len(replies[c]) : replies[c][i] = c

\* The service handles a client's messages in the order the client sent
\* them (CHANNEL_OPEN, seq 1, is left out: its ordering is the accept
\* path's, see ChannelExclusive).  A channel is re-armed only once its
\* message has been read, but an impulse is re-armed before the service
\* has handled it.
HandledInOrder ==
    \A c \in Conns : \A i, j \in 1..Len(handled[c]) :
        (i < j /\ handled[c][i] > 1 /\ handled[c][j] > 1)
            => handled[c][i] < handled[c][j]

-----------------------------------------------------------------------------
(***************************************************************************)
(* Refinement.  Each client's view of the endpoint (ChannelService): its   *)
(* channel is idle until it connects or is pushed, open until CloseChannel *)
(* drops it; sent, handled and replies are the history variables above.   *)
(***************************************************************************)
ServiceStatus ==
    [c \in Conns |-> CASE conn_state[c] = "idle"    -> "idle"
                       [] conn_state[c] = "dropped" -> "closed"
                       [] OTHER                     -> "open"]

Service == INSTANCE ChannelService
               WITH Clients <- Conns, MaxMsgs <- MaxSends,
                    status <- ServiceStatus, sent <- sent,
                    handled <- handled, replies <- replies

\* Every behaviour of the endpoint is one of ChannelService: with each
\* step of every thread, client and service close, a client's messages
\* are handled in the order sent and at most once, and each reply answers
\* a handled request of the client that receives it, at most once.  This
\* ties the recv that consumes a message (ReceiveMessageForChannel), the
\* reply path (MessageReply with its borrowed fd) and CloseChannel together.
EndpointImplementsService == Service!Spec
=============================================================================
