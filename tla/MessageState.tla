--------------------------- MODULE MessageState ---------------------------
(***************************************************************************)
(* MessageState (service_endpoint.cpp, anonymous namespace): the scratch   *)
(* state of one message from MessageReceive to MessageReply, and the       *)
(* Endpoint wrappers through which the service reads the request payload,  *)
(* writes the response payload, pushes handles into the response, pulls    *)
(* handles out of the request and finally replies.  One thread owns a      *)
(* message, so every wrapper is one step.                                  *)
(*                                                                         *)
(* A handle is its descriptor value: >= 0 is a valid handle, < 0 an empty  *)
(* one carrying that value.  A moved-from LocalHandle holds -1.            *)
(***************************************************************************)
EXTENDS Integers, SequencesExt

CONSTANTS
    Bytes,          \* payload byte values
    MaxData,        \* bound on the length of request_data
    MaxIovLen,      \* bound on one iov_len
    MaxIovCount,    \* bound on vector_length
    PushFds,        \* descriptor values the service pushes (valid and empty)
    RequestFds,     \* descriptor values that arrive with the request
    RequestChans,   \* channel data fds that arrive with the request
    KnownChannels,  \* channel handles ChannelManager has data for
    PushChans,      \* channel handle values the service pushes
    EventFd(_),     \* the event fd ChannelManager keeps for a known channel
    PullRefs,       \* references the service pulls
    RetCodes,       \* return codes the service replies with
    MaxReads,       \* bounds on the ReadMessageData, WriteMessageData,
    MaxWrites,      \* push and pull calls the service makes on one
    MaxPushes,      \* message
    MaxPulls,
    PullOnce        \* the service pulls each reference at most once

ASSUME KnownChannels \subseteq PushChans
ASSUME PullOnce \in BOOLEAN

EINVAL == -22

VARIABLES
    request_data,       \* request_data: the payload read with the request
    request_data_read_pos,
    request_fds,        \* request.file_descriptors
    request_chans,      \* request.channels, [data_fd, event_fd] each
    response_data,      \* response_data
    response_fds,       \* response.file_descriptors
    response_chans,     \* response.channels, [data_fd, event_fd] each
    replied,            \* MessageReply has sent the response
    reply,              \* the response as sent: [op, ret_code, recv_len]
    sent_fds,           \* request.file_descriptors as received (history)
    sent_chans,         \* request.channels as received (history)
    reads,              \* the ReadData calls: [vec, pos, bufs] each (history)
    writes,             \* the iovecs written, in order (history)
    pushes,             \* results of the pushes, in order (history)
    pulls               \* results of the pulls, in order (history)

ms_vars == <<request_data, request_data_read_pos, request_fds, request_chans,
             response_data, response_fds, response_chans, replied, reply,
             sent_fds, sent_chans, reads, writes, pushes, pulls>>

ChanInfo(d, e) == [data_fd |-> d, event_fd |-> e]
Result(ok, val) == [ok |-> ok, val |-> val]

Iovecs == UNION {[1..n -> 0..MaxIovLen] : n \in 0..MaxIovCount}
Buffers == UNION {[1..n -> BoundedSeq(Bytes, MaxIovLen)] : n \in 0..MaxIovCount}

Sum(s) == FoldSeq(LAMBDA a, b : a + b, 0, s)
Lesser(a, b) == IF a < b THEN a ELSE b

HandleValues == PushFds \cup RequestFds \cup RequestChans \cup PushChans
                \cup {EventFd(h) : h \in KnownChannels} \cup {-1, EINVAL}

TypeOK ==
    /\ request_data \in BoundedSeq(Bytes, MaxData)
    /\ request_data_read_pos \in 0..Len(request_data)
    /\ request_fds \in Seq(HandleValues)
    /\ response_data \in Seq(Bytes)
    /\ response_fds \in Seq(HandleValues)
    /\ response_chans \in Seq([data_fd : HandleValues, event_fd : HandleValues])
    /\ replied \in BOOLEAN
    /\ reply \in [op : {"none", "call", "open"}, ret_code : Int, recv_len : Nat]
    /\ reads \in Seq([vec : Iovecs, pos : Nat, bufs : Buffers])
    /\ writes \in Seq(Buffers)
    /\ Len(reads) <= MaxReads /\ Len(writes) <= MaxWrites
    /\ Len(pushes) <= MaxPushes /\ Len(pulls) <= MaxPulls

-----------------------------------------------------------------------------
(***************************************************************************)
(* ReadData(vector, vector_length): copy from the read cursor into the     *)
(* iovecs in order, each up to its iov_len, until the payload is used up.  *)
(* The loop, as it is written, gives each iovec's new contents.            *)
(***************************************************************************)
\* Mutant: size_to_copy is size_remaining, whatever the iovec's length.
ReadLoopUnclamped(vec, i, pos, remaining) ==
    IF i > Len(vec) THEN <<>>
    ELSE IF remaining = 0 THEN [k \in 1..Len(vec) - i + 1 |-> <<>>]
    ELSE <<SubSeq(request_data, pos + 1, pos + remaining)>>
         \o [k \in 1..Len(vec) - i |-> <<>>]

RECURSIVE ReadLoop(_, _, _, _)
ReadLoop(vec, i, pos, remaining) ==
    IF i > Len(vec) THEN <<>>
    ELSE IF remaining = 0 THEN [k \in 1..Len(vec) - i + 1 |-> <<>>]
    ELSE LET n == Lesser(remaining, vec[i])
         IN  <<SubSeq(request_data, pos + 1, pos + n)>>
             \o ReadLoop(vec, i + 1, pos + n, remaining - n)

\* Mutant: the read cursor is not advanced.
ReadDataNoAdvance(vec) ==
    LET bufs == ReadLoop(vec, 1, request_data_read_pos,
                         Len(request_data) - request_data_read_pos)
    IN  /\ reads' = Append(reads, [vec |-> vec, pos |-> request_data_read_pos, bufs |-> bufs])
        /\ UNCHANGED request_data_read_pos

ReadData(vec) ==
    LET bufs == ReadLoop(vec, 1, request_data_read_pos,
                         Len(request_data) - request_data_read_pos)
        size == Len(FlattenSeq(bufs))
    IN  /\ reads' = Append(reads, [vec |-> vec, pos |-> request_data_read_pos, bufs |-> bufs])
        /\ request_data_read_pos' = request_data_read_pos + size

\* WriteData(vector, vector_length): append each iovec to response_data.
\* Mutant: the loop starts at the second iovec.
WriteLoopSkipFirst(bufs) == IF bufs = <<>> THEN <<>> ELSE FlattenSeq(Tail(bufs))

RECURSIVE WriteLoop(_)
WriteLoop(bufs) ==
    IF bufs = <<>> THEN <<>> ELSE Head(bufs) \o WriteLoop(Tail(bufs))

WriteData(bufs) ==
    /\ response_data' = response_data \o WriteLoop(bufs)
    /\ writes' = Append(writes, bufs)

(***************************************************************************)
(* Pushing handles into the response.  PushFileHandle returns an empty     *)
(* handle's own value instead of an error; PushChannelHandle of a handle   *)
(* ChannelManager does not know, or of an empty data or event fd, fails    *)
(* with EINVAL.  A reference is the index in the list it was appended to. *)
(***************************************************************************)
\* Mutant: the reference returned is the list's new size.
PushFileHandleSize(h) ==
    IF h < 0 THEN <<response_fds, Result(TRUE, h)>>
    ELSE <<Append(response_fds, h), Result(TRUE, Len(response_fds) + 1)>>

\* <<the new response.file_descriptors, the Status<FileReference>>>
PushFileHandle(h) ==
    IF h < 0 THEN <<response_fds, Result(TRUE, h)>>
    ELSE <<Append(response_fds, h), Result(TRUE, Len(response_fds))>>

\* PushChannelHandle(data_fd, event_fd): the explicit pair.
PushChannelPair(d, e) ==
    IF d < 0 \/ e < 0 THEN <<response_chans, Result(FALSE, EINVAL)>>
    ELSE <<Append(response_chans, ChanInfo(d, e)), Result(TRUE, Len(response_chans))>>

\* PushChannelHandle(BorrowedChannelHandle): looked up in ChannelManager.
PushKnownChannel(h) ==
    IF h < 0 THEN <<response_chans, Result(TRUE, h)>>
    ELSE IF h \notin KnownChannels THEN <<response_chans, Result(FALSE, EINVAL)>>
    ELSE PushChannelPair(h, EventFd(h))

(***************************************************************************)
(* Pulling handles out of the request: a negative reference gives an empty *)
(* handle carrying it; one in range moves the handle out of the list (the *)
(* entry is left holding -1); any other fails, and the Endpoint wrapper    *)
(* returns its default, empty handle.                                      *)
(***************************************************************************)
\* Mutant: the range check is index <= size; the read past the end is
\* undefined, so any handle value may come out.
GetLocalFileHandleOffByOne(ref) ==
    IF ref < 0 THEN {<<request_fds, ref>>}
    ELSE IF ref < Len(request_fds)
         THEN {<<[request_fds EXCEPT ![ref + 1] = -1], request_fds[ref + 1]>>}
    ELSE IF ref = Len(request_fds) THEN {<<request_fds, v>> : v \in HandleValues}
    ELSE {<<request_fds, -1>>}

\* The set of possible <<new request.file_descriptors, handle returned>>.
GetLocalFileHandle(ref) ==
    IF ref < 0 THEN {<<request_fds, ref>>}
    ELSE IF ref < Len(request_fds)
         THEN {<<[request_fds EXCEPT ![ref + 1] = -1], request_fds[ref + 1]>>}
    ELSE {<<request_fds, -1>>}

\* GetLocalChannelHandle: ChannelManager::CreateHandle takes both fds; the
\* handle's value is the data fd.
GetLocalChannelHandle(ref) ==
    IF ref < 0 THEN <<request_chans, ref>>
    ELSE IF ref < Len(request_chans)
         THEN <<[request_chans EXCEPT ![ref + 1] = ChanInfo(-1, -1)],
                request_chans[ref + 1].data_fd>>
    ELSE <<request_chans, -1>>

-----------------------------------------------------------------------------
(***************************************************************************)
(* The state ReceiveMessageForChannel leaves: the payload read in full,    *)
(* the request's handles and channels received, nothing pushed yet.        *)
(***************************************************************************)
Init ==
    /\ request_data \in BoundedSeq(Bytes, MaxData)
    /\ request_data_read_pos = 0
    /\ request_fds \in {s \in BoundedSeq(RequestFds, 2) : IsInjective(s)}
    /\ request_chans \in {<<>>} \cup {<<ChanInfo(d, EventFd(d))>> : d \in RequestChans}
    /\ response_data = <<>> /\ response_fds = <<>> /\ response_chans = <<>>
    /\ replied = FALSE
    /\ reply = [op |-> "none", ret_code |-> 0, recv_len |-> 0]
    /\ sent_fds = request_fds /\ sent_chans = request_chans
    /\ reads = <<>> /\ writes = <<>> /\ pushes = <<>> /\ pulls = <<>>

Pushed(kind, h, r) == pushes' = Append(pushes, [kind |-> kind, arg |-> h, res |-> r])

Pulled(kind, ref) == \E k \in 1..Len(pulls) : pulls[k].kind = kind /\ pulls[k].ref = ref

Calls(log, max) == Len(log) < max

\* Endpoint::ReadMessageData.
ReadMessageData(vec) ==
    /\ ~replied /\ Calls(reads, MaxReads)
    /\ ReadData(vec)
    /\ UNCHANGED <<request_data, request_fds, request_chans, response_data,
                   response_fds, response_chans, replied, reply, sent_fds,
                   sent_chans, writes, pushes, pulls>>

\* Endpoint::WriteMessageData.
WriteMessageData(bufs) ==
    /\ ~replied /\ Calls(writes, MaxWrites)
    /\ WriteData(bufs)
    /\ UNCHANGED <<request_data, request_data_read_pos, request_fds,
                   request_chans, response_fds, response_chans, replied, reply,
                   sent_fds, sent_chans, reads, pushes, pulls>>

\* Endpoint::PushFileHandle for a LocalHandle (borrowed) or a BorrowedHandle
\* (duplicated: a new descriptor for the same file, named here by the value).
PushFile(h) ==
    LET r == PushFileHandle(h)
    IN  /\ ~replied /\ Calls(pushes, MaxPushes)
        /\ response_fds' = r[1]
        /\ Pushed("fd", h, r[2])
        /\ UNCHANGED <<request_data, request_data_read_pos, request_fds,
                       request_chans, response_data, response_chans, replied,
                       reply, sent_fds, sent_chans, reads, writes,
                       pulls>>

\* Endpoint::PushChannelHandle for a LocalChannelHandle or a
\* BorrowedChannelHandle (pair = FALSE), and the (data_fd, event_fd) pair
\* PushChannel pushes (pair = TRUE).
PushChannel(h, pair) ==
    LET r == IF pair THEN PushChannelPair(h, IF h \in KnownChannels THEN EventFd(h) ELSE -1)
                     ELSE PushKnownChannel(h)
    IN  /\ ~replied /\ Calls(pushes, MaxPushes)
        /\ response_chans' = r[1]
        /\ Pushed("chan", h, r[2])
        /\ UNCHANGED <<request_data, request_data_read_pos, request_fds,
                       request_chans, response_data, response_fds, replied,
                       reply, sent_fds, sent_chans, reads, writes,
                       pulls>>

\* Endpoint::GetFileHandle(message, ref).
GetFileHandle(ref) ==
    \E r \in GetLocalFileHandle(ref) :
        /\ ~replied /\ Calls(pulls, MaxPulls)
        /\ PullOnce => ~Pulled("fd", ref)
        /\ request_fds' = r[1]
        /\ pulls' = Append(pulls, [kind |-> "fd", ref |-> ref, handle |-> r[2]])
        /\ UNCHANGED <<request_data, request_data_read_pos, request_chans,
                       response_data, response_fds, response_chans, replied,
                       reply, sent_fds, sent_chans, reads, writes,
                       pushes>>

\* Endpoint::GetChannelHandle(message, ref).
GetChannelHandle(ref) ==
    LET r == GetLocalChannelHandle(ref)
    IN  /\ ~replied /\ Calls(pulls, MaxPulls)
        /\ PullOnce => ~Pulled("chan", ref)
        /\ request_chans' = r[1]
        /\ pulls' = Append(pulls, [kind |-> "chan", ref |-> ref, handle |-> r[2]])
        /\ UNCHANGED <<request_data, request_data_read_pos, request_fds,
                       response_data, response_fds, response_chans, replied,
                       reply, sent_fds, sent_chans, reads, writes,
                       pushes>>

(***************************************************************************)
(* Replies.  MessageReply for an ordinary opcode sends the return code and *)
(* the length of response_data; for CHANNEL_OPEN with a return code >= 0   *)
(* it pushes the channel's event fd (GetChannelEventFd, empty if the       *)
(* channel has gone), clears response_data and sends the push's result as *)
(* the return code.  MessageReplyFd and MessageReplyChannelHandle push     *)
(* first and reply with the reference, or return the push's error.        *)
(***************************************************************************)
Send(op, rc, data) ==
    /\ replied' = TRUE
    /\ reply' = [op |-> op, ret_code |-> rc, recv_len |-> Len(data)]

\* MessageReply(message, return_code) for an ordinary opcode, and
\* MessageReplyChannelHandle(RemoteChannelHandle), which replies with the
\* handle's value.
Reply(rc) ==
    /\ ~replied
    /\ Send("call", rc, response_data)
    /\ UNCHANGED <<request_data, request_data_read_pos, request_fds,
                   request_chans, response_data, response_fds, response_chans,
                   sent_fds, sent_chans, reads, writes, pushes,
                   pulls>>

\* MessageReply for CHANNEL_OPEN with a non-negative return code.
ReplyOpen(event_fd) ==
    LET r == PushFileHandle(event_fd)
    IN  /\ ~replied /\ Calls(pushes, MaxPushes)
        /\ response_fds' = r[1]
        /\ Pushed("fd", event_fd, r[2])
        /\ response_data' = <<>>
        /\ Send("open", r[2].val, <<>>)
        /\ UNCHANGED <<request_data, request_data_read_pos, request_fds,
                       request_chans, response_chans, sent_fds, sent_chans,
                       reads, writes, pulls>>

\* Endpoint::MessageReplyFd(message, push_fd).
ReplyFd(h) ==
    LET r == PushFileHandle(h)
    IN  /\ ~replied /\ Calls(pushes, MaxPushes)
        /\ response_fds' = r[1]
        /\ Pushed("fd", h, r[2])
        /\ Send("call", r[2].val, response_data)
        /\ UNCHANGED <<request_data, request_data_read_pos, request_fds,
                       request_chans, response_data, response_chans, sent_fds,
                       sent_chans, reads, writes, pulls>>

\* Endpoint::MessageReplyChannelHandle for a LocalChannelHandle or a
\* BorrowedChannelHandle.
ReplyChannelHandle(h) ==
    LET r == PushKnownChannel(h)
    IN  /\ ~replied /\ Calls(pushes, MaxPushes)
        /\ response_chans' = r[1]
        /\ Pushed("chan", h, r[2])
        /\ IF r[2].ok THEN Send("call", r[2].val, response_data)
                      ELSE UNCHANGED <<replied, reply>>
        /\ UNCHANGED <<request_data, request_data_read_pos, request_fds,
                       request_chans, response_data, response_fds, sent_fds,
                       sent_chans, reads, writes, pulls>>

Next ==
    \/ \E vec \in Iovecs : ReadMessageData(vec)
    \/ \E bufs \in Buffers : WriteMessageData(bufs)
    \/ \E h \in PushFds : PushFile(h) \/ ReplyFd(h)
    \/ \E h \in PushChans, pair \in BOOLEAN : PushChannel(h, pair)
    \/ \E h \in PushChans : ReplyChannelHandle(h)
    \/ \E ref \in PullRefs : GetFileHandle(ref) \/ GetChannelHandle(ref)
    \/ \E rc \in RetCodes : Reply(rc)
    \/ \E h \in {EventFd(c) : c \in KnownChannels} \cup {-1} : ReplyOpen(h)

Spec == Init /\ [][Next]_ms_vars
-----------------------------------------------------------------------------
(***************************************************************************)
(* Reference definition of ReadData: the bytes from the cursor on, as many *)
(* as the iovecs hold in total, cut at the iovec boundaries.              *)
(***************************************************************************)
ReadRef(vec, pos) ==
    LET total == Lesser(Len(request_data) - pos, Sum(vec))
        start(i) == Sum(SubSeq(vec, 1, i - 1))
    IN  [i \in 1..Len(vec) |->
            IF start(i) < total
            THEN SubSeq(request_data, pos + start(i) + 1,
                        pos + Lesser(start(i) + vec[i], total))
            ELSE <<>>]

\* Each ReadMessageData fills every iovec exactly as the reference says:
\* the loop over the iovecs clamps each copy to the iovec and to what is
\* left of the payload.
ReadMatchesReference ==
    \A k \in 1..Len(reads) : reads[k].bufs = ReadRef(reads[k].vec, reads[k].pos)

\* Successive ReadMessageData calls hand the service the payload in order,
\* each byte once: what all the calls returned, put together, is the
\* payload up to the read cursor.
ReadsInOrder ==
    FlattenSeq([k \in 1..Len(reads) |-> FlattenSeq(reads[k].bufs)])
        = SubSeq(request_data, 1, request_data_read_pos)

\* The response payload is everything the service wrote, in order, iovec
\* by iovec (unless a CHANNEL_OPEN reply discarded it).
WritesInOrder ==
    reply.op # "open" =>
        response_data = FlattenSeq([k \in 1..Len(writes) |-> FlattenSeq(writes[k])])

\* A push that returns a reference >= 0 names, in the response as it is
\* sent, the handle pushed (for a channel, with its event fd); an empty file
\* handle comes back as its own value.  This covers the return codes of
\* MessageReplyFd, MessageReplyChannelHandle and the CHANNEL_OPEN reply.
RefNames(p) ==
    LET i == p.res.val + 1
    IN  IF p.kind = "fd"
        THEN i \in 1..Len(response_fds) /\ response_fds[i] = p.arg
        ELSE i \in 1..Len(response_chans)
             /\ response_chans[i] = ChanInfo(p.arg, EventFd(p.arg))

RefsResolve ==
    \A k \in 1..Len(pushes) :
        LET p == pushes[k]
        IN  /\ (p.res.ok /\ p.res.val >= 0) => RefNames(p)
            /\ (p.kind = "fd" /\ p.arg < 0) => p.res = Result(TRUE, p.arg)

\* A pulled reference resolves to the handle the client sent at that index;
\* a negative one to an empty handle carrying it; one out of range to an
\* empty handle.
PullResolves(p) ==
    LET sent == IF p.kind = "fd" THEN sent_fds
                ELSE [k \in DOMAIN sent_chans |-> sent_chans[k].data_fd]
    IN  IF p.ref < 0 THEN p.handle = p.ref
        ELSE IF p.ref < Len(sent) THEN p.handle = sent[p.ref + 1]
        ELSE p.handle = -1

PullsResolve == \A k \in 1..Len(pulls) : PullResolves(pulls[k])
=============================================================================
