\* Two dispatch threads, one client: the accepting thread and an epoll waiter race for the new channel.
CONSTANTS
    MaxChannelId <- MC_MaxChannelId
    Fds <- MC_Fds1
    ListenQueue <- MC_ListenQueue
    ChannelStates = {s1}
    NullState = NullState
    NoFd = NoFd
    EventBits = {ev_in}
    Workers = {w1, w2}
    Conns = {c1}
    NoConn = NoConn
    MaxSends = 2
    SilentConns = {}
    CrashingConns = {}
    ServiceCloses = FALSE
    PushChannels = FALSE
SPECIFICATION Spec
INVARIANT ChannelExclusive
\* The endpoint stops once Cancel() has been called and every thread has left
\* its loop; before that Cancel is always enabled, so no other state is final.
CHECK_DEADLOCK FALSE
