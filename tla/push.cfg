\* One dispatch thread whose handler may push a new channel (PushChannel)
\* while it serves a call; three fds, so the socket pair fits beside the
\* caller's channel, and c2 can be either a connecting or a pushed client.
CONSTANTS
    MaxChannelId <- MC_MaxChannelId
    Fds <- MC_Fds3
    ListenQueue <- MC_ListenQueue
    ChannelStates = {s1}
    NullState = NullState
    NoFd = NoFd
    EventBits = {ev_in}
    Workers = {w1}
    Conns = {c1, c2}
    NoConn = NoConn
    MaxSends = 2
    SilentConns = {}
    CrashingConns = {}
    ServiceCloses = TRUE
    PushChannels = TRUE
SPECIFICATION Spec
INVARIANT TableConsistent
PROPERTY RequestsAnswered
PROPERTY AbandonedChannelClosed
PROPERTY EndpointImplementsService
\* The endpoint stops once Cancel() has been called and every thread has left
\* its loop; before that Cancel is always enabled, so no other state is final.
CHECK_DEADLOCK FALSE
