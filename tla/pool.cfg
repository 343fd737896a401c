\* Two dispatch threads, two clients, one fd: accept runs out of fds.
CONSTANTS
    MaxChannelId <- MC_MaxChannelId
    Fds <- MC_Fds1
    ListenQueue <- MC_ListenQueue
    ChannelStates = {s1}
    NullState = NullState
    NoFd = NoFd
    EventBits = {ev_in}
    Workers = {w1, w2}
    Conns = {c1, c2}
    NoConn = NoConn
    MaxSends = 2
    SilentConns = {}
    CrashingConns = {}
    ServiceCloses = TRUE
    PushChannels = FALSE
SPECIFICATION Spec
INVARIANT TableConsistent
PROPERTY CancelStopsWorkers
\* The endpoint stops once Cancel() has been called and every thread has left
\* its loop; before that Cancel is always enabled, so no other state is final.
CHECK_DEADLOCK FALSE
