\* One thread, two clients, one fd: accept fails with EMFILE while the first client is connected.
CONSTANTS
    MaxChannelId <- MC_MaxChannelId
    Fds <- MC_Fds1
    ListenQueue <- MC_ListenQueue
    ChannelStates = {s1}
    NullState = NullState
    NoFd = NoFd
    EventBits = {ev_in}
    Workers = {w1}
    Conns = {c1, c2}
    NoConn = NoConn
    MaxSends = 2
    SilentConns = {}
    CrashingConns = {}
    ServiceCloses = FALSE
    PushChannels = FALSE
SPECIFICATION Spec
PROPERTY ConnectionsAccepted
\* The endpoint stops once Cancel() has been called and every thread has left
\* its loop; before that Cancel is always enabled, so no other state is final.
CHECK_DEADLOCK FALSE
