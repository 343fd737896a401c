\* One thread, a client that connects and writes nothing, and a second client, with an fd for each.
CONSTANTS
    MaxChannelId <- MC_MaxChannelId
    Fds <- MC_Fds2
    ListenQueue <- MC_ListenQueue
    ChannelStates = {s1}
    NullState = NullState
    NoFd = NoFd
    EventBits = {ev_in}
    Workers = {w1}
    Conns = {c1, c2}
    NoConn = NoConn
    MaxSends = 2
    SilentConns = {c1}
    CrashingConns = {}
    ServiceCloses = FALSE
    PushChannels = FALSE
SPECIFICATION Spec
PROPERTY ConnectionsAccepted
\* The endpoint stops once Cancel() has been called and every thread has left
\* its loop; before that Cancel is always enabled, so no other state is final.
CHECK_DEADLOCK FALSE
