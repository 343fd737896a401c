\* One dispatch thread, two clients, enough fds for both; c2 may die in the middle of a call.
CONSTANTS
    MaxChannelId <- MC_MaxChannelId
    Fds <- MC_Fds2
    ListenQueue <- MC_ListenQueue
    ChannelStates = {s1}
    NullState = NullState
    NoFd = NoFd
    EventBits = {ev_in}
    Workers = {w1}
    Conns = {c1, c2}
    NoConn = NoConn
    MaxSends = 3
    SilentConns = {}
    CrashingConns = {c2}
    ServiceCloses = TRUE
    PushChannels = FALSE
SPECIFICATION Spec
INVARIANT TypeOK
INVARIANT TableConsistent
PROPERTY RequestsAnswered
PROPERTY ConnectionsAccepted
PROPERTY EndpointImplementsService
\* The endpoint stops once Cancel() has been called and every thread has left
\* its loop; before that Cancel is always enabled, so no other state is final.
CHECK_DEADLOCK FALSE
