\* Channel table on its own: two fds, three ids, so the counter wraps while
\* ids are still in use.
CONSTANTS
    MaxChannelId <- MC_MaxChannelId
    Fds <- MC_Fds
    ChannelStates = {s1}
    NullState = NullState
    NoFd = NoFd
    EventBits = {ev_in}
SPECIFICATION TableSpec
INVARIANT TableTypeOK
INVARIANT MapsConsistent
PROPERTY AllocationFollowsCounter
