\* One message's state.  Payload: up to three request bytes of two values,
\* two reads and one write of up to two iovecs of up to two bytes.  Handles:
\* two request fds and one request channel; pushes of a valid and an empty
\* fd and of a known, an unknown and an empty channel handle; two pushes
\* and two pulls, each reference pulled at most once.
CONSTANTS
    Bytes = {b1, b2}
    MaxData = 3
    MaxIovLen = 2
    MaxIovCount = 2
    PushFds <- MC_PushFds
    RequestFds = {3, 4}
    RequestChans = {7}
    KnownChannels = {8}
    PushChans <- MC_PushChans
    EventFd <- MC_EventFd
    PullRefs <- MC_PullRefs
    RetCodes = {0}
    MaxReads = 2
    MaxWrites = 1
    MaxPushes = 2
    MaxPulls = 2
    PullOnce = TRUE
SPECIFICATION Spec
INVARIANT TypeOK
INVARIANT ReadMatchesReference
INVARIANT ReadsInOrder
INVARIANT WritesInOrder
INVARIANT RefsResolve
INVARIANT PullsResolve
CONSTRAINT PayloadOrHandles
\* A message ends with its reply; no call is made on a message after it.
CHECK_DEADLOCK FALSE
