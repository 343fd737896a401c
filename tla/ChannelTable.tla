---------------------------- MODULE ChannelTable ----------------------------
(***************************************************************************)
(* The channel table of Endpoint (service_endpoint.cpp): the forward map   *)
(* channels_ (channel id -> ChannelData), the reverse map                  *)
(* channel_fd_to_id_ (socket fd -> channel id) and the rolling id counter  *)
(* last_channel_id_.  Every operation here runs with channel_mutex_ held,  *)
(* so each one is a single atomic step.                                    *)
(*                                                                         *)
(* The operators OnNewChannelLocked and CloseChannelLocked are reused by   *)
(* Endpoint.tla, which adds the epoll set and the sockets around them.     *)
(***************************************************************************)
EXTENDS Integers, FiniteSets, Functions, TLC

CONSTANTS
    MaxChannelId,   \* stands for std::numeric_limits<int32_t>::max()
    Fds,            \* socket fd numbers the kernel may hand out
    ChannelStates,  \* opaque Channel* values a service may attach
    NullState,      \* nullptr Channel*
    NoFd,           \* an invalid (empty) BorrowedHandle
    EventBits       \* bits of the per-channel ChannelEventSet

ASSUME MaxChannelId \in Nat \ {0}
ASSUME NullState \notin ChannelStates
ASSUME NoFd \notin Fds

VARIABLES
    channels,           \* channels_: a function from the ids in use to ChannelData
    channel_fd_to_id,   \* channel_fd_to_id_: a function from the fds in use to ids
    last_channel_id     \* last_channel_id_

table_vars == <<channels, channel_fd_to_id, last_channel_id>>

ChannelIds == 1..MaxChannelId

\* ChannelData: the owned socket, the Channel* of the service and the
\* event bits signalled to the client through the channel's event fd.
ChannelData == [data_fd : Fds,
                channel_state : ChannelStates \cup {NullState},
                events : SUBSET EventBits]

\* Value returned by GetChannelId for an fd that is not in the table.
NoChannelId == -1

TableTypeOK ==
    /\ DOMAIN channels \subseteq ChannelIds
    /\ \A id \in DOMAIN channels : channels[id] \in ChannelData
    /\ DOMAIN channel_fd_to_id \subseteq Fds
    /\ \A fd \in DOMAIN channel_fd_to_id : channel_fd_to_id[fd] \in ChannelIds
    /\ last_channel_id \in 0..MaxChannelId

(***************************************************************************)
(* Channel id allocation (OnNewChannelLocked, the for(;;) loop).  The      *)
(* post-increment compares the old value with INT32_MAX and then resets    *)
(* the counter to 1, so the ids handed out are 1..MaxChannelId, cyclically.*)
(* The loop keeps the counter on every id it tries, occupied or not.       *)
(***************************************************************************)
\* Mutant: the counter is incremented without the wrap at INT32_MAX.
NextChannelIdNoWrap(last) == last + 1

NextChannelId(last) == IF last = MaxChannelId THEN 1 ELSE last + 1

\* The id the loop stops on, given the ids in use; the loop only ends when
\* some id is free (callers guarantee that: see IdSpaceAvailable).
\* Mutant: the lowest free id is taken instead of scanning from the counter.
LowestFreeId(used, last) ==
    CHOOSE id \in ChannelIds \ used : \A other \in ChannelIds \ used : id <= other

RECURSIVE ScanFreeId(_, _)
ScanFreeId(used, last) ==
    LET id == NextChannelId(last)
    IN  IF id \notin used THEN id ELSE ScanFreeId(used, id)

IdSpaceAvailable == DOMAIN channels # ChannelIds

\* std::map::emplace: inserts only when the key is absent.
Emplace(f, k, v) == IF k \in DOMAIN f THEN f ELSE f @@ (k :> v)

\* Erase a key of a function used as a map.
Erase(f, k) == Restrict(f, DOMAIN f \ {k})

\* Mutant: the reverse map records the counter's value from before the scan.
OnNewChannelLockedStaleId(fd, state) ==
    LET id == ScanFreeId(DOMAIN channels, last_channel_id)
    IN  /\ IdSpaceAvailable
        /\ last_channel_id' = id
        /\ channel_fd_to_id' = Emplace(channel_fd_to_id, fd, last_channel_id)
        /\ channels' = Emplace(channels, id,
                               [data_fd |-> fd, channel_state |-> state,
                                events |-> {}])

(***************************************************************************)
(* OnNewChannelLocked(channel_fd, channel_state), after the epoll_ctl ADD  *)
(* has succeeded: allocate an id, emplace into both maps.                  *)
(***************************************************************************)
OnNewChannelLocked(fd, state) ==
    LET id == ScanFreeId(DOMAIN channels, last_channel_id)
    IN  /\ IdSpaceAvailable
        /\ last_channel_id' = id
        /\ channel_fd_to_id' = Emplace(channel_fd_to_id, fd, id)
        /\ channels' = Emplace(channels, id,
                               [data_fd |-> fd, channel_state |-> state,
                                events |-> {}])

\* Mutant: channel_fd_to_id_.erase is left out.
CloseChannelLockedKeepFdEntry(id) ==
    /\ id \in DOMAIN channels
    /\ channels' = Erase(channels, id)
    /\ UNCHANGED <<channel_fd_to_id, last_channel_id>>

(***************************************************************************)
(* CloseChannelLocked(channel_id) for an id that is in the table: the      *)
(* epoll DEL may fail, but both map entries are erased either way (the     *)
(* epoll side is Endpoint's).  An unknown id returns EINVAL and changes    *)
(* nothing, which is a stuttering step.                                    *)
(***************************************************************************)
CloseChannelLocked(id) ==
    /\ id \in DOMAIN channels
    /\ channel_fd_to_id' = Erase(channel_fd_to_id, channels[id].data_fd)
    /\ channels' = Erase(channels, id)
    /\ UNCHANGED last_channel_id

\* SetChannel(channel_id, channel): attach the service's Channel*.
SetChannel(id, state) ==
    /\ id \in DOMAIN channels
    /\ channels' = [channels EXCEPT ![id].channel_state = state]
    /\ UNCHANGED <<channel_fd_to_id, last_channel_id>>

\* ModifyChannelEvents(channel_id, clear_mask, set_mask).
ModifyChannelEvents(id, clear, set) ==
    /\ id \in DOMAIN channels
    /\ channels' = [channels EXCEPT ![id].events = (@ \ clear) \cup set]
    /\ UNCHANGED <<channel_fd_to_id, last_channel_id>>

\* GetChannelId(channel_fd).
GetChannelId(fd) ==
    IF fd \in DOMAIN channel_fd_to_id THEN channel_fd_to_id[fd] ELSE NoChannelId

\* GetChannelSocketFd(channel_id); NoFd stands for an invalid BorrowedHandle.
GetChannelSocketFd(id) ==
    IF id \in DOMAIN channels THEN channels[id].data_fd ELSE NoFd

\* GetChannelEventFd(channel_id): the event fd of the channel's event_set,
\* named by the channel's id; NoFd for an id not in the table.
GetChannelEventFd(id) == IF id \in DOMAIN channels THEN id ELSE NoFd

-----------------------------------------------------------------------------
(***************************************************************************)
(* The table on its own: any fd not yet in the table may be registered    *)
(* (the kernel never hands out an fd that is open), any entry closed.      *)
(***************************************************************************)
TableInit ==
    /\ channels = <<>>
    /\ channel_fd_to_id = <<>>
    /\ last_channel_id = 0

TableNext ==
    \/ \E fd \in Fds \ {channels[id].data_fd : id \in DOMAIN channels},
          s \in ChannelStates \cup {NullState} : OnNewChannelLocked(fd, s)
    \/ \E id \in DOMAIN channels : CloseChannelLocked(id)
    \/ \E id \in DOMAIN channels, s \in ChannelStates : SetChannel(id, s)
    \/ \E id \in DOMAIN channels, clear, set \in SUBSET EventBits :
          ModifyChannelEvents(id, clear, set)

TableSpec == TableInit /\ [][TableNext]_table_vars

-----------------------------------------------------------------------------
\* The forward and reverse maps are mutual inverses: every channel's socket
\* maps back to that channel, and every fd in channel_fd_to_id_ belongs to the
\* channel it names (no entry left dangling by CloseChannelLocked, none
\* shadowed by emplace into a stale key when the kernel reuses an fd number).
MapsConsistent ==
    /\ DOMAIN channel_fd_to_id = {channels[id].data_fd : id \in DOMAIN channels}
    /\ \A id \in DOMAIN channels : channel_fd_to_id[channels[id].data_fd] = id

\* Reference definition of the id the allocation must pick: the first free
\* id after last_channel_id_ going round 1..MaxChannelId.
CyclicDistance(from, to) == (to - from - 1) % MaxChannelId

FirstFreeAfter(used, last) ==
    CHOOSE id \in ChannelIds \ used :
        \A other \in ChannelIds \ used :
            CyclicDistance(last, id) <= CyclicDistance(last, other)

\* OnNewChannelLocked hands out the first free id after the counter, so a
\* closed id is not handed out again until the counter has wrapped past it.
AllocationFollowsCounter ==
    [][\A id \in DOMAIN channels' \ DOMAIN channels :
          id = FirstFreeAfter(DOMAIN channels, last_channel_id)]_table_vars
=============================================================================
