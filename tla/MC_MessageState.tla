-------------------------- MODULE MC_MessageState --------------------------
EXTENDS MessageState

\* Event fds ChannelManager keeps: a value distinct from every data fd.
MC_EventFd(h) == h + 10

\* A valid fd and an empty handle (-1); a known channel handle, one
\* ChannelManager does not know, and an empty one; every reference from -1
\* to one past the request's lists.
MC_PushFds == {5, -1}
MC_PushChans == {8, 9, -1}
MC_PullRefs == -1..2

\* The payload and the handles of a message are touched by disjoint calls
\* (ReadData/WriteData against the push and pull calls); only the reply
\* reads both.  A message explored with a payload carries no handles, and
\* one explored with handles has its payload calls left out, so the two
\* parts are checked in one run without the product of their histories.
PayloadOrHandles ==
    \/ /\ request_fds = <<>> /\ request_chans = <<>>
       /\ pushes = <<>> /\ pulls = <<>>
    \/ /\ request_data = <<>> /\ reads = <<>> /\ writes = <<>>
=============================================================================
