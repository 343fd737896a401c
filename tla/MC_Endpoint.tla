---------------------------- MODULE MC_Endpoint ----------------------------
(* Endpoint instantiated for TLC.  The listen queue holds backlog + 1      *)
(* connections (Linux AF_UNIX), with kMaxBackLogForSocketListen = 1.      *)
EXTENDS Endpoint

kMaxBackLogForSocketListen == 1
MC_ListenQueue == kMaxBackLogForSocketListen + 1
MC_MaxChannelId == 3
MC_Fds2 == {1, 2}
MC_Fds1 == {1}
MC_Fds3 == {1, 2, 3}

\* Steps without the accept race (finding 1): epoll never hands a thread
\* an event of a connection another thread is reading or answering.  An
\* action constraint for runs about another cause.
NoAcceptRace ==
    \A w \in Workers :
        (pc[w] = "wait" /\ pc'[w] = "lookup")
            => \A v \in Workers \ {w} :
                   pc[v] \in {"recv", "reply", "send"}
                       => msg[v].origin # fd_conn[wfd'[w]]
=============================================================================
