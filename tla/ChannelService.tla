---------------------------- MODULE ChannelService ----------------------------
(***************************************************************************)
(* What the endpoint promises each of its clients, with threads, epoll,    *)
(* fds and the channel table abstracted away.  A client's channel is       *)
(* opened by its connection (which sends CHANNEL_OPEN first) or handed to  *)
(* it by PushChannel; the service handles the client's messages one at a   *)
(* time, in the order the client sent them, each at most once; every reply *)
(* the client receives answers one of its own handled requests (not an     *)
(* impulse), at most one reply per request; CHANNEL_OPEN may be refused,   *)
(* which closes the channel, and a closed channel is never reopened.       *)
(* Endpoint.tla is checked to implement this (EndpointImplementsService).  *)
(***************************************************************************)
EXTENDS Naturals, Sequences, FiniteSets

CONSTANTS
    Clients,        \* client connections
    MaxMsgs         \* bound on the messages one client sends

\* Messages a client sends; CHANNEL_OPEN and calls are answered, impulses not.
\* "part" is a call its sender did not finish writing.
Kinds == {"open", "call", "imp", "part"}
Answered == {"open", "call"}

VARIABLES
    status,         \* "idle", "open" or "closed"
    sent,           \* what each client sent, in order
    handled,        \* per client, the positions in sent the service handled
    replies         \* per client, the clients whose requests its replies answer

vars == <<status, sent, handled, replies>>

ServiceTypeOK ==
    /\ status \in [Clients -> {"idle", "open", "closed"}]
    /\ sent \in [Clients -> Seq(Kinds)]
    /\ handled \in [Clients -> Seq(1..MaxMsgs)]
    /\ replies \in [Clients -> Seq(Clients)]

\* The requests of c that have been handled, and so may be answered.
HandledRequests(c) ==
    Cardinality({i \in 1..Len(handled[c]) : sent[c][handled[c][i]] \in Answered})

Init ==
    /\ status = [c \in Clients |-> "idle"]
    /\ sent = [c \in Clients |-> <<>>]
    /\ handled = [c \in Clients |-> <<>>]
    /\ replies = [c \in Clients |-> <<>>]

\* A connection sends CHANNEL_OPEN; a pushed channel (or a client that
\* connects and writes nothing) starts with nothing sent.
Open(c) ==
    /\ status[c] = "idle"
    /\ status' = [status EXCEPT ![c] = "open"]
    /\ \E first \in {<<>>, <<"open">>} : sent' = [sent EXCEPT ![c] = first]
    /\ UNCHANGED <<handled, replies>>

Send(c) ==
    /\ status[c] = "open" /\ Len(sent[c]) < MaxMsgs
    /\ \E k \in Kinds \ {"open"} : sent' = [sent EXCEPT ![c] = Append(@, k)]
    /\ UNCHANGED <<status, handled, replies>>

\* The service handles c's next unhandled message, if it was sent whole.
Handle(c) ==
    /\ Len(handled[c]) < Len(sent[c]) /\ sent[c][Len(handled[c]) + 1] # "part"
    /\ handled' = [handled EXCEPT ![c] = Append(@, Len(@) + 1)]
    /\ UNCHANGED <<status, sent, replies>>

\* The service refuses c's CHANNEL_OPEN: handled, and the channel closed.
Refuse(c) ==
    /\ Len(handled[c]) < Len(sent[c]) /\ sent[c][Len(handled[c]) + 1] = "open"
    /\ handled' = [handled EXCEPT ![c] = Append(@, Len(@) + 1)]
    /\ status' = [status EXCEPT ![c] = "closed"]
    /\ UNCHANGED <<sent, replies>>

\* c receives the answer to one of its handled requests.
Reply(c) ==
    /\ Len(replies[c]) < HandledRequests(c)
    /\ replies' = [replies EXCEPT ![c] = Append(@, c)]
    /\ UNCHANGED <<status, sent, handled>>

Close(c) ==
    /\ status[c] = "open"
    /\ status' = [status EXCEPT ![c] = "closed"]
    /\ UNCHANGED <<sent, handled, replies>>

Next ==
    \E c \in Clients :
        Open(c) \/ Send(c) \/ Handle(c) \/ Refuse(c) \/ Reply(c) \/ Close(c)

Spec == Init /\ [][Next]_vars
=============================================================================
