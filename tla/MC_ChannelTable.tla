--------------------------- MODULE MC_ChannelTable ---------------------------
(* The channel table alone, with an id space small enough to wrap.        *)
EXTENDS ChannelTable

MC_MaxChannelId == 3
MC_Fds == {1, 2}
=============================================================================
