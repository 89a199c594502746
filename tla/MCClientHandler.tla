-------------------------- MODULE MCClientHandler --------------------------
(***************************************************************************)
(* Two handlers of one client for TLC: the client has reconnected and the  *)
(* old connection still has messages to process.                           *)
(***************************************************************************)
EXTENDS ClientHandler

FewIds      == 1 .. 3
TwoHandlers == {1, 2}
OneClient   == {"c1"}
PeerSame    == [h \in {1, 2} |-> "c1"]
OpenWrite   == {"open", "write"}
MCMisread   == {0, 2}
=============================================================================
