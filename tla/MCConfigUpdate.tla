--------------------------- MODULE MCConfigUpdate ---------------------------
(***************************************************************************)
(* Instances of ConfigUpdate for TLC: two interchangeable clients that run *)
(* on one host, which has two interchangeable ports to give out.           *)
(***************************************************************************)
EXTENDS ConfigUpdate, TLC

CONSTANTS c1, c2, p1, p2

OneHost == [c \in Clients |-> "host"]

\* Each client has a user of its own.
OwnUser == [c \in Clients |-> c]

HostSymmetry == Permutations({c1, c2}) \cup Permutations({p1, p2})
=============================================================================
