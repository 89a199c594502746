--------------------------- MODULE MCNetworkStats ---------------------------
EXTENDS NetworkStats, TLC

\* The processes of the Linux build are alike, but not those in TracedPids.
Symmetry == Permutations(Ports) \cup Permutations(Pids \ TracedPids)
=============================================================================
