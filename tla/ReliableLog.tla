----------------------------- MODULE ReliableLog -----------------------------
(***************************************************************************)
(* What the client, the network and the server promise together: the       *)
(* server's log file is, at every moment, the first n logs the client has  *)
(* generated, each exactly once and in the order of their generation, and  *)
(* n never decreases ("similar to TCP ack", README.md).                    *)
(***************************************************************************)
EXTENDS Integers, Sequences

VARIABLES
  generated,  \* how many logs the client has generated
  stored      \* the logs in the server's file, by their place in that history

rlVars == <<generated, stored>>

RLInit == generated = 0 /\ stored = <<>>

Generate == generated' = generated + 1 /\ UNCHANGED stored

\* A message may hold several logs and they become durable together.
Store ==
  /\ \E n \in Len(stored) + 1 .. generated : stored' = [i \in 1 .. n |-> i]
  /\ UNCHANGED generated

RLNext == Generate \/ Store

RLSpec == RLInit /\ [][RLNext]_rlVars
=============================================================================
