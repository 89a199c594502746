----------------------------- MODULE MCLogQueue -----------------------------
(***************************************************************************)
(* An instance of LogQueue for TLC.                                        *)
(*                                                                         *)
(* Beside each initial state there are the logs on which the properties    *)
(* of Encoding are checked, and which the first step forgets.               *)
(***************************************************************************)
EXTENDS LogQueue, Encoding

MCGarbage   == {0, 2}
AllRestarts == {"benign", "torn", "drained"}

\* Consecutive ids of one, two and three digits; names of letters, digits,
\* separators and nothing.
Names == {<<>>, <<Letter>>, <<1>>, <<Bar>>, <<2, Bar, 3>>, <<Letter, CR, 0>>}
SampleLog(id, name, v) ==
  [id |-> id, process_name |-> name, timestamp_ms |-> 217, log_type |-> 3, value |-> v]
Samples ==
  {[i \in 1 .. 2 |-> SampleLog(first + i - 1, IF i = 1 THEN n1 ELSE n2, v)] :
     first \in {1, 8, 9, 10, 19, 99}, n1 \in Names, n2 \in Names, v \in {0, 130}}

MCInit ==
  Init /\ logs \in {<<>>} \cup Samples /\ IsBatch(logs) /\ OneLineNames(logs)
MCNext == Next /\ logs' = <<>>
MCSpec == MCInit /\ [][MCNext]_<<vars, logs>>
=============================================================================
