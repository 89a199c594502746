--------------------------- MODULE MCProcessTable ---------------------------
(***************************************************************************)
(* An instance of ProcessTable for TLC: two pids of ordinary processes,    *)
(* which are interchangeable, and one of a kernel thread.                  *)
(*                                                                         *)
(* Beside each initial state there are the rows of a table on which the    *)
(* properties of Usage are checked, and which the first step forgets.      *)
(***************************************************************************)
EXTENDS ProcessTable, Usage

CONSTANTS p1, p2, k

PidSymmetry == Permutations({p1, p2})

\* Up to three rows of two programs.  The other numbers follow from those of
\* the disk: each kind of comparison and sum meets all its cases.
Row(pid_, name, read, write) ==
  [pid |-> pid_, name |-> name, disk_read |-> read, disk_write |-> write,
   network_recv |-> write, network_send |-> read,
   cpu |-> value_or_0(read), mem |-> value_or_0(write)]
RowsOf(pid_, names) ==
  {Row(pid_, name, read, write) :
     name \in names, read \in {nullopt, 0, 1}, write \in {nullopt, 0, 1}}
Samples ==
  LET pairs == {{x, y} : x \in RowsOf(1, {"a"}), y \in RowsOf(2, {"a", "b"})}
  IN pairs \cup {p \cup {z} : p \in pairs, z \in RowsOf(3, {"a", "b"})}

MCInit == ProcessTableInit /\ table \in {{}} \cup Samples /\ IsTable(table)
MCNext == ProcessTableNext /\ table' = {}
MCSpec == MCInit /\ [][MCNext]_<<pvars, table>>
=============================================================================
