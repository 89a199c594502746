------------------------------- MODULE Usage -------------------------------
(***************************************************************************)
(* What is made of the table of processes: the order it is shown in        *)
(* (get_comparator and get_sorted, src/client/process_table.cpp), and the  *)
(* sums by name that ClientLogger::generate_log                            *)
(* (src/client/client_logger.cpp) compares with the configuration.         *)
(*                                                                         *)
(* A row of the table has a pid, a name and six numbers, four of which may *)
(* be std::nullopt.                                                        *)
(***************************************************************************)
EXTENDS Integers, Sequences, SequencesExt, FiniteSetsExt

VARIABLE table  \* the rows of a table, on which the properties are stated

nullopt == -1  \* compares below every value
Single  == {"cpu", "mem", "disk_read", "disk_write", "network_recv", "network_send"}
Total   == {"disk_total", "network_total"}
SortTypes == Single \cup Total

\* The two numbers a total is the sum of.
Parts(type) ==
  IF type = "disk_total" THEN <<"disk_read", "disk_write">> ELSE <<"network_recv", "network_send">>

value_or_0(v) == IF v = nullopt THEN 0 ELSE v

has_value(row, type) == \E i \in 1 .. 2 : row[Parts(type)[i]] # nullopt
TotalOf(row, type)   == value_or_0(row[Parts(type)[1]]) + value_or_0(row[Parts(type)[2]])

\* Mutation: rows without a value are before all others, those with a pid
\* lower than the other's.
ComesBefore_NoCheck(type, l, r) ==
  IF type \in Single
    THEN IF l[type] # r[type] THEN l[type] > r[type] ELSE l.pid < r.pid
    ELSE IF ~has_value(l, type) \/ ~has_value(r, type) THEN l.pid > r.pid
         ELSE TotalOf(l, type) > TotalOf(r, type)

\* get_comparator.  Rows without a total are in descending order of pids,
\* those with the same total in none.
ComesBefore(type, l, r) ==
  IF type \in Single
    THEN IF l[type] # r[type] THEN l[type] > r[type] ELSE l.pid < r.pid
    ELSE LET left_ok == has_value(l, type)  right_ok == has_value(r, type) IN
         IF ~left_ok /\ ~right_ok THEN l.pid > r.pid
         ELSE IF left_ok # right_ok THEN left_ok
         ELSE TotalOf(l, type) > TotalOf(r, type)

\* What get_sorted may return: partial_sort of the whole table, whose first
\* rows are kept, all of them if the limit is 0.
get_sorted(rows, type, limit) ==
  LET n == IF limit = 0 \/ limit > Cardinality(rows) THEN Cardinality(rows) ELSE limit IN
    {SubSeq(s, 1, n) : s \in {t \in SetToSeqs(rows) :
       \A i, j \in DOMAIN t : i < j => ~ComesBefore(type, t[j], t[i])}}

\* Mutation: the first row with a name counts for all.
get_map_First(rows, name, f) ==
  LET of == {r \in rows : r.name = name} IN
    IF of = {} THEN 0 ELSE value_or_0((CHOOSE r \in of : \A o \in of : r.pid <= o.pid)[f])

\* get_map_program_name_resource: the sum over the processes with a name, 0
\* for a name that no process has.
get_map_program_name_resource(rows, name, f) ==
  MapThenSumSet(LAMBDA r : value_or_0(r[f]), {r \in rows : r.name = name})

\* What the processes with a name use of one kind of resource.
UseOf(rows, name, type) ==
  LET sum(f) == get_map_program_name_resource(rows, name, f) IN
    CASE type = "disk"    -> sum("disk_read") + sum("disk_write")
      [] type = "network" -> sum("network_recv") + sum("network_send")
      [] OTHER            -> sum(type)

\* generate_log: the logs that are made for one entry of the configuration.
generate_log(rows, entry) ==
  LET made(type) == IF UseOf(rows, entry.name, type) > entry[type]
                      THEN <<[type |-> type, value |-> UseOf(rows, entry.name, type)]>>
                      ELSE <<>>
  IN made("cpu") \o made("mem") \o made("disk") \o made("network")
-----------------------------------------------------------------------------
(***************************************************************************)
(* Properties, of the table                                                *)
(***************************************************************************)

\* What update_table puts into a table: every number is known or std::nullopt.
IsTable(rows) ==
  /\ IsFiniteSet(rows)
  /\ \A r \in rows : r.pid \in Nat /\ \A f \in Single : r[f] \in Nat \cup {nullopt}

\* partial_sort is given a strict weak order, without which its result (and
\* in practice its termination) is undefined: nothing comes before itself,
\* before is transitive, and so is "neither comes before the other", in spite
\* of totals that are partly or wholly absent (get_comparator).
StrictWeakOrder(rows) ==
  \A type \in SortTypes : \A x, y, z \in rows :
    LET lt(a, b) == ComesBefore(type, a, b)
        eq(a, b) == ~lt(a, b) /\ ~lt(b, a)
    IN /\ ~lt(x, x)
       /\ lt(x, y) /\ lt(y, z) => lt(x, z)
       /\ eq(x, y) /\ eq(y, z) => eq(x, z)

\* What a row is sorted by, nullopt if it has no value.
SortedBy(r, type) ==
  IF type \in Single THEN r[type]
  ELSE IF has_value(r, type) THEN TotalOf(r, type) ELSE nullopt

\* The rows display_table shows are the largest: no row that is left out has
\* more of what the table is sorted by than one that is shown, and one
\* without a value is shown only if all with one are (get_sorted).
TopIsLargest(rows, limit) ==
  \A type \in SortTypes : \A s \in get_sorted(rows, type, limit) :
    \A i \in DOMAIN s : \A r \in rows \ ToSet(s) : SortedBy(s[i], type) >= SortedBy(r, type)

\* A log is made of a kind exactly if the processes with the entry's name
\* together exceed its threshold, however the use is spread over processes and
\* values that are missing; at the threshold none is made (generate_log,
\* get_map_program_name_resource).
AlarmIffExceeded(rows, entry) ==
  LET of == {r \in rows : r.name = entry.name}
      known(fs) == {x \in of \X fs : x[1][x[2]] # nullopt}
      used(fs)  == MapThenSumSet(LAMBDA x : x[1][x[2]], known(fs))
      parts == [cpu |-> {"cpu"}, mem |-> {"mem"}, disk |-> {"disk_read", "disk_write"},
                network |-> {"network_recv", "network_send"}]
      logs == generate_log(rows, entry)
  IN /\ {logs[i].type : i \in DOMAIN logs} = {t \in DOMAIN parts : used(parts[t]) > entry[t]}
     /\ \A i \in DOMAIN logs : logs[i].value = used(parts[logs[i].type])

\* The rows shown are the largest, however many lines the screen has, and the
\* order that partial_sort is given for it is one, without which nothing is
\* defined (TopIsLargest: get_sorted; StrictWeakOrder: get_comparator).
ShownAreLargest ==
  StrictWeakOrder(table) /\ \A limit \in 0 .. Cardinality(table) : TopIsLargest(table, limit)

\* For every program a log is made exactly if a threshold is exceeded
\* (AlarmIffExceeded: generate_log, get_map_program_name_resource).
AlarmsRight ==
  \A name \in {r.name : r \in table}, t \in 0 .. 4 :
    AlarmIffExceeded(table, [name |-> name, cpu |-> t, mem |-> t, disk |-> t, network |-> t])
=============================================================================
