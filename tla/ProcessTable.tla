---------------------------- MODULE ProcessTable ----------------------------
(***************************************************************************)
(* The client's table of processes: ProcessTable::update_table on Linux    *)
(* (src/client/process_table.cpp).  Once per second the main thread lists  *)
(* /proc and reads three files of each process, one after the other, while *)
(* the processes go on: one may end, and its pid be given to another,      *)
(* between any two reads.  A read that fails throws and leaves the entries *)
(* made so far in the three tables; the pass at the end erases every pid   *)
(* that was not seen.                                                      *)
(*                                                                         *)
(* What a process has used is one counter that only grows; it stands for   *)
(* its CPU time, read from stat, and for the bytes it read or wrote, read  *)
(* from io a moment later.  The table keeps the difference of two          *)
(* readings, in W-valued unsigned arithmetic (2^64 in the code).           *)
(*                                                                         *)
(* What a process runs is a number, given in the order in which programs   *)
(* are started; in list_table it stands for the name and arguments.  A     *)
(* process may exec another program, and goes on with its counters.        *)
(***************************************************************************)
EXTENDS Integers, Functions

CONSTANTS
  Pids,
  Kernel,      \* pids of kernel threads, which have no arguments
  MaxPrograms, \* bound: programs started in a behaviour
  MaxUse,      \* bound: what one process may use
  W            \* the unsigned type's size

ASSUME ProcessTableAssumption ==
  /\ Kernel \subseteq Pids
  /\ MaxPrograms \in Nat /\ MaxUse \in Nat /\ W \in Nat /\ W > 2 * MaxUse

NoArgs == 0  \* a listing without arguments
NoValue == -1 \* std::nullopt
Gone   == 0  \* no process has the pid

VARIABLES
  \* the system
  running,   \* the program that the process with a pid runs
  used,      \* what that process has used so far
  started,   \* programs started so far
  \* ProcessTable
  list_table, stat_table, last_stat_table,
  \* update_table
  pc, todo, pid, seen,
  reading,   \* what was read of the process being looked at
  \* history
  stable,    \* pids whose process has been there since the scan began
  reused,    \* listed pids that were given to another process
  execed     \* pids whose process has run another program since it was named

system == <<running, used, started>>
tables == <<list_table, stat_table, last_stat_table>>
scan   == <<pc, todo, pid, seen, reading>>
hist   == <<stable, reused, execed>>
pvars  == <<system, tables, scan, hist>>

IsMap(f, S) == DOMAIN f \subseteq Pids /\ f \in [DOMAIN f -> S]
Reading    == [cpu : 0 .. W - 1, of : 0 .. MaxPrograms]
NoReading  == [cpu |-> 0, of |-> Gone]
Stat       == [cpu : 0 .. W - 1, disk : {NoValue} \cup 0 .. W - 1, of : 0 .. MaxPrograms]
NoStat     == [cpu |-> 0, disk |-> NoValue, of |-> Gone]
LastStat   == [cpu : 0 .. W - 1, disk : {NoValue} \cup 0 .. W - 1]
NoLastStat == [cpu |-> 0, disk |-> NoValue]

ProcessTableTypeOK ==
  /\ running \in [Pids -> 0 .. MaxPrograms] /\ used \in [Pids -> 0 .. MaxUse]
  /\ started \in 0 .. MaxPrograms
  /\ IsMap(list_table, 0 .. MaxPrograms)
  /\ IsMap(stat_table, Stat) /\ IsMap(last_stat_table, LastStat)
  /\ pc \in {"idle", "list", "next", "cmdline", "stat", "io"}
  /\ todo \subseteq Pids /\ pid \in Pids /\ seen \subseteq Pids
  /\ reading \in Reading
  /\ stable \subseteq Pids /\ reused \subseteq Pids /\ execed \subseteq Pids

ProcessTableInit ==
  /\ running = [p \in Pids |-> Gone] /\ used = [p \in Pids |-> 0] /\ started = 0
  /\ list_table = <<>> /\ stat_table = <<>> /\ last_stat_table = <<>>
  /\ pc = "idle" /\ todo = {} /\ pid \in Pids /\ seen = {} /\ reading = NoReading
  /\ stable = {} /\ reused = {} /\ execed = {}

\* operator[]= and operator[] of the maps.
With(f, p, v)   == [q \in DOMAIN f \cup {p} |-> IF q = p THEN v ELSE f[q]]
Touch(f, p, v)  == IF p \in DOMAIN f THEN f ELSE With(f, p, v)
Without(f, S)   == Restrict(f, DOMAIN f \ S)
-----------------------------------------------------------------------------
(***************************************************************************)
(* The system the table is about.                                          *)
(***************************************************************************)

Spawn(p) ==
  /\ running[p] = Gone /\ started < MaxPrograms
  /\ started' = started + 1
  /\ running' = [running EXCEPT ![p] = started + 1] /\ used' = [used EXCEPT ![p] = 0]
  /\ reused' = IF p \in DOMAIN list_table THEN reused \cup {p} ELSE reused
  /\ UNCHANGED <<tables, scan, stable, execed>>

\* The process replaces its program, and keeps its pid and counters.
Exec(p) ==
  /\ p \notin Kernel /\ running[p] # Gone /\ started < MaxPrograms
  /\ started' = started + 1
  /\ running' = [running EXCEPT ![p] = started + 1]
  /\ execed' = IF p \in DOMAIN list_table /\ list_table[p] # NoArgs
                 THEN execed \cup {p} ELSE execed
  /\ UNCHANGED <<used, tables, scan, stable, reused>>

Exit(p) ==
  /\ running[p] # Gone
  /\ running' = [running EXCEPT ![p] = Gone]
  /\ stable' = stable \ {p}
  /\ UNCHANGED <<used, started, tables, scan, reused, execed>>

\* A kernel thread's use is never looked at.
Use(p) ==
  /\ p \notin Kernel /\ running[p] # Gone /\ used[p] < MaxUse
  /\ used' = [used EXCEPT ![p] = @ + 1]
  /\ UNCHANGED <<running, started, tables, scan, hist>>
-----------------------------------------------------------------------------
(***************************************************************************)
(* update_table.                                                           *)
(***************************************************************************)

BeginScan ==
  /\ pc = "idle" /\ pc' = "list"
  /\ seen' = {}
  /\ stable' = {p \in Pids : running[p] # Gone}
  /\ UNCHANGED <<system, tables, todo, pid, reading, reused, execed>>

\* list_pids; what follows (sockets, packets) does not touch the tables.
ListPids ==
  /\ pc = "list" /\ pc' = "next"
  /\ todo' = {p \in Pids : running[p] # Gone}
  /\ UNCHANGED <<system, tables, pid, seen, reading, hist>>

\* list_table[pid] makes an empty listing for a new pid.
NextPid ==
  /\ pc = "next"
  /\ \E p \in todo :
       /\ pid' = p /\ todo' = todo \ {p}
       /\ list_table' = Touch(list_table, p, NoArgs)
       /\ pc' = IF list_table'[p] = NoArgs THEN "cmdline" ELSE "stat"
  /\ UNCHANGED <<system, stat_table, last_stat_table, seen, reading, hist>>

\* read_process_metadata throws if the process is gone; a listing without
\* arguments is not looked at further.  What it finds is kept: it is not read
\* again while the pid is listed.  (The arguments of a zombie, and of a process
\* in the middle of exec, are empty as well; here only kernel threads' are.)
ReadCmdline ==
  /\ pc = "cmdline"
  /\ \/ /\ running[pid] = Gone \/ pid \in Kernel
        /\ pc' = "next" /\ UNCHANGED list_table
     \/ /\ running[pid] # Gone /\ pid \notin Kernel
        /\ pc' = "stat"
        /\ list_table' = With(list_table, pid, running[pid])
  /\ UNCHANGED <<system, stat_table, last_stat_table, todo, pid, seen, reading,
                 hist>>

\* The entries of the other two tables are made, then /proc/<pid>/stat is
\* read: that throws if the process is gone.
ReadStat ==
  /\ pc = "stat"
  /\ stat_table' = Touch(stat_table, pid, NoStat)
  /\ last_stat_table' = Touch(last_stat_table, pid, NoLastStat)
  /\ \/ running[pid] = Gone /\ pc' = "next" /\ UNCHANGED reading
     \/ /\ running[pid] # Gone /\ pc' = "io"
        /\ reading' = [cpu |-> used[pid], of |-> running[pid]]
  /\ UNCHANGED <<system, list_table, todo, pid, seen, hist>>

\* What /proc/<pid>/io may give: nothing if the process is gone or the file
\* is not for this user to read.
DiskReadings == {NoValue} \cup (IF running[pid] = Gone THEN {} ELSE {used[pid]})

\* value_or<std::uint64_t>(0)
ValueOrZero(v) == IF v = NoValue THEN 0 ELSE v

\* Mutation: the differences are taken in signed arithmetic.
ReadIo_Signed ==
  /\ pc = "io" /\ pc' = "next"
  /\ \E disk \in DiskReadings :
       LET last == last_stat_table[pid] IN
         /\ stat_table' = With(stat_table, pid,
              [cpu |-> reading.cpu - last.cpu, disk |-> NoValue, of |-> reading.of])
         /\ last_stat_table' = With(last_stat_table, pid,
                                   [cpu |-> reading.cpu, disk |-> disk])
  /\ seen' = seen \cup {pid} /\ reading' = NoReading
  /\ UNCHANGED <<system, list_table, todo, pid, hist>>

\* Mutation: an unreadable io file throws, as an unreadable stat does.
ReadIo_Throws ==
  /\ pc = "io" /\ pc' = "next"
  /\ \E disk \in DiskReadings :
       /\ last_stat_table' = With(last_stat_table, pid,
                                 [cpu |-> reading.cpu, disk |-> disk])
       /\ seen' = IF disk = NoValue THEN seen ELSE seen \cup {pid}
  /\ reading' = NoReading
  /\ UNCHANGED <<system, list_table, stat_table, todo, pid, hist>>

\* /proc/<pid>/io is read, the differences are stored and the pid is seen.
ReadIo ==
  /\ pc = "io" /\ pc' = "next"
  /\ \E disk \in DiskReadings :
       LET last == last_stat_table[pid]
           disk_delta == IF disk = NoValue THEN NoValue
                         ELSE (disk - ValueOrZero(last.disk)) % W
       IN /\ stat_table' = With(stat_table, pid,
               [cpu |-> (reading.cpu - last.cpu) % W, disk |-> disk_delta,
                of |-> reading.of])
          /\ last_stat_table' = With(last_stat_table, pid,
                                    [cpu |-> reading.cpu, disk |-> disk])
  /\ seen' = seen \cup {pid} /\ reading' = NoReading
  /\ UNCHANGED <<system, list_table, todo, pid, hist>>

\* Mutation: the last readings of erased processes are kept.
EraseUnseen_KeepsLast ==
  /\ pc = "next" /\ todo = {} /\ pc' = "idle"
  /\ LET dead == DOMAIN list_table \ seen IN
       /\ list_table' = Without(list_table, dead)
       /\ stat_table' = Without(stat_table, dead)
       /\ UNCHANGED last_stat_table
  /\ reused' = reused \cap seen /\ execed' = execed \cap seen
  /\ UNCHANGED <<system, todo, pid, seen, reading, stable>>

\* Mutation: the last pass goes over stat_table.
EraseUnseen_OverStats ==
  /\ pc = "next" /\ todo = {} /\ pc' = "idle"
  /\ LET dead == DOMAIN stat_table \ seen IN
       /\ list_table' = Without(list_table, dead)
       /\ stat_table' = Without(stat_table, dead)
       /\ last_stat_table' = Without(last_stat_table, dead)
  /\ reused' = reused \cap seen /\ execed' = execed \cap seen
  /\ UNCHANGED <<system, todo, pid, seen, reading, stable>>

\* The last pass, over list_table.
EraseUnseen ==
  /\ pc = "next" /\ todo = {} /\ pc' = "idle"
  /\ LET dead == DOMAIN list_table \ seen IN
       /\ list_table' = Without(list_table, dead)
       /\ stat_table' = Without(stat_table, dead)
       /\ last_stat_table' = Without(last_stat_table, dead)
  /\ reused' = reused \cap seen /\ execed' = execed \cap seen
  /\ UNCHANGED <<system, todo, pid, seen, reading, stable>>

Scan == \/ BeginScan \/ ListPids \/ NextPid \/ ReadCmdline \/ ReadStat
        \/ ReadIo \/ EraseUnseen

ProcessTableNext ==
  \/ Scan
  \/ \E p \in Pids : Spawn(p) \/ Exec(p) \/ Exit(p) \/ Use(p)

ProcessTableSpec == ProcessTableInit /\ [][ProcessTableNext]_pvars
-----------------------------------------------------------------------------
(***************************************************************************)
(* Properties, of the table as generate_log sees it                        *)
(***************************************************************************)

Scanned == pc = "idle"

\* The three tables have the same pids whichever reads have thrown, each
\* with a name: get_map_program_name_resource takes stat_table.at(pid) of
\* every pid of list_table, and an exception there would end the client.
TablesAgree ==
  Scanned =>
    /\ DOMAIN list_table = DOMAIN stat_table
    /\ DOMAIN list_table = DOMAIN last_stat_table
    /\ \A p \in DOMAIN list_table : list_table[p] # NoArgs

\* A difference only wraps around if a listed pid was given to another
\* process without a scan in between: an entry of an ended process is never
\* taken up again.  Usage is only accounted to the wrong program after that, or
\* after the process has run another program since it was named, whose usage
\* then goes to the first one's name for as long as the process is there.
WrongOnlyAfterReuse ==
  Scanned =>
    \A p \in DOMAIN stat_table \ reused :
      /\ p \in execed \/ list_table[p] = stat_table[p].of
      /\ stat_table[p].cpu <= MaxUse /\ stat_table[p].disk <= MaxUse

\* A process that has been there, with arguments, from the beginning of a scan
\* until now is in the table, whatever other processes do.
NoneMissed == Scanned => stable \ Kernel \subseteq DOMAIN stat_table
=============================================================================
