------------------------- MODULE ProcessTableProofs -------------------------
(***************************************************************************)
(* For any pids, processes and counters: a scan of ProcessTable leaves the *)
(* three tables with the same pids, each with a name; misses no process    *)
(* that is there throughout; and gives a process only what it used itself, *)
(* unless its pid was reused, under the name of the program it ran when it *)
(* was listed.                                                             *)
(***************************************************************************)
EXTENDS ProcessTable, FiniteSetTheorems, TLAPS

(***************************************************************************)
(* What holds at every step of a scan: the two tables of numbers have the  *)
(* same pids, all of them listed with a name; a pid that is seen is in     *)
(* them; and the pid whose counters are being read is as well.             *)
(***************************************************************************)
Paired == DOMAIN stat_table = DOMAIN last_stat_table

Named ==
  \A p \in DOMAIN stat_table : p \in DOMAIN list_table /\ list_table[p] # NoArgs

SeenHasStat == seen \subseteq DOMAIN stat_table

AtPid ==
  /\ pc \in {"cmdline", "stat", "io"} => pid \in DOMAIN list_table
  /\ pc = "stat" => list_table[pid] # NoArgs
  /\ pc = "io" => pid \in DOMAIN stat_table

ScanInv == TablesAgree /\ Paired /\ Named /\ SeenHasStat /\ AtPid

\* The entries a table has after the map operations: assignment through
\* operator[], operator[] alone and erase.
LEMMA WithDomain ==
  ASSUME NEW f, NEW p, NEW v PROVE DOMAIN With(f, p, v) = DOMAIN f \cup {p}
BY DEF With

LEMMA TouchDomain ==
  ASSUME NEW f, NEW p, NEW v PROVE DOMAIN Touch(f, p, v) = DOMAIN f \cup {p}
BY DEF Touch, With

LEMMA WithoutDomain ==
  ASSUME NEW f, NEW S PROVE DOMAIN Without(f, S) = DOMAIN f \ S
BY DEF Without, Restrict

\* The values of the entries: only the assigned one changes.
LEMMA WithValue ==
  ASSUME NEW f, NEW p, NEW v, NEW q \in DOMAIN f \cup {p}
  PROVE  With(f, p, v)[q] = IF q = p THEN v ELSE f[q]
BY DEF With

LEMMA TouchValue ==
  ASSUME NEW f, NEW p, NEW v, NEW q \in DOMAIN f
  PROVE  Touch(f, p, v)[q] = f[q]
BY DEF Touch, With

LEMMA WithoutValue ==
  ASSUME NEW f, NEW S, NEW q \in DOMAIN f \ S
  PROVE  Without(f, S)[q] = f[q]
BY DEF Without, Restrict

\* The empty tables satisfy the invariant.
LEMMA ScanInvInit == ProcessTableInit => ScanInv
BY DEF ProcessTableInit, ScanInv, TablesAgree, Paired, Named, SeenHasStat, AtPid, Scanned

\* Every step of the scan and of the system preserves it.
LEMMA ScanInvNext == ScanInv /\ [ProcessTableNext]_pvars => ScanInv'
<1> SUFFICES ASSUME ScanInv, [ProcessTableNext]_pvars PROVE ScanInv'
  OBVIOUS
<1> USE DEF ScanInv, TablesAgree, Paired, Named, SeenHasStat, AtPid, Scanned
<1>1. CASE BeginScan
  BY <1>1 DEF BeginScan, tables
<1>2. CASE ListPids
  BY <1>2 DEF ListPids, tables
<1>3. CASE NextPid
  <2>1. PICK p \in todo :
          /\ pid' = p /\ list_table' = Touch(list_table, p, NoArgs)
          /\ pc' = IF list_table'[p] = NoArgs THEN "cmdline" ELSE "stat"
    BY <1>3 DEF NextPid
  <2>2. pc' # "idle" /\ pc' # "io" /\ (pc' = "stat" => list_table'[p] # NoArgs)
    BY <2>1
  <2>3. UNCHANGED <<stat_table, last_stat_table, seen>>
    BY <1>3 DEF NextPid
  <2>4. /\ DOMAIN list_table' = DOMAIN list_table \cup {p}
        /\ \A q \in DOMAIN list_table : list_table'[q] = list_table[q]
    <3>1. list_table' = Touch(list_table, p, NoArgs)
      BY <2>1
    <3>2. DOMAIN list_table' = DOMAIN list_table \cup {p}
      BY <3>1, TouchDomain
    <3>3. ASSUME NEW q \in DOMAIN list_table PROVE list_table'[q] = list_table[q]
      BY <3>1, TouchValue
    <3> QED BY <3>2, <3>3
  <2>5. TablesAgree'
    BY <2>2
  <2>6. Paired' /\ SeenHasStat'
    BY <2>3
  <2>7. Named'
    BY <2>3, <2>4
  <2>8. AtPid'
    BY <2>1, <2>2, <2>4
  <2> QED BY <2>5, <2>6, <2>7, <2>8
<1>4. CASE ReadCmdline
  <2>1. UNCHANGED <<stat_table, last_stat_table, seen, pid>> /\ pc = "cmdline"
    BY <1>4 DEF ReadCmdline
  <2>2. CASE pc' = "next" /\ UNCHANGED list_table
    BY <2>1, <2>2
  <2>3. CASE /\ running[pid] # Gone /\ pc' = "stat"
             /\ list_table' = With(list_table, pid, running[pid])
    <3>1. /\ DOMAIN list_table' = DOMAIN list_table \cup {pid}
          /\ list_table'[pid] = running[pid]
          /\ \A q \in DOMAIN list_table \ {pid} : list_table'[q] = list_table[q]
      <4>1. list_table' = With(list_table, pid, running[pid])
        BY <2>3
      <4>2. DOMAIN list_table' = DOMAIN list_table \cup {pid}
        BY <4>1, WithDomain
      <4>3. ASSUME NEW q \in DOMAIN list_table \cup {pid}
            PROVE  list_table'[q] = IF q = pid THEN running[pid] ELSE list_table[q]
        BY <4>1, WithValue
      <4> QED BY <4>2, <4>3
    <3>2. list_table'[pid] # NoArgs
      BY <2>3, <3>1 DEF Gone, NoArgs
    <3>3. TablesAgree' /\ Paired' /\ SeenHasStat'
      BY <2>1, <2>3
    <3>4. Named'
      BY <2>1, <3>1, <3>2
    <3>5. AtPid'
      BY <2>1, <2>3, <3>1, <3>2
    <3> QED BY <3>3, <3>4, <3>5
  <2> QED BY <1>4, <2>2, <2>3 DEF ReadCmdline
<1>5. CASE ReadStat
  <2>1. /\ pc = "stat" /\ pc' \in {"next", "io"}
        /\ UNCHANGED <<list_table, pid, seen>>
        /\ stat_table' = Touch(stat_table, pid, NoStat)
        /\ last_stat_table' = Touch(last_stat_table, pid, NoLastStat)
    BY <1>5 DEF ReadStat
  <2>2. /\ DOMAIN stat_table' = DOMAIN stat_table \cup {pid}
        /\ DOMAIN last_stat_table' = DOMAIN last_stat_table \cup {pid}
    BY <2>1, TouchDomain
  <2> QED BY <2>1, <2>2
<1>6. CASE ReadIo
  <2>1. /\ pc = "io" /\ pc' = "next" /\ UNCHANGED <<list_table, pid>>
        /\ seen' = seen \cup {pid}
    BY <1>6 DEF ReadIo
  <2>2. /\ DOMAIN stat_table' = DOMAIN stat_table \cup {pid}
        /\ DOMAIN last_stat_table' = DOMAIN last_stat_table \cup {pid}
    <3>1. PICK v, w : /\ stat_table' = With(stat_table, pid, v)
                      /\ last_stat_table' = With(last_stat_table, pid, w)
      BY <1>6, Zenon DEF ReadIo
    <3> QED BY <3>1, WithDomain
  <2> QED BY <2>1, <2>2
<1>7. CASE EraseUnseen
  <2> DEFINE dead == DOMAIN list_table \ seen
  <2>1. /\ list_table' = Without(list_table, dead)
        /\ stat_table' = Without(stat_table, dead)
        /\ last_stat_table' = Without(last_stat_table, dead)
        /\ pc' = "idle" /\ UNCHANGED seen
    BY <1>7 DEF EraseUnseen
  <2>2. /\ DOMAIN list_table' = DOMAIN list_table \ dead
        /\ DOMAIN stat_table' = DOMAIN stat_table \ dead
        /\ DOMAIN last_stat_table' = DOMAIN last_stat_table \ dead
    BY <2>1, WithoutDomain
  <2>3. ASSUME NEW q \in DOMAIN list_table \ dead PROVE list_table'[q] = list_table[q]
    BY <2>1, WithoutValue
  <2>4. DOMAIN list_table' = seen /\ DOMAIN stat_table' = seen
    BY <2>2
  <2> QED BY <2>1, <2>2, <2>3, <2>4
<1>8. ASSUME NEW p \in Pids, Spawn(p) \/ Exec(p) \/ Exit(p) \/ Use(p) PROVE ScanInv'
  BY <1>8 DEF Spawn, Exec, Exit, Use, tables, scan
<1>9. CASE UNCHANGED pvars
  BY <1>9 DEF pvars, tables, scan
<1> QED
  BY <1>1, <1>2, <1>3, <1>4, <1>5, <1>6, <1>7, <1>8, <1>9
     DEF ProcessTableNext, Scan

\* Whichever reads of /proc fail at whatever moment, a scan of update_table
\* leaves list_table, stat_table and last_stat_table with the same pids, so
\* that stat_table.at(pid) in get_map_program_name_resource never throws.
THEOREM TablesAgreeHolds == ProcessTableSpec => []TablesAgree
<1>1. ScanInv => TablesAgree
  BY DEF ScanInv
<1> QED
  BY ScanInvInit, ScanInvNext, <1>1, PTL DEF ProcessTableSpec
-----------------------------------------------------------------------------
\* The map operations keep a table of pids and values one.
LEMMA WithMap ==
  ASSUME NEW f, NEW S, NEW p \in Pids, NEW v \in S, IsMap(f, S)
  PROVE  IsMap(With(f, p, v), S)
BY DEF IsMap, With

LEMMA TouchMap ==
  ASSUME NEW f, NEW S, NEW p \in Pids, NEW v \in S, IsMap(f, S)
  PROVE  IsMap(Touch(f, p, v), S)
BY WithMap DEF Touch

LEMMA WithoutMap ==
  ASSUME NEW f, NEW S, NEW D, IsMap(f, S)
  PROVE  IsMap(Without(f, D), S)
BY DEF IsMap, Without, Restrict

\* What the tables start a new pid with, and a difference in unsigned
\* arithmetic, are of the types of the tables.
LEMMA Defaults ==
  /\ NoArgs \in 0 .. MaxPrograms /\ NoReading \in Reading
  /\ NoStat \in Stat /\ NoLastStat \in LastStat
BY ProcessTableAssumption DEF NoArgs, NoReading, Reading, Gone, NoStat, Stat, NoLastStat, LastStat, NoValue

LEMMA Difference == ASSUME NEW a \in Int, NEW b \in Int PROVE (a - b) % W \in 0 .. W - 1
<1>1. W \in Nat /\ W > 0
  BY ProcessTableAssumption
<1>2. a - b \in Int
  OBVIOUS
<1>3. ASSUME NEW n \in Int PROVE n % W \in 0 .. W - 1
  BY <1>1, Z3
<1> QED
  BY <1>2, <1>3

\* Nothing runs and the tables are empty.
LEMMA ProcessTypeInit == ProcessTableInit => ProcessTableTypeOK
BY ProcessTableAssumption, Defaults
   DEF ProcessTableInit, ProcessTableTypeOK, IsMap, Gone

\* Every step keeps the types.
LEMMA ProcessTypeNext ==
  ProcessTableTypeOK /\ ScanInv /\ [ProcessTableNext]_pvars => ProcessTableTypeOK'
<1> SUFFICES ASSUME ProcessTableTypeOK, ScanInv, [ProcessTableNext]_pvars PROVE ProcessTableTypeOK'
  OBVIOUS
<1> USE DEF ProcessTableTypeOK
<1>1. CASE BeginScan
  BY <1>1 DEF BeginScan, system, tables, hist, IsMap
<1>2. CASE ListPids
  BY <1>2 DEF ListPids, system, tables, hist, IsMap
<1>3. CASE NextPid
  <2>1. PICK p \in todo : /\ pid' = p /\ todo' = todo \ {p}
                          /\ list_table' = Touch(list_table, p, NoArgs)
                          /\ pc' \in {"cmdline", "stat"}
    BY <1>3 DEF NextPid
  <2>2. IsMap(list_table', 0 .. MaxPrograms)
    BY <2>1, TouchMap, Defaults
  <2> QED BY <1>3, <2>1, <2>2 DEF NextPid, system, hist, IsMap
<1>4. CASE ReadCmdline
  <2>1. \/ UNCHANGED list_table
        \/ list_table' = With(list_table, pid, running[pid])
    BY <1>4 DEF ReadCmdline
  <2>2. IsMap(list_table', 0 .. MaxPrograms)
    <3>1. running[pid] \in 0 .. MaxPrograms /\ IsMap(list_table, 0 .. MaxPrograms) /\ pid \in Pids
      OBVIOUS
    <3>2. CASE UNCHANGED list_table
      BY <3>1, <3>2
    <3>3. CASE list_table' = With(list_table, pid, running[pid])
      BY <3>1, <3>3, WithMap
    <3> QED BY <2>1, <3>2, <3>3
  <2> QED BY <1>4, <2>2 DEF ReadCmdline, system, hist, IsMap
<1>5. CASE ReadStat
  <2>1. /\ stat_table' = Touch(stat_table, pid, NoStat)
        /\ last_stat_table' = Touch(last_stat_table, pid, NoLastStat)
    BY <1>5 DEF ReadStat
  <2>2. IsMap(stat_table', Stat) /\ IsMap(last_stat_table', LastStat)
    BY <2>1, TouchMap, Defaults
  <2>3. reading' \in Reading
    <3>1. used[pid] \in 0 .. W - 1 /\ running[pid] \in 0 .. MaxPrograms
      BY ProcessTableAssumption
    <3> QED BY <1>5, <3>1 DEF ReadStat, Reading
  <2> QED BY <1>5, <2>2, <2>3 DEF ReadStat, system, hist, IsMap
<1>6. CASE ReadIo
  <2>1. ASSUME NEW disk \in DiskReadings
        PROVE  disk = NoValue \/ (disk \in 0 .. W - 1 /\ disk \in Int)
    BY <2>1, ProcessTableAssumption DEF DiskReadings
  <2>2. reading.cpu \in Int /\ reading.cpu \in 0 .. W - 1 /\ reading.of \in 0 .. MaxPrograms
    BY DEF Reading
  <2>3. PICK disk \in DiskReadings :
          LET last == last_stat_table[pid]
              disk_delta == IF disk = NoValue THEN NoValue
                            ELSE (disk - ValueOrZero(last.disk)) % W
          IN /\ stat_table' = With(stat_table, pid,
                  [cpu |-> (reading.cpu - last.cpu) % W, disk |-> disk_delta,
                   of |-> reading.of])
             /\ last_stat_table' = With(last_stat_table, pid,
                                       [cpu |-> reading.cpu, disk |-> disk])
    BY <1>6, Zenon DEF ReadIo
  <2>4. /\ last_stat_table[pid].cpu \in Int
        /\ ValueOrZero(last_stat_table[pid].disk) \in Int
    <3>1. pid \in DOMAIN last_stat_table
      BY <1>6 DEF ReadIo, ScanInv, AtPid, Paired
    <3>2. last_stat_table[pid] \in LastStat
      BY <3>1 DEF IsMap
    <3> QED BY <3>2 DEF LastStat, ValueOrZero, NoValue
  <2>5. (reading.cpu - last_stat_table[pid].cpu) % W \in 0 .. W - 1
    BY <2>2, <2>4, Difference
  <2>6. disk # NoValue => (disk - ValueOrZero(last_stat_table[pid].disk)) % W \in 0 .. W - 1
    BY <2>1, <2>4, Difference
  <2>7. IsMap(stat_table', Stat)
    <3> DEFINE v == [cpu |-> (reading.cpu - last_stat_table[pid].cpu) % W,
                     disk |-> IF disk = NoValue THEN NoValue
                              ELSE (disk - ValueOrZero(last_stat_table[pid].disk)) % W,
                     of |-> reading.of]
    <3>1. v \in Stat
      BY <2>2, <2>5, <2>6 DEF Stat
    <3>2. stat_table' = With(stat_table, pid, v)
      BY <2>3
    <3> QED BY <3>1, <3>2, WithMap
  <2>8. IsMap(last_stat_table', LastStat)
    <3>1. [cpu |-> reading.cpu, disk |-> disk] \in LastStat
      BY <2>1, <2>2 DEF LastStat
    <3> QED BY <2>3, <3>1, WithMap
  <2>9. /\ pc' = "next" /\ seen' = seen \cup {pid} /\ reading' = NoReading
        /\ UNCHANGED <<system, list_table, todo, pid, hist>>
    BY <1>6 DEF ReadIo
  <2> QED BY <2>7, <2>8, <2>9, Defaults DEF system, hist, IsMap
<1>7. CASE EraseUnseen
  <2>1. /\ IsMap(list_table', 0 .. MaxPrograms) /\ IsMap(stat_table', Stat)
        /\ IsMap(last_stat_table', LastStat)
    BY <1>7, WithoutMap DEF EraseUnseen
  <2> QED BY <1>7, <2>1 DEF EraseUnseen, system, IsMap
<1>8. ASSUME NEW p \in Pids, Spawn(p) PROVE ProcessTableTypeOK'
  <2>1. started + 1 \in 0 .. MaxPrograms /\ 0 \in 0 .. MaxUse
    BY <1>8, ProcessTableAssumption DEF Spawn
  <2> QED BY <1>8, <2>1 DEF Spawn, tables, scan, IsMap
<1>9. ASSUME NEW p \in Pids, Exit(p) PROVE ProcessTableTypeOK'
  BY <1>9, ProcessTableAssumption DEF Exit, tables, scan, IsMap, Gone
<1>10. ASSUME NEW p \in Pids, Use(p) PROVE ProcessTableTypeOK'
  BY <1>10, ProcessTableAssumption DEF Use, tables, scan, hist, IsMap
<1>11. CASE UNCHANGED pvars
  BY <1>11 DEF pvars, tables, scan, system, hist, IsMap
<1>12. ASSUME NEW p \in Pids, Exec(p) PROVE ProcessTableTypeOK'
  <2>1. started + 1 \in 0 .. MaxPrograms
    BY <1>12, ProcessTableAssumption DEF Exec
  <2> QED BY <1>12, <2>1 DEF Exec, tables, scan, IsMap
<1> QED
  BY <1>1, <1>2, <1>3, <1>4, <1>5, <1>6, <1>7, <1>8, <1>9, <1>10, <1>11, <1>12
     DEF ProcessTableNext, Scan

\* The tables hold numbers of the unsigned types whichever differences wrap
\* around and whichever reads fail (update_table).
THEOREM ProcessTypeCorrect == ProcessTableSpec => []ProcessTableTypeOK
BY ScanInvInit, ScanInvNext, ProcessTypeInit, ProcessTypeNext, PTL DEF ProcessTableSpec
-----------------------------------------------------------------------------
(***************************************************************************)
(* Nobody is missed: while a scan goes on, a process that has been there   *)
(* since it began still has to be looked at, is being looked at or has     *)
(* been seen.  No read of such a process fails, since only its end makes   *)
(* one fail.                                                               *)
(***************************************************************************)
InHand == IF pc = "next" THEN {} ELSE {pid}

StillThere == stable \subseteq Pids /\ \A p \in stable : running[p] # Gone

Awaited == pc \notin {"idle", "list"} => stable \ Kernel \subseteq todo \cup InHand \cup seen

MissInv == StillThere /\ Awaited /\ NoneMissed

\* Nothing is stable before the first scan.
LEMMA MissInvInit == ProcessTableInit => MissInv
BY DEF ProcessTableInit, MissInv, StillThere, Awaited, NoneMissed

\* The scan leaves out nothing that is stable.
LEMMA MissInvNext ==
  MissInv /\ ScanInv /\ ProcessTableTypeOK /\ [ProcessTableNext]_pvars => MissInv'
<1> SUFFICES ASSUME MissInv, ScanInv, ProcessTableTypeOK, [ProcessTableNext]_pvars
             PROVE  MissInv'
  OBVIOUS
<1> USE DEF MissInv, StillThere, Awaited, InHand, NoneMissed, Scanned
<1>1. CASE BeginScan
  BY <1>1 DEF BeginScan, system
<1>2. CASE ListPids
  BY <1>2 DEF ListPids, system, hist
<1>3. CASE NextPid
  BY <1>3 DEF NextPid, system, hist
<1>4. CASE ReadCmdline
  BY <1>4 DEF ReadCmdline, system, hist
<1>5. CASE ReadStat
  BY <1>5 DEF ReadStat, system, hist
<1>6. CASE ReadIo
  <2>1. /\ pc = "io" /\ pc' = "next" /\ seen' = seen \cup {pid}
        /\ UNCHANGED <<todo, stable, running>>
    BY <1>6 DEF ReadIo, system, hist
  <2> QED BY <2>1
<1>7. CASE EraseUnseen
  <2>1. /\ stat_table' = Without(stat_table, DOMAIN list_table \ seen)
        /\ todo = {} /\ pc = "next" /\ pc' = "idle"
        /\ UNCHANGED <<seen, stable, running>>
    BY <1>7 DEF EraseUnseen, system
  <2>2. DOMAIN stat_table' = DOMAIN stat_table \ (DOMAIN list_table \ seen)
    BY <2>1, WithoutDomain
  <2>3. seen \subseteq DOMAIN stat_table
    BY DEF ScanInv, SeenHasStat
  <2>4. stable \ Kernel \subseteq seen
    BY <2>1
  <2> QED BY <2>1, <2>2, <2>3, <2>4
<1>8. ASSUME NEW p \in Pids, Spawn(p) PROVE MissInv'
  <2>1. /\ running' = [running EXCEPT ![p] = started + 1] /\ running[p] = Gone
        /\ UNCHANGED <<stable, pc, todo, pid, seen, stat_table>>
    BY <1>8 DEF Spawn, tables, scan
  <2>2. \A q \in stable : running'[q] = running[q]
    BY <2>1
  <2> QED BY <2>1, <2>2
<1>9. ASSUME NEW p \in Pids, Exit(p) PROVE MissInv'
  BY <1>9 DEF Exit, tables, scan
<1>10. ASSUME NEW p \in Pids, Use(p) PROVE MissInv'
  BY <1>10 DEF Use, tables, scan, hist
<1>11. CASE UNCHANGED pvars
  BY <1>11 DEF pvars, tables, scan, system, hist
<1>12. ASSUME NEW p \in Pids, Exec(p) PROVE MissInv'
  <2>1. /\ running' = [running EXCEPT ![p] = started + 1]
        /\ UNCHANGED <<stable, pc, todo, pid, seen, stat_table>>
    BY <1>12 DEF Exec, tables, scan
  <2>2. started + 1 # Gone
    BY ProcessTableAssumption DEF ProcessTableTypeOK, Gone
  <2>3. \A q \in stable : running'[q] # Gone
    BY <2>1, <2>2 DEF ProcessTableTypeOK
  <2> QED BY <2>1, <2>3
<1> QED
  BY <1>1, <1>2, <1>3, <1>4, <1>5, <1>6, <1>7, <1>8, <1>9, <1>10, <1>11, <1>12
     DEF ProcessTableNext, Scan

\* A process that is there from the beginning of a scan to its end is in
\* stat_table, whatever other processes do and whichever reads of theirs fail
\* (update_table).
THEOREM NoneMissedHolds == ProcessTableSpec => []NoneMissed
<1>1. MissInv => NoneMissed
  BY DEF MissInv
<1> QED
  BY ScanInvInit, ScanInvNext, ProcessTypeInit, ProcessTypeNext, MissInvInit, MissInvNext,
     <1>1, PTL DEF ProcessTableSpec
-----------------------------------------------------------------------------
(***************************************************************************)
(* Whose usage is in the table.  For a pid that was not given to another   *)
(* process since it was listed: unless its process has run another program *)
(* since, it is listed under what it runs, if it is there; what was read   *)
(* of it last is not more than what it has used by now, so that the next   *)
(* difference does not wrap around; and if it was seen in this scan, its   *)
(* row is right.  Outside a scan every row is of a pid that was seen.      *)
(***************************************************************************)
SameProcess ==
  \A p \in (DOMAIN list_table \ reused) \ execed :
    list_table[p] # NoArgs /\ running[p] # Gone => running[p] = list_table[p]

LastNotMore ==
  \A p \in DOMAIN last_stat_table \ reused :
    last_stat_table[p].cpu <= used[p] /\ last_stat_table[p].disk <= used[p]

RowRight(p) ==
  /\ p \in execed \/ list_table[p] = stat_table[p].of
  /\ stat_table[p].cpu <= MaxUse /\ stat_table[p].disk <= MaxUse

SeenRight == \A p \in seen \ reused : RowRight(p)

ReadingRight ==
  pc = "io" /\ pid \notin reused =>
    /\ pid \in execed \/ reading.of = list_table[pid]
    /\ last_stat_table[pid].cpu <= reading.cpu /\ reading.cpu <= used[pid]

UseInv ==
  /\ SameProcess /\ LastNotMore /\ SeenRight /\ ReadingRight
  /\ Scanned => DOMAIN stat_table \subseteq seen
  /\ pc = "cmdline" => list_table[pid] = NoArgs

\* A difference that does not wrap around is an ordinary one.
LEMMA SmallDifference ==
  ASSUME NEW a \in 0 .. MaxUse, NEW b \in Nat, b <= a
  PROVE  (a - b) % W \in 0 .. MaxUse
<1>1. W \in Nat /\ W > 2 * MaxUse /\ MaxUse \in Nat
  BY ProcessTableAssumption
<1>2. a - b \in 0 .. MaxUse /\ a - b < W
  BY <1>1
<1>3. ASSUME NEW n \in Nat, n < W PROVE n % W = n
  BY <1>1, <1>3, Z3
<1>4. (a - b) % W = a - b
  BY <1>2, <1>3
<1> QED BY <1>2, <1>4

\* The tables are empty and nothing is seen.
LEMMA UseInvInit == ProcessTableInit => UseInv
BY DEF ProcessTableInit, UseInv, SameProcess, LastNotMore, SeenRight, ReadingRight

\* An empty listing is made for a pid that has none (NextPid).
LEMMA UseInvNextPid ==
  ASSUME UseInv, ScanInv, NextPid PROVE UseInv'
<1> USE DEF UseInv, SameProcess, LastNotMore, SeenRight, ReadingRight, RowRight, Scanned
<1>1. PICK p \in todo :
        /\ pid' = p /\ list_table' = Touch(list_table, p, NoArgs)
        /\ pc' = IF list_table'[p] = NoArgs THEN "cmdline" ELSE "stat"
  BY DEF NextPid
<1>2. UNCHANGED <<running, used, reused, execed, stat_table, last_stat_table, seen>>
  BY DEF NextPid, system, hist
<1>3. DOMAIN list_table' = DOMAIN list_table \cup {p}
  BY <1>1, TouchDomain
<1>4. ASSUME NEW q \in DOMAIN list_table PROVE list_table'[q] = list_table[q]
  BY <1>1, TouchValue
<1>5. p \notin DOMAIN list_table => list_table'[p] = NoArgs
  BY <1>1 DEF Touch, With
<1>6. seen \subseteq DOMAIN list_table
  BY DEF ScanInv, SeenHasStat, Named
<1>7. pc' \notin {"idle", "io"} /\ (pc' = "cmdline" => list_table'[pid'] = NoArgs)
  BY <1>1
<1>8. SameProcess'
  BY <1>2, <1>3, <1>4, <1>5
<1>9. SeenRight'
  <2>1. ASSUME NEW q \in seen \ reused PROVE RowRight(q)'
    BY <1>2, <1>4, <1>6
  <2> QED BY <1>2, <2>1
<1> QED BY <1>2, <1>7, <1>8, <1>9

\* A listing is filled in with the process that is read (ReadCmdline).
LEMMA UseInvReadCmdline ==
  ASSUME UseInv, ScanInv, ReadCmdline PROVE UseInv'
<1> USE DEF UseInv, SameProcess, LastNotMore, SeenRight, ReadingRight, RowRight, Scanned
<1>1. /\ pc = "cmdline" /\ pc' \notin {"idle", "io", "cmdline"}
      /\ UNCHANGED <<running, used, reused, execed, stat_table, last_stat_table, seen, pid>>
  BY DEF ReadCmdline, system, hist
<1>2. CASE UNCHANGED list_table
  BY <1>1, <1>2
<1>3. CASE list_table' = With(list_table, pid, running[pid])
  <2>1. DOMAIN list_table' = DOMAIN list_table \cup {pid}
    BY <1>3, WithDomain
  <2>2. ASSUME NEW q \in DOMAIN list_table \cup {pid}
        PROVE  list_table'[q] = IF q = pid THEN running[pid] ELSE list_table[q]
    BY <1>3, WithValue
  <2>3. pid \notin seen /\ seen \subseteq DOMAIN list_table
    BY <1>1 DEF ScanInv, SeenHasStat, Named
  <2>4. SameProcess'
    BY <1>1, <2>1, <2>2
  <2>5. SeenRight'
    <3>1. ASSUME NEW q \in seen \ reused PROVE RowRight(q)'
      BY <1>1, <2>2, <2>3
    <3> QED BY <1>1, <3>1
  <2> QED BY <1>1, <2>4, <2>5
<1> QED BY <1>2, <1>3 DEF ReadCmdline

\* The rows of a new pid are made, and its counters read if it is still
\* there: they are of the process that is listed (ReadStat).
LEMMA UseInvReadStat ==
  ASSUME UseInv, ScanInv, ProcessTableTypeOK, ReadStat PROVE UseInv'
<1> USE DEF UseInv, SameProcess, LastNotMore, SeenRight, ReadingRight, RowRight, Scanned
<1>1. /\ pc = "stat" /\ pc' \in {"next", "io"}
      /\ UNCHANGED <<running, used, reused, execed, list_table, seen, pid>>
      /\ stat_table' = Touch(stat_table, pid, NoStat)
      /\ last_stat_table' = Touch(last_stat_table, pid, NoLastStat)
  BY DEF ReadStat, system, hist
<1>2. DOMAIN last_stat_table' = DOMAIN last_stat_table \cup {pid}
  BY <1>1, TouchDomain
<1>3. ASSUME NEW q \in DOMAIN last_stat_table PROVE last_stat_table'[q] = last_stat_table[q]
  BY <1>1, TouchValue
<1>4. pid \notin DOMAIN last_stat_table => last_stat_table'[pid] = NoLastStat
  BY <1>1 DEF Touch, With
<1>5. ASSUME NEW q \in DOMAIN stat_table PROVE stat_table'[q] = stat_table[q]
  BY <1>1, TouchValue
<1>6. used[pid] \in Nat
  BY ProcessTableAssumption DEF ProcessTableTypeOK
<1>7. LastNotMore'
  <2>1. ASSUME NEW q \in DOMAIN last_stat_table \ reused
        PROVE  last_stat_table'[q].cpu <= used'[q] /\ last_stat_table'[q].disk <= used'[q]
    BY <1>1, <1>3
  <2>2. ASSUME pid \notin DOMAIN last_stat_table
        PROVE  last_stat_table'[pid].cpu <= used'[pid] /\ last_stat_table'[pid].disk <= used'[pid]
    BY <1>1, <1>4, <1>6, <2>2 DEF NoLastStat, NoValue
  <2> QED BY <1>1, <1>2, <2>1, <2>2
<1>8. SeenRight'
  <2>1. ASSUME NEW q \in seen \ reused PROVE RowRight(q)'
    BY <1>1, <1>5 DEF ScanInv, SeenHasStat
  <2> QED BY <1>1, <2>1
<1>9. ReadingRight'
  <2>1. SUFFICES ASSUME pc' = "io", pid \notin reused
                 PROVE  /\ pid \in execed \/ reading'.of = list_table[pid]
                        /\ last_stat_table'[pid].cpu <= reading'.cpu
                        /\ reading'.cpu <= used[pid]
    BY <1>1
  <2>2. running[pid] # Gone /\ reading' = [cpu |-> used[pid], of |-> running[pid]]
    BY <2>1 DEF ReadStat
  <2>3. pid \in DOMAIN list_table /\ list_table[pid] # NoArgs
    BY <1>1 DEF ScanInv, AtPid
  <2>4. pid \in execed \/ running[pid] = list_table[pid]
    BY <2>1, <2>2, <2>3
  <2>5. last_stat_table'[pid].cpu <= used'[pid]
    BY <1>1, <1>2, <1>7, <2>1
  <2> QED BY <1>1, <1>6, <2>2, <2>4, <2>5
<1> QED BY <1>1, <1>7, <1>8, <1>9

\* The differences are stored: they are of what the listed process has used
\* since the last reading, which was of the same process (ReadIo).
LEMMA UseInvReadIo ==
  ASSUME UseInv, ScanInv, ProcessTableTypeOK, ReadIo PROVE UseInv'
<1> USE DEF UseInv, SameProcess, LastNotMore, SeenRight, ReadingRight, Scanned
<1>1. /\ pc = "io" /\ pc' = "next" /\ seen' = seen \cup {pid}
      /\ UNCHANGED <<running, used, reused, execed, list_table, pid>>
  BY DEF ReadIo, system, hist
<1> DEFINE last == last_stat_table[pid]
           Row(disk) == [cpu |-> (reading.cpu - last.cpu) % W,
                         disk |-> IF disk = NoValue THEN NoValue
                                  ELSE (disk - ValueOrZero(last.disk)) % W,
                         of |-> reading.of]
<1>2. PICK disk \in DiskReadings :
        /\ stat_table' = With(stat_table, pid, Row(disk))
        /\ last_stat_table' = With(last_stat_table, pid, [cpu |-> reading.cpu, disk |-> disk])
  BY Zenon DEF ReadIo
<1>3. pid \in DOMAIN stat_table /\ pid \in DOMAIN last_stat_table
      /\ pid \in DOMAIN list_table
  BY <1>1 DEF ScanInv, AtPid, Paired
<1>4. /\ used[pid] \in 0 .. MaxUse /\ last \in LastStat
      /\ reading.cpu \in Nat /\ MaxUse \in Nat
  <2>1. reading.cpu \in 0 .. W - 1
    BY DEF ProcessTableTypeOK, Reading
  <2> QED
    BY <1>3, <2>1, ProcessTableAssumption DEF ProcessTableTypeOK, IsMap
<1>5. last.cpu \in Nat /\ ValueOrZero(last.disk) \in Nat
  BY <1>4, ProcessTableAssumption DEF LastStat, ValueOrZero, NoValue
<1>6. disk = NoValue \/ disk = used[pid]
  BY DEF DiskReadings
<1>7. /\ DOMAIN stat_table' = DOMAIN stat_table \cup {pid}
      /\ DOMAIN last_stat_table' = DOMAIN last_stat_table \cup {pid}
  BY <1>2, WithDomain
<1>8. ASSUME NEW q \in DOMAIN stat_table
      PROVE  stat_table'[q] = IF q = pid THEN Row(disk) ELSE stat_table[q]
  BY <1>2, WithValue
<1>9. ASSUME NEW q \in DOMAIN last_stat_table
      PROVE  last_stat_table'[q] = IF q = pid THEN [cpu |-> reading.cpu, disk |-> disk]
                                   ELSE last_stat_table[q]
  BY <1>2, WithValue
<1>10. ASSUME pid \notin reused
       PROVE  /\ pid \in execed \/ reading.of = list_table[pid]
              /\ last.cpu <= reading.cpu /\ reading.cpu \in 0 .. MaxUse
              /\ reading.cpu <= used[pid]
              /\ ValueOrZero(last.disk) <= used[pid] /\ disk <= used[pid]
  <2>1. /\ pid \in execed \/ reading.of = list_table[pid]
        /\ last.cpu <= reading.cpu /\ reading.cpu <= used[pid] /\ last.disk <= used[pid]
    BY <1>1, <1>3, <1>10
  <2>2. reading.cpu \in 0 .. MaxUse
    BY <1>4, <2>1
  <2>3. ValueOrZero(last.disk) <= used[pid]
    BY <1>4, <2>1 DEF ValueOrZero, LastStat
  <2>4. disk <= used[pid]
    BY <1>4, <1>6 DEF NoValue
  <2> QED BY <2>1, <2>2, <2>3, <2>4
<1>11. pid \notin reused => RowRight(pid)'
  <2>1. SUFFICES ASSUME pid \notin reused PROVE RowRight(pid)'
    OBVIOUS
  <2>2. (reading.cpu - last.cpu) % W \in 0 .. MaxUse
    BY <1>5, <1>10, <2>1, SmallDifference
  <2>3. disk # NoValue => (disk - ValueOrZero(last.disk)) % W \in 0 .. MaxUse
    BY <1>4, <1>5, <1>6, <1>10, <2>1, SmallDifference
  <2>4. stat_table'[pid] = Row(disk)
    BY <1>3, <1>8
  <2>5. Row(disk).cpu <= MaxUse /\ Row(disk).of = reading.of
    BY <1>4, <2>2
  <2>6. Row(disk).disk <= MaxUse
    <3>1. CASE disk = NoValue
      BY <1>4, <3>1 DEF NoValue
    <3>2. CASE disk # NoValue
      BY <1>4, <2>3, <3>2
    <3> QED BY <3>1, <3>2
  <2> HIDE DEF Row
  <2> QED BY <1>1, <1>10, <2>1, <2>4, <2>5, <2>6 DEF RowRight
<1>12. SeenRight'
  <2>1. ASSUME NEW q \in seen \ reused, q # pid PROVE RowRight(q)'
    <3>1. stat_table'[q] = stat_table[q]
      BY <1>8, <2>1 DEF ScanInv, SeenHasStat
    <3> QED BY <1>1, <2>1, <3>1 DEF RowRight
  <2> QED BY <1>1, <1>11, <2>1
<1>13. LastNotMore'
  <2>1. ASSUME NEW q \in DOMAIN last_stat_table \ reused
        PROVE  last_stat_table'[q].cpu <= used[q] /\ last_stat_table'[q].disk <= used[q]
    <3>1. CASE q = pid
      BY <1>9, <1>10, <2>1, <3>1
    <3>2. CASE q # pid
      BY <1>9, <2>1, <3>2
    <3> QED BY <3>1, <3>2
  <2> QED BY <1>1, <1>3, <1>7, <2>1
<1> QED BY <1>1, <1>12, <1>13

\* What was not seen is erased from the three tables (EraseUnseen).
LEMMA UseInvEraseUnseen ==
  ASSUME UseInv, ScanInv, EraseUnseen PROVE UseInv'
<1> USE DEF UseInv, SameProcess, LastNotMore, SeenRight, ReadingRight, RowRight, Scanned
<1> DEFINE dead == DOMAIN list_table \ seen
<1>1. /\ list_table' = Without(list_table, dead)
      /\ stat_table' = Without(stat_table, dead)
      /\ last_stat_table' = Without(last_stat_table, dead)
      /\ pc' = "idle" /\ reused' = reused \cap seen /\ execed' = execed \cap seen
      /\ UNCHANGED <<running, used, seen>>
  BY DEF EraseUnseen, system
<1>2. /\ DOMAIN list_table' = DOMAIN list_table \ dead
      /\ DOMAIN stat_table' = DOMAIN stat_table \ dead
      /\ DOMAIN last_stat_table' = DOMAIN last_stat_table \ dead
  BY <1>1, WithoutDomain
<1>3. /\ \A q \in DOMAIN list_table \ dead : list_table'[q] = list_table[q]
      /\ \A q \in DOMAIN stat_table \ dead : stat_table'[q] = stat_table[q]
      /\ \A q \in DOMAIN last_stat_table \ dead : last_stat_table'[q] = last_stat_table[q]
  BY <1>1, WithoutValue
<1>4. /\ seen \subseteq DOMAIN stat_table /\ seen \cap dead = {}
      /\ DOMAIN stat_table = DOMAIN last_stat_table /\ DOMAIN stat_table \subseteq DOMAIN list_table
  BY DEF ScanInv, SeenHasStat, Paired, Named
<1>5. /\ DOMAIN list_table' = seen /\ DOMAIN stat_table' = seen
      /\ DOMAIN last_stat_table' = seen
  BY <1>2, <1>4
<1> HIDE DEF dead
<1>6. ASSUME NEW q \in seen
      PROVE  /\ list_table'[q] = list_table[q] /\ stat_table'[q] = stat_table[q]
             /\ last_stat_table'[q] = last_stat_table[q]
             /\ q \in DOMAIN list_table /\ q \in DOMAIN last_stat_table
  BY <1>3, <1>4
<1>7. seen \ reused' = seen \ reused /\ \A q \in seen : q \in execed' <=> q \in execed
  BY <1>1
<1>8. SameProcess'
  BY <1>1, <1>5, <1>6, <1>7
<1>9. LastNotMore'
  BY <1>1, <1>5, <1>6, <1>7
<1>10. SeenRight'
  BY <1>1, <1>5, <1>6, <1>7
<1> QED BY <1>1, <1>5, <1>8, <1>9, <1>10

\* The system's steps: a pid that is given to another process is one that is
\* listed, and then reused, or one that is in no table.
LEMMA UseInvSystem ==
  ASSUME UseInv, ScanInv, ProcessTableTypeOK,
         NEW p \in Pids, Spawn(p) \/ Exec(p) \/ Exit(p) \/ Use(p)
  PROVE  UseInv'
<1> USE DEF UseInv, SameProcess, LastNotMore, SeenRight, ReadingRight, Scanned
<1>1. UNCHANGED <<list_table, stat_table, last_stat_table, pc, pid, seen, reading>>
  BY DEF Spawn, Exec, Exit, Use, tables, scan
<1>2. running \in [Pids -> 0 .. MaxPrograms] /\ used \in [Pids -> 0 .. MaxUse]
      /\ DOMAIN list_table \subseteq Pids /\ MaxUse \in Nat
  BY ProcessTableAssumption DEF ProcessTableTypeOK, IsMap
<1>3. DOMAIN last_stat_table \subseteq DOMAIN list_table /\ seen \subseteq DOMAIN list_table
      /\ (pc = "io" => pid \in DOMAIN list_table /\ pid \in DOMAIN last_stat_table)
  BY DEF ScanInv, Paired, Named, SeenHasStat, AtPid
<1>4. /\ reused \subseteq reused' /\ execed \subseteq execed'
      /\ \A q \in DOMAIN list_table \ reused' :
            used[q] <= used'[q] /\ used'[q] \in Nat
  <2>1. CASE Spawn(p)
    BY <1>2, <2>1 DEF Spawn
  <2>2. CASE Exit(p)
    BY <1>2, <2>2 DEF Exit
  <2>3. CASE Use(p)
    BY <1>2, <2>3 DEF Use, hist
  <2>4. CASE Exec(p)
    BY <1>2, <2>4 DEF Exec
  <2> QED BY <2>1, <2>2, <2>3, <2>4
<1>5. SameProcess'
  <2>1. ASSUME NEW q \in (DOMAIN list_table \ reused') \ execed', list_table[q] # NoArgs
        PROVE  running'[q] = running[q] \/ running'[q] = Gone
    <3>1. CASE Spawn(p)
      BY <1>2, <2>1, <3>1 DEF Spawn
    <3>2. CASE Exit(p)
      BY <1>2, <2>1, <3>2 DEF Exit
    <3>3. CASE Use(p)
      BY <3>3 DEF Use
    <3>4. CASE Exec(p)
      BY <1>2, <2>1, <3>4 DEF Exec
    <3> QED BY <3>1, <3>2, <3>3, <3>4
  <2> QED BY <1>1, <1>4, <2>1
<1>6. LastNotMore'
  <2>1. ASSUME NEW q \in DOMAIN last_stat_table \ reused'
        PROVE  last_stat_table[q].cpu <= used'[q] /\ last_stat_table[q].disk <= used'[q]
    <3>1. last_stat_table[q].cpu <= used[q] /\ last_stat_table[q].disk <= used[q]
      BY <1>4
    <3>2. last_stat_table[q].cpu \in Int /\ last_stat_table[q].disk \in Int
      <4>1. last_stat_table[q] \in LastStat
        BY DEF ProcessTableTypeOK, IsMap
      <4> QED BY <4>1, ProcessTableAssumption DEF LastStat, NoValue
    <3>3. used[q] \in Nat /\ used'[q] \in Nat /\ used[q] <= used'[q]
      BY <1>2, <1>3, <1>4
    <3> QED BY <3>1, <3>2, <3>3
  <2> QED BY <1>1, <2>1
<1>7. SeenRight'
  <2>1. ASSUME NEW q \in seen \ reused' PROVE RowRight(q)'
    BY <1>1, <1>4 DEF RowRight
  <2> QED BY <1>1, <2>1
<1>8. ReadingRight'
  <2>1. SUFFICES ASSUME pc = "io", pid \notin reused' PROVE reading.cpu <= used'[pid]
    BY <1>1, <1>4
  <2>2. reading.cpu <= used[pid] /\ reading.cpu \in Int
    <3>1. reading.cpu \in 0 .. W - 1
      BY DEF ProcessTableTypeOK, Reading
    <3> QED BY <1>4, <2>1, <3>1, ProcessTableAssumption
  <2>3. used[pid] \in Nat /\ used'[pid] \in Nat /\ used[pid] <= used'[pid]
    BY <1>2, <1>3, <1>4, <2>1
  <2> QED BY <2>2, <2>3
<1> QED BY <1>1, <1>5, <1>6, <1>7, <1>8

LEMMA UseInvNext ==
  UseInv /\ ScanInv /\ ProcessTableTypeOK /\ [ProcessTableNext]_pvars => UseInv'
<1> SUFFICES ASSUME UseInv, ScanInv, ProcessTableTypeOK, [ProcessTableNext]_pvars
             PROVE  UseInv'
  OBVIOUS
<1>1. CASE BeginScan
  BY <1>1 DEF BeginScan, system, tables, UseInv, SameProcess, LastNotMore, SeenRight,
              ReadingRight, Scanned
<1>2. CASE ListPids
  BY <1>2 DEF ListPids, system, tables, hist, UseInv, SameProcess, LastNotMore, SeenRight,
              ReadingRight, RowRight, Scanned
<1>3. CASE UNCHANGED pvars
  BY <1>3 DEF pvars, system, tables, scan, hist, UseInv, SameProcess, LastNotMore, SeenRight,
              ReadingRight, RowRight, Scanned
<1> QED
  BY <1>1, <1>2, <1>3, UseInvNextPid, UseInvReadCmdline, UseInvReadStat, UseInvReadIo,
     UseInvEraseUnseen, UseInvSystem
     DEF ProcessTableNext, Scan

\* A difference wraps around only for a pid that was given to another process
\* while it was listed, and usage is accounted to the wrong program only then
\* or if the process has run another program since: an entry of an ended
\* process is never taken up again, whatever reads of /proc fail (update_table,
\* which erases what it has not seen).
THEOREM WrongOnlyAfterReuseHolds == ProcessTableSpec => []WrongOnlyAfterReuse
<1>1. UseInv => WrongOnlyAfterReuse
  BY DEF UseInv, SeenRight, RowRight, WrongOnlyAfterReuse, Scanned
<1> QED
  BY ScanInvInit, ScanInvNext, ProcessTypeInit, ProcessTypeNext, UseInvInit, UseInvNext,
     <1>1, PTL DEF ProcessTableSpec
=============================================================================
