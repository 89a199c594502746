------------------------------ MODULE LogQueue ------------------------------
(***************************************************************************)
(* The client's queue of unacknowledged logs: class LogQueue               *)
(* (src/client/log_queue.cpp), driven by the two threads that share it.    *)
(*                                                                         *)
(*  - the main thread (client_main, ClientLogger::generate_log) takes ids, *)
(*    appends each log to the log file, pushes it on the deque, then peeks *)
(*    a batch and publishes it;                                            *)
(*  - the receiver thread (ClientLogger's callback on an "ack <id>"        *)
(*    message) runs ack_log, which pops the deque and rewrites the ack     *)
(*    file.                                                                *)
(*                                                                         *)
(* There is no mutex in LogQueue, so every deque operation of one thread   *)
(* may fall between two of the other's.  The process may be killed between *)
(* any two steps; the two files survive and the constructor reads them.    *)
(*                                                                         *)
(* A log is a record [id, ev]: id is the number the protocol uses, ev is   *)
(* the position of the log in the history of everything this client ever   *)
(* generated (it stands for the payload, and tells two logs with the same  *)
(* id apart).                                                              *)
(***************************************************************************)
EXTENDS Integers, Sequences

CONSTANTS
  MaxLogs,       \* bound: logs generated in a behaviour
  BatchSize,     \* 100 in client_main
  MaxLogFile,    \* MAX_LOG_FILE_SIZE, counted in lines
  NoFile,        \* the ack file does not exist
  Empty,         \* the ack file exists and holds nothing
  Garbage,       \* values an uninitialised ack_id may have
  Restarts,      \* the situations in which the process is killed and started again
  DiskMayFail,   \* opening a file may fail
  AckDuringBatch \* an ack may arrive while the main thread is working

ASSUME ConstantsAssumption ==
  /\ MaxLogs \in Nat
  /\ BatchSize \in Nat \ {0}
  /\ MaxLogFile \in Nat
  /\ NoFile \notin Nat /\ Empty \notin Nat /\ NoFile # Empty
  /\ Garbage \subseteq Nat /\ Garbage # {}
  /\ Restarts \subseteq {"benign", "torn", "drained"}
  /\ DiskMayFail \in BOOLEAN
  /\ AckDuringBatch \in BOOLEAN

VARIABLES
  \* on disk
  logFile,     \* the lines of rmt-log.txt
  tmpFile,     \* the lines of rmt-log.txt.tmp
  ackFile,     \* the content of rmt-ack.txt
  \* in memory
  ack_id, log_entries, new_id,
  \* the main thread
  mpc,         \* its next step
  line,        \* lines read by the constructor or copied by the destructor
  cur,         \* the log being added
  want, batch, \* batch_size and peek of get_batch_log
  \* the receiver thread
  rpc,         \* its next step in ack_log
  \* history
  gen,         \* logs add_log has written, or tried to write, to the file
  sent,        \* the highest id in a published batch
  done,        \* the ev of every log that an obeyed ack has covered
  orderly      \* no file has failed to open, and every start found a written
               \* ack file and, above its number, a log, or no ack file

diskVars == <<logFile, tmpFile, ackFile>>
memVars  == <<ack_id, log_entries, new_id>>
mainVars == <<mpc, line, cur, want, batch>>
histVars == <<gen, sent, done, orderly>>
counts   == <<gen, sent, done>>
vars == <<diskVars, memVars, mainVars, rpc, histVars>>

Log   == [id : Nat, ev : Nat]
NoLog == [id |-> 0, ev |-> 0]

MainPC == {"down", "ctor_create", "ctor_load", "dtor_clean", "dtor_copy",
           "dtor_open", "dtor_write", "generate", "add", "push", "batch",
           "copy", "publish", "sleep"}
RecvPC == {"idle", "pop", "open", "write"}

TypeOK ==
  /\ logFile \in Seq(Log) /\ tmpFile \in Seq(Log)
  /\ ackFile \in Nat \cup {NoFile, Empty}
  /\ ack_id \in Nat /\ log_entries \in Seq(Log) /\ new_id \in Nat
  /\ mpc \in MainPC /\ line \in Nat /\ cur \in Log
  /\ want \in Nat /\ batch \in Seq(Log)
  /\ rpc \in RecvPC
  /\ gen \in Nat /\ sent \in Nat /\ done \subseteq Nat
  /\ orderly \in BOOLEAN

Init ==
  /\ logFile = <<>> /\ tmpFile = <<>> /\ ackFile = NoFile
  /\ ack_id = 0 /\ log_entries = <<>> /\ new_id = 1
  /\ mpc = "down" /\ line = 0 /\ cur = NoLog /\ want = 0 /\ batch = <<>>
  /\ rpc = "idle"
  /\ gen = 0 /\ sent = 0 /\ done = {} /\ orderly = TRUE

Running == mpc \in {"generate", "add", "push", "batch", "copy", "publish", "sleep"}
-----------------------------------------------------------------------------
(***************************************************************************)
(* Start: LogQueue(log_file, ack_file), then the destructor of the object  *)
(* that ClientLogger's constructor takes by value.  LogQueue declares a    *)
(* destructor and therefore has no move constructor, so std::move copies   *)
(* and the parameter's destructor runs on a full queue, once per start.    *)
(***************************************************************************)

\* What the constructor would find on disk.
StartKind ==
  CASE ackFile = NoFile -> "first"
    [] ackFile = Empty  -> "torn"
    [] OTHER -> IF ackFile > 0 /\ \A i \in DOMAIN logFile : logFile[i].id <= ackFile
                THEN "drained" ELSE "benign"

\* The constructor reads the ack file; if it cannot be opened it is created,
\* which truncates it.  Extracting a number from an empty file leaves ack_id,
\* a member without initialiser, uninitialised.
OpenAckFile ==
  /\ mpc = "down"
  /\ StartKind \in Restarts \cup {"first"}
  /\ log_entries' = <<>> /\ new_id' = 1 /\ line' = 0
  /\ \/ /\ ackFile = NoFile
        /\ ack_id' = 0
        /\ mpc' = "ctor_create" /\ ackFile' = Empty /\ UNCHANGED orderly
     \/ /\ DiskMayFail
        /\ ack_id' = 0 /\ orderly' = FALSE
        /\ \/ mpc' = "ctor_create" /\ ackFile' = Empty
           \/ mpc' = "ctor_load" /\ UNCHANGED ackFile
     \/ /\ ackFile = Empty
        /\ ack_id' \in Garbage /\ orderly' = FALSE
        /\ mpc' = "ctor_load" /\ UNCHANGED ackFile
     \/ /\ ackFile \in Nat
        /\ ack_id' = ackFile /\ orderly' = (orderly /\ StartKind # "drained")
        /\ mpc' = "ctor_load" /\ UNCHANGED ackFile
  /\ UNCHANGED <<logFile, tmpFile, cur, want, batch, rpc, counts>>

\* The freshly created ack file receives its 0 when the stream is closed.
CreateAckFile ==
  /\ mpc = "ctor_create"
  /\ ackFile' = 0
  /\ mpc' = "ctor_load"
  /\ UNCHANGED <<logFile, tmpFile, memVars, line, cur, want, batch, rpc, histVars>>

\* Mutation: entries are pushed at the front.
LoadLine_Front ==
  /\ mpc = "ctor_load" /\ line < Len(logFile)
  /\ line' = line + 1
  /\ log_entries' = IF logFile[line + 1].id > ack_id
                    THEN <<logFile[line + 1]>> \o log_entries ELSE log_entries
  /\ UNCHANGED <<diskVars, ack_id, new_id, mpc, cur, want, batch, rpc, histVars>>

\* One line of the log file is kept if it is above the ack.
LoadLine ==
  /\ mpc = "ctor_load" /\ line < Len(logFile)
  /\ line' = line + 1
  /\ log_entries' = IF logFile[line + 1].id > ack_id
                    THEN Append(log_entries, logFile[line + 1]) ELSE log_entries
  /\ UNCHANGED <<diskVars, ack_id, new_id, mpc, cur, want, batch, rpc, histVars>>

\* Opening the log file for reading may fail; it is then opened for
\* writing, which truncates it when that succeeds.
LoadFails ==
  /\ DiskMayFail /\ mpc = "ctor_load" /\ line = 0
  /\ logFile' \in {logFile, <<>>}
  /\ mpc' = "dtor_clean" /\ orderly' = FALSE
  /\ UNCHANGED <<tmpFile, ackFile, memVars, line, cur, want, batch, rpc, counts>>

\* Mutation: ids go on from the last entry kept, itself included.
LoadDone_SameId ==
  /\ mpc = "ctor_load" /\ line = Len(logFile)
  /\ new_id' = IF log_entries = <<>> THEN 1 ELSE log_entries[Len(log_entries)].id
  /\ mpc' = "dtor_clean"
  /\ UNCHANGED <<diskVars, ack_id, log_entries, line, cur, want, batch, rpc, histVars>>

\* The file is read to its end; ids go on from the last entry kept, and
\* start again from 1 if none was.
LoadDone ==
  /\ mpc = "ctor_load" /\ line = Len(logFile)
  /\ new_id' = IF log_entries = <<>> THEN 1
               ELSE log_entries[Len(log_entries)].id + 1
  /\ mpc' = "dtor_clean"
  /\ UNCHANGED <<diskVars, ack_id, log_entries, line, cur, want, batch, rpc, histVars>>

\* clean_old_logs: nothing to do up to the size limit or when the temporary
\* file cannot be opened, otherwise the temporary file is started afresh.
CleanStart ==
  /\ mpc = "dtor_clean"
  /\ \/ /\ Len(logFile) <= MaxLogFile
        /\ mpc' = "dtor_open" /\ UNCHANGED <<tmpFile, line, orderly>>
     \/ /\ Len(logFile) > MaxLogFile
        /\ mpc' = "dtor_copy" /\ tmpFile' = <<>> /\ line' = 0 /\ UNCHANGED orderly
     \/ /\ Len(logFile) > MaxLogFile /\ DiskMayFail
        /\ mpc' = "dtor_open" /\ orderly' = FALSE /\ UNCHANGED <<tmpFile, line>>
  /\ UNCHANGED <<logFile, ackFile, memVars, cur, want, batch, rpc, counts>>

\* The queue's entries above the ack are copied to the temporary file.
CleanCopy ==
  /\ mpc = "dtor_copy" /\ line < Len(log_entries)
  /\ line' = line + 1
  /\ tmpFile' = IF log_entries[line + 1].id > ack_id
                THEN Append(tmpFile, log_entries[line + 1]) ELSE tmpFile
  /\ UNCHANGED <<logFile, ackFile, memVars, mpc, cur, want, batch, rpc, histVars>>

\* The temporary file replaces the log file (rename), or the rename fails.
CleanRename ==
  /\ mpc = "dtor_copy" /\ line = Len(log_entries)
  /\ \/ logFile' = tmpFile /\ UNCHANGED orderly
     \/ DiskMayFail /\ logFile' = logFile /\ orderly' = FALSE
  /\ mpc' = "dtor_open"
  /\ UNCHANGED <<tmpFile, ackFile, memVars, line, cur, want, batch, rpc, counts>>

\* The destructor opens the ack file, which truncates it...
DtorOpenAck ==
  /\ mpc = "dtor_open"
  /\ \/ mpc' = "dtor_write" /\ ackFile' = Empty /\ UNCHANGED orderly
     \/ DiskMayFail /\ mpc' = "sleep" /\ orderly' = FALSE /\ UNCHANGED ackFile
  /\ UNCHANGED <<logFile, tmpFile, memVars, line, cur, want, batch, rpc, counts>>

\* ... and writes ack_id to it.
DtorWriteAck ==
  /\ mpc = "dtor_write"
  /\ ackFile' = ack_id
  /\ mpc' = "sleep"
  /\ UNCHANGED <<logFile, tmpFile, memVars, line, cur, want, batch, rpc, histVars>>
-----------------------------------------------------------------------------
(***************************************************************************)
(* The main thread's loop: one turn per second.                            *)
(***************************************************************************)

\* The thread wakes up and scans the process table.
WakeUp ==
  /\ mpc = "sleep" /\ mpc' = "generate"
  /\ UNCHANGED <<diskVars, memVars, line, cur, want, batch, rpc, histVars>>

\* Mutation: the id counter runs backwards.
NewLog_Down ==
  /\ mpc = "generate" /\ gen < MaxLogs
  /\ new_id' = new_id - 1
  /\ cur' = [id |-> new_id, ev |-> gen + 1]
  /\ mpc' = "add"
  /\ UNCHANGED <<diskVars, ack_id, log_entries, line, want, batch, rpc, histVars>>

\* generate_log finds a threshold exceeded and takes an id.
NewLog ==
  /\ mpc = "generate" /\ gen < MaxLogs
  /\ new_id' = new_id + 1
  /\ cur' = [id |-> new_id, ev |-> gen + 1]
  /\ mpc' = "add"
  /\ UNCHANGED <<diskVars, ack_id, log_entries, line, want, batch, rpc, histVars>>

\* add_log appends the line and flushes; a file that cannot be opened is
\* only reported.
AddToFile ==
  /\ mpc = "add"
  /\ \/ logFile' = Append(logFile, cur) /\ UNCHANGED orderly
     \/ DiskMayFail /\ logFile' = logFile /\ orderly' = FALSE
  /\ gen' = gen + 1
  /\ mpc' = "push"
  /\ UNCHANGED <<tmpFile, ackFile, memVars, line, cur, want, batch, rpc, sent, done>>

\* add_log pushes the log on the deque.
AddToQueue ==
  /\ mpc = "push"
  /\ log_entries' = Append(log_entries, cur)
  /\ mpc' = "generate"
  /\ UNCHANGED <<diskVars, ack_id, new_id, line, cur, want, batch, rpc, histVars>>

\* generate_log has no more to report.
EndGenerate ==
  /\ mpc = "generate" /\ mpc' = "batch"
  /\ UNCHANGED <<diskVars, memVars, line, cur, want, batch, rpc, histVars>>

\* get_batch_log reads the size once; an empty queue sends nothing.
BatchStart ==
  /\ mpc = "batch"
  /\ batch' = <<>>
  /\ \/ log_entries = <<>> /\ mpc' = "sleep" /\ UNCHANGED want
     \/ /\ log_entries # <<>> /\ mpc' = "copy"
        /\ want' = IF Len(log_entries) < BatchSize THEN Len(log_entries) ELSE BatchSize
  /\ UNCHANGED <<diskVars, memVars, line, cur, rpc, histVars>>

\* get_batch_log copies log_entries.at(i) for the next i.
BatchCopy ==
  /\ mpc = "copy" /\ Len(batch) < want /\ Len(batch) < Len(log_entries)
  /\ batch' = Append(batch, log_entries[Len(batch) + 1])
  /\ mpc' = IF Len(batch) + 1 = want THEN "publish" ELSE "copy"
  /\ UNCHANGED <<diskVars, memVars, line, cur, want, rpc, histVars>>

\* The deque has become shorter than the size read: at() throws
\* std::out_of_range, nothing catches it, the process terminates.
BatchThrows ==
  /\ mpc = "copy" /\ Len(batch) < want /\ Len(batch) >= Len(log_entries)
  /\ mpc' = "down" /\ rpc' = "idle"
  /\ log_entries' = <<>> /\ ack_id' = 0 /\ new_id' = 1
  /\ cur' = NoLog /\ batch' = <<>> /\ want' = 0
  /\ UNCHANGED <<diskVars, line, histVars>>

\* client_main publishes the batch and goes to sleep.
Publish ==
  /\ mpc = "publish" /\ batch # <<>>
  /\ sent' = IF batch[Len(batch)].id > sent THEN batch[Len(batch)].id ELSE sent
  /\ batch' = <<>>
  /\ mpc' = "sleep"
  /\ UNCHANGED <<diskVars, memVars, line, cur, want, rpc, gen, done, orderly>>
-----------------------------------------------------------------------------
(***************************************************************************)
(* The receiver thread: ack_log(id).                                       *)
(***************************************************************************)

\* A repeated ack is ignored, a smaller one is obeyed ("server has
\* authority here").
AckLog(id) ==
  /\ Running /\ rpc = "idle"
  /\ AckDuringBatch \/ mpc = "sleep"
  /\ \/ id = ack_id /\ UNCHANGED <<ack_id, rpc, done>>
     \/ /\ id # ack_id /\ ack_id' = id /\ rpc' = "pop"
        /\ done' = done \cup
             {log_entries[i].ev : i \in {j \in DOMAIN log_entries : log_entries[j].id <= id}}
  /\ UNCHANGED <<diskVars, log_entries, new_id, mainVars, gen, sent, orderly>>

RecvMayStep  == Running /\ (AckDuringBatch \/ mpc = "sleep")
FrontCovered == log_entries # <<>> /\ log_entries[1].id <= ack_id

\* Mutation: the loop pops one log too many.
AckPop_TooMany ==
  /\ RecvMayStep /\ rpc = "pop"
  /\ log_entries # <<>> /\ log_entries[1].id <= ack_id + 1
  /\ log_entries' = Tail(log_entries)
  /\ UNCHANGED <<diskVars, ack_id, new_id, mainVars, rpc, histVars>>

\* Logs covered by the ack leave the deque one by one.
AckPop ==
  /\ RecvMayStep /\ rpc = "pop" /\ FrontCovered
  /\ log_entries' = Tail(log_entries)
  /\ UNCHANGED <<diskVars, ack_id, new_id, mainVars, rpc, histVars>>

AckPopEnd ==
  /\ RecvMayStep /\ rpc = "pop" /\ ~FrontCovered
  /\ rpc' = "open"
  /\ UNCHANGED <<diskVars, memVars, mainVars, histVars>>

\* Opening the ack file for writing truncates it...
AckOpen ==
  /\ RecvMayStep /\ rpc = "open"
  /\ \/ ackFile' = Empty /\ rpc' = "write" /\ UNCHANGED orderly
     \/ DiskMayFail /\ rpc' = "idle" /\ orderly' = FALSE /\ UNCHANGED ackFile
  /\ UNCHANGED <<logFile, tmpFile, memVars, mainVars, counts>>

\* ... and the number reaches it when the stream is closed.
AckWrite ==
  /\ RecvMayStep /\ rpc = "write"
  /\ ackFile' = ack_id
  /\ rpc' = "idle"
  /\ UNCHANGED <<logFile, tmpFile, memVars, mainVars, histVars>>
-----------------------------------------------------------------------------
\* The process is killed, in a situation in which its next start is one of
\* those considered: memory is lost, the files stay as they are.
Crash ==
  /\ Restarts # {} /\ mpc # "down"
  /\ StartKind \in Restarts \cup {"first"}
  /\ mpc' = "down" /\ rpc' = "idle"
  /\ log_entries' = <<>> /\ ack_id' = 0 /\ new_id' = 1
  /\ cur' = NoLog /\ batch' = <<>> /\ want' = 0
  /\ UNCHANGED <<diskVars, line, histVars>>

Start == \/ OpenAckFile \/ CreateAckFile \/ LoadLine \/ LoadFails \/ LoadDone
         \/ CleanStart \/ CleanCopy \/ CleanRename \/ DtorOpenAck \/ DtorWriteAck
Work  == \/ WakeUp \/ NewLog \/ AddToFile \/ AddToQueue \/ EndGenerate
         \/ BatchStart \/ BatchCopy
Receive == AckPop \/ AckPopEnd \/ AckOpen \/ AckWrite

\* The process ends, and only the files are left.
Die == BatchThrows \/ Crash

\* The server may acknowledge any id it has been sent, 0 if it has stored
\* nothing, in any order.
Next ==
  \/ Start \/ Work \/ Publish \/ Receive \/ Die
  \/ \E id \in 0 .. sent : AckLog(id)

Spec == Init /\ [][Next]_vars
-----------------------------------------------------------------------------
(***************************************************************************)
(* Properties                                                              *)
(***************************************************************************)

Increasing(s) == \A i \in 1 .. Len(s) - 1 : s[i].ev < s[i + 1].ev

\* The order in which logs were generated is kept, without a duplicate, in
\* the log file, in the deque and in a batch being peeked, whatever the
\* interleaving of get_batch_log with ack_log, the kills, the compactions
\* by clean_old_logs and the files that could not be opened.
EventOrder ==
  /\ Increasing(logFile) /\ Increasing(log_entries) /\ Increasing(batch)

\* The deque holds consecutive ids that end right before new_id: the server
\* only accepts id last + 1, so a hole in the queue would stop the client's
\* delivery for good.  Both threads and the constructor have to keep it, as
\* long as no file fails to open and no start finds the ack file torn or the
\* queue drained.
QueueContiguous ==
  orderly /\ mpc \notin {"down", "ctor_create", "ctor_load"} =>
    /\ \A i \in 1 .. Len(log_entries) - 1 : log_entries[i + 1].id = log_entries[i].id + 1
    /\ log_entries # <<>> =>
         log_entries[Len(log_entries)].id + 1 = (IF mpc \in {"add", "push"} THEN cur.id ELSE new_id)

OnDisk(e)  == \E i \in DOMAIN logFile : /\ logFile[i].ev = e
                                        /\ ackFile \in Nat => logFile[i].id > ackFile
Queued(e)  == \E i \in DOMAIN log_entries : log_entries[i].ev = e

\* A log that no ack has covered is in the log file, above the number in the
\* ack file, and, while the program works, in the deque: a kill between any
\* two steps (the constructor, clean_old_logs, an ack half processed) loses
\* nothing once add_log has written it, on the same condition.
NoLogLost ==
  orderly => \A e \in (1 .. gen) \ done :
               /\ OnDisk(e)
               /\ Running => Queued(e) \/ (mpc = "push" /\ cur.ev = e)
=============================================================================
