--------------------------- MODULE ClientHandler ---------------------------
(***************************************************************************)
(* The server's side of log delivery: ClientHandler                        *)
(* (src/server/client_handler.cpp), which stores the logs of one client IP *)
(* in client-log-<IP>.txt and acknowledges them.                           *)
(*                                                                         *)
(* Every accepted connection has a handler with a thread of its own, and   *)
(* handlers are never removed.  The file is named after the IP alone, so   *)
(* the handlers of one IP (the connections of a client that reconnects, or *)
(* several clients behind one address) share it, each through an ofstream  *)
(* that exists for the time of one message.                                *)
(*                                                                         *)
(* A stream is bytes, not lines: what reaches the file may end within a    *)
(* line.  If the line is not finished by the stream that has begun it (the *)
(* server ended, a write failed, or another handler's text came first),    *)
(* whatever is written next continues that line and the file is damaged    *)
(* from there on.  The model follows the file up to that point.            *)
(***************************************************************************)
EXTENDS Integers, Sequences

CONSTANTS
  Handlers,     \* the connections accepted from this IP
  Ids,          \* the ids a client may use
  Events,       \* what tells apart two logs with the same id
  Peer,         \* Peer[h]: the client at the other end of h's connection
  Misread,      \* the ids that may be read from a damaged file
  DiskFaults,   \* what may fail: "open", "write"
  Spills,       \* text may reach the file before the stream is closed
  ServerCrashes, \* the server may be killed and started again
  MaxLines      \* bound: lines of the file when no more messages come

ASSUME HandlerAssumption ==
  /\ Ids \subseteq Nat /\ Misread \subseteq Nat
  /\ Peer \in [Handlers -> Events]
  /\ DiskFaults \subseteq {"open", "write"}
  /\ Spills \in BOOLEAN /\ ServerCrashes \in BOOLEAN /\ MaxLines \in Nat

VARIABLES
  file,    \* the whole lines of client-log-<IP>.txt before the first damaged one
  tail,    \* the id read from a last line without its newline; 0: there is none
  damaged, \* lines have been joined: what follows `file` is not followed
  hpc,     \* hpc[h]: the next step of h's thread
  last,    \* last[h]: last_acked_id
  msg,     \* msg[h]: the logs of the message still to be looked at
  buf,     \* buf[h]: lines in the stream that are not yet whole in the file
  begun,   \* the handlers of whose first line in buf a part is in the file
  bad,     \* the handlers whose stream has failed to write (std::ios::badbit)
  dropped  \* history: a line given to a stream never reached the file whole

hvars == <<file, tail, damaged, hpc, last, msg, buf, begun, bad, dropped>>

\* What the handler looks at: the id; the client stands for the rest.
HLog == [id : Nat, ev : Events]

HandlerTypeOK ==
  /\ file \in Seq(HLog) /\ tail \in Nat /\ damaged \in BOOLEAN
  /\ hpc \in [Handlers -> {"recv", "append", "close"}]
  /\ last \in [Handlers -> Nat]
  /\ msg \in [Handlers -> Seq(HLog)]
  /\ buf \in [Handlers -> Seq(HLog)]
  /\ begun \subseteq Handlers /\ bad \subseteq Handlers
  /\ dropped \in BOOLEAN

HandlerInit ==
  /\ file = <<>> /\ tail = 0 /\ damaged = FALSE
  /\ hpc = [h \in Handlers |-> "recv"]
  /\ last = [h \in Handlers |-> 0]
  /\ msg = [h \in Handlers |-> <<>>]
  /\ buf = [h \in Handlers |-> <<>>]
  /\ begun = {} /\ bad = {} /\ dropped = FALSE
-----------------------------------------------------------------------------
\* The id of the last whole line; an empty or absent file counts as 0.
LastLineId(f) == IF f = <<>> THEN 0 ELSE f[Len(f)].id

\* What may be read as the last id: an unfinished line counts as a line.
LastIds ==
  IF damaged THEN Misread ELSE {IF tail # 0 THEN tail ELSE LastLineId(file)}

\* handle_recv_log deduces the last stored id from the file's last line and
\* opens the file for appending.  If that fails it returns without an answer.
RecvLog(h, m) ==
  /\ hpc[h] = "recv"
  /\ \/ /\ "open" \in DiskFaults
        /\ UNCHANGED <<hpc, last, msg, buf>>
     \/ /\ \E id \in LastIds : last' = [last EXCEPT ![h] = id]
        /\ msg' = [msg EXCEPT ![h] = m]
        /\ buf' = [buf EXCEPT ![h] = <<>>]
        /\ hpc' = [hpc EXCEPT ![h] = "append"]
  /\ UNCHANGED <<file, tail, damaged, begun, bad, dropped>>

\* A line given to a stream goes into its buffer, unless the stream is bad.
Buffer(h, log) ==
  IF h \in bad
  THEN dropped' = TRUE /\ UNCHANGED buf
  ELSE buf' = [buf EXCEPT ![h] = Append(buf[h], log)] /\ UNCHANGED dropped

\* Mutation: any id above the last one is accepted.
AppendLog_Gap(h) ==
  /\ hpc[h] = "append" /\ msg[h] # <<>>
  /\ msg' = [msg EXCEPT ![h] = Tail(msg[h])]
  /\ \/ /\ msg[h][1].id > last[h]
        /\ Buffer(h, msg[h][1])
        /\ last' = [last EXCEPT ![h] = msg[h][1].id]
     \/ /\ msg[h][1].id <= last[h]
        /\ UNCHANGED <<buf, last, dropped>>
  /\ UNCHANGED <<file, tail, damaged, hpc, begun, bad>>

\* Mutation: last_acked_id may go back below zero.
AppendLog_Back(h) ==
  /\ hpc[h] = "append" /\ msg[h] # <<>>
  /\ msg' = [msg EXCEPT ![h] = Tail(msg[h])]
  /\ \/ /\ msg[h][1].id = last[h] + 1
        /\ Buffer(h, msg[h][1])
        /\ last' = [last EXCEPT ![h] = last[h] + 1]
     \/ /\ msg[h][1].id # last[h] + 1
        /\ last' = [last EXCEPT ![h] = last[h] - 1]
        /\ UNCHANGED <<buf, dropped>>
  /\ UNCHANGED <<file, tail, damaged, hpc, begun, bad>>

\* The next log of the message goes into the stream if its id is the
\* successor of the last one, and is skipped otherwise.
AppendLog(h) ==
  /\ hpc[h] = "append" /\ msg[h] # <<>>
  /\ msg' = [msg EXCEPT ![h] = Tail(msg[h])]
  /\ \/ /\ msg[h][1].id = last[h] + 1
        /\ Buffer(h, msg[h][1])
        /\ last' = [last EXCEPT ![h] = last[h] + 1]
     \/ /\ msg[h][1].id # last[h] + 1
        /\ UNCHANGED <<buf, last, dropped>>
  /\ UNCHANGED <<file, tail, damaged, hpc, begun, bad>>
-----------------------------------------------------------------------------
\* h's text would continue a line that h has not begun.
Joins(h) == damaged \/ (tail # 0 /\ h \notin begun)

\* After n lines h's text may stop within the next.  What is read from such a
\* line is a smaller number if it stops within the id, and otherwise the id.
Cuts(h, n) ==
  IF n = Len(buf[h]) THEN {}
  ELSE (IF n = 0 /\ h \in begun THEN tail ELSE 1) .. buf[h][n + 1].id

\* h's text reaches the file: n lines, and the next one up to cut t (0: none).
Write(h, n, t) ==
  \/ n = 0 /\ t = 0 /\ UNCHANGED <<file, tail, damaged>>
  \/ /\ n # 0 \/ t # 0
     /\ Joins(h)
     /\ damaged' = TRUE /\ UNCHANGED <<file, tail>>
  \/ /\ n # 0 \/ t # 0
     /\ ~Joins(h)
     /\ file' = file \o SubSeq(buf[h], 1, n) /\ tail' = t
     /\ UNCHANGED damaged

\* Some of the buffered text goes to the file: the buffer is full, or the
\* closing write has got that far.
Spill(h) ==
  /\ Spills /\ hpc[h] \in {"append", "close"} /\ h \notin bad
  /\ \E n \in 0 .. Len(buf[h]) : \E t \in {0} \cup Cuts(h, n) :
       /\ n # 0 \/ t # 0
       /\ Write(h, n, t)
       /\ buf' = [buf EXCEPT ![h] = SubSeq(buf[h], n + 1, Len(buf[h]))]
       /\ begun' = IF t # 0 THEN begun \cup {h} ELSE begun \ {h}
  /\ UNCHANGED <<hpc, last, msg, bad, dropped>>

\* A write fails: the stream takes no more text, which nobody notices.
StreamFails(h) ==
  /\ "write" \in DiskFaults /\ hpc[h] \in {"append", "close"}
  /\ h \notin bad /\ buf[h] # <<>>
  /\ bad' = bad \cup {h}
  /\ UNCHANGED <<file, tail, damaged, hpc, last, msg, buf, begun, dropped>>

\* All logs looked at: the ack is published, the stream still open.
SendAck(h) ==
  /\ hpc[h] = "append" /\ msg[h] = <<>>
  /\ hpc' = [hpc EXCEPT ![h] = "close"]
  /\ UNCHANGED <<file, tail, damaged, last, msg, buf, begun, bad, dropped>>

\* The stream of h is gone.
Closed(h) ==
  /\ buf' = [buf EXCEPT ![h] = <<>>]
  /\ begun' = begun \ {h} /\ bad' = bad \ {h}
  /\ hpc' = [hpc EXCEPT ![h] = "recv"]
  /\ UNCHANGED <<last, msg>>

\* Mutation: the last line is written without its newline.
CloseFile_NoNewline(h) ==
  /\ hpc[h] = "close"
  /\ \/ buf[h] = <<>> /\ UNCHANGED <<file, tail, damaged>>
     \/ /\ buf[h] # <<>>
        /\ Write(h, Len(buf[h]) - 1, buf[h][Len(buf[h])].id)
  /\ UNCHANGED dropped
  /\ Closed(h)

\* handle_recv_log returns and the stream is destroyed, which writes its
\* buffer.  What the library does then with a stream that has failed is its
\* own affair: it may give up, try again and get on, or write once more what
\* the first attempt had already written.
CloseFile(h) ==
  /\ hpc[h] = "close"
  /\ \/ Write(h, Len(buf[h]), 0) /\ UNCHANGED dropped
     \/ /\ h \in bad /\ dropped' = TRUE
        /\ \/ \E n \in 0 .. Len(buf[h]) - 1 : \E t \in {0} \cup Cuts(h, n) : Write(h, n, t)
           \/ damaged' = TRUE /\ UNCHANGED <<file, tail>>
  /\ Closed(h)

\* The server ends: what the streams buffered is lost.
ServerEnds ==
  /\ hpc' = [h \in Handlers |-> "recv"]
  /\ last' = [h \in Handlers |-> 0]
  /\ msg' = [h \in Handlers |-> <<>>]
  /\ buf' = [h \in Handlers |-> <<>>]
  /\ begun' = {} /\ bad' = {}
  /\ dropped' = (dropped \/ \E h \in Handlers : buf[h] # <<>>)
  /\ UNCHANGED <<file, tail, damaged>>

\* The server is killed and started again.
ServerCrash == ServerCrashes /\ ServerEnds

HandlerStep(h) ==
  AppendLog(h) \/ Spill(h) \/ StreamFails(h) \/ SendAck(h) \/ CloseFile(h)

\* On its own, the handler is sent any run of consecutive ids of its client:
\* the client peeks its queue and sends it again until it is acked.
Run(c, lo, hi) == [i \in 1 .. hi - lo + 1 |-> [id |-> lo + i - 1, ev |-> c]]

AnyMessage(h) ==
  /\ Len(file) < MaxLines
  /\ \E lo, hi \in Ids : lo <= hi /\ RecvLog(h, Run(Peer[h], lo, hi))

HandlerNext == ServerCrash \/ \E h \in Handlers : AnyMessage(h) \/ HandlerStep(h)

HandlerSpec == HandlerInit /\ [][HandlerNext]_hvars
-----------------------------------------------------------------------------
(***************************************************************************)
(* Properties                                                              *)
(***************************************************************************)

\* Up to the first damaged line the file holds the ids 1, 2, 3, ... : every
\* log exactly once and in order, whatever is sent, skipped, repeated, or cut
\* off by a kill in the middle of a line.
StoredInOrder == \A i \in DOMAIN file : file[i].id = i

\* With one connection at a time, lines are joined only after the server was
\* ended, or a write failed, with lines in a stream: handle_recv_log by itself
\* never leaves a line for another one to continue.
DamagedByLossOnly == damaged => dropped

\* Even when several handlers append to the file at once, which repeats ids
\* and may join lines, no line before the first damaged one is written before
\* every smaller id has been, also when last_acked_id was read from a line
\* that another handler had only begun.
NoHole ==
  \A i \in DOMAIN file : \A n \in 1 .. file[i].id :
    \E j \in 1 .. i : file[j].id = n
=============================================================================
