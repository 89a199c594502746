-------------------------- MODULE LogDeliveryProofs --------------------------
(***************************************************************************)
(* Proofs about ClientHandler, for any number of handlers of one file, and *)
(* about LogDelivery: the client's queue and the server's handlers joined  *)
(* by connections that lose and reorder messages, for any number of logs,  *)
(* connections and batches in flight.                                      *)
(***************************************************************************)
EXTENDS LogDelivery, LogQueueProofs, TLAPS

-----------------------------------------------------------------------------
(***************************************************************************)
(* The server's handlers alone, for any number of them and any ids.        *)
(***************************************************************************)

\* The handlers' steps when they may be sent anything and the server may end
\* at any time.
AnyLogs(h)     == \E m \in Seq(HLog) : RecvLog(h, m)
AnyHandlerNext == ServerEnds \/ \E h \in Handlers : AnyLogs(h) \/ HandlerStep(h)

\* The messages a handler is sent are sequences of logs.
LEMMA RunType ==
  ASSUME NEW c \in Events, NEW lo \in Nat, NEW hi \in Nat, lo <= hi
  PROVE  Run(c, lo, hi) \in Seq(HLog)
<1> DEFINE n == hi - lo + 1
           g(i) == [id |-> lo + i - 1, ev |-> c]
<1>1. n \in Nat
  OBVIOUS
<1>2. \A i \in 1 .. n : g(i) \in HLog
  BY DEF HLog
<1> QED
  BY <1>1, <1>2 DEF Run

\* What a sequence of logs becomes when one more, or one less, is in it.
LEMMA LogSeqs ==
  ASSUME NEW s \in Seq(HLog), NEW e \in HLog, NEW t \in Seq(HLog)
  PROVE  /\ Append(s, e) \in Seq(HLog)
         /\ s \o t \in Seq(HLog)
         /\ s # <<>> => Tail(s) \in Seq(HLog) /\ s[1] \in HLog
OBVIOUS

\* A sequence of logs cut in two.
LEMMA SplitLogs ==
  ASSUME NEW s \in Seq(HLog), NEW n \in 0 .. Len(s)
  PROVE  LET u == SubSeq(s, 1, n)
             r == SubSeq(s, n + 1, Len(s))
         IN  /\ u \in Seq(HLog) /\ Len(u) = n /\ \A i \in 1 .. n : u[i] = s[i]
             /\ r \in Seq(HLog) /\ Len(r) = Len(s) - n
             /\ \A i \in 1 .. Len(s) - n : r[i] = s[n + i]
OBVIOUS

\* The last line of a file of logs has an id; an empty file counts as 0.
LEMMA LastLineIdType ==
  ASSUME NEW f \in Seq(HLog)
  PROVE  LastLineId(f) \in Nat
<1>1. CASE f = <<>>
  BY <1>1 DEF LastLineId
<1>2. CASE f # <<>>
  <2>1. Len(f) \in DOMAIN f
    BY <1>2
  <2>2. f[Len(f)] \in HLog
    BY <2>1
  <2> QED
    BY <1>2, <2>2 DEF LastLineId, HLog
<1> QED
  BY <1>1, <1>2

\* The runs of consecutive ids that ClientHandler is sent are among those.
LEMMA RunsAreLogs == [HandlerNext]_hvars => [AnyHandlerNext]_hvars
<1>1. ASSUME NEW h \in Handlers, AnyMessage(h) PROVE AnyLogs(h)
  <2>1. PICK lo \in Ids, hi \in Ids : lo <= hi /\ RecvLog(h, Run(Peer[h], lo, hi))
    BY <1>1 DEF AnyMessage
  <2>2. Run(Peer[h], lo, hi) \in Seq(HLog)
    BY <2>1, RunType, HandlerAssumption
  <2> QED
    BY <2>1, <2>2 DEF AnyLogs
<1>2. ServerCrash => ServerEnds
  BY DEF ServerCrash
<1> QED
  BY <1>1, <1>2 DEF HandlerNext, AnyHandlerNext
-----------------------------------------------------------------------------
(***************************************************************************)
(* What a stream writes: n lines of its buffer and the next up to cut t.   *)
(***************************************************************************)

\* t is a cut of the line after n lines of h's buffer, or there is none.
IsCut(h, n, t) ==
  \/ t = 0
  \/ /\ n < Len(buf[h]) /\ t <= buf[h][n + 1].id
     /\ n = 0 /\ h \in begun => tail <= t

\* h's text has been written and continues no other line.
Flushed(h, n, t) ==
  /\ n \in 0 .. Len(buf[h]) /\ t \in Nat /\ IsCut(h, n, t) /\ (n # 0 \/ t # 0)
  /\ ~Joins(h) /\ ~damaged /\ UNCHANGED damaged
  /\ file' = file \o SubSeq(buf[h], 1, n) /\ tail' = t

LEMMA CutType ==
  ASSUME HandlerTypeOK, NEW h \in Handlers, NEW n \in 0 .. Len(buf[h]),
         NEW t \in {0} \cup Cuts(h, n)
  PROVE  t \in Nat /\ IsCut(h, n, t)
<1>0. buf[h] \in Seq(HLog) /\ tail \in Nat
  BY DEF HandlerTypeOK
<1>1. CASE t = 0
  BY <1>1 DEF IsCut
<1>2. CASE t # 0
  <2>1. n \in Nat /\ n < Len(buf[h]) /\ t \in Cuts(h, n)
    BY <1>0, <1>2 DEF Cuts
  <2>2. buf[h][n + 1] \in HLog
    BY <1>0, <2>1
  <2>3. t \in (IF n = 0 /\ h \in begun THEN tail ELSE 1) .. buf[h][n + 1].id
    BY <1>0, <2>1 DEF Cuts
  <2> QED
    BY <1>0, <2>1, <2>2, <2>3 DEF IsCut, HLog
<1> QED
  BY <1>1, <1>2

LEMMA WriteEffect ==
  ASSUME HandlerTypeOK, NEW h \in Handlers, NEW n \in 0 .. Len(buf[h]),
         NEW t \in {0} \cup Cuts(h, n), Write(h, n, t)
  PROVE  \/ n = 0 /\ t = 0 /\ UNCHANGED <<file, tail, damaged>>
         \/ Joins(h) /\ damaged' = TRUE /\ UNCHANGED <<file, tail>>
         \/ Flushed(h, n, t)
<1>1. ASSUME ~Joins(h) PROVE ~damaged
  BY <1>1 DEF Joins
<1>2. t \in Nat /\ IsCut(h, n, t)
  BY CutType
<1> QED
  BY <1>1, <1>2 DEF Write, Flushed

LEMMA SpillEffect ==
  ASSUME HandlerTypeOK, NEW h \in Handlers, Spill(h)
  PROVE  /\ hpc[h] \in {"append", "close"} /\ UNCHANGED <<hpc, last, msg, bad, dropped>>
         /\ \E n \in 0 .. Len(buf[h]), t \in Nat :
              /\ \/ Joins(h) /\ damaged' = TRUE /\ UNCHANGED <<file, tail>>
                 \/ Flushed(h, n, t)
              /\ buf' = [buf EXCEPT ![h] = SubSeq(buf[h], n + 1, Len(buf[h]))]
              /\ begun' = IF t # 0 THEN begun \cup {h} ELSE begun \ {h}
<1>1. PICK n \in 0 .. Len(buf[h]) : \E t \in {0} \cup Cuts(h, n) :
        /\ n # 0 \/ t # 0
        /\ Write(h, n, t)
        /\ buf' = [buf EXCEPT ![h] = SubSeq(buf[h], n + 1, Len(buf[h]))]
        /\ begun' = IF t # 0 THEN begun \cup {h} ELSE begun \ {h}
  BY DEF Spill
<1>2. PICK t \in {0} \cup Cuts(h, n) :
        /\ n # 0 \/ t # 0
        /\ Write(h, n, t)
        /\ buf' = [buf EXCEPT ![h] = SubSeq(buf[h], n + 1, Len(buf[h]))]
        /\ begun' = IF t # 0 THEN begun \cup {h} ELSE begun \ {h}
  BY <1>1
<1>3. \/ Joins(h) /\ damaged' = TRUE /\ UNCHANGED <<file, tail>>
      \/ Flushed(h, n, t)
  BY <1>2, WriteEffect
<1>4. t \in Nat
  BY CutType
<1> QED
  BY <1>2, <1>3, <1>4 DEF Spill

LEMMA CloseEffect ==
  ASSUME HandlerTypeOK, NEW h \in Handlers, CloseFile(h)
  PROVE  /\ hpc[h] = "close" /\ Closed(h)
         /\ \/ /\ damaged' = TRUE /\ UNCHANGED <<file, tail>>
               /\ dropped' = TRUE \/ (Joins(h) /\ UNCHANGED dropped)
            \/ UNCHANGED <<file, tail, damaged>> /\ dropped' = TRUE
            \/ UNCHANGED <<file, tail, damaged, dropped>> /\ buf[h] = <<>>
            \/ Flushed(h, Len(buf[h]), 0) /\ UNCHANGED dropped
            \/ dropped' = TRUE /\ \E n \in 0 .. Len(buf[h]), t \in Nat : Flushed(h, n, t)
<1>0. buf[h] \in Seq(HLog) /\ Len(buf[h]) \in 0 .. Len(buf[h])
  BY DEF HandlerTypeOK
<1>1. hpc[h] = "close" /\ Closed(h)
  BY DEF CloseFile
<1>2. CASE Write(h, Len(buf[h]), 0) /\ UNCHANGED dropped
  <2>1. \/ Len(buf[h]) = 0 /\ UNCHANGED <<file, tail, damaged>>
        \/ Joins(h) /\ damaged' = TRUE /\ UNCHANGED <<file, tail>>
        \/ Flushed(h, Len(buf[h]), 0)
    BY <1>0, <1>2, WriteEffect
  <2>2. Len(buf[h]) = 0 => buf[h] = <<>>
    BY <1>0
  <2> QED
    BY <1>1, <1>2, <2>1, <2>2
<1>3. CASE /\ dropped' = TRUE
           /\ \E n \in 0 .. Len(buf[h]) - 1 : \E t \in {0} \cup Cuts(h, n) : Write(h, n, t)
  <2>1. PICK n \in 0 .. Len(buf[h]) - 1 : \E t \in {0} \cup Cuts(h, n) : Write(h, n, t)
    BY <1>3
  <2>2. PICK t \in {0} \cup Cuts(h, n) : Write(h, n, t)
    BY <2>1
  <2>3. n \in 0 .. Len(buf[h])
    BY <1>0
  <2>4. t \in Nat
    BY <2>3, CutType
  <2>5. \/ UNCHANGED <<file, tail, damaged>>
        \/ damaged' = TRUE /\ UNCHANGED <<file, tail>>
        \/ Flushed(h, n, t)
    BY <2>2, <2>3, WriteEffect
  <2> QED
    BY <1>1, <1>3, <2>3, <2>4, <2>5
<1>4. CASE dropped' = TRUE /\ damaged' = TRUE /\ UNCHANGED <<file, tail>>
  BY <1>1, <1>4
<1> QED
  BY <1>2, <1>3, <1>4 DEF CloseFile

\* A line looked at.
LEMMA AppendEffect ==
  ASSUME HandlerTypeOK, NEW h \in Handlers, AppendLog(h)
  PROVE  /\ hpc[h] = "append" /\ msg[h] # <<>> /\ msg[h][1] \in HLog
         /\ msg' = [msg EXCEPT ![h] = Tail(msg[h])] /\ msg' \in [Handlers -> Seq(HLog)]
         /\ UNCHANGED <<file, tail, damaged, hpc, begun, bad>>
         /\ \/ UNCHANGED <<buf, last, dropped>>
            \/ /\ msg[h][1].id = last[h] + 1
               /\ last' = [last EXCEPT ![h] = last[h] + 1]
               /\ \/ h \in bad /\ dropped' = TRUE /\ UNCHANGED buf
                  \/ /\ h \notin bad /\ UNCHANGED dropped
                     /\ buf' = [buf EXCEPT ![h] = Append(buf[h], msg[h][1])]
<1>1. msg[h] \in Seq(HLog) /\ msg[h] # <<>>
  BY DEF AppendLog, HandlerTypeOK
<1>2. msg[h][1] \in HLog /\ Tail(msg[h]) \in Seq(HLog)
  BY <1>1, LogSeqs
<1>3. msg' \in [Handlers -> Seq(HLog)]
  BY <1>2 DEF AppendLog, HandlerTypeOK
<1> QED
  BY <1>1, <1>2, <1>3 DEF AppendLog, Buffer

\* A message read.
LEMMA RecvEffect ==
  ASSUME HandlerTypeOK, NEW h \in Handlers, NEW m, RecvLog(h, m)
  PROVE  /\ hpc[h] = "recv" /\ UNCHANGED <<file, tail, damaged, begun, bad, dropped>>
         /\ \/ UNCHANGED <<hpc, last, msg, buf>>
            \/ /\ hpc' = [hpc EXCEPT ![h] = "append"]
               /\ msg' = [msg EXCEPT ![h] = m] /\ buf' = [buf EXCEPT ![h] = <<>>]
               /\ \E id \in Nat :
                    /\ last' = [last EXCEPT ![h] = id]
                    /\ ~damaged => id = IF tail # 0 THEN tail ELSE LastLineId(file)
<1>1. LastLineId(file) \in Nat /\ tail \in Nat
  BY LastLineIdType DEF HandlerTypeOK
<1>2. ASSUME NEW id \in LastIds
      PROVE  id \in Nat /\ (~damaged => id = IF tail # 0 THEN tail ELSE LastLineId(file))
  BY <1>1, HandlerAssumption DEF LastIds
<1> QED
  BY <1>2 DEF RecvLog

LEMMA HandlerTypeStep == HandlerTypeOK /\ [AnyHandlerNext]_hvars => HandlerTypeOK'
<1> SUFFICES ASSUME HandlerTypeOK, [AnyHandlerNext]_hvars PROVE HandlerTypeOK'
  OBVIOUS
<1>0. /\ file \in Seq(HLog) /\ tail \in Nat /\ damaged \in BOOLEAN /\ dropped \in BOOLEAN
      /\ hpc \in [Handlers -> {"recv", "append", "close"}] /\ last \in [Handlers -> Nat]
      /\ msg \in [Handlers -> Seq(HLog)] /\ buf \in [Handlers -> Seq(HLog)]
      /\ begun \subseteq Handlers /\ bad \subseteq Handlers
  BY DEF HandlerTypeOK
<1>f. ASSUME NEW h \in Handlers, NEW n, NEW t, Flushed(h, n, t)
      PROVE  file' \in Seq(HLog) /\ tail' \in Nat /\ damaged' \in BOOLEAN
  <2>1. SubSeq(buf[h], 1, n) \in Seq(HLog)
    BY <1>0, <1>f, SplitLogs DEF Flushed
  <2> QED
    BY <1>0, <1>f, <2>1, LogSeqs DEF Flushed
<1>1. CASE ServerEnds
  BY <1>0, <1>1 DEF ServerEnds, HandlerTypeOK
<1>2. ASSUME NEW h \in Handlers, AnyLogs(h) PROVE HandlerTypeOK'
  <2>1. PICK m \in Seq(HLog) : RecvLog(h, m)
    BY <1>2 DEF AnyLogs
  <2>2. CASE UNCHANGED <<hpc, last, msg, buf>>
    BY <2>1, <2>2, RecvEffect DEF HandlerTypeOK
  <2>3. CASE /\ hpc' = [hpc EXCEPT ![h] = "append"]
             /\ msg' = [msg EXCEPT ![h] = m] /\ buf' = [buf EXCEPT ![h] = <<>>]
             /\ \E id \in Nat : last' = [last EXCEPT ![h] = id]
    <3>1. UNCHANGED <<file, tail, damaged, begun, bad, dropped>>
      BY <2>1, RecvEffect
    <3>2. last' \in [Handlers -> Nat] /\ hpc' \in [Handlers -> {"recv", "append", "close"}]
      BY <1>0, <2>3
    <3>3. msg' \in [Handlers -> Seq(HLog)] /\ buf' \in [Handlers -> Seq(HLog)]
      BY <1>0, <2>3
    <3> QED
      BY <1>0, <3>1, <3>2, <3>3 DEF HandlerTypeOK
  <2> QED
    BY <2>1, <2>2, <2>3, RecvEffect
<1>3. ASSUME NEW h \in Handlers, AppendLog(h) PROVE HandlerTypeOK'
  <2>1. Append(buf[h], msg[h][1]) \in Seq(HLog)
    BY <1>0, <1>3, AppendEffect, LogSeqs
  <2>2. buf' \in [Handlers -> Seq(HLog)] /\ dropped' \in BOOLEAN
    <3>1. \/ buf' = buf
          \/ buf' = [buf EXCEPT ![h] = Append(buf[h], msg[h][1])]
      BY <1>3, AppendEffect
    <3>2. dropped' = dropped \/ dropped' = TRUE
      BY <1>3, AppendEffect
    <3> QED
      BY <1>0, <2>1, <3>1, <3>2
  <2>3. last' \in [Handlers -> Nat]
    <3>1. last' = last \/ last' = [last EXCEPT ![h] = last[h] + 1]
      BY <1>3, AppendEffect
    <3>2. last[h] + 1 \in Nat
      BY <1>0
    <3> QED
      BY <1>0, <3>1, <3>2
  <2> QED
    BY <1>0, <1>3, <2>2, <2>3, AppendEffect DEF HandlerTypeOK
<1>4. ASSUME NEW h \in Handlers, Spill(h) PROVE HandlerTypeOK'
  <2>1. PICK n \in 0 .. Len(buf[h]), t \in Nat :
          /\ \/ damaged' = TRUE /\ UNCHANGED <<file, tail>>
             \/ Flushed(h, n, t)
          /\ buf' = [buf EXCEPT ![h] = SubSeq(buf[h], n + 1, Len(buf[h]))]
          /\ begun' = IF t # 0 THEN begun \cup {h} ELSE begun \ {h}
    BY <1>4, SpillEffect
  <2>2. SubSeq(buf[h], n + 1, Len(buf[h])) \in Seq(HLog)
    BY <1>0, SplitLogs
  <2>3. buf' \in [Handlers -> Seq(HLog)] /\ begun' \subseteq Handlers
    BY <1>0, <2>1, <2>2
  <2>4. file' \in Seq(HLog) /\ tail' \in Nat /\ damaged' \in BOOLEAN
    BY <1>0, <1>f, <2>1
  <2> QED
    BY <1>0, <1>4, <2>3, <2>4, SpillEffect DEF HandlerTypeOK
<1>5. ASSUME NEW h \in Handlers, StreamFails(h) \/ SendAck(h) PROVE HandlerTypeOK'
  BY <1>0, <1>5 DEF StreamFails, SendAck, HandlerTypeOK
<1>6. ASSUME NEW h \in Handlers, CloseFile(h) PROVE HandlerTypeOK'
  <2>1. file' \in Seq(HLog) /\ tail' \in Nat /\ damaged' \in BOOLEAN
    BY <1>0, <1>f, <1>6, CloseEffect
  <2>2. dropped' \in BOOLEAN
    BY <1>0, <1>6, CloseEffect
  <2>3. Closed(h)
    BY <1>6, CloseEffect
  <2>4. buf' \in [Handlers -> Seq(HLog)]
    BY <1>0, <2>3 DEF Closed
  <2>5. begun' \subseteq Handlers /\ bad' \subseteq Handlers
    BY <1>0, <2>3 DEF Closed
  <2>6. hpc' \in [Handlers -> {"recv", "append", "close"}] /\ UNCHANGED <<last, msg>>
    BY <1>0, <2>3 DEF Closed
  <2> QED
    BY <1>0, <2>1, <2>2, <2>4, <2>5, <2>6 DEF HandlerTypeOK
<1>7. CASE UNCHANGED hvars
  BY <1>0, <1>7 DEF hvars, HandlerTypeOK
<1> QED
  BY <1>1, <1>2, <1>3, <1>4, <1>5, <1>6, <1>7 DEF AnyHandlerNext, HandlerStep

LEMMA HandlerTypeStarts == HandlerInit => HandlerTypeOK
<1> SUFFICES ASSUME HandlerInit PROVE HandlerTypeOK
  OBVIOUS
<1>1. damaged \in BOOLEAN /\ dropped \in BOOLEAN
  BY Zenon DEF HandlerInit
<1>5. file \in Seq(HLog) /\ tail \in Nat
  BY DEF HandlerInit
<1>2. hpc \in [Handlers -> {"recv", "append", "close"}] /\ last \in [Handlers -> Nat]
  BY DEF HandlerInit
<1>3. msg \in [Handlers -> Seq(HLog)] /\ buf \in [Handlers -> Seq(HLog)]
  BY DEF HandlerInit
<1>4. begun \subseteq Handlers /\ bad \subseteq Handlers
  BY DEF HandlerInit
<1> QED
  BY <1>1, <1>2, <1>3, <1>4, <1>5 DEF HandlerTypeOK

\* Every variable keeps its type: handlers only move log records around.
THEOREM HandlerTypeCorrect == HandlerSpec => []HandlerTypeOK
<1>1. HandlerInit => HandlerTypeOK
  BY HandlerTypeStarts
<1> QED
  BY <1>1, HandlerTypeStep, RunsAreLogs, PTL DEF HandlerSpec

-----------------------------------------------------------------------------
(***************************************************************************)
(* NoHole.  It is not inductive: what a handler will append depends on     *)
(* last_acked_id, which was read from a file that others have extended     *)
(* since, or from a line that another handler has only begun.  What        *)
(* survives their writes is that every id up to last, and below every      *)
(* buffered line, is in the file, earlier in the buffer, or not above the  *)
(* number read from the unfinished line.                                   *)
(***************************************************************************)

Has(s, n) == \E j \in 1 .. Len(s) : s[j].id = n

HoleFree(s) ==
  \A i \in 1 .. Len(s) : \A n \in 1 .. s[i].id : \E j \in 1 .. i : s[j].id = n

\* The same for lines t that will follow s, where ids up to c are covered.
HoleFreeAfter(s, t, c) ==
  \A i \in 1 .. Len(t) : \A n \in 1 .. t[i].id :
    n <= c \/ Has(s, n) \/ \E j \in 1 .. i : t[j].id = n

Reaches(s, t, m, c) == \A n \in 1 .. m : n <= c \/ Has(s, n) \/ Has(t, n)

\* The ids that h may take for stored: those of the line another has begun.
Cover(h) == IF h \in begun THEN 0 ELSE tail

\* The unfinished line is the first in the buffer of the handler that has
\* begun it; without that handler, the line was lost.
TailInv ==
  /\ tail # 0 \/ begun = {}
  /\ \A g, h \in begun : g = h
  /\ \A h \in begun : hpc[h] # "recv" /\ buf[h] # <<>> /\ tail <= buf[h][1].id
  /\ tail # 0 /\ ~dropped => begun # {}

\* What h will write leaves no hole; its number counts lines it has dropped.
HandlerCovered(h) ==
  /\ HoleFreeAfter(file, buf[h], Cover(h))
  /\ (dropped /\ h \in bad) \/ Reaches(file, buf[h], last[h], Cover(h))

NoHoleInv ==
  /\ HoleFree(file)
  /\ damaged \/ (TailInv /\ \A h \in Handlers : hpc[h] # "recv" => HandlerCovered(h))

\* What is in a sequence is in it after an extension.
LEMMA HasExtended ==
  ASSUME NEW s \in Seq(HLog), NEW u \in Seq(HLog), NEW n \in Nat
  PROVE  /\ Has(s, n) => Has(s \o u, n)
         /\ Has(u, n) => Has(s \o u, n)
<1>1. ASSUME Has(s, n) PROVE Has(s \o u, n)
  <2>1. PICK j \in 1 .. Len(s) : s[j].id = n
    BY <1>1 DEF Has
  <2>2. j \in 1 .. Len(s \o u) /\ (s \o u)[j] = s[j]
    OBVIOUS
  <2> QED
    BY <2>1, <2>2 DEF Has
<1>2. ASSUME Has(u, n) PROVE Has(s \o u, n)
  <2>1. PICK j \in 1 .. Len(u) : u[j].id = n
    BY <1>2 DEF Has
  <2>2. Len(s) + j \in 1 .. Len(s \o u) /\ (s \o u)[Len(s) + j] = u[j]
    OBVIOUS
  <2> QED
    BY <2>1, <2>2 DEF Has
<1> QED
  BY <1>1, <1>2

\* The ids of logs are naturals, so the ids below one are too.
LEMMA IdsBelow ==
  ASSUME NEW s \in Seq(HLog), NEW i \in 1 .. Len(s)
  PROVE  s[i].id \in Nat /\ \A n \in 1 .. s[i].id : n \in Nat
<1>1. s[i] \in HLog
  OBVIOUS
<1> QED
  BY <1>1 DEF HLog

\* Another handler's write leaves a handler's own obligations in place, if
\* what the unfinished line covered is now in the file or still covered.
LEMMA AfterExtended ==
  ASSUME NEW s \in Seq(HLog), NEW u \in Seq(HLog), NEW t \in Seq(HLog), NEW m \in Nat,
         NEW c \in Nat, NEW d \in Nat, \A n \in 1 .. c : n <= d \/ Has(s \o u, n)
  PROVE  /\ HoleFreeAfter(s, t, c) => HoleFreeAfter(s \o u, t, d)
         /\ Reaches(s, t, m, c) => Reaches(s \o u, t, m, d)
<1>1. ASSUME HoleFreeAfter(s, t, c) PROVE HoleFreeAfter(s \o u, t, d)
  <2> SUFFICES ASSUME NEW i \in 1 .. Len(t), NEW n \in 1 .. t[i].id
               PROVE  n <= d \/ Has(s \o u, n) \/ \E j \in 1 .. i : t[j].id = n
    BY DEF HoleFreeAfter
  <2>1. n <= c \/ Has(s, n) \/ \E j \in 1 .. i : t[j].id = n
    BY <1>1 DEF HoleFreeAfter
  <2>2. n \in Nat /\ (n <= c => n \in 1 .. c)
    BY IdsBelow
  <2> QED
    BY <2>1, <2>2, HasExtended
<1>2. ASSUME Reaches(s, t, m, c) PROVE Reaches(s \o u, t, m, d)
  <2> SUFFICES ASSUME NEW n \in 1 .. m PROVE n <= d \/ Has(s \o u, n) \/ Has(t, n)
    BY DEF Reaches
  <2>1. n \in Nat /\ (n <= c => n \in 1 .. c) /\ (n <= c \/ Has(s, n) \/ Has(t, n))
    BY <1>2 DEF Reaches
  <2> QED
    BY <2>1, HasExtended
<1> QED
  BY <1>1, <1>2

\* Lines that reach the file leave no hole.
LEMMA HoleFreeConcat ==
  ASSUME NEW s \in Seq(HLog), NEW t \in Seq(HLog), HoleFree(s), HoleFreeAfter(s, t, 0)
  PROVE  HoleFree(s \o t)
<1> SUFFICES ASSUME NEW i \in 1 .. Len(s \o t), NEW n \in 1 .. (s \o t)[i].id
             PROVE  \E j \in 1 .. i : (s \o t)[j].id = n
  BY DEF HoleFree
<1>1. CASE i <= Len(s)
  <2>1. i \in 1 .. Len(s) /\ (s \o t)[i] = s[i]
    BY <1>1
  <2>2. PICK j \in 1 .. i : s[j].id = n
    BY <2>1 DEF HoleFree
  <2>3. (s \o t)[j] = s[j]
    BY <2>1
  <2> QED
    BY <2>2, <2>3
<1>2. CASE i > Len(s)
  <2> DEFINE k == i - Len(s)
  <2>1. k \in 1 .. Len(t) /\ (s \o t)[i] = t[k]
    BY <1>2
  <2>2. Has(s, n) \/ \E j \in 1 .. k : t[j].id = n
    <3>1. n \in 1 .. t[k].id /\ t[k].id \in Nat
      BY <2>1, IdsBelow
    <3> QED
      BY <2>1, <3>1 DEF HoleFreeAfter
  <2>3. CASE Has(s, n)
    <3>1. PICK j \in 1 .. Len(s) : s[j].id = n
      BY <2>3 DEF Has
    <3>2. j \in 1 .. i /\ (s \o t)[j] = s[j]
      BY <1>2
    <3> QED
      BY <3>1, <3>2
  <2>4. CASE \E j \in 1 .. k : t[j].id = n
    <3>1. PICK j \in 1 .. k : t[j].id = n
      BY <2>4
    <3>2. Len(s) + j \in 1 .. i /\ (s \o t)[Len(s) + j] = t[j]
      BY <2>1
    <3> QED
      BY <3>1, <3>2
  <2> QED
    BY <2>2, <2>3, <2>4
<1> QED
  BY <1>1, <1>2

\* A part u of the buffer b reaches the file, the rest r does not yet.
LEMMA HoleFreeSplit ==
  ASSUME NEW s \in Seq(HLog), NEW b \in Seq(HLog), NEW n \in 0 .. Len(b), NEW m \in Nat,
         HoleFree(s), HoleFreeAfter(s, b, 0)
  PROVE  LET u == SubSeq(b, 1, n)
             r == SubSeq(b, n + 1, Len(b))
         IN  /\ HoleFree(s \o u) /\ HoleFreeAfter(s \o u, r, 0)
             /\ Reaches(s, b, m, 0) => Reaches(s \o u, r, m, 0)
<1> DEFINE u == SubSeq(b, 1, n)
           r == SubSeq(b, n + 1, Len(b))
<1>0. /\ u \in Seq(HLog) /\ Len(u) = n /\ \A i \in 1 .. n : u[i] = b[i]
      /\ r \in Seq(HLog) /\ Len(r) = Len(b) - n
      /\ \A i \in 1 .. Len(b) - n : r[i] = b[n + i]
  BY SplitLogs
<1> HIDE DEF u, r
<1>1. HoleFreeAfter(s, u, 0)
  <2> SUFFICES ASSUME NEW i \in 1 .. n, NEW k \in 1 .. b[i].id
               PROVE  k <= 0 \/ Has(s, k) \/ \E j \in 1 .. i : u[j].id = k
    BY <1>0 DEF HoleFreeAfter
  <2>1. k <= 0 \/ Has(s, k) \/ \E j \in 1 .. i : b[j].id = k
    BY DEF HoleFreeAfter
  <2>2. \A j \in 1 .. i : u[j] = b[j]
    BY <1>0
  <2> QED
    BY <2>1, <2>2
<1>2. HoleFree(s \o u)
  BY <1>0, <1>1, HoleFreeConcat
<1>3. ASSUME NEW k \in Nat, NEW j \in 1 .. Len(b), b[j].id = k
      PROVE  Has(s \o u, k) \/ (j - n \in 1 .. Len(r) /\ r[j - n].id = k)
  <2>1. CASE j <= n
    <3>1. Has(u, k)
      BY <1>0, <1>3, <2>1 DEF Has
    <3> QED
      BY <1>0, <3>1, HasExtended
  <2>2. CASE j > n
    <3>1. j - n \in 1 .. Len(r) /\ n + (j - n) = j
      BY <1>0, <2>2
    <3> QED
      BY <1>0, <1>3, <3>1
  <2> QED
    BY <2>1, <2>2
<1>4. HoleFreeAfter(s \o u, r, 0)
  <2> SUFFICES ASSUME NEW i \in 1 .. Len(r), NEW k \in 1 .. r[i].id
               PROVE  Has(s \o u, k) \/ \E j \in 1 .. i : r[j].id = k
    BY DEF HoleFreeAfter
  <2>1. n + i \in 1 .. Len(b) /\ r[i] = b[n + i] /\ k \in Nat /\ k >= 1
    BY <1>0, IdsBelow
  <2>2. Has(s, k) \/ \E j \in 1 .. n + i : b[j].id = k
    BY <2>1 DEF HoleFreeAfter
  <2>3. CASE Has(s, k)
    BY <1>0, <2>1, <2>3, HasExtended
  <2>4. CASE \E j \in 1 .. n + i : b[j].id = k
    <3>1. PICK j \in 1 .. n + i : b[j].id = k
      BY <2>4
    <3>2. j \in 1 .. Len(b) /\ j - n <= i
      BY <2>1
    <3>3. Has(s \o u, k) \/ (j - n \in 1 .. Len(r) /\ r[j - n].id = k)
      BY <1>3, <2>1, <3>1, <3>2
    <3> QED
      BY <3>2, <3>3
  <2> QED
    BY <2>2, <2>3, <2>4
<1>5. ASSUME Reaches(s, b, m, 0) PROVE Reaches(s \o u, r, m, 0)
  <2> SUFFICES ASSUME NEW k \in 1 .. m PROVE Has(s \o u, k) \/ Has(r, k)
    BY DEF Reaches
  <2>1. k \in Nat /\ (Has(s, k) \/ Has(b, k))
    BY <1>5 DEF Reaches
  <2>2. CASE Has(s, k)
    BY <1>0, <2>1, <2>2, HasExtended
  <2>3. CASE Has(b, k)
    <3>1. PICK j \in 1 .. Len(b) : b[j].id = k
      BY <2>3 DEF Has
    <3> QED
      BY <1>3, <2>1, <3>1 DEF Has
  <2> QED
    BY <2>1, <2>2, <2>3
<1> QED
  BY <1>2, <1>4, <1>5 DEF u, r

\* The rule "id = last + 1" appends a line without leaving a hole.
LEMMA AppendNext ==
  ASSUME NEW s \in Seq(HLog), NEW t \in Seq(HLog), NEW m \in Nat, NEW e \in HLog, NEW c \in Nat,
         e.id = m + 1, HoleFreeAfter(s, t, c), Reaches(s, t, m, c)
  PROVE  HoleFreeAfter(s, Append(t, e), c) /\ Reaches(s, Append(t, e), m + 1, c)
<1> DEFINE u == Append(t, e)
<1>1. /\ Len(u) = Len(t) + 1 /\ u[Len(u)] = e
      /\ \A j \in 1 .. Len(t) : u[j] = t[j]
  OBVIOUS
<1>2. \A n \in 1 .. m + 1 : n <= c \/ Has(s, n) \/ \E j \in 1 .. Len(u) : u[j].id = n
  <2> TAKE n \in 1 .. m + 1
  <2>1. CASE n = m + 1
    BY <1>1, <2>1
  <2>2. CASE n \in 1 .. m
    BY <1>1, <2>2 DEF Reaches, Has
  <2> QED
    BY <2>1, <2>2
<1>3. Reaches(s, u, m + 1, c)
  BY <1>2 DEF Reaches, Has
<1>4. HoleFreeAfter(s, u, c)
  <2> SUFFICES ASSUME NEW i \in 1 .. Len(u), NEW n \in 1 .. u[i].id
               PROVE  n <= c \/ Has(s, n) \/ \E j \in 1 .. i : u[j].id = n
    BY DEF HoleFreeAfter
  <2>1. CASE i = Len(u)
    BY <1>1, <1>2, <2>1
  <2>2. CASE i \in 1 .. Len(t)
    <3>1. n <= c \/ Has(s, n) \/ \E j \in 1 .. i : t[j].id = n
      BY <1>1, <2>2 DEF HoleFreeAfter
    <3> QED
      BY <1>1, <2>2, <3>1
  <2> QED
    BY <1>1, <2>1, <2>2
<1> QED
  BY <1>3, <1>4

\* The last whole line of a file without holes tells how far it reaches.
LEMMA LastLineReaches ==
  ASSUME NEW s \in Seq(HLog), NEW c \in Nat, HoleFree(s)
  PROVE  HoleFreeAfter(s, <<>>, c) /\ Reaches(s, <<>>, LastLineId(s), c)
<1>1. HoleFreeAfter(s, <<>>, c)
  BY DEF HoleFreeAfter
<1>2. CASE s = <<>>
  <2>1. LastLineId(s) = 0
    BY <1>2 DEF LastLineId
  <2> QED
    BY <1>1, <2>1 DEF Reaches
<1>3. CASE s # <<>>
  <2>1. Len(s) \in 1 .. Len(s) /\ LastLineId(s) = s[Len(s)].id
    BY <1>3 DEF LastLineId
  <2> QED
    BY <1>1, <2>1 DEF HoleFree, Reaches, Has
<1> QED
  BY <1>1, <1>2, <1>3

\* The number read from an unfinished line goes no further than that line.
LEMMA TailReaches ==
  ASSUME NEW s \in Seq(HLog), NEW c \in Nat
  PROVE  HoleFreeAfter(s, <<>>, c) /\ Reaches(s, <<>>, c, c)
BY DEF HoleFreeAfter, Reaches

\* h's writes, if they join no line, keep the whole: u becomes lines, and r
\* stays in the buffer unless the stream is gone.
LEMMA FlushedKeeps ==
  ASSUME HandlerTypeOK, NoHoleInv, NEW h \in Handlers, hpc[h] # "recv",
         NEW n \in 0 .. Len(buf[h]), NEW t \in Nat, Flushed(h, n, t)
  PROVE  LET r == SubSeq(buf[h], n + 1, Len(buf[h]))
         IN  /\ TailInv /\ HoleFree(file')
             /\ HoleFreeAfter(file', r, 0)
             /\ (dropped /\ h \in bad) \/ Reaches(file', r, last[h], 0)
             /\ \A g \in Handlers \ {h} :
                  /\ g \notin begun
                  /\ hpc[g] # "recv" =>
                       /\ HoleFreeAfter(file', buf[g], t)
                       /\ (dropped /\ g \in bad) \/ Reaches(file', buf[g], last[g], t)
<1> DEFINE u == SubSeq(buf[h], 1, n)
           r == SubSeq(buf[h], n + 1, Len(buf[h]))
<1>0. /\ file \in Seq(HLog) /\ tail \in Nat /\ last[h] \in Nat
      /\ \A g \in Handlers : buf[g] \in Seq(HLog) /\ last[g] \in Nat
      /\ file' = file \o u /\ tail' = t /\ ~damaged /\ IsCut(h, n, t)
      /\ tail = 0 \/ h \in begun
  BY DEF HandlerTypeOK, Flushed, Joins
<1>1. /\ HoleFree(file) /\ TailInv
      /\ \A g \in Handlers : hpc[g] # "recv" => HandlerCovered(g)
  BY <1>0 DEF NoHoleInv
<1>2. Cover(h) = 0
  BY <1>0 DEF Cover
<1>3. /\ HoleFreeAfter(file, buf[h], 0)
      /\ (dropped /\ h \in bad) \/ Reaches(file, buf[h], last[h], 0)
  BY <1>1, <1>2 DEF HandlerCovered
<1>4. /\ HoleFree(file \o u) /\ HoleFreeAfter(file \o u, r, 0)
      /\ Reaches(file, buf[h], last[h], 0) => Reaches(file \o u, r, last[h], 0)
  BY <1>0, <1>1, <1>3, HoleFreeSplit
<1>5. u \in Seq(HLog) /\ Len(u) = n /\ \A i \in 1 .. n : u[i] = buf[h][i]
  BY <1>0, SplitLogs
<1> HIDE DEF u, r
\* What the unfinished line covered is in the file, or still covered by it.
<1>6. \A k \in 1 .. tail : k <= t \/ Has(file \o u, k)
  <2> SUFFICES ASSUME NEW k \in 1 .. tail PROVE k <= t \/ Has(file \o u, k)
    OBVIOUS
  <2>1. h \in begun /\ buf[h] # <<>> /\ tail <= buf[h][1].id
    BY <1>0, <1>1 DEF TailInv
  <2>2. CASE n = 0
    <3>1. t # 0
      BY <2>2 DEF Flushed
    <3> QED
      BY <1>0, <2>1, <2>2, <3>1 DEF IsCut
  <2>3. CASE n # 0
    <3>1. /\ 1 \in 1 .. Len(u) /\ u[1] = buf[h][1] /\ u[1] \in HLog
      BY <1>5, <2>3
    <3>2. k \in 1 .. u[1].id /\ k \in Nat
      BY <1>0, <2>1, <3>1 DEF HLog
    <3>3. Len(file) + 1 \in 1 .. Len(file \o u) /\ (file \o u)[Len(file) + 1] = u[1]
      BY <1>0, <1>5, <3>1
    <3>4. \E j \in 1 .. Len(file) + 1 : (file \o u)[j].id = k
      BY <1>4, <3>2, <3>3 DEF HoleFree
    <3> QED
      BY <1>0, <1>5, <3>3, <3>4 DEF Has
  <2> QED
    BY <2>2, <2>3
<1>7. ASSUME NEW g \in Handlers \ {h}
      PROVE  /\ g \notin begun
             /\ hpc[g] # "recv" =>
                  /\ HoleFreeAfter(file', buf[g], t)
                  /\ (dropped /\ g \in bad) \/ Reaches(file', buf[g], last[g], t)
  <2>1. g \notin begun
    BY <1>0, <1>1 DEF TailInv
  <2>2. Cover(g) = tail
    BY <2>1 DEF Cover
  <2>3. hpc[g] # "recv" =>
          /\ HoleFreeAfter(file, buf[g], tail)
          /\ (dropped /\ g \in bad) \/ Reaches(file, buf[g], last[g], tail)
    BY <1>1, <2>2 DEF HandlerCovered
  <2>4. /\ HoleFreeAfter(file, buf[g], tail) => HoleFreeAfter(file \o u, buf[g], t)
        /\ Reaches(file, buf[g], last[g], tail) => Reaches(file \o u, buf[g], last[g], t)
    BY <1>0, <1>5, <1>6, AfterExtended
  <2> QED
    BY <1>0, <2>1, <2>3, <2>4
<1> QED
  BY <1>0, <1>1, <1>3, <1>4, <1>7 DEF r

LEMMA TailStep ==
  ASSUME HandlerTypeOK, TailInv, ~damaged', NoHoleInv, [AnyHandlerNext]_hvars
  PROVE  TailInv'
<1>0. /\ hpc \in [Handlers -> {"recv", "append", "close"}] /\ begun \subseteq Handlers
      /\ buf \in [Handlers -> Seq(HLog)]
  BY DEF HandlerTypeOK
<1>1. CASE ServerEnds
  <2>1. begun' = {} /\ UNCHANGED tail
    BY <1>1 DEF ServerEnds
  <2>2. ASSUME tail # 0, ~dropped' PROVE FALSE
    <3>1. ~dropped /\ \A h \in Handlers : buf[h] = <<>>
      BY <1>1, <2>2 DEF ServerEnds
    <3>2. PICK h \in begun : buf[h] # <<>>
      BY <2>2, <3>1 DEF TailInv
    <3> QED
      BY <1>0, <3>1, <3>2
  <2> QED
    BY <2>1, <2>2 DEF TailInv
<1>2. ASSUME NEW h \in Handlers, AnyLogs(h) PROVE TailInv'
  <2>1. PICK m \in Seq(HLog) : RecvLog(h, m)
    BY <1>2 DEF AnyLogs
  <2>2. h \notin begun
    BY <2>1, RecvEffect DEF TailInv
  <2>3. UNCHANGED <<tail, begun, dropped>>
        /\ \A g \in Handlers \ {h} : hpc'[g] = hpc[g] /\ buf'[g] = buf[g]
    BY <1>0, <2>1, RecvEffect
  <2> QED
    BY <1>0, <2>2, <2>3 DEF TailInv
<1>3. ASSUME NEW h \in Handlers, AppendLog(h) PROVE TailInv'
  <2>1. UNCHANGED <<tail, begun, hpc>> /\ msg[h][1] \in HLog
    BY <1>3, AppendEffect
  <2>2. dropped' = dropped \/ dropped' = TRUE
    BY <1>3, AppendEffect
  <2>3. buf' = buf \/ buf' = [buf EXCEPT ![h] = Append(buf[h], msg[h][1])]
    BY <1>3, AppendEffect
  <2>4. ASSUME NEW g \in begun PROVE buf'[g] # <<>> /\ tail <= buf'[g][1].id
    <3>1. buf[g] # <<>> /\ tail <= buf[g][1].id /\ buf[g] \in Seq(HLog)
      BY <1>0 DEF TailInv
    <3>2. CASE buf'[g] = buf[g]
      BY <3>1, <3>2
    <3>3. CASE buf'[g] = Append(buf[g], msg[h][1])
      BY <2>1, <3>1, <3>3
    <3>4. buf'[g] = buf[g] \/ buf'[g] = Append(buf[g], msg[h][1])
      BY <1>0, <2>3
    <3> QED
      BY <3>2, <3>3, <3>4
  <2> QED
    BY <2>1, <2>2, <2>4 DEF TailInv
<1>4. ASSUME NEW h \in Handlers, Spill(h) PROVE TailInv'
  <2>1. PICK n \in 0 .. Len(buf[h]), t \in Nat :
          /\ \/ damaged' = TRUE /\ UNCHANGED <<file, tail>>
             \/ Flushed(h, n, t)
          /\ buf' = [buf EXCEPT ![h] = SubSeq(buf[h], n + 1, Len(buf[h]))]
          /\ begun' = IF t # 0 THEN begun \cup {h} ELSE begun \ {h}
    BY <1>4, SpillEffect
  <2>2. Flushed(h, n, t) /\ hpc[h] # "recv" /\ UNCHANGED <<hpc, dropped>>
    BY <1>4, <2>1, SpillEffect
  <2>3. /\ tail' = t /\ begun \subseteq {h}
        /\ begun' = IF t # 0 THEN {h} ELSE {}
    BY <1>0, <2>1, <2>2, FlushedKeeps DEF Flushed
  <2>4. ASSUME t # 0 PROVE buf'[h] # <<>> /\ tail' <= buf'[h][1].id
    <3>1. n < Len(buf[h]) /\ t <= buf[h][n + 1].id
      BY <2>2, <2>4 DEF Flushed, IsCut
    <3>2. buf'[h] = SubSeq(buf[h], n + 1, Len(buf[h])) /\ buf[h] \in Seq(HLog)
      BY <1>0, <2>1
    <3>3. Len(buf'[h]) = Len(buf[h]) - n /\ buf'[h][1] = buf[h][n + 1]
      BY <3>1, <3>2, SplitLogs
    <3>4. tail' <= buf'[h][1].id
      BY <2>3, <3>1, <3>3
    <3>5. Len(buf'[h]) # 0
      BY <3>1, <3>2, <3>3
    <3>6. buf'[h] # <<>>
      BY <3>5
    <3> QED
      BY <3>4, <3>6
  <2> QED
    BY <2>2, <2>3, <2>4 DEF TailInv
<1>5. ASSUME NEW h \in Handlers, StreamFails(h) \/ SendAck(h) PROVE TailInv'
  BY <1>0, <1>5 DEF StreamFails, SendAck, TailInv
<1>6. ASSUME NEW h \in Handlers, CloseFile(h) PROVE TailInv'
  <2>1. hpc[h] = "close" /\ Closed(h)
    BY <1>6, CloseEffect
  <2>2. /\ begun' = begun \ {h} /\ h \notin begun'
        /\ \A g \in Handlers \ {h} : hpc'[g] = hpc[g] /\ buf'[g] = buf[g]
    BY <1>0, <2>1 DEF Closed
  <2>3. CASE UNCHANGED tail /\ dropped' = TRUE
    <3>1. tail # 0 \/ begun' = {}
      BY <2>2, <2>3 DEF TailInv
    <3> QED
      BY <1>0, <2>2, <2>3, <3>1 DEF TailInv
  <2>4. CASE UNCHANGED <<tail, dropped>> /\ buf[h] = <<>>
    <3>1. begun' = begun
      BY <2>2, <2>4 DEF TailInv
    <3> QED
      BY <1>0, <2>2, <2>4, <3>1 DEF TailInv
  <2>5. ASSUME NEW n \in 0 .. Len(buf[h]), NEW t \in Nat, Flushed(h, n, t),
               t = 0 \/ dropped' = TRUE
        PROVE  TailInv'
    <3>1. tail' = t /\ begun \subseteq {h}
      BY <1>0, <2>1, <2>5, FlushedKeeps DEF Flushed
    <3>2. begun' = {}
      BY <2>2, <3>1
    <3> QED
      BY <2>5, <3>1, <3>2 DEF TailInv
  <2>6. Len(buf[h]) \in 0 .. Len(buf[h]) /\ 0 \in Nat
    BY <1>0
  <2> QED
    BY <1>6, <2>3, <2>4, <2>5, <2>6, CloseEffect
<1>7. CASE UNCHANGED hvars
  BY <1>7 DEF hvars, TailInv
<1> QED
  BY <1>1, <1>2, <1>3, <1>4, <1>5, <1>6, <1>7 DEF AnyHandlerNext, HandlerStep

\* What is damaged stays so, and its first part as it was.
LEMMA DamagedStays ==
  ASSUME HandlerTypeOK, [AnyHandlerNext]_hvars, damaged
  PROVE  damaged' /\ file' = file
<1>1. CASE ServerEnds
  BY <1>1 DEF ServerEnds
<1>2. ASSUME NEW h \in Handlers, AnyLogs(h) PROVE damaged' /\ file' = file
  BY <1>2 DEF AnyLogs, RecvLog
<1>3. ASSUME NEW h \in Handlers, AppendLog(h) PROVE damaged' /\ file' = file
  BY <1>3 DEF AppendLog
<1>4. ASSUME NEW h \in Handlers, Spill(h) PROVE damaged' /\ file' = file
  BY <1>4, SpillEffect DEF Flushed
<1>5. ASSUME NEW h \in Handlers, StreamFails(h) \/ SendAck(h) PROVE damaged' /\ file' = file
  BY <1>5 DEF StreamFails, SendAck
<1>6. ASSUME NEW h \in Handlers, CloseFile(h) PROVE damaged' /\ file' = file
  BY <1>6, CloseEffect DEF Flushed
<1>7. CASE UNCHANGED hvars
  BY <1>7 DEF hvars
<1> QED
  BY <1>1, <1>2, <1>3, <1>4, <1>5, <1>6, <1>7 DEF AnyHandlerNext, HandlerStep

LEMMA NoHoleStep == HandlerTypeOK /\ HandlerTypeOK' /\ NoHoleInv /\ [AnyHandlerNext]_hvars => NoHoleInv'
<1> SUFFICES ASSUME HandlerTypeOK, HandlerTypeOK', NoHoleInv, [AnyHandlerNext]_hvars
             PROVE  NoHoleInv'
  OBVIOUS
<1>0. /\ file \in Seq(HLog) /\ tail \in Nat /\ HoleFree(file)
      /\ hpc \in [Handlers -> {"recv", "append", "close"}] /\ last \in [Handlers -> Nat]
      /\ buf \in [Handlers -> Seq(HLog)]
  BY DEF HandlerTypeOK, NoHoleInv
<1>a. CASE damaged
  BY <1>0, <1>a, DamagedStays DEF NoHoleInv
<1>b. CASE ~damaged /\ damaged'
  <2>1. file' = file \/ \E h \in Handlers : Spill(h) \/ CloseFile(h)
    BY DEF AnyHandlerNext, HandlerStep, AnyLogs, RecvLog, AppendLog, StreamFails, SendAck,
       ServerEnds, hvars
  <2>2. file' = file
    <3>1. ASSUME NEW h \in Handlers, Spill(h) PROVE file' = file
      BY <1>b, <3>1, SpillEffect DEF Flushed
    <3>2. ASSUME NEW h \in Handlers, CloseFile(h) PROVE file' = file
      BY <1>b, <3>2, CloseEffect DEF Flushed
    <3> QED
      BY <2>1, <3>1, <3>2
  <2> QED
    BY <1>0, <1>b, <2>2 DEF NoHoleInv
<1>c. CASE ~damaged /\ ~damaged'
  <2>0. TailInv /\ TailInv' /\ \A g \in Handlers : hpc[g] # "recv" => HandlerCovered(g)
    BY <1>c, TailStep DEF NoHoleInv
  <2>1. CASE ServerEnds
    <3>1. file' = file /\ \A g \in Handlers : hpc'[g] = "recv"
      BY <2>1 DEF ServerEnds
    <3> QED
      BY <1>0, <2>0, <3>1 DEF NoHoleInv
  <2>2. ASSUME NEW h \in Handlers, AnyLogs(h) PROVE NoHoleInv'
    <3>1. PICK m \in Seq(HLog) : RecvLog(h, m)
      BY <2>2 DEF AnyLogs
    <3>2. h \notin begun /\ UNCHANGED <<file, tail, begun, bad, dropped>>
      BY <2>0, <3>1, RecvEffect DEF TailInv
    <3>3. CASE UNCHANGED <<hpc, last, buf>>
      BY <1>0, <2>0, <3>2, <3>3 DEF NoHoleInv, HandlerCovered, Cover
    <3>4. CASE /\ hpc' = [hpc EXCEPT ![h] = "append"]
               /\ buf' = [buf EXCEPT ![h] = <<>>]
               /\ last' = [last EXCEPT ![h] = IF tail # 0 THEN tail ELSE LastLineId(file)]
      <4>1. /\ HoleFreeAfter(file, <<>>, tail)
            /\ Reaches(file, <<>>, IF tail # 0 THEN tail ELSE LastLineId(file), tail)
        BY <1>0, TailReaches, LastLineReaches
      <4>2. HandlerCovered(h)'
        <5>1. /\ buf'[h] = <<>> /\ last'[h] = IF tail # 0 THEN tail ELSE LastLineId(file)
              /\ Cover(h)' = tail
          BY <1>0, <3>2, <3>4 DEF Cover
        <5> QED
          BY <3>2, <4>1, <5>1 DEF HandlerCovered
      <4>3. ASSUME NEW g \in Handlers \ {h}, hpc'[g] # "recv" PROVE HandlerCovered(g)'
        <5>1. hpc[g] # "recv" /\ buf'[g] = buf[g] /\ last'[g] = last[g]
          BY <1>0, <3>4, <4>3
        <5>2. HandlerCovered(g)
          BY <2>0, <5>1
        <5> QED
          BY <3>2, <5>1, <5>2 DEF HandlerCovered, Cover
      <4> QED
        BY <1>0, <2>0, <3>2, <4>2, <4>3 DEF NoHoleInv
    <3> QED
      BY <1>c, <3>1, <3>3, <3>4, RecvEffect
  <2>3. ASSUME NEW h \in Handlers, AppendLog(h) PROVE NoHoleInv'
    <3>1. /\ hpc[h] = "append" /\ msg[h][1] \in HLog
          /\ UNCHANGED <<file, tail, hpc, begun, bad>>
      BY <2>3, AppendEffect
    <3> SUFFICES ASSUME NEW g \in Handlers, hpc[g] # "recv" PROVE HandlerCovered(g)'
      BY <1>0, <2>0, <3>1 DEF NoHoleInv
    <3>2. HandlerCovered(g) /\ Cover(g)' = Cover(g) /\ Cover(g) \in Nat
      BY <1>0, <2>0, <3>1 DEF Cover
    <3>3. CASE UNCHANGED <<buf, last, dropped>>
      BY <3>1, <3>2, <3>3 DEF HandlerCovered
    <3>4. CASE /\ h \in bad /\ dropped' = TRUE /\ UNCHANGED buf
               /\ last' = [last EXCEPT ![h] = last[h] + 1]
      <4>1. g # h => last'[g] = last[g]
        BY <1>0, <3>4
      <4>2. HoleFreeAfter(file', buf'[g], Cover(g)')
        BY <3>1, <3>2, <3>4 DEF HandlerCovered
      <4>3. (dropped' /\ g \in bad') \/ Reaches(file', buf'[g], last'[g], Cover(g)')
        BY <3>1, <3>2, <3>4, <4>1 DEF HandlerCovered
      <4> QED
        BY <4>2, <4>3 DEF HandlerCovered
    <3>5. CASE /\ msg[h][1].id = last[h] + 1
               /\ last' = [last EXCEPT ![h] = last[h] + 1]
               /\ buf' = [buf EXCEPT ![h] = Append(buf[h], msg[h][1])]
               /\ h \notin bad /\ UNCHANGED dropped
      <4>1. CASE g = h
        <5>1. buf[h] \in Seq(HLog) /\ last[h] \in Nat
          BY <1>0
        <5>2. buf'[h] = Append(buf[h], msg[h][1]) /\ last'[h] = last[h] + 1
          BY <1>0, <3>5
        <5>3. /\ HoleFreeAfter(file, buf[h], Cover(h))
              /\ Reaches(file, buf[h], last[h], Cover(h))
          BY <3>2, <3>5, <4>1 DEF HandlerCovered
        <5>4. /\ HoleFreeAfter(file, Append(buf[h], msg[h][1]), Cover(h))
              /\ Reaches(file, Append(buf[h], msg[h][1]), last[h] + 1, Cover(h))
          BY <1>0, <3>1, <3>2, <3>5, <4>1, <5>1, <5>3, AppendNext
        <5> QED
          BY <3>1, <3>2, <4>1, <5>2, <5>4 DEF HandlerCovered
      <4>2. CASE g # h
        <5>1. buf'[g] = buf[g] /\ last'[g] = last[g]
          BY <1>0, <3>5, <4>2
        <5> QED
          BY <3>1, <3>2, <3>5, <5>1 DEF HandlerCovered
      <4> QED
        BY <4>1, <4>2
    <3> QED
      BY <2>3, <3>3, <3>4, <3>5, AppendEffect
  <2>4. ASSUME NEW h \in Handlers, Spill(h) PROVE NoHoleInv'
    <3>1. PICK n \in 0 .. Len(buf[h]), t \in Nat :
            /\ \/ Joins(h) /\ damaged' = TRUE /\ UNCHANGED <<file, tail>>
               \/ Flushed(h, n, t)
            /\ buf' = [buf EXCEPT ![h] = SubSeq(buf[h], n + 1, Len(buf[h]))]
            /\ begun' = IF t # 0 THEN begun \cup {h} ELSE begun \ {h}
      BY <2>4, SpillEffect
    <3>2. Flushed(h, n, t) /\ hpc[h] # "recv" /\ UNCHANGED <<hpc, last, bad, dropped>>
      BY <1>c, <2>4, <3>1, SpillEffect
    <3> DEFINE r == SubSeq(buf[h], n + 1, Len(buf[h]))
    <3>3. /\ HoleFree(file')
          /\ HoleFreeAfter(file', r, 0)
          /\ (dropped /\ h \in bad) \/ Reaches(file', r, last[h], 0)
          /\ \A g \in Handlers \ {h} :
               /\ g \notin begun
               /\ hpc[g] # "recv" =>
                    /\ HoleFreeAfter(file', buf[g], t)
                    /\ (dropped /\ g \in bad) \/ Reaches(file', buf[g], last[g], t)
      BY <3>2, FlushedKeeps
    <3>4. tail' = t
      BY <3>2 DEF Flushed
    <3>5. HandlerCovered(h)'
      <4>1. buf'[h] = r /\ Cover(h)' = 0
        BY <1>0, <3>1, <3>4 DEF Cover
      <4> HIDE DEF r
      <4> QED
        BY <3>2, <3>3, <4>1 DEF HandlerCovered
    <3>6. ASSUME NEW g \in Handlers \ {h}, hpc[g] # "recv" PROVE HandlerCovered(g)'
      <4>1. buf'[g] = buf[g] /\ Cover(g)' = t
        BY <1>0, <3>1, <3>3, <3>4 DEF Cover
      <4> QED
        BY <3>2, <3>3, <3>6, <4>1 DEF HandlerCovered
    <3> QED
      BY <2>0, <3>2, <3>3, <3>5, <3>6 DEF NoHoleInv
  <2>5. ASSUME NEW h \in Handlers, StreamFails(h) \/ SendAck(h) PROVE NoHoleInv'
    <3>1. /\ UNCHANGED <<file, tail, last, buf, begun, dropped>> /\ bad \subseteq bad'
          /\ \A g \in Handlers : hpc'[g] # "recv" => hpc[g] # "recv"
      BY <1>0, <2>5 DEF StreamFails, SendAck
    <3>2. ASSUME NEW g \in Handlers, hpc'[g] # "recv" PROVE HandlerCovered(g)'
      BY <2>0, <3>1, <3>2 DEF HandlerCovered, Cover
    <3> QED
      BY <1>0, <2>0, <3>1, <3>2 DEF NoHoleInv
  <2>6. ASSUME NEW h \in Handlers, CloseFile(h) PROVE NoHoleInv'
    <3>1. /\ hpc[h] = "close" /\ begun' = begun \ {h} /\ bad' = bad \ {h}
          /\ UNCHANGED <<last, msg>>
          /\ hpc'[h] = "recv"
          /\ \A g \in Handlers \ {h} : hpc'[g] = hpc[g] /\ buf'[g] = buf[g]
      BY <1>0, <2>6, CloseEffect DEF Closed
    <3>d. dropped => dropped'
      BY <2>6, CloseEffect
    <3>2. CASE UNCHANGED <<file, tail>>
      <4>1. ASSUME NEW g \in Handlers, hpc'[g] # "recv" PROVE HandlerCovered(g)'
        <5>1. g # h /\ HandlerCovered(g) /\ buf'[g] = buf[g] /\ last'[g] = last[g]
          BY <2>0, <3>1, <4>1
        <5>2. Cover(g)' = Cover(g)
          BY <3>1, <3>2, <5>1 DEF Cover
        <5> QED
          BY <3>1, <3>2, <3>d, <5>1, <5>2 DEF HandlerCovered
      <4> QED
        BY <1>0, <2>0, <3>2, <4>1 DEF NoHoleInv
    <3>3. ASSUME NEW n \in 0 .. Len(buf[h]), NEW t \in Nat, Flushed(h, n, t) PROVE NoHoleInv'
      <4>1. /\ HoleFree(file')
            /\ \A g \in Handlers \ {h} :
                 /\ g \notin begun
                 /\ hpc[g] # "recv" =>
                      /\ HoleFreeAfter(file', buf[g], t)
                      /\ (dropped /\ g \in bad) \/ Reaches(file', buf[g], last[g], t)
        BY <3>1, <3>3, FlushedKeeps
      <4>2. ASSUME NEW g \in Handlers, hpc'[g] # "recv" PROVE HandlerCovered(g)'
        <5>1. g # h /\ buf'[g] = buf[g] /\ last'[g] = last[g] /\ g \notin begun'
          BY <3>1, <4>1, <4>2
        <5>2. Cover(g)' = t
          BY <3>3, <5>1 DEF Cover, Flushed
        <5> QED
          BY <3>1, <3>d, <4>1, <4>2, <5>1, <5>2 DEF HandlerCovered
      <4> QED
        BY <2>0, <4>1, <4>2 DEF NoHoleInv
    <3>4. Len(buf[h]) \in 0 .. Len(buf[h]) /\ 0 \in Nat
      BY <1>0
    <3> QED
      BY <2>6, <3>2, <3>3, <3>4, CloseEffect
  <2>7. CASE UNCHANGED hvars
    BY <2>7 DEF hvars, NoHoleInv, TailInv, HandlerCovered, Cover
  <2> QED
    BY <2>1, <2>2, <2>3, <2>4, <2>5, <2>6, <2>7 DEF AnyHandlerNext, HandlerStep
<1> QED
  BY <1>a, <1>b, <1>c

LEMMA NoHoleInvStarts == HandlerInit => NoHoleInv
<1> SUFFICES ASSUME HandlerInit PROVE NoHoleInv
  OBVIOUS
<1>1. HoleFree(file)
  BY DEF HandlerInit, HoleFree
<1>2. TailInv /\ \A h \in Handlers : hpc[h] = "recv"
  BY DEF HandlerInit, TailInv
<1> QED
  BY <1>1, <1>2 DEF NoHoleInv

\* However many handlers append to the file at once, wherever their text is
\* cut and mixed, and whatever is lost to failing writes and ends of the
\* server: no line before the first damaged one is written before every
\* smaller id is in the file.
THEOREM NoHoleHolds == HandlerSpec => []NoHole
<1>1. HandlerInit => NoHoleInv
  BY NoHoleInvStarts
<1>2. HandlerTypeOK /\ NoHoleInv => NoHole
  <2> SUFFICES ASSUME HandlerTypeOK, NoHoleInv PROVE NoHole
    OBVIOUS
  <2>1. DOMAIN file = 1 .. Len(file)
    BY DEF HandlerTypeOK
  <2> QED
    BY <2>1 DEF NoHoleInv, HoleFree, NoHole
<1> QED
  BY <1>1, <1>2, NoHoleStep, RunsAreLogs, HandlerTypeCorrect, PTL DEF HandlerSpec
-----------------------------------------------------------------------------
(***************************************************************************)
(* StoredInOrder, for a client whose connections do not overlap: a single  *)
(* handler.  The invariant ties last_acked_id to the length of the file    *)
(* and the buffer, which is what the last line stands for.  It says        *)
(* nothing of a handler that finds a line cut off: what that writes joins  *)
(* the line and is not followed.                                           *)
(***************************************************************************)

OneHandler == \A g, h \in Handlers : g = h

\* What the proof needs of that: no two handlers work at the same time.
OneBusy == \A g, h \in Handlers : hpc[g] # "recv" /\ hpc[h] # "recv" => g = h

\* h's buffer continues the numbering of the file; so does its number, unless
\* it has counted lines that a failed stream did not take.
Continues(h) ==
  /\ \A i \in 1 .. Len(buf[h]) : buf[h][i].id = Len(file) + i
  /\ h \notin bad => last[h] = Len(file) + Len(buf[h])

InOrderInv ==
  /\ StoredInOrder
  /\ \A h \in begun : hpc[h] # "recv"
  /\ \A h \in Handlers : hpc[h] # "recv" /\ ~Joins(h) => Continues(h)

\* Lines that continue the numbering of the file may be appended to it.
LEMMA InOrderConcat ==
  ASSUME NEW s \in Seq(HLog), NEW t \in Seq(HLog),
         \A i \in DOMAIN s : s[i].id = i, \A i \in 1 .. Len(t) : t[i].id = Len(s) + i
  PROVE  \A i \in DOMAIN (s \o t) : (s \o t)[i].id = i
<1> SUFFICES ASSUME NEW i \in DOMAIN (s \o t) PROVE (s \o t)[i].id = i
  OBVIOUS
<1>1. CASE i <= Len(s)
  BY <1>1
<1>2. CASE i > Len(s)
  BY <1>2
<1> QED
  BY <1>1, <1>2

\* Written lines are in order, and the rest continues them.
LEMMA FlushedInOrder ==
  ASSUME HandlerTypeOK, InOrderInv, NEW h \in Handlers, hpc[h] # "recv",
         NEW n \in 0 .. Len(buf[h]), NEW t \in Nat, Flushed(h, n, t)
  PROVE  LET r == SubSeq(buf[h], n + 1, Len(buf[h]))
         IN  /\ StoredInOrder'
             /\ \A i \in 1 .. Len(r) : r[i].id = Len(file') + i
             /\ h \notin bad => last[h] = Len(file') + Len(r)
<1> DEFINE u == SubSeq(buf[h], 1, n)
           r == SubSeq(buf[h], n + 1, Len(buf[h]))
<1>0. file \in Seq(HLog) /\ buf[h] \in Seq(HLog) /\ last[h] \in Nat /\ file' = file \o u
  BY DEF HandlerTypeOK, Flushed
<1>1. StoredInOrder /\ Continues(h)
  BY DEF InOrderInv, Flushed
<1>2. /\ u \in Seq(HLog) /\ Len(u) = n /\ \A i \in 1 .. n : u[i] = buf[h][i]
      /\ r \in Seq(HLog) /\ Len(r) = Len(buf[h]) - n
      /\ \A i \in 1 .. Len(buf[h]) - n : r[i] = buf[h][n + i]
  BY <1>0, SplitLogs
<1> HIDE DEF u, r
<1>3. StoredInOrder'
  <2>1. ASSUME NEW i \in 1 .. Len(u) PROVE u[i].id = Len(file) + i
    <3>1. i \in 1 .. n /\ i \in 1 .. Len(buf[h])
      BY <1>0, <1>2
    <3> QED
      BY <1>1, <1>2, <3>1 DEF Continues
  <2>2. \A i \in DOMAIN (file \o u) : (file \o u)[i].id = i
    BY <1>0, <1>1, <1>2, <2>1, InOrderConcat DEF StoredInOrder
  <2> QED
    BY <1>0, <2>2 DEF StoredInOrder
<1>4. Len(file') = Len(file) + n
  <2>1. file \in Seq(HLog) /\ u \in Seq(HLog)
    BY <1>0, <1>2
  <2>2. Len(file \o u) = Len(file) + Len(u)
    BY <2>1
  <2> QED
    BY <1>0, <1>2, <2>2
<1>5. ASSUME NEW i \in 1 .. Len(r) PROVE r[i].id = Len(file') + i
  <2>1. n + i \in 1 .. Len(buf[h]) /\ r[i] = buf[h][n + i]
    BY <1>0, <1>2
  <2>2. buf[h][n + i].id = Len(file) + (n + i)
    BY <1>1, <2>1 DEF Continues
  <2> QED
    BY <1>0, <1>4, <2>1, <2>2
<1>6. ASSUME h \notin bad PROVE last[h] = Len(file') + Len(r)
  <2>1. last[h] = Len(file) + Len(buf[h])
    BY <1>1, <1>6 DEF Continues
  <2>2. Len(file) \in Nat /\ Len(buf[h]) \in Nat /\ n \in Nat
    BY <1>0
  <2> QED
    BY <1>2, <1>4, <2>1, <2>2
<1>7. (\A i \in 1 .. Len(r) : r[i].id = Len(file') + i) /\ StoredInOrder'
  BY <1>3, <1>5
<1> QED
  BY <1>6, <1>7 DEF r

LEMMA InOrderStep ==
  ASSUME OneBusy, HandlerTypeOK, HandlerTypeOK', InOrderInv, [AnyHandlerNext]_hvars
  PROVE  InOrderInv'
<1>0. /\ file \in Seq(HLog) /\ tail \in Nat /\ StoredInOrder
      /\ hpc \in [Handlers -> {"recv", "append", "close"}] /\ last \in [Handlers -> Nat]
      /\ buf \in [Handlers -> Seq(HLog)] /\ begun \subseteq Handlers
  BY DEF HandlerTypeOK, InOrderInv
<1>1. CASE ServerEnds
  <2>1. file' = file /\ begun' = {} /\ \A h \in Handlers : hpc'[h] = "recv"
    BY <1>1 DEF ServerEnds
  <2> QED
    BY <1>0, <2>1 DEF InOrderInv, StoredInOrder
<1>2. ASSUME NEW h \in Handlers, AnyLogs(h) PROVE InOrderInv'
  <2>1. PICK m \in Seq(HLog) : RecvLog(h, m)
    BY <1>2 DEF AnyLogs
  <2>2. h \notin begun /\ UNCHANGED <<file, tail, damaged, begun, bad>>
    BY <2>1, RecvEffect DEF InOrderInv
  <2>3. CASE UNCHANGED <<hpc, last, buf>>
    BY <2>2, <2>3 DEF InOrderInv, StoredInOrder, Continues, Joins
  <2>4. CASE /\ hpc' = [hpc EXCEPT ![h] = "append"]
             /\ buf' = [buf EXCEPT ![h] = <<>>]
             /\ \E id \in Nat :
                  /\ last' = [last EXCEPT ![h] = id]
                  /\ ~damaged => id = IF tail # 0 THEN tail ELSE LastLineId(file)
    <3>1. LastLineId(file) = Len(file)
      BY <1>0 DEF LastLineId, StoredInOrder
    <3>2. ASSUME ~Joins(h) PROVE Continues(h)'
      <4>1. tail = 0 /\ ~damaged
        BY <2>2, <3>2 DEF Joins
      <4>2. buf'[h] = <<>> /\ last'[h] = Len(file)
        BY <1>0, <2>4, <3>1, <4>1
      <4>3. Len(file) \in Nat /\ Len(<<>>) = 0
        BY <1>0
      <4> QED
        BY <2>2, <4>2, <4>3 DEF Continues
    <3>3. \A g \in Handlers \ {h} : buf'[g] = buf[g] /\ last'[g] = last[g] /\ hpc'[g] = hpc[g]
      BY <1>0, <2>4
    <3>4. hpc'[h] = "append"
      BY <1>0, <2>4
    <3>5. ASSUME NEW g \in Handlers, hpc'[g] # "recv", ~Joins(g)' PROVE Continues(g)'
      <4>1. ~Joins(g)
        BY <2>2, <3>5 DEF Joins
      <4>2. CASE g = h
        BY <3>2, <4>1, <4>2
      <4>3. CASE g # h
        <5>1. Continues(g) /\ buf'[g] = buf[g] /\ last'[g] = last[g]
          BY <3>3, <3>5, <4>1, <4>3 DEF InOrderInv
        <5> QED
          BY <2>2, <5>1 DEF Continues
      <4> QED
        BY <4>2, <4>3
    <3>6. StoredInOrder' /\ \A g \in begun' : hpc'[g] # "recv"
      BY <1>0, <2>2, <3>3 DEF StoredInOrder, InOrderInv
    <3> QED
      BY <3>5, <3>6 DEF InOrderInv
  <2> QED
    BY <2>1, <2>3, <2>4, RecvEffect
<1>3. ASSUME NEW h \in Handlers, AppendLog(h) PROVE InOrderInv'
  <2>1. /\ UNCHANGED <<file, tail, damaged, hpc, begun, bad>>
        /\ hpc[h] = "append" /\ msg[h][1] \in HLog
    BY <1>3, AppendEffect
  <2>2. ASSUME NEW g \in Handlers, hpc[g] # "recv", ~Joins(g) PROVE Continues(g)'
    <3>1. g = h /\ Continues(g)
      BY <2>1, <2>2 DEF OneBusy, InOrderInv
    <3>2. CASE UNCHANGED <<buf, last>>
      BY <2>1, <3>1, <3>2 DEF Continues
    <3>3. CASE h \in bad /\ UNCHANGED buf
      BY <2>1, <3>1, <3>3 DEF Continues
    <3>4. CASE /\ msg[h][1].id = last[h] + 1 /\ h \notin bad
               /\ last' = [last EXCEPT ![h] = last[h] + 1]
               /\ buf' = [buf EXCEPT ![h] = Append(buf[h], msg[h][1])]
      <4> DEFINE t == buf[h]
                 e == msg[h][1]
      <4>1. t \in Seq(HLog) /\ Len(t) \in Nat /\ Len(file) \in Nat /\ e \in HLog
        BY <1>0, <2>1
      <4>2. buf'[h] = Append(t, e) /\ last'[h] = last[h] + 1
        BY <1>0, <3>4
      <4>3. /\ Len(Append(t, e)) = Len(t) + 1 /\ Append(t, e)[Len(t) + 1] = e
            /\ \A i \in 1 .. Len(t) : Append(t, e)[i] = t[i]
        BY <4>1
      <4>4. /\ last[h] = Len(file) + Len(t)
            /\ \A i \in 1 .. Len(t) : t[i].id = Len(file) + i
        BY <3>1, <3>4 DEF Continues
      <4>5. e.id = Len(file) + (Len(t) + 1)
        BY <3>4, <4>1, <4>4
      <4> HIDE DEF t, e
      <4>6. \A i \in 1 .. Len(t) + 1 : Append(t, e)[i].id = Len(file) + i
        <5> TAKE i \in 1 .. Len(t) + 1
        <5>1. CASE i = Len(t) + 1
          BY <4>3, <4>5, <5>1
        <5>2. CASE i \in 1 .. Len(t)
          BY <4>3, <4>4, <5>2
        <5> QED
          BY <4>1, <5>1, <5>2
      <4>7. last'[h] = Len(file) + (Len(t) + 1)
        BY <4>1, <4>2, <4>4
      <4> QED
        BY <2>1, <3>1, <4>2, <4>3, <4>6, <4>7 DEF Continues
    <3> QED
      BY <1>3, <3>2, <3>3, <3>4, AppendEffect
  <2> QED
    BY <1>0, <2>1, <2>2 DEF InOrderInv, StoredInOrder, Joins
<1>4. ASSUME NEW h \in Handlers, Spill(h) PROVE InOrderInv'
  <2>1. PICK n \in 0 .. Len(buf[h]), t \in Nat :
          /\ \/ Joins(h) /\ damaged' = TRUE /\ UNCHANGED <<file, tail>>
             \/ Flushed(h, n, t)
          /\ buf' = [buf EXCEPT ![h] = SubSeq(buf[h], n + 1, Len(buf[h]))]
          /\ begun' = IF t # 0 THEN begun \cup {h} ELSE begun \ {h}
    BY <1>4, SpillEffect
  <2>2. hpc[h] # "recv" /\ UNCHANGED <<hpc, last, bad>>
    BY <1>4, SpillEffect
  <2>3. \A g \in begun' : hpc'[g] # "recv"
    BY <2>1, <2>2 DEF InOrderInv
  <2>4. \A g \in Handlers : hpc'[g] # "recv" => g = h
    BY <2>2 DEF OneBusy
  <2>5. CASE damaged' = TRUE /\ UNCHANGED <<file, tail>>
    BY <1>0, <2>3, <2>5 DEF InOrderInv, StoredInOrder, Joins
  <2>6. CASE Flushed(h, n, t)
    <3> DEFINE r == SubSeq(buf[h], n + 1, Len(buf[h]))
    <3>1. /\ StoredInOrder' /\ \A i \in 1 .. Len(r) : r[i].id = Len(file') + i
          /\ h \notin bad => last[h] = Len(file') + Len(r)
      BY <2>2, <2>6, FlushedInOrder
    <3>2. buf'[h] = r
      BY <1>0, <2>1
    <3> HIDE DEF r
    <3>3. Continues(h)'
      BY <2>2, <3>1, <3>2 DEF Continues
    <3> QED
      BY <2>3, <2>4, <3>1, <3>3 DEF InOrderInv
  <2> QED
    BY <2>1, <2>5, <2>6
<1>5. ASSUME NEW h \in Handlers, StreamFails(h) \/ SendAck(h) PROVE InOrderInv'
  <2>1. /\ UNCHANGED <<file, tail, damaged, last, buf, begun>> /\ bad \subseteq bad'
        /\ \A g \in Handlers : hpc'[g] # "recv" <=> hpc[g] # "recv"
    BY <1>0, <1>5 DEF StreamFails, SendAck
  <2> QED
    BY <1>0, <2>1 DEF InOrderInv, StoredInOrder, Continues, Joins
<1>6. ASSUME NEW h \in Handlers, CloseFile(h) PROVE InOrderInv'
  <2>1. hpc[h] = "close" /\ Closed(h)
    BY <1>6, CloseEffect
  <2>2. begun' = begun \ {h} /\ hpc'[h] = "recv" /\ \A g \in Handlers \ {h} : hpc'[g] = hpc[g]
    BY <1>0, <2>1 DEF Closed
  <2>3. \A g \in Handlers : hpc'[g] = "recv"
    BY <2>1, <2>2 DEF OneBusy
  <2>4. \A g \in begun' : hpc'[g] # "recv"
    BY <1>0, <2>2 DEF InOrderInv
  <2>5. StoredInOrder'
    <3>1. ASSUME NEW n \in 0 .. Len(buf[h]), NEW t \in Nat, Flushed(h, n, t) PROVE StoredInOrder'
      BY <2>1, <3>1, FlushedInOrder
    <3>2. file' = file => StoredInOrder'
      BY <1>0 DEF StoredInOrder
    <3>3. Len(buf[h]) \in 0 .. Len(buf[h]) /\ 0 \in Nat
      BY <1>0
    <3> QED
      BY <1>6, <3>1, <3>2, <3>3, CloseEffect
  <2> QED
    BY <2>3, <2>4, <2>5 DEF InOrderInv
<1>7. CASE UNCHANGED hvars
  BY <1>7 DEF hvars, InOrderInv, StoredInOrder, Continues, Joins
<1> QED
  BY <1>1, <1>2, <1>3, <1>4, <1>5, <1>6, <1>7 DEF AnyHandlerNext, HandlerStep

\* With one connection the server's file holds, up to its first damaged line,
\* exactly the ids 1, 2, 3, ... in order, whatever messages arrive and
\* whatever kills and failing writes cut off, be it within a line:
\* get_last_line_of_file deduces what handle_recv_log has stored.
THEOREM StoredInOrderHolds == ASSUME OneHandler PROVE HandlerSpec => []StoredInOrder
<1>1. HandlerInit => InOrderInv
  BY DEF HandlerInit, InOrderInv, StoredInOrder
<1>2. HandlerTypeOK /\ HandlerTypeOK' /\ InOrderInv /\ [HandlerNext]_hvars => InOrderInv'
  BY InOrderStep, RunsAreLogs DEF OneHandler, OneBusy
<1>3. InOrderInv => StoredInOrder
  BY DEF InOrderInv
<1> QED
  BY <1>1, <1>2, <1>3, HandlerTypeCorrect, PTL DEF HandlerSpec

\* A handler that works alone continues no line but its own, unless a line
\* has been lost.
LEMMA DamagedByLossStep ==
  ASSUME OneBusy, HandlerTypeOK, NoHoleInv, DamagedByLossOnly, [AnyHandlerNext]_hvars
  PROVE  DamagedByLossOnly'
<1>0. begun \subseteq Handlers
  BY DEF HandlerTypeOK
<1>1. ASSUME NEW h \in Handlers, hpc[h] # "recv", Joins(h), ~damaged PROVE dropped
  <2>1. tail # 0 /\ h \notin begun /\ TailInv
    BY <1>1 DEF Joins, NoHoleInv
  <2>2. ASSUME ~dropped PROVE FALSE
    <3>1. PICK g \in begun : hpc[g] # "recv"
      BY <2>1, <2>2 DEF TailInv
    <3> QED
      BY <1>0, <1>1, <2>1, <3>1 DEF OneBusy
  <2> QED
    BY <2>2
<1>2. ASSUME NEW h \in Handlers, Spill(h) PROVE DamagedByLossOnly'
  <2>1. UNCHANGED dropped /\ hpc[h] # "recv"
    BY <1>2, SpillEffect
  <2>2. (Joins(h) /\ damaged' = TRUE) \/ UNCHANGED damaged
    BY <1>2, SpillEffect DEF Flushed
  <2> QED
    BY <1>1, <2>1, <2>2 DEF DamagedByLossOnly
<1>3. ASSUME NEW h \in Handlers, CloseFile(h) PROVE DamagedByLossOnly'
  <2>1. hpc[h] # "recv" /\ (dropped => dropped')
    BY <1>3, CloseEffect
  <2>2. dropped' \/ (Joins(h) /\ damaged') \/ UNCHANGED damaged
    BY <1>3, CloseEffect DEF Flushed
  <2> QED
    BY <1>1, <2>1, <2>2 DEF DamagedByLossOnly
<1>4. ASSUME NEW h \in Handlers, AppendLog(h) PROVE DamagedByLossOnly'
  <2>1. UNCHANGED damaged /\ (dropped => dropped')
    BY <1>4, AppendEffect
  <2> QED
    BY <2>1 DEF DamagedByLossOnly
<1>5. CASE ServerEnds \/ UNCHANGED hvars
  BY <1>5 DEF ServerEnds, hvars, DamagedByLossOnly
<1>6. ASSUME NEW h \in Handlers, AnyLogs(h) \/ StreamFails(h) \/ SendAck(h)
      PROVE  DamagedByLossOnly'
  BY <1>6 DEF AnyLogs, RecvLog, StreamFails, SendAck, DamagedByLossOnly
<1> QED
  BY <1>2, <1>3, <1>4, <1>5, <1>6 DEF AnyHandlerNext, HandlerStep

\* handle_recv_log by itself leaves no line for another to continue: with one
\* connection, a damaged file means that the server ended, or failed to
\* write, with lines in its stream.
THEOREM DamagedByLossOnlyHolds == ASSUME OneHandler PROVE HandlerSpec => []DamagedByLossOnly
<1>1. HandlerInit => DamagedByLossOnly
  BY DEF HandlerInit, DamagedByLossOnly
<1>2. HandlerTypeOK /\ NoHoleInv /\ DamagedByLossOnly /\ [HandlerNext]_hvars => DamagedByLossOnly'
  BY DamagedByLossStep, RunsAreLogs DEF OneHandler, OneBusy
<1> QED
  BY <1>1, <1>2, NoHoleInvStarts, NoHoleStep, RunsAreLogs, HandlerTypeCorrect, PTL DEF HandlerSpec

-----------------------------------------------------------------------------
(***************************************************************************)
(* Types.  A batch may be read by a handler because its logs are among the *)
(* MaxLogs the client generates, which the order of the batch bounds.      *)
(***************************************************************************)

GenBounded == gen <= MaxLogs /\ (mpc = "add" => gen < MaxLogs)

TypeInv ==
  /\ DeliveryTypeOK /\ OrderInv /\ GenBounded
  /\ connected => conn # 0
  /\ \A m \in up : Below(m[2], MaxLogs)

\* Logs of the client's bounded history are what a handler looks at.
LEMMA SentLogs ==
  ASSUME NEW s \in Seq(Log), Below(s, MaxLogs)
  PROVE  s \in Seq(HLog)
<1>1. ASSUME NEW i \in 1 .. Len(s) PROVE s[i] \in HLog
  <2>1. s[i] \in Log
    OBVIOUS
  <2>2. s[i].ev \in 0 .. MaxLogs
    BY <2>1, ConstantsAssumption DEF Log, Below
  <2> QED
    BY <2>1, <2>2, DeliveryAssumption DEF Log, HLog
<1> QED
  BY <1>1

\* What is below one number is below a larger one.
LEMMA BelowLarger ==
  ASSUME NEW s \in Seq(Log), NEW n \in Nat, NEW k \in Nat, Below(s, n), n <= k
  PROVE  Below(s, k)
<1> SUFFICES ASSUME NEW i \in 1 .. Len(s) PROVE s[i].ev <= k
  BY DEF Below
<1>1. s[i] \in Log
  OBVIOUS
<1>2. s[i].ev \in Nat
  BY <1>1 DEF Log
<1>3. s[i].ev <= n
  BY DEF Below
<1> QED
  BY <1>2, <1>3

\* Each step of the whole is a step, or a stutter, of the client alone and of
\* the server alone.
LEMMA Projection ==
  ASSUME TypeInv, [DeliveryNext]_dvars
  PROVE  [AnyNext]_vars /\ [AnyHandlerNext]_hvars
<1>1. CASE ClientMain \/ ClientReceiver
  BY <1>1 DEF ClientMain, ClientReceiver, AnyNext
<1>2. CASE SendBatch
  BY <1>2 DEF SendBatch, AnyNext
<1>3. CASE ReceiveAck
  <2>1. PICK m \in down : AckLog(m[2])
    BY <1>3 DEF ReceiveAck
  <2>2. m[2] \in Nat
    BY DEF TypeInv, DeliveryTypeOK
  <2> QED
    BY <1>3, <2>1, <2>2 DEF ReceiveAck, AnyNext, AnyAck
<1>4. CASE ClientDies
  BY <1>4 DEF ClientDies, AnyNext
<1>5. CASE Server
  <2>1. PICK h \in Handlers : ReceiveBatch(h) \/ ReplyAck(h) \/ HandleLog(h)
    BY <1>5 DEF Server
  <2>2. CASE ReceiveBatch(h)
    <3>1. PICK m \in up : RecvLog(h, m[2])
      BY <2>2 DEF ReceiveBatch
    <3>2. m[2] \in Seq(HLog)
      BY SentLogs DEF TypeInv, DeliveryTypeOK
    <3> QED
      BY <2>2, <3>1, <3>2 DEF ReceiveBatch, AnyHandlerNext, AnyLogs
  <2>3. CASE ReplyAck(h)
    BY <2>3 DEF ReplyAck, AnyHandlerNext, HandlerStep
  <2>4. CASE HandleLog(h)
    BY <2>4 DEF HandleLog, AnyHandlerNext, HandlerStep
  <2> QED
    BY <2>1, <2>2, <2>3, <2>4
<1>6. CASE ServerRestart \/ AckThrows
  BY <1>6 DEF ServerRestart, ServerCrash, AckThrows, AnyHandlerNext
<1>7. CASE Connect \/ Disconnect \/ Lose
  BY <1>7 DEF Connect, Disconnect, Lose
<1>8. CASE UNCHANGED dvars
  BY <1>8 DEF dvars
<1> QED
  BY <1>1, <1>2, <1>3, <1>4, <1>5, <1>6, <1>7, <1>8 DEF DeliveryNext

\* The client stops generating at the bound.
LEMMA GenBoundedStep ==
  ASSUME TypeOK, GenBounded, [AnyNext]_vars
  PROVE  GenBounded'
<1> USE DEF GenBounded, vars, mainVars, histVars, counts
<1>1. CASE Start
  BY <1>1 DEF Start, OpenAckFile, CreateAckFile, LoadLine, LoadFails, LoadDone, CleanStart,
      CleanCopy, CleanRename, DtorOpenAck, DtorWriteAck
<1>2. CASE AddToFile
  BY <1>2, ConstantsAssumption DEF AddToFile, TypeOK
<1>3. CASE Work /\ ~AddToFile
  BY <1>3 DEF Work, WakeUp, NewLog, AddToQueue, EndGenerate, BatchStart, BatchCopy
<1>4. CASE Publish \/ Receive \/ Die \/ AnyAck
  BY <1>4 DEF Publish, Receive, AckPop, AckPopEnd, AckOpen, AckWrite, Die, BatchThrows,
      Crash, AnyAck, AckLog
<1>5. CASE UNCHANGED vars
  BY <1>5
<1> QED
  BY <1>1, <1>2, <1>3, <1>4, <1>5 DEF AnyNext, Work

\* The network's own variables.
LEMMA NetTypes ==
  ASSUME TypeInv, [DeliveryNext]_dvars
  PROVE  /\ conn' \in 0 .. MaxConn /\ connected' \in BOOLEAN
         /\ connected' => conn' # 0
         /\ \A m \in up' : m[1] \in Handlers /\ m[2] \in Seq(Log) /\ Below(m[2], MaxLogs)
         /\ down' \subseteq Handlers \X Nat
<1>0. /\ conn \in 0 .. MaxConn /\ connected \in BOOLEAN /\ down \subseteq Handlers \X Nat
      /\ connected => conn # 0
      /\ \A m \in up : m[1] \in Handlers /\ m[2] \in Seq(Log) /\ Below(m[2], MaxLogs)
      /\ MaxConn \in Nat /\ Handlers = 1 .. MaxConn
  BY DeliveryAssumption DEF TypeInv, DeliveryTypeOK
<1> USE DEF net
<1>1. CASE ClientMain \/ ClientReceiver \/ ClientDies
  <2>1. /\ UNCHANGED <<conn, up, down>>
        /\ UNCHANGED connected \/ connected' = FALSE
    BY <1>1 DEF ClientMain, ClientReceiver, ClientDies
  <2>2. CASE UNCHANGED connected
    BY <1>0, <2>1, <2>2
  <2>3. CASE connected' = FALSE
    BY <1>0, <2>1, <2>3
  <2> QED
    BY <2>1, <2>2, <2>3
<1>2. CASE SendBatch
  <2>1. Below(batch, MaxLogs) /\ batch \in Seq(Log)
    <3>1. batch \in Seq(Log) /\ Below(batch, gen) /\ gen \in Nat /\ gen <= MaxLogs
      BY DEF TypeInv, DeliveryTypeOK, TypeOK, OrderInv, GenBounded
    <3> QED
      BY <3>1, BelowLarger, ConstantsAssumption
  <2>2. up' = up \/ (connected /\ up' = up \cup {<<conn, batch>>})
    BY <1>2 DEF SendBatch
  <2>3. UNCHANGED <<conn, connected, down>>
    BY <1>2 DEF SendBatch
  <2>4. connected => conn \in Handlers
    BY <1>0
  <2>5. CASE up' = up
    BY <1>0, <2>3, <2>5
  <2>6. CASE connected /\ up' = up \cup {<<conn, batch>>}
    <3>1. ASSUME NEW m \in up'
          PROVE  m[1] \in Handlers /\ m[2] \in Seq(Log) /\ Below(m[2], MaxLogs)
      <4>1. CASE m \in up
        BY <1>0, <4>1
      <4>2. CASE m = <<conn, batch>>
        BY <2>1, <2>4, <2>6, <4>2
      <4> QED
        BY <2>6, <4>1, <4>2
    <3> QED
      BY <1>0, <2>3, <3>1
  <2> QED
    BY <2>2, <2>5, <2>6
<1>3. CASE ReceiveAck
  <2>1. UNCHANGED <<conn, connected, up>> /\ down' \subseteq down
    BY <1>3 DEF ReceiveAck
  <2> QED
    BY <1>0, <2>1
<1>4. CASE Server
  <2>1. PICK h \in Handlers : ReceiveBatch(h) \/ ReplyAck(h) \/ HandleLog(h)
    BY <1>4 DEF Server
  <2>2. CASE ReceiveBatch(h)
    BY <1>0, <2>2 DEF ReceiveBatch
  <2>3. CASE ReplyAck(h)
    <3>1. last[h] \in Nat
      BY DEF TypeInv, DeliveryTypeOK, HandlerTypeOK
    <3> QED
      BY <1>0, <2>3, <3>1 DEF ReplyAck
  <2>4. CASE HandleLog(h)
    BY <1>0, <2>4 DEF HandleLog
  <2> QED
    BY <2>1, <2>2, <2>3, <2>4
<1>5. CASE ServerRestart \/ AckThrows
  <2>1. conn' = conn /\ connected' = FALSE /\ up' = {} /\ down' = {}
    BY <1>5 DEF ServerRestart, AckThrows, vars
  <2> QED
    BY <1>0, <2>1
<1>6. CASE Connect \/ Disconnect \/ Lose
  <2>1. /\ conn' = conn \/ (conn < MaxConn /\ conn' = conn + 1)
        /\ connected' => connected \/ conn' = conn + 1
        /\ connected' \in BOOLEAN
        /\ up' \subseteq up /\ down' \subseteq down
    <3>1. CASE Connect
      BY <1>0, <3>1 DEF Connect
    <3>2. CASE Disconnect
      BY <1>0, <3>2 DEF Disconnect
    <3>3. CASE Lose
      BY <1>0, <3>3 DEF Lose
    <3> QED
      BY <1>6, <3>1, <3>2, <3>3
  <2>2. conn' \in 0 .. MaxConn /\ (connected' => conn' # 0)
    BY <1>0, <2>1
  <2>3. (\A m \in up' : m[1] \in Handlers /\ m[2] \in Seq(Log) /\ Below(m[2], MaxLogs))
        /\ down' \subseteq Handlers \X Nat
    BY <1>0, <2>1
  <2> QED
    BY <2>1, <2>2, <2>3
<1>7. CASE UNCHANGED dvars
  BY <1>0, <1>7 DEF dvars
<1> QED
  BY <1>1, <1>2, <1>3, <1>4, <1>5, <1>6, <1>7 DEF DeliveryNext

LEMMA TypeInvStep == TypeInv /\ [DeliveryNext]_dvars => TypeInv'
<1> SUFFICES ASSUME TypeInv, [DeliveryNext]_dvars PROVE TypeInv'
  OBVIOUS
<1>1. [AnyNext]_vars /\ [AnyHandlerNext]_hvars
  BY Projection
<1>2. TypeOK' /\ HandlerTypeOK'
  BY <1>1, TypeStep, HandlerTypeStep DEF TypeInv, DeliveryTypeOK
<1>3. OrderInv'
  BY <1>1, <1>2, OrderStep DEF TypeInv, DeliveryTypeOK
<1>4. GenBounded'
  BY <1>1, GenBoundedStep DEF TypeInv, DeliveryTypeOK
<1>5. DeliveryTypeOK'
  BY <1>2, NetTypes DEF DeliveryTypeOK
<1> QED
  BY <1>3, <1>4, <1>5, NetTypes DEF TypeInv

LEMMA TypeInvStarts == DeliveryInit => TypeInv
<1> SUFFICES ASSUME DeliveryInit PROVE TypeInv
  OBVIOUS
<1>1. TypeOK /\ OrderInv
  BY TypeStart, OrderStarts DEF DeliveryInit
<1>2. HandlerTypeOK
  BY HandlerTypeStarts DEF DeliveryInit
<1>3. GenBounded
  BY ConstantsAssumption DEF DeliveryInit, Init, GenBounded
<1> QED
  <2>1. conn = 0 /\ connected = FALSE /\ up = {} /\ down = {} /\ MaxConn \in Nat
    BY DeliveryAssumption DEF DeliveryInit
  <2>2. conn \in 0 .. MaxConn
    BY <2>1
  <2> QED
    BY <1>1, <1>2, <1>3, <2>1, <2>2 DEF TypeInv, DeliveryTypeOK

LEMMA TypeInvariant == DeliverySpec => []TypeInv
BY TypeInvStarts, TypeInvStep, PTL DEF DeliverySpec

\* Client, server and network only pass logs of the client's history around:
\* every message a handler reads is a sequence of logs and every ack a number
\* sent on a connection.
THEOREM DeliveryTypeCorrect == DeliverySpec => []DeliveryTypeOK
<1>1. TypeInv => DeliveryTypeOK
  BY DEF TypeInv
<1> QED
  BY <1>1, TypeInvariant, PTL
-----------------------------------------------------------------------------
(***************************************************************************)
(* The server's file.  The handlers keep NoHole whatever they are sent; if *)
(* the server is done with the old connections before the client makes a   *)
(* new one, only the current connection's handler ever writes, and they    *)
(* keep StoredInOrder.                                                     *)
(***************************************************************************)

LEMMA FileInvariant == DeliverySpec => []NoHoleInv
<1>1. DeliveryInit => NoHoleInv
  BY NoHoleInvStarts DEF DeliveryInit
<1>2. TypeInv /\ TypeInv' /\ NoHoleInv /\ [DeliveryNext]_dvars => NoHoleInv'
  BY Projection, NoHoleStep DEF TypeInv, DeliveryTypeOK
<1> QED
  BY <1>1, <1>2, TypeInvariant, PTL DEF DeliverySpec

\* The client's retransmissions after a reconnect may reach several handlers
\* at once, in any order, and an ack to an ended connection may end the server
\* in the middle of a line: still no line before the first damaged one is
\* written before every smaller id.
THEOREM DeliveryNoHole == DeliverySpec => []NoHole
<1>1. TypeInv /\ NoHoleInv => NoHole
  <2> SUFFICES ASSUME TypeInv, NoHoleInv PROVE NoHole
    OBVIOUS
  <2>1. DOMAIN file = 1 .. Len(file)
    BY DEF TypeInv, DeliveryTypeOK, HandlerTypeOK
  <2> QED
    BY <2>1 DEF NoHoleInv, HoleFree, NoHole
<1> QED
  BY <1>1, FileInvariant, TypeInvariant, PTL

OnlyCurrentBusy == \A h \in Handlers : Busy(h) => h = conn

LEMMA OnlyCurrentBusyStep ==
  ASSUME ~Overlap, TypeInv, TypeInv', OnlyCurrentBusy, [DeliveryNext]_dvars
  PROVE  OnlyCurrentBusy'
<1> SUFFICES ASSUME NEW h \in Handlers, Busy(h)' PROVE h = conn'
  BY DEF OnlyCurrentBusy
<1>0. /\ conn \in 0 .. MaxConn /\ MaxConn \in Nat /\ Handlers = 1 .. MaxConn
      /\ hpc \in [Handlers -> {"recv", "append", "close"}]
  BY DeliveryAssumption DEF TypeInv, DeliveryTypeOK, HandlerTypeOK
<1> USE DEF net, hvars
<1>1. CASE Connect
  <2>1. /\ \A g \in 1 .. conn : ~Busy(g)
        /\ UNCHANGED <<hpc, up>> /\ conn' = conn + 1
    BY <1>1 DEF Connect
  <2>2. Busy(h)
    BY <2>1 DEF Busy
  <2>3. h = conn
    BY <2>2 DEF OnlyCurrentBusy
  <2> QED
    BY <1>0, <2>1, <2>2, <2>3
<1>2. CASE SendBatch
  <2>1. UNCHANGED <<hpc, conn>> /\ (up' = up \/ up' = up \cup {<<conn, batch>>})
    BY <1>2 DEF SendBatch
  <2>2. Busy(h) \/ h = conn
    BY <2>1 DEF Busy
  <2> QED
    BY <2>1, <2>2 DEF OnlyCurrentBusy
<1>3. CASE ClientMain \/ ClientReceiver \/ ClientDies \/ ReceiveAck \/ Disconnect \/ Lose
  <2>1. UNCHANGED <<hpc, conn>> /\ up' \subseteq up
    BY <1>3 DEF ClientMain, ClientReceiver, ClientDies, ReceiveAck, Disconnect, Lose
  <2>2. Busy(h)
    BY <2>1 DEF Busy
  <2> QED
    BY <2>1, <2>2 DEF OnlyCurrentBusy
<1>4. CASE ServerRestart \/ AckThrows
  <2>1. hpc' = [g \in Handlers |-> "recv"] /\ up' = {}
    BY <1>4 DEF ServerRestart, ServerCrash, AckThrows, ServerEnds
  <2> QED
    BY <2>1 DEF Busy
<1>5. CASE Server
  <2>1. PICK g \in Handlers : ReceiveBatch(g) \/ ReplyAck(g) \/ HandleLog(g)
    BY <1>5 DEF Server
  <2>2. conn' = conn /\ up' \subseteq up
    BY <2>1 DEF ReceiveBatch, ReplyAck, HandleLog
  <2>3. Busy(g)
    <3>1. CASE ReceiveBatch(g)
      BY <3>1 DEF ReceiveBatch, Busy
    <3>2. CASE ReplyAck(g)
      BY <3>2 DEF ReplyAck, SendAck, Busy
    <3>3. CASE HandleLog(g)
      BY <3>3 DEF HandleLog, AppendLog, Spill, StreamFails, CloseFile, Busy
    <3> QED
      BY <2>1, <3>1, <3>2, <3>3
  <2>4. h # g => hpc'[h] = hpc[h]
    <3>1. CASE ReceiveBatch(g)
      BY <1>0, <3>1 DEF ReceiveBatch, RecvLog
    <3>2. CASE ReplyAck(g)
      BY <1>0, <3>2 DEF ReplyAck, SendAck
    <3>3. CASE HandleLog(g)
      BY <1>0, <3>3 DEF HandleLog, AppendLog, Spill, StreamFails, CloseFile, Closed
    <3> QED
      BY <2>1, <3>1, <3>2, <3>3
  <2>5. h = g \/ Busy(h)
    BY <2>2, <2>4 DEF Busy
  <2> QED
    BY <2>2, <2>3, <2>5 DEF OnlyCurrentBusy
<1>6. CASE UNCHANGED dvars
  BY <1>6 DEF dvars, OnlyCurrentBusy, Busy
<1> QED
  BY <1>1, <1>2, <1>3, <1>4, <1>5, <1>6 DEF DeliveryNext

LEMMA InOrderInvariant ==
  ASSUME ~Overlap
  PROVE  DeliverySpec => [](OnlyCurrentBusy /\ InOrderInv)
<1>1. DeliveryInit => OnlyCurrentBusy /\ InOrderInv
  BY DEF DeliveryInit, HandlerInit, OnlyCurrentBusy, Busy, InOrderInv, StoredInOrder
<1>2. TypeInv /\ TypeInv' /\ OnlyCurrentBusy /\ InOrderInv /\ [DeliveryNext]_dvars
        => OnlyCurrentBusy' /\ InOrderInv'
  <2>1. OnlyCurrentBusy => OneBusy
    BY DEF OnlyCurrentBusy, OneBusy, Busy
  <2> QED
    BY <2>1, OnlyCurrentBusyStep, Projection, InOrderStep DEF TypeInv, DeliveryTypeOK
<1> QED
  BY <1>1, <1>2, TypeInvariant, PTL DEF DeliverySpec

\* Through reconnects, kills of either process, failing writes, acks to ended
\* connections and batches that overtake each other, the server's file holds,
\* up to its first damaged line, the ids 1, 2, 3, ... once each and in order,
\* if the server has finished with a connection before the client makes the
\* next.
THEOREM DeliveryStoredInOrder == ASSUME ~Overlap PROVE DeliverySpec => []StoredInOrder
<1>1. InOrderInv => StoredInOrder
  BY DEF InOrderInv
<1> QED
  BY <1>1, InOrderInvariant, PTL

\* And the file is damaged only by lines that were in a stream when the server
\* ended or a write failed.
THEOREM DeliveryDamagedByLossOnly == ASSUME ~Overlap PROVE DeliverySpec => []DamagedByLossOnly
<1>1. DeliveryInit => DamagedByLossOnly
  BY DEF DeliveryInit, HandlerInit, DamagedByLossOnly
<1>2. TypeInv /\ NoHoleInv /\ OnlyCurrentBusy /\ DamagedByLossOnly /\ [DeliveryNext]_dvars
        => DamagedByLossOnly'
  <2>1. OnlyCurrentBusy => OneBusy
    BY DEF OnlyCurrentBusy, OneBusy, Busy
  <2> QED
    BY <2>1, Projection, DamagedByLossStep DEF TypeInv, DeliveryTypeOK
<1> QED
  BY <1>1, <1>2, TypeInvariant, FileInvariant, InOrderInvariant, PTL DEF DeliverySpec

-----------------------------------------------------------------------------
(***************************************************************************)
(* Orderly behaviours, while the file is not damaged.  The id of a log is  *)
(* its place in the history on both sides of the wire, and nothing carries *)
(* an id that was never sent: the server is the one that LogQueue assumes. *)
(* From a damaged file the server may read, and ack, any number.           *)
(***************************************************************************)

\* Every log of s has its place as its id, and that is at most n.
AtPlace(s, n) == \A i \in 1 .. Len(s) : s[i].ev = s[i].id /\ s[i].id <= n

\* What the server knows is at its place.
HandlersAtPlace ==
  /\ \A h \in Handlers : AtPlace(msg[h], sent) /\ AtPlace(buf[h], sent) /\ last[h] <= sent
  /\ AtPlace(file, sent) /\ tail <= sent

WireInv == orderly =>
  /\ \A m \in up : AtPlace(m[2], sent)
  /\ HandlersAtPlace
  /\ \A m \in down : m[2] <= sent

\* What the handlers do to sequences of logs keeps logs at their places.
LEMMA AtPlaceTail ==
  ASSUME NEW s \in Seq(HLog), NEW n, AtPlace(s, n), s # <<>>
  PROVE  AtPlace(Tail(s), n) /\ s[1].ev = s[1].id /\ s[1].id <= n
<1>1. /\ Len(Tail(s)) = Len(s) - 1 /\ Len(s) \in Nat /\ Len(s) > 0
      /\ \A i \in 1 .. Len(s) - 1 : Tail(s)[i] = s[i + 1]
  OBVIOUS
<1> QED
  BY <1>1 DEF AtPlace

LEMMA AtPlaceAppend ==
  ASSUME NEW s \in Seq(HLog), NEW e \in HLog, NEW n, AtPlace(s, n), e.ev = e.id, e.id <= n
  PROVE  AtPlace(Append(s, e), n)
<1>1. /\ Len(Append(s, e)) = Len(s) + 1 /\ Append(s, e)[Len(s) + 1] = e
      /\ \A i \in 1 .. Len(s) : Append(s, e)[i] = s[i]
  OBVIOUS
<1> SUFFICES ASSUME NEW i \in 1 .. Len(s) + 1
             PROVE  Append(s, e)[i].ev = Append(s, e)[i].id /\ Append(s, e)[i].id <= n
  BY <1>1 DEF AtPlace
<1>2. CASE i = Len(s) + 1
  BY <1>1, <1>2
<1>3. CASE i \in 1 .. Len(s)
  BY <1>1, <1>3 DEF AtPlace
<1> QED
  BY <1>2, <1>3

LEMMA AtPlaceConcat ==
  ASSUME NEW s \in Seq(HLog), NEW t \in Seq(HLog), NEW n, AtPlace(s, n), AtPlace(t, n)
  PROVE  AtPlace(s \o t, n)
<1> SUFFICES ASSUME NEW i \in 1 .. Len(s \o t)
             PROVE  (s \o t)[i].ev = (s \o t)[i].id /\ (s \o t)[i].id <= n
  BY DEF AtPlace
<1>1. CASE i <= Len(s)
  <2>1. i \in 1 .. Len(s) /\ (s \o t)[i] = s[i]
    BY <1>1
  <2> QED
    BY <2>1 DEF AtPlace
<1>2. CASE i > Len(s)
  <2>1. i - Len(s) \in 1 .. Len(t) /\ (s \o t)[i] = t[i - Len(s)]
    BY <1>2
  <2> QED
    BY <2>1 DEF AtPlace
<1> QED
  BY <1>1, <1>2

LEMMA AtPlaceLastLine ==
  ASSUME NEW s \in Seq(HLog), NEW n \in Nat, AtPlace(s, n)
  PROVE  LastLineId(s) <= n
<1>1. CASE s = <<>>
  BY <1>1 DEF LastLineId
<1>2. CASE s # <<>>
  <2>1. Len(s) \in 1 .. Len(s)
    BY <1>2
  <2> QED
    BY <1>2, <2>1 DEF LastLineId, AtPlace
<1> QED
  BY <1>1, <1>2

LEMMA AtPlaceLarger ==
  ASSUME NEW s, NEW n \in Nat, NEW k \in Nat, n <= k, AtPlace(s, n),
         \A i \in 1 .. Len(s) : s[i].id \in Nat
  PROVE  AtPlace(s, k)
BY DEF AtPlace

\* sent only grows.
LEMMA SentGrows == TypeOK /\ [AnyNext]_vars => sent <= sent'
<1> SUFFICES ASSUME TypeOK, [AnyNext]_vars PROVE sent <= sent'
  OBVIOUS
<1>1. CASE Publish
  <2>1. batch # <<>> /\ sent' = IF batch[Len(batch)].id > sent THEN batch[Len(batch)].id ELSE sent
    BY <1>1 DEF Publish
  <2>2. batch[Len(batch)] \in Log
    BY <2>1, LogSeq DEF TypeOK
  <2> QED
    BY <2>1, <2>2 DEF TypeOK, Log
<1>2. CASE ~Publish
  <2>1. sent' = sent
    BY <1>2 DEF AnyNext, vars, histVars, counts, Start, OpenAckFile, CreateAckFile, LoadLine,
      LoadFails, LoadDone, CleanStart, CleanCopy, CleanRename, DtorOpenAck, DtorWriteAck, Work,
      WakeUp, NewLog, AddToFile, AddToQueue, EndGenerate, BatchStart, BatchCopy, Receive, AckPop,
      AckPopEnd, AckOpen, AckWrite, Die, BatchThrows, Crash, AnyAck, AckLog
  <2> QED
    BY <2>1 DEF TypeOK
<1> QED
  BY <1>1, <1>2

\* A published batch is at its place: it is sorted, so its last id is the
\* largest.
LEMMA PublishedAtPlace ==
  ASSUME TypeOK, TypeOK', OrderInv, LossInv, orderly, Publish
  PROVE  AtPlace(batch, sent')
<1>1. /\ batch \in Seq(Log) /\ sent \in Nat /\ batch # <<>>
      /\ sent' = IF batch[Len(batch)].id > sent THEN batch[Len(batch)].id ELSE sent
  BY DEF Publish, TypeOK
<1>2. Sorted(batch) /\ \A i \in 1 .. Len(batch) : batch[i].ev = batch[i].id
  BY DEF OrderInv, LossInv, QueueInv
<1>3. Len(batch) \in 1 .. Len(batch) /\ \A i \in 1 .. Len(batch) : batch[i].id \in Nat
  <2>1. \A i \in 1 .. Len(batch) : batch[i] \in Log
    BY <1>1
  <2> QED
    BY <1>1, <2>1 DEF Log
<1>4. ASSUME NEW i \in 1 .. Len(batch) PROVE batch[i].id <= batch[Len(batch)].id
  <2>1. CASE i = Len(batch)
    BY <1>3, <2>1
  <2>2. CASE i < Len(batch)
    BY <1>2, <1>3, <2>2 DEF Sorted
  <2> QED
    BY <1>3, <2>1, <2>2
<1> QED
  BY <1>1, <1>2, <1>3, <1>4 DEF AtPlace

LEMMA AtPlaceSplit ==
  ASSUME NEW s \in Seq(HLog), NEW k \in 0 .. Len(s), NEW n, AtPlace(s, n)
  PROVE  AtPlace(SubSeq(s, 1, k), n) /\ AtPlace(SubSeq(s, k + 1, Len(s)), n)
<1> DEFINE u == SubSeq(s, 1, k)
           r == SubSeq(s, k + 1, Len(s))
<1>1. /\ Len(u) = k /\ \A i \in 1 .. k : u[i] = s[i]
      /\ Len(r) = Len(s) - k /\ \A i \in 1 .. Len(s) - k : r[i] = s[k + i]
  BY SplitLogs
<1> HIDE DEF u, r
<1>2. ASSUME NEW i \in 1 .. k PROVE u[i].ev = u[i].id /\ u[i].id <= n
  <2>1. i \in 1 .. Len(s)
    OBVIOUS
  <2> QED
    BY <1>1, <2>1 DEF AtPlace
<1>3. ASSUME NEW i \in 1 .. Len(s) - k PROVE r[i].ev = r[i].id /\ r[i].id <= n
  <2>1. k + i \in 1 .. Len(s)
    OBVIOUS
  <2> QED
    BY <1>1, <2>1 DEF AtPlace
<1> QED
  BY <1>1, <1>2, <1>3 DEF AtPlace, u, r

\* What is written is at its place, and what is read from a cut line no
\* further than that line.
LEMMA FlushedAtPlace ==
  ASSUME HandlerTypeOK, HandlersAtPlace, sent \in Nat, NEW h \in Handlers,
         NEW n \in 0 .. Len(buf[h]), NEW t \in Nat, Flushed(h, n, t)
  PROVE  AtPlace(file', sent) /\ tail' <= sent
<1>0. /\ file \in Seq(HLog) /\ buf[h] \in Seq(HLog)
      /\ AtPlace(file, sent) /\ AtPlace(buf[h], sent)
  BY DEF HandlerTypeOK, HandlersAtPlace
<1>1. AtPlace(file \o SubSeq(buf[h], 1, n), sent)
  <2>1. AtPlace(SubSeq(buf[h], 1, n), sent) /\ SubSeq(buf[h], 1, n) \in Seq(HLog)
    BY <1>0, AtPlaceSplit, SplitLogs
  <2> QED
    BY <1>0, <2>1, AtPlaceConcat
<1>2. t <= sent
  <2>1. CASE t = 0
    BY <2>1
  <2>2. CASE t # 0
    <3>1. n + 1 \in 1 .. Len(buf[h]) /\ t <= buf[h][n + 1].id
      BY <1>0, <2>2 DEF Flushed, IsCut
    <3>2. buf[h][n + 1].id <= sent /\ buf[h][n + 1] \in HLog
      BY <1>0, <3>1 DEF AtPlace
    <3> QED
      BY <3>1, <3>2 DEF HLog
  <2> QED
    BY <2>1, <2>2
<1> QED
  BY <1>1, <1>2 DEF Flushed

\* A handler's step with a message whose logs are at their places.
LEMMA HandlerWireStep ==
  ASSUME HandlerTypeOK, HandlerTypeOK', sent \in Nat, sent' = sent, HandlersAtPlace, ~damaged,
         NEW h \in Handlers,
         \/ HandlerStep(h)
         \/ \E m \in Seq(HLog) : AtPlace(m, sent) /\ RecvLog(h, m)
  PROVE  HandlersAtPlace'
<1>0. /\ file \in Seq(HLog) /\ tail \in Nat
      /\ buf \in [Handlers -> Seq(HLog)] /\ msg \in [Handlers -> Seq(HLog)]
      /\ last \in [Handlers -> Nat]
      /\ AtPlace(file, sent) /\ tail <= sent
      /\ \A g \in Handlers : AtPlace(buf[g], sent) /\ AtPlace(msg[g], sent) /\ last[g] <= sent
  BY DEF HandlerTypeOK, HandlersAtPlace
<1>1. ASSUME NEW m \in Seq(HLog), AtPlace(m, sent), RecvLog(h, m) PROVE HandlersAtPlace'
  <2>1. UNCHANGED <<file, tail>>
    BY <1>1, RecvEffect
  <2>2. CASE UNCHANGED <<last, msg, buf>>
    BY <1>0, <2>1, <2>2 DEF HandlersAtPlace
  <2>3. CASE /\ msg' = [msg EXCEPT ![h] = m] /\ buf' = [buf EXCEPT ![h] = <<>>]
             /\ last' = [last EXCEPT ![h] = IF tail # 0 THEN tail ELSE LastLineId(file)]
    <3>1. (IF tail # 0 THEN tail ELSE LastLineId(file)) <= sent
      BY <1>0, AtPlaceLastLine
    <3>2. AtPlace(<<>>, sent)
      BY DEF AtPlace
    <3> QED
      BY <1>0, <1>1, <2>1, <2>3, <3>1, <3>2 DEF HandlersAtPlace
  <2> QED
    BY <1>1, <2>2, <2>3, RecvEffect
<1>2. CASE AppendLog(h)
  <2> DEFINE e == msg[h][1]
  <2>1. /\ msg[h] # <<>> /\ UNCHANGED <<file, tail>> /\ msg' = [msg EXCEPT ![h] = Tail(msg[h])]
        /\ e \in HLog
    BY <1>2, AppendEffect
  <2>2. \/ UNCHANGED <<buf, last>>
        \/ /\ e.id = last[h] + 1
           /\ buf' = buf \/ buf' = [buf EXCEPT ![h] = Append(buf[h], e)]
           /\ last' = [last EXCEPT ![h] = last[h] + 1]
    BY <1>2, AppendEffect
  <2>3. AtPlace(Tail(msg[h]), sent) /\ e.ev = e.id /\ e.id <= sent
    BY <1>0, <2>1, AtPlaceTail
  <2>4. AtPlace(Append(buf[h], e), sent)
    BY <1>0, <2>1, <2>3, AtPlaceAppend
  <2>5. \A g \in Handlers : AtPlace(msg'[g], sent)
    BY <1>0, <2>1, <2>3
  <2>6. \A g \in Handlers : AtPlace(buf'[g], sent)
    BY <1>0, <2>2, <2>4
  <2>7. \A g \in Handlers : last'[g] <= sent
    BY <1>0, <2>2, <2>3
  <2> QED
    BY <1>0, <2>1, <2>5, <2>6, <2>7 DEF HandlersAtPlace
<1>3. CASE Spill(h)
  <2>1. PICK n \in 0 .. Len(buf[h]), t \in Nat :
          /\ \/ Joins(h) /\ damaged' = TRUE /\ UNCHANGED <<file, tail>>
             \/ Flushed(h, n, t)
          /\ buf' = [buf EXCEPT ![h] = SubSeq(buf[h], n + 1, Len(buf[h]))]
          /\ begun' = IF t # 0 THEN begun \cup {h} ELSE begun \ {h}
    BY <1>3, SpillEffect
  <2>2. UNCHANGED <<last, msg>>
    BY <1>3, SpillEffect
  <2>3. AtPlace(file', sent) /\ tail' <= sent
    BY <1>0, <2>1, FlushedAtPlace
  <2>4. AtPlace(SubSeq(buf[h], n + 1, Len(buf[h])), sent)
    BY <1>0, AtPlaceSplit
  <2>5. \A g \in Handlers : AtPlace(buf'[g], sent)
    BY <1>0, <2>1, <2>4
  <2> QED
    BY <1>0, <2>2, <2>3, <2>5 DEF HandlersAtPlace
<1>4. CASE CloseFile(h)
  <2>1. UNCHANGED <<last, msg>> /\ buf' = [buf EXCEPT ![h] = <<>>]
    BY <1>4, CloseEffect DEF Closed
  <2>2. AtPlace(file', sent) /\ tail' <= sent
    <3>1. Len(buf[h]) \in 0 .. Len(buf[h]) /\ 0 \in Nat
      BY <1>0
    <3>2. ASSUME NEW n \in 0 .. Len(buf[h]), NEW t \in Nat, Flushed(h, n, t)
          PROVE  AtPlace(file', sent) /\ tail' <= sent
      BY <3>2, FlushedAtPlace
    <3> QED
      BY <1>0, <1>4, <3>1, <3>2, CloseEffect
  <2>3. AtPlace(<<>>, sent)
    BY DEF AtPlace
  <2> QED
    BY <1>0, <2>1, <2>2, <2>3 DEF HandlersAtPlace
<1>5. CASE StreamFails(h) \/ SendAck(h)
  BY <1>0, <1>5 DEF StreamFails, SendAck, HandlersAtPlace
<1> QED
  BY <1>1, <1>2, <1>3, <1>4, <1>5 DEF HandlerStep

\* The client's steps, and the network's, leave the server alone.
LEMMA HandlersUndisturbed ==
  ASSUME HandlerTypeOK, sent \in Nat, sent' \in Nat, sent <= sent', HandlersAtPlace,
         UNCHANGED hvars
  PROVE  HandlersAtPlace'
<1>1. ASSUME NEW t \in Seq(HLog), AtPlace(t, sent) PROVE AtPlace(t, sent')
  <2>1. \A i \in 1 .. Len(t) : t[i] \in HLog
    OBVIOUS
  <2> QED
    BY <1>1, <2>1 DEF AtPlace, HLog
<1>2. UNCHANGED <<file, tail, last, msg, buf>>
  BY DEF hvars
<1>3. /\ file \in Seq(HLog) /\ tail \in Nat
      /\ \A h \in Handlers : msg[h] \in Seq(HLog) /\ buf[h] \in Seq(HLog) /\ last[h] \in Nat
  BY DEF HandlerTypeOK
<1>4. AtPlace(file', sent') /\ tail' <= sent'
  BY <1>1, <1>2, <1>3 DEF HandlersAtPlace
<1>5. ASSUME NEW h \in Handlers
      PROVE  AtPlace(msg'[h], sent') /\ AtPlace(buf'[h], sent') /\ last'[h] <= sent'
  <2>1. AtPlace(msg[h], sent) /\ AtPlace(buf[h], sent) /\ last[h] <= sent
    BY DEF HandlersAtPlace
  <2> QED
    BY <1>1, <1>2, <1>3, <2>1
<1> QED
  BY <1>4, <1>5 DEF HandlersAtPlace

\* The ids of what is sent and acked are among those the client has sent.
LEMMA WireStep ==
  ASSUME TypeInv, TypeInv', LossInv, WireInv, ~damaged, [DeliveryNext]_dvars
  PROVE  WireInv'
<1> SUFFICES ASSUME orderly'
             PROVE  /\ \A m \in up' : AtPlace(m[2], sent')
                    /\ HandlersAtPlace'
                    /\ \A m \in down' : m[2] <= sent'
  BY DEF WireInv
<1>0. /\ TypeOK /\ TypeOK' /\ HandlerTypeOK /\ HandlerTypeOK' /\ OrderInv
      /\ [AnyNext]_vars /\ sent \in Nat /\ sent' \in Nat
  BY Projection DEF TypeInv, DeliveryTypeOK, TypeOK
<1>1. orderly /\ sent <= sent'
  BY <1>0, OrderlyBefore, SentGrows
<1>2. /\ \A m \in up : AtPlace(m[2], sent)
      /\ HandlersAtPlace /\ \A m \in down : m[2] <= sent
  BY <1>1 DEF WireInv
<1>3. ASSUME NEW t \in Seq(Log), AtPlace(t, sent) PROVE AtPlace(t, sent')
  <2>1. \A i \in 1 .. Len(t) : t[i] \in Log
    OBVIOUS
  <2> QED
    BY <1>0, <1>1, <1>3, <2>1 DEF AtPlace, Log
<1>4. \A m \in up : m[2] \in Seq(Log) /\ AtPlace(m[2], sent')
  BY <1>2, <1>3 DEF TypeInv, DeliveryTypeOK
<1>5. \A m \in down : m[2] <= sent'
  BY <1>0, <1>1, <1>2 DEF TypeInv, DeliveryTypeOK
<1>6. CASE SendBatch
  <2>1. AtPlace(batch, sent')
    BY <1>0, <1>1, <1>6, PublishedAtPlace DEF SendBatch
  <2>2. up' = up \/ up' = up \cup {<<conn, batch>>}
    BY <1>6 DEF SendBatch
  <2>3. \A m \in up' : AtPlace(m[2], sent')
    BY <1>4, <2>1, <2>2
  <2>4. UNCHANGED hvars /\ down' = down
    BY <1>6 DEF SendBatch
  <2> QED
    BY <1>0, <1>1, <1>2, <1>5, <2>3, <2>4, HandlersUndisturbed
<1>7. CASE \/ ClientMain \/ ClientReceiver \/ ClientDies \/ ReceiveAck
           \/ Connect \/ Disconnect \/ Lose \/ UNCHANGED dvars
  <2>1. UNCHANGED hvars /\ up' \subseteq up /\ down' \subseteq down
    BY <1>7 DEF ClientMain, ClientReceiver, ClientDies, ReceiveAck, Connect, Disconnect, Lose,
       dvars, net
  <2> QED
    BY <1>0, <1>1, <1>2, <1>4, <1>5, <2>1, HandlersUndisturbed
<1>8. CASE ServerRestart \/ AckThrows
  <2>1. /\ UNCHANGED <<vars, file, tail>> /\ up' = {} /\ down' = {}
        /\ last' = [h \in Handlers |-> 0] /\ msg' = [h \in Handlers |-> <<>>]
        /\ buf' = [h \in Handlers |-> <<>>]
    BY <1>8 DEF ServerRestart, ServerCrash, AckThrows, ServerEnds
  <2>2. sent' = sent
    BY <2>1 DEF vars, histVars
  <2>3. HandlersAtPlace'
    BY <1>0, <1>2, <2>1, <2>2 DEF HandlersAtPlace, AtPlace
  <2> QED
    BY <2>1, <2>3
<1>9. CASE Server
  <2>1. PICK h \in Handlers : ReceiveBatch(h) \/ ReplyAck(h) \/ HandleLog(h)
    BY <1>9 DEF Server
  <2>2. sent' = sent /\ up' \subseteq up
    BY <2>1 DEF ReceiveBatch, ReplyAck, HandleLog, vars, histVars, net
  <2>3. \/ HandlerStep(h)
        \/ \E m \in Seq(HLog) : AtPlace(m, sent) /\ RecvLog(h, m)
    <3>1. CASE ReceiveBatch(h)
      <4>1. PICK m \in up : RecvLog(h, m[2])
        BY <3>1 DEF ReceiveBatch
      <4>2. m[2] \in Seq(HLog)
        BY SentLogs DEF TypeInv, DeliveryTypeOK
      <4> QED
        BY <1>2, <4>1, <4>2
    <3>2. CASE ReplyAck(h) \/ HandleLog(h)
      BY <3>2 DEF ReplyAck, HandleLog, HandlerStep
    <3> QED
      BY <2>1, <3>1, <3>2
  <2>4. HandlersAtPlace'
    BY <1>0, <1>2, <2>2, <2>3, HandlerWireStep
  <2>5. \A m \in down' : m[2] <= sent'
    <3>1. down' \subseteq down \cup {<<h, last[h]>>}
      BY <2>1 DEF ReceiveBatch, ReplyAck, HandleLog, net
    <3>2. last[h] <= sent
      BY <1>0, <1>2 DEF HandlerTypeOK, HandlersAtPlace
    <3> QED
      BY <1>2, <2>2, <3>1, <3>2
  <2> QED
    BY <1>4, <2>2, <2>4, <2>5
<1> QED
  BY <1>6, <1>7, <1>8, <1>9 DEF DeliveryNext

\* In an orderly behaviour the server acknowledges what LogQueue assumes, as
\* long as it reads a file that is not damaged.
LEMMA QueueStep ==
  ASSUME TypeInv, WireInv, orderly, [DeliveryNext]_dvars
  PROVE  [Next]_vars
<1>1. CASE ReceiveAck
  <2>1. PICK m \in down : AckLog(m[2])
    BY <1>1 DEF ReceiveAck
  <2>2. m[2] \in 0 .. sent
    <3>1. m[2] \in Nat /\ m[2] <= sent /\ sent \in Nat
      BY DEF WireInv, TypeInv, DeliveryTypeOK, TypeOK
    <3> QED
      BY <3>1
  <2> QED
    BY <2>1, <2>2 DEF Next
<1>2. CASE ~ReceiveAck
  BY <1>2 DEF DeliveryNext, ClientMain, ClientReceiver, SendBatch, ClientDies, Server,
     ReceiveBatch, ReplyAck, HandleLog, ServerRestart, AckThrows, Connect, Disconnect, Lose,
     dvars, Next
<1> QED
  BY <1>1, <1>2

WholeInv == TypeInv /\ (damaged \/ (LossInv /\ WireInv))

LEMMA WholeInvariant == DeliverySpec => []WholeInv
<1>1. DeliveryInit => WholeInv
  <2> SUFFICES ASSUME DeliveryInit PROVE LossInv /\ WireInv
    BY TypeInvStarts DEF WholeInv
  <2>1. LossInv
    BY LossStarts DEF DeliveryInit
  <2>2. HandlersAtPlace
    BY DEF DeliveryInit, HandlerInit, Init, HandlersAtPlace, AtPlace
  <2> QED
    BY <2>1, <2>2 DEF DeliveryInit, WireInv
<1>2. TypeInv' /\ WholeInv /\ [DeliveryNext]_dvars => WholeInv'
  <2> SUFFICES ASSUME TypeInv', WholeInv, [DeliveryNext]_dvars, ~damaged'
               PROVE  LossInv' /\ WireInv'
    BY DEF WholeInv
  <2>0. TypeInv /\ LossInv /\ WireInv /\ ~damaged
    <3>1. HandlerTypeOK /\ [AnyHandlerNext]_hvars
      BY Projection DEF WholeInv, TypeInv, DeliveryTypeOK
    <3> QED
      BY <3>1, DamagedStays DEF WholeInv
  <2>1. WireInv'
    BY <2>0, WireStep
  <2>2. ASSUME orderly' PROVE LossInv'
    <3>1. TypeOK /\ TypeOK' /\ [AnyNext]_vars
      BY <2>0, Projection DEF TypeInv, DeliveryTypeOK
    <3>2. orderly
      BY <2>2, <3>1, OrderlyBefore
    <3> QED
      BY <2>0, <3>1, <3>2, QueueStep, LossStep
  <2>3. ~orderly' => LossInv'
    BY DEF LossInv
  <2> QED
    BY <2>1, <2>2, <2>3
<1> QED
  BY <1>1, <1>2, TypeInvariant, PTL DEF DeliverySpec

\* With the real server in place of the one LogQueue assumes, as long as the
\* behaviour is orderly and no lines have been joined in the server's file,
\* the client takes only LogQueue's steps: the server never acknowledges an
\* id that has not been sent to it, also when it reads a line cut off.
THEOREM DeliveryImplementsQueue ==
  DeliverySpec => [][orderly /\ ~damaged => Next \/ UNCHANGED vars]_vars
<1>1. WholeInv /\ [DeliveryNext]_dvars => [orderly /\ ~damaged => Next \/ UNCHANGED vars]_vars
  BY QueueStep DEF WholeInv
<1> QED
  BY <1>1, WholeInvariant, PTL DEF DeliverySpec

\* What LogQueue guarantees holds in the whole until lines are joined in the
\* server's file: no id is missing from the deque, and a log that no ack of
\* the server has covered is on disk.
THEOREM DeliveryKeepsLogs == DeliverySpec => [](damaged \/ (QueueContiguous /\ NoLogLost))
<1>1. WholeInv => damaged \/ (QueueContiguous /\ NoLogLost)
  BY QueueContiguousFromInv, NoLogLostFromInv DEF WholeInv, TypeInv, DeliveryTypeOK
<1> QED
  BY <1>1, WholeInvariant, PTL

-----------------------------------------------------------------------------
(***************************************************************************)
(* LogDelivery implements ReliableLog: the file is a prefix of the history *)
(* at every step, because the id of a line is both its number in the file  *)
(* (StoredInOrder) and its place in the history (WireInv).  Once lines     *)
(* have been joined, what precedes them stays as it is.                    *)
(***************************************************************************)

RefInv == WholeInv /\ OnlyCurrentBusy /\ InOrderInv

\* A file in order, at its places, is the history up to its length.
LEMMA StoredPrefix ==
  ASSUME NEW f \in Seq(HLog), NEW n \in Nat, \A i \in DOMAIN f : f[i].id = i, AtPlace(f, n)
  PROVE  /\ [i \in DOMAIN f |-> f[i].ev] = [i \in 1 .. Len(f) |-> i]
         /\ Len(f) <= n
<1>1. DOMAIN f = 1 .. Len(f) /\ Len(f) \in Nat
  OBVIOUS
<1>2. \A i \in 1 .. Len(f) : f[i].ev = i /\ f[i].id <= n
  BY <1>1 DEF AtPlace
<1>3. Len(f) <= n
  <2>1. CASE Len(f) = 0
    BY <2>1
  <2>2. CASE Len(f) # 0
    <3>1. Len(f) \in 1 .. Len(f)
      BY <1>1, <2>2
    <3> QED
      BY <1>1, <1>2, <3>1
  <2> QED
    BY <2>1, <2>2
<1> QED
  BY <1>1, <1>2, <1>3

StoredIsPrefix ==
  /\ [i \in DOMAIN file |-> file[i].ev] = [i \in 1 .. Len(file) |-> i]
  /\ Len(file) \in Nat /\ Len(file) <= gen

LEMMA RefInvStored == RefInv /\ orderly /\ ~damaged => StoredIsPrefix
<1> SUFFICES ASSUME RefInv, orderly, ~damaged PROVE StoredIsPrefix
  OBVIOUS
<1>1. file \in Seq(HLog) /\ sent \in Nat /\ gen \in Nat
  BY DEF RefInv, WholeInv, TypeInv, DeliveryTypeOK, TypeOK, HandlerTypeOK
<1>2. (\A i \in DOMAIN file : file[i].id = i) /\ AtPlace(file, sent)
  BY DEF RefInv, InOrderInv, StoredInOrder, WholeInv, WireInv, HandlersAtPlace
<1>3. sent <= gen
  BY <1>1 DEF RefInv, WholeInv, LossInv, QueueInv, LastQueued
<1> QED
  BY <1>1, <1>2, <1>3, StoredPrefix DEF StoredIsPrefix

\* Only add_log generates.
LEMMA OnlyAddGenerates ==
  ASSUME [AnyNext]_vars
  PROVE  AddToFile \/ gen' = gen
<1> USE DEF vars, histVars, counts
<1>1. CASE Start
  BY <1>1 DEF Start, OpenAckFile, CreateAckFile, LoadLine, LoadFails, LoadDone, CleanStart,
      CleanCopy, CleanRename, DtorOpenAck, DtorWriteAck
<1>2. CASE Work
  BY <1>2 DEF Work, WakeUp, NewLog, AddToQueue, EndGenerate, BatchStart, BatchCopy
<1>3. CASE Publish \/ Receive \/ Die \/ AnyAck
  BY <1>3 DEF Publish, Receive, AckPop, AckPopEnd, AckOpen, AckWrite, Die, BatchThrows,
      Crash, AnyAck, AckLog
<1>4. CASE UNCHANGED vars
  BY <1>4
<1> QED
  BY <1>1, <1>2, <1>3, <1>4 DEF AnyNext

\* The file grows at its end, by lines of one handler's buffer, and only
\* while it is not damaged.
LEMMA FileGrows ==
  ASSUME HandlerTypeOK, [DeliveryNext]_dvars
  PROVE  \/ UNCHANGED file
         \/ /\ UNCHANGED vars /\ ~damaged /\ ~damaged'
            /\ \E u \in Seq(HLog) : file' = file \o u /\ u # <<>>
<1>1. ASSUME NEW h \in Handlers, NEW n \in 0 .. Len(buf[h]), NEW t \in Nat, Flushed(h, n, t)
      PROVE  /\ ~damaged /\ ~damaged'
             /\ \E u \in Seq(HLog) : file' = file \o u /\ (u = <<>> => file' = file)
  <2> DEFINE u == SubSeq(buf[h], 1, n)
  <2>1. file \in Seq(HLog) /\ buf[h] \in Seq(HLog)
    BY DEF HandlerTypeOK
  <2>2. u \in Seq(HLog)
    BY <2>1, SplitLogs
  <2>3. file' = file \o u /\ ~damaged /\ ~damaged'
    BY <1>1 DEF Flushed
  <2>4. file \o <<>> = file
    BY <2>1
  <2> HIDE DEF u
  <2> QED
    BY <2>2, <2>3, <2>4
<1>2. ASSUME NEW h \in Handlers, Spill(h) \/ CloseFile(h)
      PROVE  \/ UNCHANGED file
             \/ /\ ~damaged /\ ~damaged'
                /\ \E u \in Seq(HLog) : file' = file \o u /\ u # <<>>
  <2>1. CASE Spill(h)
    BY <1>1, <2>1, SpillEffect
  <2>2. CASE CloseFile(h)
    <3>1. Len(buf[h]) \in 0 .. Len(buf[h]) /\ 0 \in Nat
      BY DEF HandlerTypeOK
    <3> QED
      BY <1>1, <2>2, <3>1, CloseEffect
  <2> QED
    BY <1>2, <2>1, <2>2
<1>3. CASE Server
  <2>1. PICK h \in Handlers : ReceiveBatch(h) \/ ReplyAck(h) \/ HandleLog(h)
    BY <1>3 DEF Server
  <2>2. UNCHANGED vars
    BY <2>1 DEF ReceiveBatch, ReplyAck, HandleLog
  <2>3. file' = file \/ Spill(h) \/ CloseFile(h)
    BY <2>1 DEF ReceiveBatch, RecvLog, ReplyAck, SendAck, HandleLog, AppendLog, StreamFails
  <2> QED
    BY <1>2, <2>2, <2>3
<1>4. CASE ~Server
  BY <1>4 DEF DeliveryNext, ClientMain, ClientReceiver, SendBatch, ReceiveAck, ClientDies,
     ServerRestart, ServerCrash, AckThrows, ServerEnds, Connect, Disconnect, Lose, dvars, hvars
<1> QED
  BY <1>3, <1>4

LEMMA ReliableStep ==
  ASSUME RefInv, RefInv', orderly, orderly', [DeliveryNext]_dvars
  PROVE  [RL!RLNext]_(RL!rlVars)
<1> DEFINE st == [i \in DOMAIN file |-> file[i].ev]
<1>1. /\ TypeInv /\ HandlerTypeOK /\ gen \in Nat
  BY DEF RefInv, WholeInv, TypeInv, DeliveryTypeOK, TypeOK
<1>2. CASE file' = file
  <2>1. st' = st
    BY <1>2
  <2>2. AddToFile \/ gen' = gen
    BY <1>1, Projection, OnlyAddGenerates
  <2>3. CASE AddToFile
    BY <2>1, <2>3 DEF AddToFile, RL!RLNext, RL!Generate
  <2>4. CASE gen' = gen
    BY <2>1, <2>4 DEF RL!rlVars
  <2> QED
    BY <2>2, <2>3, <2>4
<1>3. CASE /\ UNCHANGED vars /\ ~damaged /\ ~damaged'
           /\ \E u \in Seq(HLog) : file' = file \o u /\ u # <<>>
  <2>1. /\ st = [i \in 1 .. Len(file) |-> i] /\ Len(file) \in Nat
        /\ st' = [i \in 1 .. Len(file') |-> i] /\ Len(file') \in Nat /\ Len(file') <= gen'
    <3>1. (RefInv /\ orderly /\ ~damaged => StoredIsPrefix)'
      BY RefInvStored, PTL
    <3> QED
      BY <1>3, <3>1, RefInvStored DEF StoredIsPrefix
  <2>2. gen' = gen
    BY <1>3 DEF vars, histVars
  <2>3. PICK u \in Seq(HLog) : file' = file \o u /\ u # <<>>
    BY <1>3
  <2>4. file \in Seq(HLog)
    BY <1>1 DEF HandlerTypeOK
  <2>5. Len(file') \in Len(file) + 1 .. gen
    BY <1>1, <2>1, <2>2, <2>3, <2>4
  <2>6. Len(st) = Len(file)
    BY <2>1
  <2>7. RL!Store
    BY <2>1, <2>2, <2>5, <2>6 DEF RL!Store
  <2> QED
    BY <2>7 DEF RL!RLNext
<1> QED
  BY <1>1, <1>2, <1>3, FileGrows

\* In every orderly behaviour the server's file up to its first damaged line
\* is, at every moment, a prefix of the client's history, in order, each log
\* once, and never shrinks, provided that handlers do not overlap.
THEOREM OrderlyDelivery ==
  ASSUME ~Overlap PROVE DeliverySpec /\ []orderly => ImplementsReliableLog
<1>1. DeliveryInit => RL!RLInit
  BY DEF DeliveryInit, Init, HandlerInit, RL!RLInit
<1>2. RefInv /\ RefInv' /\ orderly /\ orderly' /\ [DeliveryNext]_dvars
        => [RL!RLNext]_(RL!rlVars)
  BY ReliableStep
<1>3. DeliverySpec => []RefInv
  BY WholeInvariant, InOrderInvariant, PTL DEF RefInv
<1> QED
  BY <1>1, <1>2, <1>3, PTL DEF DeliverySpec, ImplementsReliableLog, RL!RLSpec

LEMMA AlwaysOrderly ==
  ASSUME ~DiskMayFail, Restarts \subseteq {"benign"}
  PROVE  DeliverySpec => []orderly
<1>1. DeliveryInit => orderly
  BY DEF DeliveryInit, Init
<1>2. TypeInv /\ orderly /\ [DeliveryNext]_dvars => orderly'
  BY Projection, OrderlyAfter
<1> QED
  BY <1>1, <1>2, TypeInvariant, PTL DEF DeliverySpec

\* The promise of README.md ("similar to TCP ack"), kept by LogQueue,
\* handle_recv_log and retransmission together, for the file up to its first
\* damaged line, through kills of the client at any step and of the server,
\* reconnects, lost and reordered messages, acks to ended connections and
\* failing writes of the server, where the client's files open and no start
\* finds its ack file torn or its queue drained.
THEOREM DeliveryIsReliable ==
  ASSUME ~Overlap, ~DiskMayFail, Restarts \subseteq {"benign"}
  PROVE  DeliverySpec => ImplementsReliableLog
BY OrderlyDelivery, AlwaysOrderly, PTL
-----------------------------------------------------------------------------
(***************************************************************************)
(* DoneIsStored.  An ack carries the number its handler has reached; all   *)
(* ids up to it are in the file or in a stream (NoHoleInv), where they     *)
(* stay until the server loses lines.                                      *)
(***************************************************************************)

InFile(e) == Stored(e) \/ Buffered(e)
Kept(n)   == \A e \in 1 .. n : InFile(e)

\* A handler that waits for a message has no line in its stream.
IdleIsEmpty == \A h \in Handlers : hpc[h] = "recv" => buf[h] = <<>>

StoredInv == orderly /\ ~LinesLost =>
  /\ \A e \in done : InFile(e)
  /\ \A m \in down : Kept(m[2])

LEMMA IdleIsEmptyStep ==
  ASSUME HandlerTypeOK, HandlerTypeOK', IdleIsEmpty, [AnyHandlerNext]_hvars
  PROVE  IdleIsEmpty'
<1>0. /\ hpc \in [Handlers -> {"recv", "append", "close"}]
      /\ buf \in [Handlers -> Seq(HLog)]
  BY DEF HandlerTypeOK
<1>1. CASE ServerEnds
  BY <1>1 DEF ServerEnds, IdleIsEmpty
<1>2. ASSUME NEW h \in Handlers, AnyLogs(h) PROVE IdleIsEmpty'
  BY <1>0, <1>2 DEF AnyLogs, RecvLog, IdleIsEmpty
<1>3. ASSUME NEW h \in Handlers, AppendLog(h) PROVE IdleIsEmpty'
  BY <1>0, <1>3, AppendEffect DEF IdleIsEmpty
<1>4. ASSUME NEW h \in Handlers, Spill(h) PROVE IdleIsEmpty'
  BY <1>0, <1>4, SpillEffect DEF IdleIsEmpty
<1>5. ASSUME NEW h \in Handlers, CloseFile(h) PROVE IdleIsEmpty'
  <2>1. Closed(h)
    BY <1>5, CloseEffect
  <2> QED
    BY <1>0, <2>1 DEF Closed, IdleIsEmpty
<1>6. ASSUME NEW h \in Handlers, StreamFails(h) \/ SendAck(h) PROVE IdleIsEmpty'
  BY <1>0, <1>6 DEF StreamFails, SendAck, IdleIsEmpty
<1>7. CASE UNCHANGED hvars
  BY <1>7 DEF hvars, IdleIsEmpty
<1> QED
  BY <1>1, <1>2, <1>3, <1>4, <1>5, <1>6, <1>7 DEF AnyHandlerNext, HandlerStep

\* What has been lost stays lost.
LEMMA LostStays ==
  ASSUME HandlerTypeOK, [AnyHandlerNext]_hvars, LinesLost
  PROVE  LinesLost'
<1>1. ASSUME dropped PROVE dropped'
  <2>1. CASE ServerEnds \/ UNCHANGED hvars
    BY <1>1, <2>1 DEF ServerEnds, hvars
  <2>2. ASSUME NEW h \in Handlers, AnyLogs(h) \/ StreamFails(h) \/ SendAck(h) PROVE dropped'
    BY <1>1, <2>2 DEF AnyLogs, RecvLog, StreamFails, SendAck
  <2>3. ASSUME NEW h \in Handlers, AppendLog(h) PROVE dropped'
    BY <1>1, <2>3, AppendEffect
  <2>4. ASSUME NEW h \in Handlers, Spill(h) PROVE dropped'
    BY <1>1, <2>4, SpillEffect
  <2>5. ASSUME NEW h \in Handlers, CloseFile(h) PROVE dropped'
    BY <1>1, <2>5, CloseEffect
  <2> QED
    BY <2>1, <2>2, <2>3, <2>4, <2>5 DEF AnyHandlerNext, HandlerStep
<1> QED
  BY <1>1, DamagedStays DEF LinesLost

\* What is in the file, or in the stream that writes, is in the file or in the
\* rest of the stream afterwards.
LEMMA FlushedStored ==
  ASSUME HandlerTypeOK, NEW h \in Handlers, NEW n \in 0 .. Len(buf[h]), NEW t \in Nat,
         Flushed(h, n, t), NEW e
  PROVE  LET r == SubSeq(buf[h], n + 1, Len(buf[h]))
         IN  /\ Stored(e) => Stored(e)'
             /\ (\E i \in DOMAIN buf[h] : buf[h][i].ev = e)
                  => Stored(e)' \/ \E i \in DOMAIN r : r[i].ev = e
<1> DEFINE u == SubSeq(buf[h], 1, n)
           r == SubSeq(buf[h], n + 1, Len(buf[h]))
<1>0. file \in Seq(HLog) /\ buf[h] \in Seq(HLog) /\ file' = file \o u
  BY DEF HandlerTypeOK, Flushed
<1>1. /\ u \in Seq(HLog) /\ Len(u) = n /\ \A i \in 1 .. n : u[i] = buf[h][i]
      /\ r \in Seq(HLog) /\ Len(r) = Len(buf[h]) - n
      /\ \A i \in 1 .. Len(buf[h]) - n : r[i] = buf[h][n + i]
  BY <1>0, SplitLogs
<1> HIDE DEF u, r
<1>2. ASSUME Stored(e) PROVE Stored(e)'
  <2>1. PICK i \in 1 .. Len(file) : file[i].ev = e
    BY <1>0, <1>2 DEF Stored
  <2>2. i \in DOMAIN (file \o u) /\ (file \o u)[i] = file[i]
    BY <1>0, <1>1
  <2> QED
    BY <1>0, <2>1, <2>2 DEF Stored
<1>3. ASSUME \E i \in DOMAIN buf[h] : buf[h][i].ev = e
      PROVE  Stored(e)' \/ \E i \in DOMAIN r : r[i].ev = e
  <2>1. PICK i \in 1 .. Len(buf[h]) : buf[h][i].ev = e
    BY <1>0, <1>3
  <2>2. CASE i <= n
    <3>1. i \in 1 .. Len(u) /\ u[i] = buf[h][i]
      BY <1>0, <1>1, <2>2
    <3>2. Len(file) + i \in DOMAIN (file \o u) /\ (file \o u)[Len(file) + i] = u[i]
      BY <1>0, <1>1, <3>1
    <3> QED
      BY <1>0, <2>1, <3>1, <3>2 DEF Stored
  <2>3. CASE i > n
    <3>1. i - n \in 1 .. Len(buf[h]) - n /\ n + (i - n) = i
      BY <1>0, <2>3
    <3>2. i - n \in DOMAIN r /\ r[i - n] = buf[h][i]
      BY <1>1, <3>1
    <3> QED
      BY <2>1, <3>2
  <2> QED
    BY <2>2, <2>3
<1> QED
  BY <1>2, <1>3 DEF r

\* What is in the file or a stream stays there while nothing is lost.
LEMMA InFileStable ==
  ASSUME HandlerTypeOK, HandlerTypeOK', IdleIsEmpty, ~LinesLost',
         [AnyHandlerNext]_hvars, NEW e, InFile(e)
  PROVE  InFile(e)'
<1>0. /\ buf \in [Handlers -> Seq(HLog)] /\ ~dropped' /\ ~damaged'
      /\ hpc \in [Handlers -> {"recv", "append", "close"}]
  BY DEF HandlerTypeOK, LinesLost
<1>1. CASE ServerEnds
  <2>1. file' = file /\ \A h \in Handlers : buf[h] = <<>>
    BY <1>0, <1>1 DEF ServerEnds
  <2>2. Stored(e)
    BY <2>1 DEF InFile, Buffered
  <2> QED
    BY <2>1, <2>2 DEF InFile, Stored
<1>2. ASSUME NEW h \in Handlers, AnyLogs(h) PROVE InFile(e)'
  <2>1. file' = file /\ buf' = buf
    BY <1>0, <1>2 DEF AnyLogs, RecvLog, IdleIsEmpty
  <2> QED
    BY <2>1 DEF InFile, Stored, Buffered
<1>3. ASSUME NEW h \in Handlers, AppendLog(h) PROVE InFile(e)'
  <2>1. /\ file' = file /\ msg[h][1] \in HLog
        /\ buf' = buf \/ buf' = [buf EXCEPT ![h] = Append(buf[h], msg[h][1])]
    BY <1>3, AppendEffect
  <2>2. CASE Stored(e)
    BY <2>1, <2>2 DEF InFile, Stored
  <2>3. ASSUME NEW g \in Handlers, NEW i \in 1 .. Len(buf[g]), buf[g][i].ev = e
        PROVE  InFile(e)'
    <3>1. buf'[g] = buf[g] \/ buf'[g] = Append(buf[g], msg[h][1])
      BY <1>0, <2>1
    <3>2. buf[g] \in Seq(HLog)
      BY <1>0
    <3>3. i \in DOMAIN buf'[g] /\ buf'[g][i] = buf[g][i]
      BY <2>1, <3>1, <3>2
    <3> QED
      BY <2>3, <3>3 DEF InFile, Buffered
  <2>4. \A g \in Handlers : DOMAIN buf[g] = 1 .. Len(buf[g])
    BY <1>0
  <2> QED
    BY <2>2, <2>3, <2>4 DEF InFile, Buffered
<1>4. ASSUME NEW h \in Handlers, NEW n \in 0 .. Len(buf[h]), NEW t \in Nat, Flushed(h, n, t),
             \A g \in Handlers \ {h} : buf'[g] = buf[g],
             \/ buf'[h] = SubSeq(buf[h], n + 1, Len(buf[h]))
             \/ n = Len(buf[h])
      PROVE  InFile(e)'
  <2> DEFINE r == SubSeq(buf[h], n + 1, Len(buf[h]))
  <2>1. /\ Stored(e) => Stored(e)'
        /\ (\E i \in DOMAIN buf[h] : buf[h][i].ev = e)
             => Stored(e)' \/ \E i \in DOMAIN r : r[i].ev = e
    BY <1>4, FlushedStored
  <2>2. DOMAIN r = 1 .. (Len(buf[h]) - n)
    <3>1. r \in Seq(HLog) /\ Len(r) = Len(buf[h]) - n
      BY <1>0, SplitLogs
    <3> HIDE DEF r
    <3> QED
      BY <3>1
  <2> HIDE DEF r
  <2>3. (\E i \in DOMAIN r : r[i].ev = e) => buf'[h] = r
    <3>1. n = Len(buf[h]) => DOMAIN r = {}
      BY <1>0, <2>2
    <3> QED
      BY <1>4, <3>1 DEF r
  <2> QED
    BY <1>4, <2>1, <2>3 DEF InFile, Buffered
<1>5. ASSUME NEW h \in Handlers, Spill(h) PROVE InFile(e)'
  <2>1. PICK n \in 0 .. Len(buf[h]), t \in Nat :
          /\ \/ Joins(h) /\ damaged' = TRUE /\ UNCHANGED <<file, tail>>
             \/ Flushed(h, n, t)
          /\ buf' = [buf EXCEPT ![h] = SubSeq(buf[h], n + 1, Len(buf[h]))]
    BY <1>5, SpillEffect
  <2>2. Flushed(h, n, t)
    BY <1>0, <2>1
  <2>3. /\ buf'[h] = SubSeq(buf[h], n + 1, Len(buf[h]))
        /\ \A g \in Handlers \ {h} : buf'[g] = buf[g]
    BY <1>0, <2>1
  <2> QED
    BY <1>4, <2>2, <2>3
<1>6. ASSUME NEW h \in Handlers, CloseFile(h) PROVE InFile(e)'
  <2>1. buf'[h] = <<>> /\ \A g \in Handlers \ {h} : buf'[g] = buf[g]
    BY <1>0, <1>6, CloseEffect DEF Closed
  <2>2. CASE file' = file /\ buf[h] = <<>>
    <3>1. \A g \in Handlers : buf'[g] = buf[g]
      BY <2>1, <2>2
    <3> QED
      BY <2>2, <3>1 DEF InFile, Stored, Buffered
  <2>3. CASE Flushed(h, Len(buf[h]), 0)
    <3>1. Len(buf[h]) \in 0 .. Len(buf[h]) /\ 0 \in Nat
      BY <1>0
    <3> QED
      BY <1>4, <2>1, <2>3, <3>1
  <2> QED
    BY <1>0, <1>6, <2>2, <2>3, CloseEffect
<1>7. ASSUME NEW h \in Handlers, StreamFails(h) \/ SendAck(h) PROVE InFile(e)'
  BY <1>7 DEF StreamFails, SendAck, InFile, Stored, Buffered
<1>8. CASE UNCHANGED hvars
  BY <1>8 DEF hvars, InFile, Stored, Buffered
<1> QED
  BY <1>1, <1>2, <1>3, <1>5, <1>6, <1>7, <1>8 DEF AnyHandlerNext, HandlerStep

\* Only an ack makes logs done.
LEMMA NoAckNothingDone ==
  ASSUME ~ReceiveAck, [DeliveryNext]_dvars
  PROVE  done' = done
<1> USE DEF vars, histVars, counts
<1>1. CASE ClientMain
  <2>1. CASE Start
    BY <2>1 DEF Start, OpenAckFile, CreateAckFile, LoadLine, LoadFails, LoadDone, CleanStart,
       CleanCopy, CleanRename, DtorOpenAck, DtorWriteAck
  <2>2. CASE Work
    BY <2>2 DEF Work, WakeUp, NewLog, AddToFile, AddToQueue, EndGenerate, BatchStart, BatchCopy
  <2> QED
    BY <1>1, <2>1, <2>2 DEF ClientMain
<1>2. CASE ClientReceiver
  BY <1>2 DEF ClientReceiver, Receive, AckPop, AckPopEnd, AckOpen, AckWrite
<1>3. CASE SendBatch
  BY <1>3 DEF SendBatch, Publish
<1>4. CASE ClientDies
  BY <1>4 DEF ClientDies, Die, BatchThrows, Crash
<1>5. CASE Server \/ ServerRestart \/ AckThrows \/ Connect \/ Disconnect \/ Lose \/ UNCHANGED dvars
  BY <1>5 DEF Server, ReceiveBatch, ReplyAck, HandleLog, ServerRestart, AckThrows, Connect,
     Disconnect, Lose, dvars
<1> QED
  BY <1>1, <1>2, <1>3, <1>4, <1>5 DEF DeliveryNext

\* What an ack pops is what its number covers.
LEMMA AckCovers ==
  ASSUME TypeOK, LossInv, orderly, NEW id \in Nat, AckLog(id)
  PROVE  done' \subseteq done \cup 1 .. id
<1>1. /\ ~Constructing
      /\ done' \subseteq done \cup
           {log_entries[i].ev : i \in {j \in DOMAIN log_entries : log_entries[j].id <= id}}
  BY DEF AckLog, Running, Constructing
<1>2. EndsAt(log_entries, LastQueued) /\ Len(log_entries) <= LastQueued
  BY <1>1 DEF LossInv, QueueInv
<1>3. log_entries \in Seq(Log) /\ Len(log_entries) \in Nat /\ LastQueued \in Int
  BY DEF TypeOK, LastQueued
<1>4. ASSUME NEW i \in DOMAIN log_entries, log_entries[i].id <= id
      PROVE  log_entries[i].ev \in 1 .. id
  <2>1. i \in 1 .. Len(log_entries)
    BY <1>3
  <2>2. /\ log_entries[i].id = LastQueued - Len(log_entries) + i
        /\ log_entries[i].ev = LastQueued - Len(log_entries) + i
    BY <1>2, <2>1 DEF EndsAt
  <2>3. log_entries[i].ev = log_entries[i].id /\ log_entries[i].ev \in Int /\ log_entries[i].ev >= 1
    BY <1>2, <1>3, <2>1, <2>2
  <2> QED
    BY <1>4, <2>3
<1> QED
  BY <1>1, <1>4

\* All that a handler's number covers is in the file or in a stream, if
\* nothing was lost: an unfinished line it was read from is about to be
\* finished.
LEMMA LastIsKept ==
  ASSUME HandlerTypeOK, NoHoleInv, HandlersAtPlace, ~LinesLost, NEW h \in Handlers,
         hpc[h] # "recv"
  PROVE  Kept(last[h])
<1> SUFFICES ASSUME NEW e \in 1 .. last[h] PROVE InFile(e)
  BY DEF Kept
<1>0. /\ e \in Nat /\ TailInv /\ tail \in Nat /\ begun \subseteq Handlers
      /\ \A g \in Handlers : hpc[g] # "recv" => HandlerCovered(g)
      /\ \A g \in Handlers : buf[g] \in Seq(HLog)
  BY DEF LinesLost, NoHoleInv, HandlerTypeOK
<1>1. e <= Cover(h) \/ Has(file, e) \/ Has(buf[h], e)
  BY <1>0 DEF HandlerCovered, Reaches, LinesLost
<1>2. AtPlace(file, sent) /\ \A g \in Handlers : AtPlace(buf[g], sent)
  BY DEF HandlersAtPlace
<1>3. ASSUME Has(file, e) PROVE InFile(e)
  <2>1. DOMAIN file = 1 .. Len(file)
    BY DEF HandlerTypeOK
  <2> QED
    BY <1>2, <1>3, <2>1 DEF Has, AtPlace, InFile, Stored
<1>4. ASSUME NEW g \in Handlers, Has(buf[g], e) PROVE InFile(e)
  <2>1. DOMAIN buf[g] = 1 .. Len(buf[g])
    BY <1>0
  <2> QED
    BY <1>2, <1>4, <2>1 DEF Has, AtPlace, InFile, Buffered
<1>5. CASE e <= Cover(h)
  <2>1. h \notin begun /\ e <= tail /\ tail # 0
    BY <1>0, <1>5 DEF Cover
  <2>2. PICK g \in begun : hpc[g] # "recv" /\ buf[g] # <<>> /\ tail <= buf[g][1].id
    BY <1>0, <2>1 DEF TailInv, LinesLost
  <2>3. g \in Handlers /\ HoleFreeAfter(file, buf[g], 0)
    BY <1>0, <2>2 DEF HandlerCovered, Cover
  <2>4. 1 \in 1 .. Len(buf[g]) /\ buf[g][1] \in HLog
    BY <1>0, <2>2, <2>3
  <2>5. e \in 1 .. buf[g][1].id
    BY <1>0, <2>1, <2>2, <2>4 DEF HLog
  <2>6. Has(file, e) \/ \E j \in 1 .. 1 : buf[g][j].id = e
    BY <1>0, <2>3, <2>4, <2>5 DEF HoleFreeAfter
  <2>7. Has(file, e) \/ Has(buf[g], e)
    BY <2>4, <2>6 DEF Has
  <2> QED
    BY <1>3, <1>4, <2>3, <2>7
<1> QED
  BY <1>1, <1>3, <1>4, <1>5

LEMMA StoredInvStep ==
  ASSUME WholeInv, WholeInv', NoHoleInv, IdleIsEmpty, StoredInv, [DeliveryNext]_dvars
  PROVE  StoredInv'
<1> SUFFICES ASSUME orderly', ~LinesLost'
             PROVE  (\A e \in done' : InFile(e)') /\ \A m \in down' : Kept(m[2])'
  BY DEF StoredInv
<1>0. /\ TypeInv /\ TypeOK /\ HandlerTypeOK /\ HandlerTypeOK'
      /\ [AnyNext]_vars /\ [AnyHandlerNext]_hvars /\ down \subseteq Handlers \X Nat
  BY Projection DEF WholeInv, TypeInv, DeliveryTypeOK
<1>1. orderly /\ ~LinesLost /\ ~damaged /\ LossInv /\ WireInv
  BY <1>0, OrderlyBefore, LostStays DEF LinesLost, WholeInv
<1>2. (\A e \in done : InFile(e)) /\ \A m \in down : Kept(m[2])
  BY <1>1 DEF StoredInv
<1>3. ASSUME NEW e, InFile(e) PROVE InFile(e)'
  BY <1>0, <1>3, InFileStable
<1>4. ASSUME NEW id, Kept(id) PROVE Kept(id)'
  BY <1>3, <1>4 DEF Kept
<1>5. \A e \in done' : InFile(e)'
  <2>1. \A e \in done : InFile(e)'
    BY <1>2, <1>3
  <2>2. CASE ReceiveAck
    <3>1. PICK m \in down : AckLog(m[2])
      BY <2>2 DEF ReceiveAck
    <3>2. m[2] \in Nat
      BY <1>0
    <3>3. done' \subseteq done \cup 1 .. m[2]
      BY <1>0, <1>1, <3>1, <3>2, AckCovers
    <3>4. \A e \in 1 .. m[2] : InFile(e)'
      BY <1>2, <1>3 DEF Kept
    <3> QED
      BY <2>1, <3>3, <3>4
  <2>3. CASE ~ReceiveAck
    <3>1. done' = done
      BY <2>3, NoAckNothingDone
    <3> QED
      BY <2>1, <3>1
  <2> QED
    BY <2>2, <2>3
<1>6. ASSUME NEW m \in down' PROVE Kept(m[2])'
  <2>1. CASE m \in down
    BY <1>2, <1>4, <2>1
  <2>2. CASE m \notin down
    <3>1. PICK h \in Handlers : SendAck(h) /\ m = <<h, last[h]>>
      BY <2>2 DEF DeliveryNext, ClientMain, ClientReceiver, SendBatch, ReceiveAck, ClientDies,
         Server, ReceiveBatch, ReplyAck, HandleLog, ServerRestart, AckThrows, Connect,
         Disconnect, Lose, dvars, net
    <3>2. hpc[h] # "recv"
      BY <3>1 DEF SendAck
    <3>3. Kept(last[h])
      BY <1>0, <1>1, <3>2, LastIsKept DEF WireInv
    <3> QED
      BY <1>4, <3>1, <3>3
  <2> QED
    BY <2>1, <2>2
<1> QED
  BY <1>5, <1>6

LEMMA StoredInvariant == DeliverySpec => [](IdleIsEmpty /\ StoredInv)
<1>1. DeliveryInit => IdleIsEmpty /\ StoredInv
  BY DEF DeliveryInit, HandlerInit, Init, IdleIsEmpty, StoredInv
<1>2. WholeInv /\ WholeInv' /\ NoHoleInv /\ IdleIsEmpty /\ StoredInv /\ [DeliveryNext]_dvars
        => IdleIsEmpty' /\ StoredInv'
  <2> SUFFICES ASSUME WholeInv, WholeInv', NoHoleInv, IdleIsEmpty, StoredInv,
                      [DeliveryNext]_dvars
               PROVE  IdleIsEmpty' /\ StoredInv'
    OBVIOUS
  <2>1. /\ HandlerTypeOK /\ HandlerTypeOK' /\ [AnyHandlerNext]_hvars
    BY Projection DEF WholeInv, TypeInv, DeliveryTypeOK
  <2> QED
    BY <2>1, StoredInvStep, IdleIsEmptyStep
<1> QED
  BY <1>1, <1>2, WholeInvariant, FileInvariant, PTL DEF DeliverySpec

\* A log leaves the client's queue only when the server has it: what acks
\* have covered is in the file or in a stream about to be closed, even with
\* handlers that overlap and read each other's unfinished lines, unless the
\* server has ended or failed to write with lines in a stream or lines have
\* been joined; where the client's files open and no start finds its ack file
\* torn or its queue drained.
THEOREM DoneIsStoredHolds ==
  ASSUME ~DiskMayFail, Restarts \subseteq {"benign"}
  PROVE  DeliverySpec => []DoneIsStored
<1>1. StoredInv /\ orderly => DoneIsStored
  BY DEF StoredInv, DoneIsStored, InFile
<1> QED
  BY <1>1, StoredInvariant, AlwaysOrderly, PTL
=============================================================================
