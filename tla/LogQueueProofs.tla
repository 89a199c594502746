--------------------------- MODULE LogQueueProofs ---------------------------
(***************************************************************************)
(* Proofs about LogQueue, for any bounds, batch size, garbage and faults.  *)
(***************************************************************************)
EXTENDS LogQueue, TLAPS

\* The client's steps when the server may acknowledge any id at all.
AnyAck == \E id \in Nat : AckLog(id)
AnyNext == Start \/ Work \/ Publish \/ Receive \/ Die \/ AnyAck

\* LogQueue's own server is one of those.
LEMMA NextIsAny == sent \in Nat /\ [Next]_vars => [AnyNext]_vars
<1> SUFFICES ASSUME sent \in Nat, [Next]_vars PROVE [AnyNext]_vars
  OBVIOUS
<1>1. 0 .. sent \subseteq Nat
  OBVIOUS
<1> QED
  BY <1>1 DEF Next, AnyNext, AnyAck

\* Sequences of logs stay sequences of logs under what the code does to them.
LEMMA LogSeq ==
  ASSUME NEW s \in Seq(Log), NEW e \in Log
  PROVE  /\ Append(s, e) \in Seq(Log)
         /\ s # <<>> => Tail(s) \in Seq(Log)
         /\ \A i \in 1 .. Len(s) : s[i] \in Log
OBVIOUS

LEMMA StartTypes == TypeOK /\ Start => TypeOK'
<1> SUFFICES ASSUME TypeOK, Start PROVE TypeOK'
  OBVIOUS
<1> USE DEF TypeOK, MainPC, diskVars, memVars, mainVars, histVars, counts
<1>1. CASE OpenAckFile
  <2>1. ack_id' \in Nat
    <3>1. ack_id' = 0 \/ ack_id' \in Garbage \/ (ackFile \in Nat /\ ack_id' = ackFile)
      BY <1>1 DEF OpenAckFile
    <3>2. CASE ack_id' = 0
      BY <3>2
    <3>3. CASE ack_id' \in Garbage
      BY <3>3, ConstantsAssumption
    <3>4. CASE ackFile \in Nat /\ ack_id' = ackFile
      BY <3>4
    <3> QED
      BY <3>1, <3>2, <3>3, <3>4
  <2>2. ackFile' \in Nat \cup {NoFile, Empty}
    BY <1>1 DEF OpenAckFile
  <2>3. mpc' \in MainPC
    BY <1>1 DEF OpenAckFile
  <2>4. orderly' \in BOOLEAN
    <3>1. orderly' \in {orderly, FALSE} \/ orderly' = (orderly /\ StartKind # "drained")
      BY <1>1 DEF OpenAckFile
    <3> QED
      BY <3>1
  <2>5. /\ UNCHANGED <<logFile, tmpFile, cur, want, batch, rpc, counts>>
        /\ log_entries' = <<>> /\ new_id' = 1 /\ line' = 0
    BY <1>1 DEF OpenAckFile
  <2> QED
    BY <2>1, <2>2, <2>3, <2>4, <2>5
<1>2. CASE CreateAckFile
  BY <1>2 DEF CreateAckFile
<1>3. CASE LoadLine
  <2>1. log_entries' \in Seq(Log)
    <3>1. logFile[line + 1] \in Log
      BY <1>3, LogSeq DEF LoadLine
    <3>2. Append(log_entries, logFile[line + 1]) \in Seq(Log)
      BY <3>1, LogSeq
    <3> QED
      BY <1>3, <3>2 DEF LoadLine
  <2> QED
    BY <1>3, <2>1 DEF LoadLine
<1>4. CASE LoadFails
  <2>1. logFile' = logFile \/ logFile' = <<>>
    BY <1>4 DEF LoadFails
  <2>2. logFile' \in Seq(Log)
    <3>1. CASE logFile' = logFile
      BY <3>1
    <3>2. CASE logFile' = <<>>
      BY <3>2
    <3> QED
      BY <2>1, <3>1, <3>2
  <2> QED
    BY <1>4, <2>2 DEF LoadFails
<1>5. CASE LoadDone
  <2>1. new_id' \in Nat
    <3>1. CASE log_entries = <<>>
      BY <1>5, <3>1 DEF LoadDone
    <3>2. CASE log_entries # <<>>
      <4>1. log_entries[Len(log_entries)] \in Log
        BY <3>2, LogSeq
      <4>2. log_entries[Len(log_entries)].id \in Nat
        BY <4>1 DEF Log
      <4>3. new_id' = log_entries[Len(log_entries)].id + 1
        BY <1>5, <3>2 DEF LoadDone
      <4> QED
        BY <4>2, <4>3
    <3> QED
      BY <3>1, <3>2
  <2> QED
    BY <1>5, <2>1 DEF LoadDone
<1>6. CASE CleanStart
  <2>1. CASE mpc' = "dtor_open" /\ UNCHANGED <<tmpFile, line>>
    BY <1>6, <2>1 DEF CleanStart
  <2>2. CASE mpc' = "dtor_copy" /\ tmpFile' = <<>> /\ line' = 0
    BY <1>6, <2>2 DEF CleanStart
  <2> QED
    BY <1>6, <2>1, <2>2 DEF CleanStart
<1>7. CASE CleanCopy
  <2>1. tmpFile' \in Seq(Log)
    <3>1. log_entries[line + 1] \in Log
      BY <1>7, LogSeq DEF CleanCopy
    <3>2. Append(tmpFile, log_entries[line + 1]) \in Seq(Log)
      BY <3>1, LogSeq
    <3> QED
      BY <1>7, <3>2 DEF CleanCopy
  <2> QED
    BY <1>7, <2>1 DEF CleanCopy
<1>8. CASE CleanRename
  BY <1>8 DEF CleanRename
<1>9. CASE DtorOpenAck
  BY <1>9 DEF DtorOpenAck
<1>10. CASE DtorWriteAck
  BY <1>10 DEF DtorWriteAck
<1> QED
  BY <1>1, <1>2, <1>3, <1>4, <1>5, <1>6, <1>7, <1>8, <1>9, <1>10 DEF Start

LEMMA WorkTypes == TypeOK /\ (Work \/ Publish) => TypeOK'
<1> SUFFICES ASSUME TypeOK, Work \/ Publish PROVE TypeOK'
  OBVIOUS
<1> USE DEF TypeOK, MainPC, diskVars, memVars, mainVars, histVars, counts
<1>1. CASE WakeUp
  BY <1>1 DEF WakeUp
<1>2. CASE NewLog
  <2>1. cur' \in Log
    BY <1>2 DEF NewLog, Log
  <2> QED
    BY <1>2, <2>1 DEF NewLog
<1>3. CASE AddToFile
  <2>1. Append(logFile, cur) \in Seq(Log)
    BY LogSeq
  <2> QED
    <3>1. logFile' = Append(logFile, cur) \/ logFile' = logFile
      BY <1>3 DEF AddToFile
    <3>2. logFile' \in Seq(Log)
      BY <2>1, <3>1
    <3>3. orderly' \in BOOLEAN
      BY <1>3 DEF AddToFile
    <3>4. /\ UNCHANGED <<tmpFile, ackFile, memVars, line, cur, want, batch, rpc, sent, done>>
          /\ gen' = gen + 1 /\ mpc' = "push"
      BY <1>3 DEF AddToFile
    <3> QED
      BY <3>2, <3>3, <3>4
<1>4. CASE AddToQueue
  <2>1. Append(log_entries, cur) \in Seq(Log)
    BY LogSeq
  <2> QED
    BY <1>4, <2>1 DEF AddToQueue
<1>5. CASE EndGenerate
  BY <1>5 DEF EndGenerate
<1>6. CASE BatchStart
  <2>1. Len(log_entries) \in Nat /\ BatchSize \in Nat
    BY ConstantsAssumption
  <2>2. want' \in Nat
    BY <1>6, <2>1 DEF BatchStart
  <2> QED
    BY <1>6, <2>2 DEF BatchStart
<1>7. CASE BatchCopy
  <2>1. log_entries[Len(batch) + 1] \in Log
    BY <1>7, LogSeq DEF BatchCopy
  <2>2. Append(batch, log_entries[Len(batch) + 1]) \in Seq(Log)
    BY <2>1, LogSeq
  <2>3. mpc' \in MainPC
    BY <1>7 DEF BatchCopy
  <2> QED
    BY <1>7, <2>2, <2>3 DEF BatchCopy
<1>8. CASE Publish
  <2>1. sent' \in Nat
    <3>1. CASE sent' = sent
      BY <3>1
    <3>2. CASE batch # <<>> /\ sent' = batch[Len(batch)].id
      <4>1. batch[Len(batch)] \in Log
        BY <3>2, LogSeq
      <4> QED
        BY <3>2, <4>1 DEF Log
    <3> QED
      BY <1>8, <3>1, <3>2 DEF Publish
  <2> QED
    BY <1>8, <2>1 DEF Publish
<1> QED
  BY <1>1, <1>2, <1>3, <1>4, <1>5, <1>6, <1>7, <1>8 DEF Work

LEMMA ReceiveTypes == TypeOK /\ (Receive \/ AnyAck) => TypeOK'
<1> SUFFICES ASSUME TypeOK, Receive \/ AnyAck PROVE TypeOK'
  OBVIOUS
<1> USE DEF TypeOK, RecvPC, diskVars, memVars, mainVars, histVars, counts
<1>1. CASE AckPop
  <2>1. Tail(log_entries) \in Seq(Log)
    BY <1>1, LogSeq DEF AckPop, FrontCovered
  <2> QED
    BY <1>1, <2>1 DEF AckPop
<1>2. CASE AckPopEnd
  BY <1>2 DEF AckPopEnd
<1>3. CASE AckOpen
  BY <1>3 DEF AckOpen
<1>4. CASE AckWrite
  BY <1>4 DEF AckWrite
<1>5. ASSUME NEW id \in Nat, AckLog(id) PROVE TypeOK'
  <2>1. id \in Nat
    OBVIOUS
  <2>2. done' \subseteq Nat
    <3>1. \A i \in 1 .. Len(log_entries) : log_entries[i].ev \in Nat
      BY LogSeq DEF Log
    <3>2. DOMAIN log_entries = 1 .. Len(log_entries)
      OBVIOUS
    <3>3. CASE done' = done
      BY <3>3
    <3>4. CASE done' = done \cup
            {log_entries[i].ev : i \in {j \in DOMAIN log_entries : log_entries[j].id <= id}}
      BY <3>1, <3>2, <3>4
    <3> QED
      BY <1>5, <3>3, <3>4 DEF AckLog
  <2>3. ack_id' \in Nat /\ rpc' \in RecvPC
    BY <1>5, <2>1 DEF AckLog
  <2> QED
    BY <1>5, <2>2, <2>3 DEF AckLog
<1> QED
  BY <1>1, <1>2, <1>3, <1>4, <1>5 DEF Receive, AnyAck

LEMMA TypeStep == TypeOK /\ [AnyNext]_vars => TypeOK'
<1> SUFFICES ASSUME TypeOK, [AnyNext]_vars PROVE TypeOK'
  OBVIOUS
<1>1. CASE Start
  BY <1>1, StartTypes
<1>2. CASE Work \/ Publish
  BY <1>2, WorkTypes
<1>3. CASE Receive \/ AnyAck
  BY <1>3, ReceiveTypes
<1>4. CASE Die
  <2>1. /\ UNCHANGED <<diskVars, line, histVars>>
        /\ mpc' = "down" /\ rpc' = "idle"
        /\ log_entries' = <<>> /\ ack_id' = 0 /\ new_id' = 1
        /\ cur' = NoLog /\ batch' = <<>> /\ want' = 0
    BY <1>4 DEF Die, BatchThrows, Crash
  <2> QED
    BY <2>1 DEF TypeOK, MainPC, RecvPC, NoLog, Log, diskVars, histVars
<1>5. CASE UNCHANGED vars
  BY <1>5 DEF vars, diskVars, memVars, mainVars, histVars, counts, TypeOK
<1> QED
  BY <1>1, <1>2, <1>3, <1>4, <1>5 DEF AnyNext

LEMMA TypeStart == Init => TypeOK
BY DEF Init, TypeOK, NoLog, Log, MainPC, RecvPC

\* The two files, the deque and the batch hold logs and the counters are
\* naturals, whatever the interleaving of the threads and the kills.
THEOREM TypeCorrect == Spec => []TypeOK
<1>1. TypeOK /\ [Next]_vars => TypeOK'
  BY NextIsAny, TypeStep DEF TypeOK
<1> QED
  BY <1>1, TypeStart, PTL DEF Spec
-----------------------------------------------------------------------------
(***************************************************************************)
(* EventOrder.  While lines move from one place to another (the            *)
(* constructor's reading, the destructor's copying, a batch being peeked)  *)
(* what has moved comes before what has still to move; everything comes    *)
(* before the log being added.                                             *)
(***************************************************************************)

Sorted(s)    == \A i, j \in 1 .. Len(s) : i < j => s[i].ev < s[j].ev
Below(s, n)  == \A i \in 1 .. Len(s) : s[i].ev <= n
\* s comes before the elements of t from position n on.
Before(s, t, n) ==
  \A i \in 1 .. Len(s) : \A j \in 1 .. Len(t) : j > n => s[i].ev < t[j].ev

OrderInv ==
  /\ Sorted(logFile) /\ Below(logFile, gen)
  /\ Sorted(log_entries) /\ Below(log_entries, gen)
  /\ Sorted(batch) /\ Below(batch, gen)
  /\ mpc = "add"         => cur.ev = gen + 1
  /\ mpc = "push"        => cur.ev = gen /\ Below(log_entries, gen - 1)
  /\ mpc = "ctor_create" => log_entries = <<>>
  /\ mpc = "ctor_load"   => Before(log_entries, logFile, line)
  /\ mpc = "dtor_copy"   => /\ Sorted(tmpFile) /\ Below(tmpFile, gen)
                            /\ Before(tmpFile, log_entries, line)
  /\ mpc = "copy"        => Before(batch, log_entries, Len(batch))

\* The empty sequence is in order with everything.
LEMMA EmptyOrder ==
  ASSUME NEW n \in Int, NEW t \in Seq(Log)
  PROVE  Sorted(<<>>) /\ Below(<<>>, n) /\ Before(<<>>, t, n)
BY DEF Sorted, Below, Before

\* Moving the next element of t to the end of s keeps both in order.
LEMMA MoveBatch ==
  ASSUME NEW s \in Seq(Log), NEW t \in Seq(Log), NEW n \in Nat, n < Len(t),
         Sorted(s), Sorted(t), Before(s, t, n)
  PROVE  Sorted(Append(s, t[n + 1])) /\ Before(Append(s, t[n + 1]), t, n + 1)
<1> DEFINE e == t[n + 1]
           u == Append(s, e)
<1>1. n + 1 \in 1 .. Len(t)
  OBVIOUS
<1>2. /\ Len(u) = Len(s) + 1 /\ u[Len(s) + 1] = e
      /\ \A i \in 1 .. Len(s) : u[i] = s[i]
  OBVIOUS
<1>3. \A i \in 1 .. Len(s) : s[i].ev < e.ev
  BY <1>1 DEF Before
<1>4. Sorted(u)
  <2> SUFFICES ASSUME NEW i \in 1 .. Len(u), NEW j \in 1 .. Len(u), i < j
               PROVE  u[i].ev < u[j].ev
    BY DEF Sorted
  <2>1. i \in 1 .. Len(s)
    BY <1>2
  <2>2. CASE j = Len(s) + 1
    BY <1>2, <1>3, <2>1, <2>2
  <2>3. CASE j \in 1 .. Len(s)
    BY <1>2, <2>1, <2>3 DEF Sorted
  <2> QED
    BY <1>2, <2>2, <2>3
<1>7. Before(u, t, n + 1)
  <2> SUFFICES ASSUME NEW i \in 1 .. Len(u), NEW j \in 1 .. Len(t), j > n + 1
               PROVE  u[i].ev < t[j].ev
    BY DEF Before
  <2>1. CASE i = Len(s) + 1
    BY <1>1, <1>2, <2>1 DEF Sorted
  <2>2. CASE i \in 1 .. Len(s)
    BY <1>2, <2>2 DEF Before
  <2> QED
    BY <1>2, <2>1, <2>2
<1> QED
  BY <1>4, <1>7

\* The same where both are below g.
LEMMA MoveOne ==
  ASSUME NEW s \in Seq(Log), NEW t \in Seq(Log), NEW n \in Nat, n < Len(t), NEW g \in Nat,
         Sorted(s), Sorted(t), Before(s, t, n), Below(s, g), Below(t, g)
  PROVE  /\ Sorted(Append(s, t[n + 1]))
         /\ Below(Append(s, t[n + 1]), g)
         /\ Before(Append(s, t[n + 1]), t, n + 1)
         /\ Before(s, t, n + 1)
<1> DEFINE e == t[n + 1]
           u == Append(s, e)
<1>1. n + 1 \in 1 .. Len(t)
  OBVIOUS
<1>2. /\ Len(u) = Len(s) + 1 /\ u[Len(s) + 1] = e
      /\ \A i \in 1 .. Len(s) : u[i] = s[i]
  OBVIOUS
<1>5. Below(u, g)
  <2> SUFFICES ASSUME NEW i \in 1 .. Len(u) PROVE u[i].ev <= g
    BY DEF Below
  <2>1. CASE i = Len(s) + 1
    BY <1>1, <1>2, <2>1 DEF Below
  <2>2. CASE i \in 1 .. Len(s)
    BY <1>2, <2>2 DEF Below
  <2> QED
    BY <1>2, <2>1, <2>2
<1>6. Before(s, t, n + 1)
  BY DEF Before
<1> QED
  BY <1>5, <1>6, MoveBatch

\* A log newer than all of s may be appended to s.
LEMMA AppendNewer ==
  ASSUME NEW s \in Seq(Log), NEW e \in Log, NEW g \in Nat,
         Sorted(s), Below(s, g - 1), e.ev = g
  PROVE  Sorted(Append(s, e)) /\ Below(Append(s, e), g)
<1> DEFINE u == Append(s, e)
<1>1. /\ Len(u) = Len(s) + 1 /\ u[Len(s) + 1] = e
      /\ \A i \in 1 .. Len(s) : u[i] = s[i]
  OBVIOUS
<1>2. \A i \in 1 .. Len(s) : s[i].ev \in Nat /\ s[i].ev < g
  <2>1. \A i \in 1 .. Len(s) : s[i] \in Log
    OBVIOUS
  <2> QED
    BY <2>1 DEF Below, Log
<1>3. Below(u, g)
  BY <1>1, <1>2 DEF Below
<1>4. Sorted(u)
  <2> SUFFICES ASSUME NEW i \in 1 .. Len(u), NEW j \in 1 .. Len(u), i < j
               PROVE  u[i].ev < u[j].ev
    BY DEF Sorted
  <2>1. i \in 1 .. Len(s)
    BY <1>1
  <2>2. CASE j = Len(s) + 1
    BY <1>1, <1>2, <2>1, <2>2
  <2>3. CASE j \in 1 .. Len(s)
    BY <1>1, <2>1, <2>3 DEF Sorted
  <2> QED
    BY <1>1, <2>2, <2>3
<1> QED
  BY <1>3, <1>4

\* pop_front keeps the order, and what came before the rest still does.
LEMMA PopFront ==
  ASSUME NEW s \in Seq(Log), NEW b \in Seq(Log), NEW g \in Int, s # <<>>
  PROVE  /\ Sorted(s) => Sorted(Tail(s))
         /\ Below(s, g) => Below(Tail(s), g)
         /\ Before(b, s, Len(b)) => Before(b, Tail(s), Len(b))
<1>1. Len(Tail(s)) = Len(s) - 1 /\ \A i \in 1 .. Len(s) - 1 : Tail(s)[i] = s[i + 1]
  OBVIOUS
<1>2. Sorted(s) => Sorted(Tail(s))
  BY <1>1 DEF Sorted
<1>3. Below(s, g) => Below(Tail(s), g)
  BY <1>1 DEF Below
<1>4. Before(b, s, Len(b)) => Before(b, Tail(s), Len(b))
  BY <1>1 DEF Before
<1> QED
  BY <1>2, <1>3, <1>4

\* A sequence below n is below n + 1.
LEMMA BelowNext ==
  ASSUME NEW s \in Seq(Log), NEW n \in Nat, Below(s, n)
  PROVE  Below(s, n + 1)
<1>1. \A i \in 1 .. Len(s) : s[i] \in Log
  OBVIOUS
<1> QED
  BY <1>1 DEF Below, Log

\* The steps of a start: reading the files and compacting the log file.
LEMMA OrderStart == TypeOK /\ TypeOK' /\ OrderInv /\ Start => OrderInv'
<1> SUFFICES ASSUME TypeOK, TypeOK', OrderInv, Start PROVE OrderInv'
  OBVIOUS
<1>0. /\ logFile \in Seq(Log) /\ tmpFile \in Seq(Log) /\ log_entries \in Seq(Log)
      /\ line \in Nat /\ gen \in Nat
  BY DEF TypeOK
<1> USE DEF diskVars, memVars, mainVars, histVars, counts
<1>1. CASE OpenAckFile
  <2>1. /\ logFile' = logFile /\ gen' = gen /\ batch' = batch
        /\ log_entries' = <<>> /\ line' = 0
        /\ mpc' = "ctor_create" \/ mpc' = "ctor_load"
    BY <1>1 DEF OpenAckFile
  <2>2. Sorted(<<>>) /\ Below(<<>>, gen) /\ Before(<<>>, logFile, 0)
    BY DEF Sorted, Below, Before
  <2> QED
    BY <2>1, <2>2 DEF OrderInv
<1>2. CASE CreateAckFile
  <2>1. /\ UNCHANGED <<logFile, log_entries, gen, batch, line>>
        /\ mpc = "ctor_create" /\ mpc' = "ctor_load"
    BY <1>2 DEF CreateAckFile
  <2> QED
    BY <1>0, <2>1, EmptyOrder DEF OrderInv
<1>3. CASE LoadLine
  <2>1. /\ UNCHANGED <<logFile, gen, batch>> /\ line' = line + 1
        /\ mpc = "ctor_load" /\ mpc' = "ctor_load" /\ line < Len(logFile)
    BY <1>3 DEF LoadLine
  <2>2. /\ Sorted(Append(log_entries, logFile[line + 1]))
        /\ Below(Append(log_entries, logFile[line + 1]), gen)
        /\ Before(Append(log_entries, logFile[line + 1]), logFile, line + 1)
        /\ Before(log_entries, logFile, line + 1)
    BY <1>0, <2>1, MoveOne DEF OrderInv
  <2>3. CASE log_entries' = log_entries
    BY <2>1, <2>2, <2>3 DEF OrderInv
  <2>4. CASE log_entries' = Append(log_entries, logFile[line + 1])
    BY <2>1, <2>2, <2>4 DEF OrderInv
  <2> QED
    BY <1>3, <2>3, <2>4 DEF LoadLine
<1>4. CASE LoadFails
  <2>1. /\ UNCHANGED <<log_entries, gen, batch>> /\ mpc' = "dtor_clean"
        /\ logFile' = logFile \/ logFile' = <<>>
    BY <1>4 DEF LoadFails
  <2>2. CASE logFile' = logFile
    BY <2>1, <2>2 DEF OrderInv
  <2>3. CASE logFile' = <<>>
    <3>1. Sorted(<<>>) /\ Below(<<>>, gen)
      BY DEF Sorted, Below, Before
    <3> QED
      BY <2>1, <2>3, <3>1 DEF OrderInv
  <2> QED
    BY <2>1, <2>2, <2>3
<1>5. CASE LoadDone
  BY <1>5 DEF LoadDone, OrderInv
<1>6. CASE CleanStart
  <2>1. UNCHANGED <<logFile, log_entries, gen, batch>>
    BY <1>6 DEF CleanStart
  <2>2. CASE mpc' = "dtor_open"
    BY <2>1, <2>2 DEF OrderInv
  <2>3. CASE mpc' = "dtor_copy" /\ tmpFile' = <<>> /\ line' = 0
    <3>1. Sorted(<<>>) /\ Below(<<>>, gen) /\ Before(<<>>, log_entries, 0)
      BY DEF Sorted, Below, Before
    <3> QED
      BY <2>1, <2>3, <3>1 DEF OrderInv
  <2> QED
    BY <1>6, <2>2, <2>3 DEF CleanStart
<1>7. CASE CleanCopy
  <2>1. /\ UNCHANGED <<logFile, log_entries, gen, batch>> /\ line' = line + 1
        /\ mpc = "dtor_copy" /\ mpc' = "dtor_copy" /\ line < Len(log_entries)
    BY <1>7 DEF CleanCopy
  <2>2. /\ Sorted(Append(tmpFile, log_entries[line + 1]))
        /\ Below(Append(tmpFile, log_entries[line + 1]), gen)
        /\ Before(Append(tmpFile, log_entries[line + 1]), log_entries, line + 1)
        /\ Before(tmpFile, log_entries, line + 1)
    BY <1>0, <2>1, MoveOne DEF OrderInv
  <2>3. CASE tmpFile' = tmpFile
    BY <2>1, <2>2, <2>3 DEF OrderInv
  <2>4. CASE tmpFile' = Append(tmpFile, log_entries[line + 1])
    BY <2>1, <2>2, <2>4 DEF OrderInv
  <2> QED
    BY <1>7, <2>3, <2>4 DEF CleanCopy
<1>8. CASE CleanRename
  <2>1. /\ UNCHANGED <<log_entries, gen, batch>>
        /\ mpc = "dtor_copy" /\ mpc' = "dtor_open"
        /\ logFile' = tmpFile \/ logFile' = logFile
    BY <1>8 DEF CleanRename
  <2>2. CASE logFile' = tmpFile
    BY <2>1, <2>2 DEF OrderInv
  <2>3. CASE logFile' = logFile
    BY <2>1, <2>3 DEF OrderInv
  <2> QED
    BY <2>1, <2>2, <2>3
<1>9. CASE DtorOpenAck \/ DtorWriteAck
  <2>1. /\ UNCHANGED <<logFile, log_entries, gen, batch>>
        /\ mpc' = "dtor_write" \/ mpc' = "sleep"
    BY <1>9 DEF DtorOpenAck, DtorWriteAck
  <2> QED
    BY <2>1 DEF OrderInv
<1> QED
  BY <1>1, <1>2, <1>3, <1>4, <1>5, <1>6, <1>7, <1>8, <1>9 DEF Start

\* The steps of the main thread's loop.
LEMMA OrderWork == TypeOK /\ TypeOK' /\ OrderInv /\ (Work \/ Publish) => OrderInv'
<1> SUFFICES ASSUME TypeOK, TypeOK', OrderInv, Work \/ Publish PROVE OrderInv'
  OBVIOUS
<1>0. /\ logFile \in Seq(Log) /\ log_entries \in Seq(Log) /\ batch \in Seq(Log)
      /\ gen \in Nat /\ cur \in Log
  BY DEF TypeOK
<1> USE DEF diskVars, memVars, mainVars, histVars, counts
<1>1. CASE WakeUp \/ EndGenerate
  <2>1. /\ UNCHANGED <<logFile, log_entries, gen, batch>>
        /\ mpc' = "generate" \/ mpc' = "batch"
    BY <1>1 DEF WakeUp, EndGenerate
  <2> QED
    BY <2>1 DEF OrderInv
<1>2. CASE NewLog
  BY <1>2 DEF NewLog, OrderInv
<1>3. CASE AddToFile
  <2>1. /\ UNCHANGED <<log_entries, batch, cur>> /\ gen' = gen + 1
        /\ mpc = "add" /\ mpc' = "push"
        /\ logFile' = Append(logFile, cur) \/ logFile' = logFile
    BY <1>3 DEF AddToFile
  <2>2. Below(logFile, gen) /\ Below(log_entries, gen) /\ cur.ev = gen + 1
    BY <2>1 DEF OrderInv
  <2>3. Below(logFile, gen + 1) /\ Below(log_entries, gen + 1) /\ Below(batch, gen + 1)
    BY <1>0, <2>2, BelowNext DEF OrderInv
  <2>4. Below(log_entries, gen' - 1)
    BY <1>0, <2>1, <2>2
  <2>5. Sorted(logFile') /\ Below(logFile', gen')
    <3>1. CASE logFile' = logFile
      BY <2>1, <2>3, <3>1 DEF OrderInv
    <3>2. CASE logFile' = Append(logFile, cur)
      <4>1. Below(logFile, (gen + 1) - 1) /\ gen + 1 \in Nat /\ Sorted(logFile)
        BY <1>0, <2>2 DEF OrderInv
      <4>2. Sorted(Append(logFile, cur)) /\ Below(Append(logFile, cur), gen + 1)
        BY <1>0, <2>2, <4>1, AppendNewer
      <4> QED
        BY <2>1, <3>2, <4>2
    <3> QED
      BY <2>1, <3>1, <3>2
  <2> QED
    BY <2>1, <2>2, <2>3, <2>4, <2>5 DEF OrderInv
<1>4. CASE AddToQueue
  <2>1. /\ UNCHANGED <<logFile, batch, gen>> /\ mpc = "push" /\ mpc' = "generate"
        /\ log_entries' = Append(log_entries, cur)
    BY <1>4 DEF AddToQueue
  <2>2. Sorted(log_entries) /\ Below(log_entries, gen - 1) /\ cur.ev = gen
    BY <2>1 DEF OrderInv
  <2>3. Sorted(Append(log_entries, cur)) /\ Below(Append(log_entries, cur), gen)
    BY <1>0, <2>2, AppendNewer
  <2> QED
    BY <2>1, <2>3 DEF OrderInv
<1>5. CASE BatchStart
  <2>1. /\ UNCHANGED <<logFile, log_entries, gen>> /\ batch' = <<>>
        /\ mpc' = "sleep" \/ mpc' = "copy"
    BY <1>5 DEF BatchStart
  <2>2. Sorted(<<>>) /\ Below(<<>>, gen) /\ Before(<<>>, log_entries, Len(<<>>))
    BY DEF Sorted, Below, Before
  <2> QED
    BY <2>1, <2>2 DEF OrderInv
<1>6. CASE BatchCopy
  <2> DEFINE b == Append(batch, log_entries[Len(batch) + 1])
  <2>1. /\ UNCHANGED <<logFile, log_entries, gen>> /\ batch' = b
        /\ mpc = "copy" /\ Len(batch) < Len(log_entries)
        /\ mpc' = "publish" \/ mpc' = "copy"
    BY <1>6 DEF BatchCopy
  <2>2. Sorted(batch) /\ Sorted(log_entries) /\ Before(batch, log_entries, Len(batch))
    BY <2>1 DEF OrderInv
  <2>3. Len(batch) \in Nat /\ Len(b) = Len(batch) + 1
    BY <1>0
  <2>4. Sorted(b) /\ Before(b, log_entries, Len(batch) + 1)
    BY <1>0, <2>1, <2>2, <2>3, MoveBatch
  <2>5. Before(b, log_entries, Len(b))
    BY <2>3, <2>4
  <2>6. Below(b, gen)
    BY <1>0, <2>1, <2>2, MoveOne DEF OrderInv
  <2> QED
    BY <2>1, <2>4, <2>5, <2>6 DEF OrderInv
<1>7. CASE Publish
  <2>1. UNCHANGED <<logFile, log_entries, gen>> /\ batch' = <<>> /\ mpc' = "sleep"
    BY <1>7 DEF Publish
  <2>2. Sorted(<<>>) /\ Below(<<>>, gen)
    BY DEF Sorted, Below
  <2> QED
    BY <2>1, <2>2 DEF OrderInv
<1> QED
  BY <1>1, <1>2, <1>3, <1>4, <1>5, <1>6, <1>7 DEF Work

\* The receiver thread pops the deque under the main thread's feet.
LEMMA OrderReceive ==
  TypeOK /\ TypeOK' /\ OrderInv /\ (Receive \/ AnyAck) => OrderInv'
<1> SUFFICES ASSUME TypeOK, TypeOK', OrderInv, Receive \/ AnyAck
             PROVE  OrderInv'
  OBVIOUS
<1> USE DEF diskVars, memVars, mainVars, histVars, counts
<1>1. CASE AckPop
  <2>1. /\ UNCHANGED <<logFile, batch, gen, cur, mpc>> /\ log_entries' = Tail(log_entries)
        /\ Running /\ log_entries # <<>>
    BY <1>1 DEF AckPop, RecvMayStep, FrontCovered
  <2>2. log_entries \in Seq(Log) /\ batch \in Seq(Log) /\ gen \in Int /\ gen - 1 \in Int
    BY DEF TypeOK
  <2>3. /\ Sorted(Tail(log_entries)) /\ Below(Tail(log_entries), gen)
        /\ Below(log_entries, gen - 1) => Below(Tail(log_entries), gen - 1)
        /\ Before(batch, log_entries, Len(batch)) => Before(batch, Tail(log_entries), Len(batch))
    BY <2>1, <2>2, PopFront DEF OrderInv
  <2>4. mpc' \notin {"ctor_create", "ctor_load", "dtor_copy"}
    BY <2>1 DEF Running
  <2> QED
    BY <2>1, <2>3, <2>4 DEF OrderInv
<1>2. CASE AckPopEnd \/ AckOpen \/ AckWrite \/ AnyAck
  <2>1. UNCHANGED <<logFile, tmpFile, log_entries, batch, gen, cur, mpc, line>>
    BY <1>2 DEF AckPopEnd, AckOpen, AckWrite, AckLog, AnyAck
  <2> QED
    BY <2>1 DEF OrderInv
<1> QED
  BY <1>1, <1>2 DEF Receive

LEMMA OrderStep == TypeOK /\ TypeOK' /\ OrderInv /\ [AnyNext]_vars => OrderInv'
<1> SUFFICES ASSUME TypeOK, TypeOK', OrderInv, [AnyNext]_vars PROVE OrderInv'
  OBVIOUS
<1>1. CASE Start
  BY <1>1, OrderStart
<1>2. CASE Work \/ Publish
  BY <1>2, OrderWork
<1>3. CASE Receive \/ AnyAck
  BY <1>3, OrderReceive
<1>4. CASE Die
  <2>1. /\ UNCHANGED <<logFile, gen>> /\ log_entries' = <<>> /\ batch' = <<>>
        /\ mpc' = "down"
    BY <1>4 DEF Die, BatchThrows, Crash, diskVars, histVars, counts
  <2>2. gen \in Int /\ log_entries \in Seq(Log)
    BY DEF TypeOK
  <2> QED
    BY <2>1, <2>2, EmptyOrder DEF OrderInv
<1>5. CASE UNCHANGED vars
  BY <1>5 DEF vars, diskVars, memVars, mainVars, histVars, counts, OrderInv
<1> QED
  BY <1>1, <1>2, <1>3, <1>4, <1>5 DEF AnyNext

LEMMA OrderStarts == Init => OrderInv
<1>1. Init => /\ logFile = <<>> /\ log_entries = <<>> /\ batch = <<>> /\ gen = 0
              /\ mpc = "down"
  BY DEF Init
<1>2. Sorted(<<>>) /\ Below(<<>>, 0)
  BY DEF Sorted, Below
<1> QED
  BY <1>1, <1>2 DEF OrderInv

\* The log file, the deque and a batch keep the order in which logs were
\* generated, without duplicates, although add_log, get_batch_log, ack_log
\* and clean_old_logs share them without a lock and kills fall anywhere.
THEOREM EventOrderHolds == Spec => []EventOrder
<1>1. TypeOK /\ TypeOK' /\ OrderInv /\ [Next]_vars => OrderInv'
  BY NextIsAny, OrderStep DEF TypeOK
<1>2. TypeOK /\ OrderInv => EventOrder
  <2>1. ASSUME NEW s \in Seq(Log), Sorted(s) PROVE Increasing(s)
    BY <2>1 DEF Sorted, Increasing
  <2> QED
    BY <2>1 DEF TypeOK, OrderInv, EventOrder
<1> QED
  BY <1>1, <1>2, OrderStarts, TypeCorrect, PTL DEF Spec
-----------------------------------------------------------------------------
(***************************************************************************)
(* QueueContiguous and NoLogLost.  As long as a behaviour is orderly the   *)
(* id of a log is its place in history, and each of the log file, the      *)
(* deque and the temporary file holds the last so many logs up to a known  *)
(* one: all generated, all read so far, all copied so far.  What comes     *)
(* before them has been acked.                                             *)
(***************************************************************************)

\* s holds, in order and without a gap, the last Len(s) of the logs 1 .. n.
EndsAt(s, n) ==
  \A i \in 1 .. Len(s) : s[i].id = n - Len(s) + i /\ s[i].ev = n - Len(s) + i

\* Every log up to n is in d.
AckedTo(d, n) == \A e \in 1 .. n : e \in d

\* The last log the deque should hold.
LastQueued == IF mpc = "push" THEN gen - 1 ELSE gen

\* The last log the constructor has read.
LastRead == gen - Len(logFile) + line

Constructing == mpc \in {"down", "ctor_create", "ctor_load"}

\* The files.
FilesInv ==
  /\ EndsAt(logFile, gen) /\ Len(logFile) <= gen /\ AckedTo(done, gen - Len(logFile))
  /\ logFile = <<>> => gen = 0
  /\ ackFile = NoFile => mpc = "down" /\ gen = 0
  /\ ackFile \in Nat => AckedTo(done, ackFile)

\* The constructor: what it has not kept of the lines read is acked.
LoadInv ==
  /\ mpc \in {"ctor_create", "ctor_load"} => ack_id = 0 \/ ack_id < gen
  /\ mpc = "ctor_create" => line = 0 /\ log_entries = <<>>
  /\ mpc = "ctor_load" =>
       /\ line <= Len(logFile)
       /\ EndsAt(log_entries, LastRead) /\ Len(log_entries) <= line
       /\ AckedTo(done, LastRead - Len(log_entries))
       /\ line > 0 => (log_entries # <<>> <=> LastRead > ack_id)
       /\ log_entries # <<>> => LastRead - Len(log_entries) >= ack_id

\* The destructor that runs on the full queue.
CleanInv ==
  /\ mpc \in {"dtor_clean", "dtor_copy"} =>
       /\ log_entries = <<>> => gen = 0
       /\ log_entries # <<>> => gen - Len(log_entries) >= ack_id
  /\ mpc = "dtor_copy" =>
       /\ line <= Len(log_entries) /\ Len(tmpFile) = line
       /\ EndsAt(tmpFile, gen - Len(log_entries) + line)

\* The deque, the ids and the acks.
QueueInv ==
  /\ AckedTo(done, ack_id)
  /\ ~Constructing =>
       /\ EndsAt(log_entries, LastQueued) /\ Len(log_entries) <= LastQueued
       /\ AckedTo(done, LastQueued - Len(log_entries))
       /\ new_id = IF mpc = "add" THEN gen + 2 ELSE gen + 1
  /\ mpc = "add" => cur.id = gen + 1 /\ cur.ev = gen + 1
  /\ mpc = "push" => cur.id = gen /\ cur.ev = gen /\ gen > 0
  /\ sent <= LastQueued
  /\ \A i \in 1 .. Len(batch) : batch[i].id <= LastQueued /\ batch[i].ev = batch[i].id

LossInv == orderly => FilesInv /\ LoadInv /\ CleanInv /\ QueueInv

\* The three things the code does to a sequence of logs.
LEMMA EndsAtEmpty == ASSUME NEW n \in Nat PROVE EndsAt(<<>>, n)
BY DEF EndsAt

LEMMA EndsAtAppend ==
  ASSUME NEW s \in Seq(Log), NEW n \in Nat, NEW e \in Log,
         EndsAt(s, n), e.id = n + 1, e.ev = n + 1
  PROVE  EndsAt(Append(s, e), n + 1) /\ Len(Append(s, e)) = Len(s) + 1
<1> DEFINE u == Append(s, e)
<1>1. /\ Len(u) = Len(s) + 1 /\ u[Len(s) + 1] = e
      /\ \A i \in 1 .. Len(s) : u[i] = s[i]
  OBVIOUS
<1>2. Len(s) \in Nat
  OBVIOUS
<1>3. ASSUME NEW i \in 1 .. Len(s) + 1
      PROVE  u[i].id = n + 1 - Len(u) + i /\ u[i].ev = n + 1 - Len(u) + i
  <2>1. CASE i = Len(s) + 1
    BY <1>1, <1>2, <2>1
  <2>2. CASE i \in 1 .. Len(s)
    <3>1. s[i].id = n - Len(s) + i /\ s[i].ev = n - Len(s) + i
      BY <2>2 DEF EndsAt
    <3> QED
      BY <1>1, <1>2, <2>2, <3>1
  <2> QED
    BY <1>2, <2>1, <2>2
<1> QED
  BY <1>1, <1>3 DEF EndsAt

LEMMA EndsAtTail ==
  ASSUME NEW s \in Seq(Log), NEW n \in Nat, EndsAt(s, n), s # <<>>
  PROVE  /\ EndsAt(Tail(s), n) /\ Len(Tail(s)) = Len(s) - 1
         /\ s[1].id = n - Len(s) + 1
<1>1. /\ Len(Tail(s)) = Len(s) - 1 /\ \A i \in 1 .. Len(s) - 1 : Tail(s)[i] = s[i + 1]
      /\ Len(s) \in Nat /\ Len(s) > 0
  OBVIOUS
<1>2. ASSUME NEW i \in 1 .. Len(s) - 1
      PROVE  /\ Tail(s)[i].id = n - Len(Tail(s)) + i
             /\ Tail(s)[i].ev = n - Len(Tail(s)) + i
  <2>1. i + 1 \in 1 .. Len(s)
    BY <1>1
  <2>2. s[i + 1].id = n - Len(s) + (i + 1) /\ s[i + 1].ev = n - Len(s) + (i + 1)
    BY <2>1 DEF EndsAt
  <2> QED
    BY <1>1, <2>2
<1>3. s[1].id = n - Len(s) + 1
  BY <1>1 DEF EndsAt
<1> QED
  BY <1>1, <1>2, <1>3 DEF EndsAt

\* Disorder is for ever.
LEMMA OrderlyBefore == TypeOK /\ [AnyNext]_vars /\ orderly' => orderly
<1> SUFFICES ASSUME TypeOK, [AnyNext]_vars, orderly' PROVE orderly
  OBVIOUS
<1> USE DEF histVars, counts
<1>1. CASE Start
  BY <1>1 DEF Start, OpenAckFile, CreateAckFile, LoadLine, LoadFails, LoadDone, CleanStart,
      CleanCopy, CleanRename, DtorOpenAck, DtorWriteAck
<1>2. CASE Work \/ Publish
  BY <1>2 DEF Work, WakeUp, NewLog, AddToFile, AddToQueue, EndGenerate, BatchStart,
      BatchCopy, Publish
<1>3. CASE Receive \/ AnyAck
  BY <1>3 DEF Receive, AckPop, AckPopEnd, AckOpen, AckWrite, AckLog, AnyAck
<1>4. CASE Die
  BY <1>4 DEF Die, BatchThrows, Crash
<1>5. CASE UNCHANGED vars
  BY <1>5 DEF vars
<1> QED
  BY <1>1, <1>2, <1>3, <1>4, <1>5 DEF AnyNext

\* Where files open and no start is torn or drained there is no disorder.
LEMMA OrderlyAfter ==
  ASSUME ~DiskMayFail, Restarts \subseteq {"benign"}, orderly, [AnyNext]_vars
  PROVE  orderly'
<1> USE DEF histVars, counts
<1>1. CASE OpenAckFile
  <2>1. StartKind \in {"benign", "first"}
    BY <1>1 DEF OpenAckFile
  <2>2. ackFile # Empty
    BY <2>1, ConstantsAssumption DEF StartKind
  <2> QED
    BY <1>1, <2>1, <2>2 DEF OpenAckFile
<1>2. CASE Start /\ ~OpenAckFile
  BY <1>2 DEF Start, CreateAckFile, LoadLine, LoadFails, LoadDone, CleanStart,
      CleanCopy, CleanRename, DtorOpenAck, DtorWriteAck
<1>3. CASE Work \/ Publish
  BY <1>3 DEF Work, WakeUp, NewLog, AddToFile, AddToQueue, EndGenerate, BatchStart,
      BatchCopy, Publish
<1>4. CASE Receive \/ AnyAck
  BY <1>4 DEF Receive, AckPop, AckPopEnd, AckOpen, AckWrite, AckLog, AnyAck
<1>5. CASE Die
  BY <1>5 DEF Die, BatchThrows, Crash
<1>6. CASE UNCHANGED vars
  BY <1>6 DEF vars
<1> QED
  BY <1>1, <1>2, <1>3, <1>4, <1>5, <1>6 DEF AnyNext

\* The steps of a start.
LEMMA LossStart == TypeOK /\ TypeOK' /\ orderly /\ orderly' /\ LossInv /\ Start => LossInv'
<1> SUFFICES ASSUME TypeOK, TypeOK', orderly, orderly', FilesInv, LoadInv, CleanInv, QueueInv, Start
             PROVE  FilesInv' /\ LoadInv' /\ CleanInv' /\ QueueInv'
  BY DEF LossInv
<1>0. /\ logFile \in Seq(Log) /\ tmpFile \in Seq(Log) /\ log_entries \in Seq(Log)
      /\ batch \in Seq(Log) /\ ack_id \in Nat /\ line \in Nat /\ gen \in Nat /\ sent \in Nat
      /\ Len(logFile) \in Nat /\ Len(log_entries) \in Nat
  BY DEF TypeOK
<1> USE DEF diskVars, memVars, mainVars, histVars, counts, Constructing
<1>1. CASE OpenAckFile
  <2>1. /\ UNCHANGED <<logFile, tmpFile, cur, want, batch, rpc, gen, sent, done>>
        /\ log_entries' = <<>> /\ line' = 0 /\ mpc = "down"
    BY <1>1 DEF OpenAckFile
  <2>2. \/ ackFile = NoFile /\ ack_id' = 0 /\ mpc' = "ctor_create" /\ ackFile' = Empty
        \/ /\ ackFile \in Nat /\ ack_id' = ackFile /\ StartKind # "drained"
           /\ mpc' = "ctor_load" /\ ackFile' = ackFile
    BY <1>1 DEF OpenAckFile
  <2>3. Empty \notin Nat /\ NoFile \notin Nat /\ Empty # NoFile
    BY ConstantsAssumption
  <2>4. FilesInv'
    BY <2>1, <2>2, <2>3 DEF FilesInv, AckedTo
  <2>5. QueueInv'
    BY <1>0, <2>1, <2>2 DEF QueueInv, FilesInv, AckedTo, LastQueued
  <2>6. CleanInv'
    BY <2>2 DEF CleanInv
  <2>7. LoadInv'
    <3>1. ack_id' = 0 \/ ack_id' < gen'
      <4>1. CASE ackFile = NoFile /\ ack_id' = 0
        BY <4>1
      <4>2. CASE ackFile \in Nat /\ ack_id' = ackFile /\ StartKind # "drained"
        <5>1. ~(ackFile > 0 /\ \A i \in DOMAIN logFile : logFile[i].id <= ackFile)
          BY <2>3, <4>2 DEF StartKind
        <5>2. CASE ackFile = 0
          BY <4>2, <5>2
        <5>3. CASE \E i \in DOMAIN logFile : ~(logFile[i].id <= ackFile)
          <6>1. PICK i \in 1 .. Len(logFile) : ~(logFile[i].id <= ackFile)
            BY <1>0, <5>3
          <6>2. logFile[i].id = gen - Len(logFile) + i
            BY DEF FilesInv, EndsAt
          <6> QED
            BY <1>0, <2>1, <4>2, <6>1, <6>2
        <5> QED
          BY <4>2, <5>1, <5>2, <5>3
      <4> QED
        BY <2>2, <4>1, <4>2
    <3>2. LastRead' = gen - Len(logFile)
      BY <1>0, <2>1 DEF LastRead
    <3>3. EndsAt(<<>>, LastRead') /\ AckedTo(done', LastRead') /\ LastRead' \in Nat
      BY <1>0, <2>1, <3>2, EndsAtEmpty DEF FilesInv, AckedTo
    <3> QED
      BY <1>0, <2>1, <2>2, <3>1, <3>3 DEF LoadInv
  <2> QED
    BY <2>4, <2>5, <2>6, <2>7
<1>2. CASE CreateAckFile
  <2>1. /\ UNCHANGED <<logFile, tmpFile, memVars, line, cur, batch, histVars>>
        /\ mpc = "ctor_create" /\ mpc' = "ctor_load" /\ ackFile' = 0
    BY <1>2 DEF CreateAckFile
  <2>2. FilesInv'
    BY <2>1, ConstantsAssumption DEF FilesInv, AckedTo
  <2>3. QueueInv'
    BY <2>1 DEF QueueInv, AckedTo, LastQueued
  <2>4. LoadInv'
    <3>1. /\ LastRead' = gen - Len(logFile) /\ line' = 0 /\ log_entries' = <<>>
          /\ ack_id' = ack_id /\ (ack_id = 0 \/ ack_id < gen)
      BY <1>0, <2>1 DEF LastRead, LoadInv
    <3>2. EndsAt(<<>>, LastRead') /\ AckedTo(done', LastRead')
      BY <1>0, <2>1, <3>1, EndsAtEmpty DEF FilesInv, AckedTo
    <3> QED
      BY <1>0, <2>1, <3>1, <3>2 DEF LoadInv
  <2> QED
    BY <2>1, <2>2, <2>3, <2>4 DEF CleanInv
<1>3. CASE LoadLine
  <2> DEFINE e == logFile[line + 1]
  <2>1. /\ UNCHANGED <<diskVars, ack_id, new_id, mpc, cur, batch, gen, sent, done>>
        /\ mpc = "ctor_load" /\ line < Len(logFile) /\ line' = line + 1
        /\ log_entries' = IF e.id > ack_id THEN Append(log_entries, e) ELSE log_entries
    BY <1>3 DEF LoadLine
  <2>2. /\ EndsAt(log_entries, LastRead) /\ Len(log_entries) <= line
        /\ AckedTo(done, LastRead - Len(log_entries))
        /\ line > 0 => (log_entries # <<>> <=> LastRead > ack_id)
        /\ log_entries # <<>> => LastRead - Len(log_entries) >= ack_id
        /\ ack_id = 0 \/ ack_id < gen
    BY <2>1 DEF LoadInv
  <2>3. LastRead \in Nat /\ LastRead' = LastRead + 1 /\ LastRead >= line
    BY <1>0, <2>1 DEF LastRead, FilesInv
  <2>4. e \in Log /\ e.id = LastRead + 1 /\ e.ev = LastRead + 1
    <3>1. line + 1 \in 1 .. Len(logFile)
      BY <1>0, <2>1
    <3>2. e \in Log
      BY <1>0, <3>1
    <3>3. /\ e.id = gen - Len(logFile) + (line + 1)
          /\ e.ev = gen - Len(logFile) + (line + 1)
      BY <3>1 DEF FilesInv, EndsAt
    <3> QED
      BY <1>0, <3>2, <3>3 DEF LastRead
  <2>5. FilesInv' /\ QueueInv' /\ CleanInv'
    BY <2>1 DEF FilesInv, QueueInv, CleanInv, AckedTo, LastQueued
  <2>6. CASE e.id > ack_id
    <3>1. log_entries' = Append(log_entries, e)
      BY <2>1, <2>6
    <3>2. EndsAt(log_entries', LastRead') /\ Len(log_entries') = Len(log_entries) + 1
      BY <1>0, <2>2, <2>3, <2>4, <3>1, EndsAtAppend
    <3>3. AckedTo(done', LastRead' - Len(log_entries'))
      BY <1>0, <2>1, <2>2, <2>3, <3>2 DEF AckedTo
    <3>4. LastRead' > ack_id' /\ log_entries' # <<>>
      BY <1>0, <2>1, <2>3, <2>4, <2>6, <3>1
    <3>5. LastRead' - Len(log_entries') >= ack_id'
      <4>1. CASE log_entries = <<>>
        BY <1>0, <2>1, <2>3, <2>4, <2>6, <3>2, <4>1
      <4>2. CASE log_entries # <<>>
        BY <1>0, <2>1, <2>2, <2>3, <3>2, <4>2
      <4> QED
        BY <4>1, <4>2
    <3> QED
      BY <1>0, <2>1, <2>2, <2>5, <3>2, <3>3, <3>4, <3>5 DEF LoadInv
  <2>7. CASE ~(e.id > ack_id)
    <3>1. log_entries' = log_entries /\ LastRead < ack_id
      BY <1>0, <2>1, <2>3, <2>4, <2>7
    <3>2. log_entries = <<>>
      BY <1>0, <2>2, <2>3, <3>1
    <3>3. Len(log_entries) = 0 /\ EndsAt(<<>>, LastRead')
      BY <2>3, <3>2, EndsAtEmpty
    <3>4. AckedTo(done', LastRead')
      BY <1>0, <2>1, <2>3, <3>1 DEF QueueInv, AckedTo
    <3> QED
      BY <1>0, <2>1, <2>2, <2>3, <2>5, <3>1, <3>2, <3>3, <3>4 DEF LoadInv
  <2> QED
    BY <2>6, <2>7
<1>4. CASE LoadFails
  BY <1>4 DEF LoadFails
<1>5. CASE LoadDone
  <2>1. /\ UNCHANGED <<diskVars, ack_id, log_entries, line, cur, batch, gen, sent, done>>
        /\ mpc = "ctor_load" /\ line = Len(logFile) /\ mpc' = "dtor_clean"
        /\ new_id' = IF log_entries = <<>> THEN 1 ELSE log_entries[Len(log_entries)].id + 1
    BY <1>5 DEF LoadDone
  <2>2. /\ LastRead = gen
        /\ EndsAt(log_entries, gen) /\ Len(log_entries) <= line
        /\ AckedTo(done, gen - Len(log_entries))
        /\ line > 0 => (log_entries # <<>> <=> gen > ack_id)
        /\ log_entries # <<>> => gen - Len(log_entries) >= ack_id
        /\ ack_id = 0 \/ ack_id < gen
    BY <1>0, <2>1 DEF LoadInv, LastRead
  <2>3. log_entries = <<>> => gen = 0
    BY <1>0, <2>1, <2>2 DEF FilesInv
  <2>4. new_id' = gen + 1
    <3>1. CASE log_entries = <<>>
      BY <1>0, <2>1, <2>3, <3>1
    <3>2. CASE log_entries # <<>>
      <4>1. Len(log_entries) \in 1 .. Len(log_entries)
        BY <1>0, <3>2
      <4>2. log_entries[Len(log_entries)].id = gen
        BY <1>0, <2>2, <4>1 DEF EndsAt
      <4> QED
        BY <2>1, <3>2, <4>2
    <3> QED
      BY <3>1, <3>2
  <2>5. FilesInv' /\ LoadInv' /\ CleanInv'
    BY <2>1, <2>2, <2>3 DEF FilesInv, LoadInv, CleanInv, AckedTo
  <2>6. QueueInv'
    BY <1>0, <2>1, <2>2, <2>4 DEF QueueInv, AckedTo, LastQueued, FilesInv
  <2> QED
    BY <2>5, <2>6
<1>6. CASE CleanStart
  <2>1. /\ UNCHANGED <<logFile, ackFile, memVars, cur, batch, gen, sent, done>>
        /\ mpc = "dtor_clean"
        /\ \/ mpc' = "dtor_open"
           \/ mpc' = "dtor_copy" /\ tmpFile' = <<>> /\ line' = 0
    BY <1>6 DEF CleanStart
  <2>2. FilesInv' /\ LoadInv' /\ QueueInv'
    BY <2>1 DEF FilesInv, LoadInv, QueueInv, AckedTo, LastQueued
  <2>3. CleanInv'
    <3>1. CASE mpc' = "dtor_open"
      BY <3>1 DEF CleanInv
    <3>2. CASE mpc' = "dtor_copy" /\ tmpFile' = <<>> /\ line' = 0
      <4>1. Len(log_entries) <= gen /\ gen - Len(log_entries) + 0 \in Nat
        BY <1>0, <2>1 DEF QueueInv, LastQueued
      <4>2. EndsAt(<<>>, gen - Len(log_entries) + 0)
        BY <4>1, EndsAtEmpty
      <4> QED
        BY <1>0, <2>1, <3>2, <4>1, <4>2 DEF CleanInv
    <3> QED
      BY <2>1, <3>1, <3>2
  <2> QED
    BY <2>2, <2>3
<1>7. CASE CleanCopy
  <2> DEFINE e == log_entries[line + 1]
             n == gen - Len(log_entries) + line
  <2>1. /\ UNCHANGED <<logFile, ackFile, memVars, mpc, cur, batch, gen, sent, done>>
        /\ mpc = "dtor_copy" /\ line < Len(log_entries) /\ line' = line + 1
        /\ tmpFile' = IF e.id > ack_id THEN Append(tmpFile, e) ELSE tmpFile
    BY <1>7 DEF CleanCopy
  <2>2. /\ EndsAt(log_entries, gen) /\ Len(log_entries) <= gen
        /\ (gen - Len(log_entries) >= ack_id \/ log_entries = <<>>)
        /\ Len(tmpFile) = line /\ EndsAt(tmpFile, n)
        /\ log_entries = <<>> => gen = 0
    BY <2>1 DEF QueueInv, CleanInv, LastQueued
  <2>3. n \in Nat /\ e \in Log /\ e.id = n + 1 /\ e.ev = n + 1
    BY <1>0, <2>1, <2>2 DEF EndsAt
  <2>4. log_entries # <<>> /\ e.id > ack_id
    BY <1>0, <2>1, <2>2, <2>3
  <2>5. EndsAt(tmpFile', n + 1) /\ Len(tmpFile') = line + 1
    BY <1>0, <2>1, <2>2, <2>3, <2>4, EndsAtAppend
  <2>6. n + 1 = gen - Len(log_entries) + line'
    BY <1>0, <2>1
  <2>7. FilesInv' /\ LoadInv' /\ QueueInv'
    BY <2>1 DEF FilesInv, LoadInv, QueueInv, AckedTo, LastQueued
  <2>8. CleanInv'
    BY <1>0, <2>1, <2>2, <2>5, <2>6 DEF CleanInv
  <2> QED
    BY <2>7, <2>8
<1>8. CASE CleanRename
  <2>1. /\ UNCHANGED <<tmpFile, ackFile, memVars, line, cur, batch, gen, sent, done>>
        /\ mpc = "dtor_copy" /\ line = Len(log_entries) /\ mpc' = "dtor_open"
        /\ logFile' = tmpFile
    BY <1>8 DEF CleanRename
  <2>2. /\ EndsAt(tmpFile, gen) /\ Len(tmpFile) = Len(log_entries)
        /\ log_entries = <<>> => gen = 0
    BY <1>0, <2>1 DEF CleanInv
  <2>3. Len(log_entries) <= gen /\ AckedTo(done, gen - Len(log_entries))
    BY <2>1 DEF QueueInv, LastQueued
  <2>4. logFile' = <<>> => log_entries = <<>>
    BY <1>0, <2>1, <2>2
  <2>5. FilesInv'
    BY <2>1, <2>2, <2>3, <2>4 DEF FilesInv, AckedTo
  <2>6. LoadInv' /\ QueueInv' /\ CleanInv'
    BY <2>1 DEF LoadInv, QueueInv, CleanInv, AckedTo, LastQueued
  <2> QED
    BY <2>5, <2>6
<1>9. CASE DtorOpenAck \/ DtorWriteAck
  <2>1. /\ UNCHANGED <<logFile, tmpFile, memVars, line, cur, batch, gen, sent, done>>
        /\ \/ mpc' = "dtor_write" /\ ackFile' = Empty
           \/ mpc' = "sleep" /\ ackFile' = ack_id
        /\ mpc \in {"dtor_open", "dtor_write"}
    BY <1>9 DEF DtorOpenAck, DtorWriteAck
  <2>2. FilesInv'
    BY <1>0, <2>1, ConstantsAssumption DEF FilesInv, QueueInv, AckedTo
  <2>3. LoadInv' /\ QueueInv' /\ CleanInv'
    BY <2>1 DEF LoadInv, QueueInv, CleanInv, AckedTo, LastQueued
  <2> QED
    BY <2>2, <2>3
<1> QED
  BY <1>1, <1>2, <1>3, <1>4, <1>5, <1>6, <1>7, <1>8, <1>9 DEF Start

\* The steps of the main thread's loop.
LEMMA LossWork ==
  TypeOK /\ TypeOK' /\ orderly /\ orderly' /\ LossInv /\ (Work \/ Publish) => LossInv'
<1> SUFFICES ASSUME TypeOK, TypeOK', orderly, orderly', FilesInv, LoadInv, CleanInv, QueueInv,
                    Work \/ Publish
             PROVE  FilesInv' /\ LoadInv' /\ CleanInv' /\ QueueInv'
  BY DEF LossInv
<1>0. /\ logFile \in Seq(Log) /\ log_entries \in Seq(Log) /\ batch \in Seq(Log)
      /\ cur \in Log /\ gen \in Nat /\ sent \in Nat
      /\ Len(logFile) \in Nat /\ Len(log_entries) \in Nat /\ Len(batch) \in Nat
  BY DEF TypeOK
<1> USE DEF diskVars, memVars, mainVars, histVars, counts, Constructing
<1>1. CASE WakeUp \/ EndGenerate
  <2>1. /\ UNCHANGED <<diskVars, memVars, line, cur, batch, histVars>>
        /\ mpc \in {"sleep", "generate"} /\ mpc' \in {"generate", "batch"}
    BY <1>1 DEF WakeUp, EndGenerate
  <2> QED
    BY <2>1 DEF FilesInv, LoadInv, CleanInv, QueueInv, LastQueued
<1>2. CASE NewLog
  <2>1. /\ UNCHANGED <<diskVars, ack_id, log_entries, line, batch, histVars>>
        /\ mpc = "generate" /\ mpc' = "add" /\ new_id' = new_id + 1
        /\ cur'.id = new_id /\ cur'.ev = gen + 1
    BY <1>2 DEF NewLog
  <2>2. new_id = gen + 1
    BY <2>1 DEF QueueInv
  <2>3. FilesInv' /\ LoadInv' /\ CleanInv'
    BY <2>1 DEF FilesInv, LoadInv, CleanInv
  <2>4. QueueInv'
    BY <1>0, <2>1, <2>2 DEF QueueInv, LastQueued
  <2> QED
    BY <2>3, <2>4
<1>3. CASE AddToFile
  <2>1. /\ UNCHANGED <<tmpFile, ackFile, memVars, line, cur, batch, sent, done>>
        /\ mpc = "add" /\ mpc' = "push" /\ gen' = gen + 1 /\ logFile' = Append(logFile, cur)
    BY <1>3 DEF AddToFile
  <2>2. EndsAt(logFile, gen) /\ cur.id = gen + 1 /\ cur.ev = gen + 1
    BY <2>1 DEF FilesInv, QueueInv
  <2>3. EndsAt(logFile', gen') /\ Len(logFile') = Len(logFile) + 1
    BY <1>0, <2>1, <2>2, EndsAtAppend
  <2>4. gen' - Len(logFile') = gen - Len(logFile) /\ logFile' # <<>>
    BY <1>0, <2>1, <2>3
  <2>5. ackFile # NoFile
    BY <2>1 DEF FilesInv
  <2>6. FilesInv'
    BY <1>0, <2>1, <2>3, <2>4, <2>5 DEF FilesInv
  <2>7. LastQueued' = gen /\ LastQueued = gen
    BY <1>0, <2>1 DEF LastQueued
  <2>8. QueueInv'
    BY <1>0, <2>1, <2>2, <2>7 DEF QueueInv
  <2>9. LoadInv' /\ CleanInv'
    BY <2>1 DEF LoadInv, CleanInv
  <2> QED
    BY <2>6, <2>8, <2>9
<1>4. CASE AddToQueue
  <2>1. /\ UNCHANGED <<diskVars, ack_id, new_id, line, cur, batch, histVars>>
        /\ mpc = "push" /\ mpc' = "generate" /\ log_entries' = Append(log_entries, cur)
    BY <1>4 DEF AddToQueue
  <2>2. /\ LastQueued = gen - 1 /\ LastQueued' = gen /\ gen > 0
        /\ cur.id = gen /\ cur.ev = gen /\ EndsAt(log_entries, gen - 1)
    BY <1>0, <2>1 DEF LastQueued, QueueInv
  <2>3. EndsAt(log_entries', gen) /\ Len(log_entries') = Len(log_entries) + 1
    <3>1. gen - 1 \in Nat /\ cur.id = (gen - 1) + 1 /\ cur.ev = (gen - 1) + 1
      BY <1>0, <2>2
    <3>2. /\ EndsAt(Append(log_entries, cur), (gen - 1) + 1)
          /\ Len(Append(log_entries, cur)) = Len(log_entries) + 1
      BY <1>0, <2>2, <3>1, EndsAtAppend
    <3>3. (gen - 1) + 1 = gen
      BY <1>0
    <3> QED
      BY <2>1, <3>2, <3>3
  <2>4. LastQueued' - Len(log_entries') = LastQueued - Len(log_entries)
    BY <1>0, <2>2, <2>3
  <2>5. /\ Len(log_entries') <= gen /\ sent <= gen
        /\ \A i \in 1 .. Len(batch') : batch'[i].id <= gen /\ batch'[i].ev = batch'[i].id
    <3>1. /\ Len(log_entries) <= gen - 1 /\ sent <= gen - 1
          /\ \A i \in 1 .. Len(batch) : batch[i].id <= gen - 1 /\ batch[i].ev = batch[i].id
      BY <2>1, <2>2 DEF QueueInv
    <3>2. \A i \in 1 .. Len(batch) : batch[i].id \in Nat
      BY <1>0, LogSeq DEF Log
    <3> QED
      BY <1>0, <2>1, <2>3, <3>1, <3>2
  <2>6. AckedTo(done, LastQueued - Len(log_entries)) /\ AckedTo(done, ack_id) /\ new_id = gen + 1
    BY <2>1 DEF QueueInv
  <2>7. QueueInv'
    BY <2>1, <2>2, <2>3, <2>4, <2>5, <2>6 DEF QueueInv
  <2>8. FilesInv' /\ LoadInv' /\ CleanInv'
    BY <2>1 DEF FilesInv, LoadInv, CleanInv
  <2> QED
    BY <2>7, <2>8
<1>5. CASE BatchStart
  <2>1. /\ UNCHANGED <<diskVars, memVars, line, cur, histVars>>
        /\ mpc = "batch" /\ mpc' \in {"sleep", "copy"} /\ batch' = <<>>
    BY <1>5 DEF BatchStart
  <2> QED
    BY <2>1 DEF FilesInv, LoadInv, CleanInv, QueueInv, LastQueued
<1>6. CASE BatchCopy
  <2> DEFINE e == log_entries[Len(batch) + 1]
  <2>1. /\ UNCHANGED <<diskVars, memVars, line, cur, histVars>>
        /\ mpc = "copy" /\ mpc' \in {"publish", "copy"} /\ batch' = Append(batch, e)
        /\ Len(batch) < Len(log_entries)
    BY <1>6 DEF BatchCopy
  <2>2. e \in Log /\ e.id <= gen /\ e.ev = e.id
    <3>1. Len(batch) + 1 \in 1 .. Len(log_entries)
      BY <1>0, <2>1
    <3>2. EndsAt(log_entries, gen)
      BY <2>1 DEF QueueInv, LastQueued
    <3>3. /\ e.id = gen - Len(log_entries) + (Len(batch) + 1)
          /\ e.ev = gen - Len(log_entries) + (Len(batch) + 1)
      BY <3>1, <3>2 DEF EndsAt
    <3> QED
      BY <1>0, <3>1, <3>3
  <2>3. \A i \in 1 .. Len(batch') : batch'[i].id <= gen /\ batch'[i].ev = batch'[i].id
    <3>1. \A i \in 1 .. Len(batch) : batch[i].id <= gen /\ batch[i].ev = batch[i].id
      BY <2>1 DEF QueueInv, LastQueued
    <3>2. /\ Len(batch') = Len(batch) + 1 /\ batch'[Len(batch) + 1] = e
          /\ \A i \in 1 .. Len(batch) : batch'[i] = batch[i]
      BY <1>0, <2>1, <2>2
    <3>3. ASSUME NEW i \in 1 .. Len(batch) + 1
          PROVE  batch'[i].id <= gen /\ batch'[i].ev = batch'[i].id
      <4>1. CASE i = Len(batch) + 1
        BY <2>2, <3>2, <4>1
      <4>2. CASE i \in 1 .. Len(batch)
        BY <3>1, <3>2, <4>2
      <4> QED
        BY <1>0, <4>1, <4>2
    <3> QED
      BY <3>2, <3>3
  <2>4. QueueInv'
    BY <2>1, <2>3 DEF QueueInv, LastQueued
  <2>5. FilesInv' /\ LoadInv' /\ CleanInv'
    BY <2>1 DEF FilesInv, LoadInv, CleanInv
  <2> QED
    BY <2>4, <2>5
<1>7. CASE Publish
  <2>1. /\ UNCHANGED <<diskVars, memVars, line, cur, gen, done>>
        /\ mpc = "publish" /\ mpc' = "sleep" /\ batch # <<>> /\ batch' = <<>>
        /\ sent' = IF batch[Len(batch)].id > sent THEN batch[Len(batch)].id ELSE sent
    BY <1>7 DEF Publish
  <2>2. batch[Len(batch)].id <= gen
    <3>1. Len(batch) \in 1 .. Len(batch)
      BY <1>0, <2>1
    <3> QED
      BY <2>1, <3>1 DEF QueueInv, LastQueued
  <2>3. sent' <= gen
    BY <2>1, <2>2 DEF QueueInv, LastQueued
  <2>4. QueueInv'
    BY <2>1, <2>3 DEF QueueInv, LastQueued
  <2>5. FilesInv' /\ LoadInv' /\ CleanInv'
    BY <2>1 DEF FilesInv, LoadInv, CleanInv
  <2> QED
    BY <2>4, <2>5
<1> QED
  BY <1>1, <1>2, <1>3, <1>4, <1>5, <1>6, <1>7 DEF Work

\* The steps of the receiver thread, and a death.
LEMMA LossReceive ==
  TypeOK /\ TypeOK' /\ orderly /\ orderly' /\ LossInv
    /\ (Receive \/ \E id \in 0 .. sent : AckLog(id)) => LossInv'
<1> SUFFICES ASSUME TypeOK, TypeOK', orderly, orderly', FilesInv, LoadInv, CleanInv, QueueInv,
                    Receive \/ \E id \in 0 .. sent : AckLog(id)
             PROVE  FilesInv' /\ LoadInv' /\ CleanInv' /\ QueueInv'
  BY DEF LossInv
<1>0. /\ log_entries \in Seq(Log) /\ ack_id \in Nat /\ gen \in Nat /\ sent \in Nat
      /\ Len(log_entries) \in Nat /\ Len(logFile) \in Nat
  BY DEF TypeOK
<1> USE DEF diskVars, memVars, mainVars, histVars, counts, Constructing
<1>1. CASE AckPop
  <2>1. /\ UNCHANGED <<diskVars, ack_id, new_id, mpc, line, cur, batch, histVars>>
        /\ mpc \notin {"down", "ctor_create", "ctor_load", "dtor_clean", "dtor_copy"}
        /\ log_entries' = Tail(log_entries)
        /\ log_entries # <<>> /\ log_entries[1].id <= ack_id
    BY <1>1 DEF AckPop, RecvMayStep, FrontCovered, Running
  <2> DEFINE n == LastQueued
  <2>2. /\ EndsAt(log_entries, n) /\ Len(log_entries) <= n /\ AckedTo(done, n - Len(log_entries))
        /\ AckedTo(done, ack_id)
    BY <2>1 DEF QueueInv
  <2>3. n \in Nat /\ LastQueued' = n
    <3>1. n \in Int
      BY <1>0 DEF LastQueued
    <3> QED
      BY <1>0, <2>1, <2>2, <3>1 DEF LastQueued
  <2>4. /\ EndsAt(log_entries', n) /\ Len(log_entries') = Len(log_entries) - 1
        /\ log_entries[1].id = n - Len(log_entries) + 1
    BY <1>0, <2>1, <2>2, <2>3, EndsAtTail
  <2>5. Len(log_entries') <= n /\ AckedTo(done, n - Len(log_entries'))
    <3> HIDE DEF n
    <3> QED
      BY <1>0, <2>1, <2>2, <2>3, <2>4 DEF AckedTo
  <2>6. QueueInv'
    BY <2>1, <2>3, <2>4, <2>5 DEF QueueInv
  <2>7. FilesInv' /\ LoadInv' /\ CleanInv'
    BY <2>1 DEF FilesInv, LoadInv, CleanInv
  <2> QED
    BY <2>6, <2>7
<1>2. CASE AckPopEnd
  BY <1>2 DEF AckPopEnd, FilesInv, LoadInv, CleanInv, QueueInv, LastQueued, LastRead
<1>3. CASE AckOpen \/ AckWrite
  <2>1. /\ UNCHANGED <<logFile, tmpFile, memVars, mainVars, gen, sent, done>>
        /\ ackFile' = Empty \/ ackFile' = ack_id
    BY <1>3 DEF AckOpen, AckWrite
  <2>2. FilesInv'
    BY <1>0, <2>1, ConstantsAssumption DEF FilesInv, QueueInv
  <2>3. LoadInv' /\ CleanInv' /\ QueueInv'
    BY <2>1 DEF LoadInv, CleanInv, QueueInv, LastQueued, LastRead
  <2> QED
    BY <2>2, <2>3
<1>4. ASSUME NEW id \in 0 .. sent, AckLog(id) PROVE FilesInv' /\ LoadInv' /\ CleanInv' /\ QueueInv'
  <2>1. /\ UNCHANGED <<diskVars, log_entries, new_id, mainVars, gen, sent>>
        /\ mpc \notin {"down", "ctor_create", "ctor_load", "dtor_clean", "dtor_copy"}
        /\ ack_id' = id /\ done \subseteq done'
        /\ \/ id = ack_id
           \/ done' = done \cup
                {log_entries[i].ev : i \in {j \in DOMAIN log_entries : log_entries[j].id <= id}}
    BY <1>4 DEF AckLog, Running
  <2> DEFINE n == LastQueued
  <2>2. /\ EndsAt(log_entries, n) /\ Len(log_entries) <= n /\ AckedTo(done, n - Len(log_entries))
        /\ AckedTo(done, ack_id) /\ sent <= n
    BY <2>1 DEF QueueInv
  <2>3. AckedTo(done', id)
    <3> SUFFICES ASSUME NEW e \in 1 .. id, e \notin done PROVE e \in done'
      BY <2>1 DEF AckedTo
    <3>1. n \in Int
      BY <1>0 DEF LastQueued
    <3> HIDE DEF n
    <3>2. e - (n - Len(log_entries)) \in 1 .. Len(log_entries)
      BY <1>0, <2>2, <3>1 DEF AckedTo
    <3>3. PICK i \in 1 .. Len(log_entries) : i = e - (n - Len(log_entries))
      BY <3>2
    <3>4. log_entries[i].id = e /\ log_entries[i].ev = e
      <4>1. /\ log_entries[i].id = n - Len(log_entries) + i
            /\ log_entries[i].ev = n - Len(log_entries) + i
        BY <2>2 DEF EndsAt
      <4> QED
        BY <1>0, <3>1, <3>3, <4>1
    <3>5. id # ack_id
      BY <1>0, <2>2 DEF AckedTo
    <3>6. i \in {j \in DOMAIN log_entries : log_entries[j].id <= id}
      BY <1>0, <3>3, <3>4
    <3> QED
      BY <2>1, <3>4, <3>5, <3>6
  <2>4. FilesInv' /\ QueueInv'
    BY <2>1, <2>3 DEF FilesInv, QueueInv, LastQueued, AckedTo
  <2>5. LoadInv' /\ CleanInv'
    BY <2>1 DEF LoadInv, CleanInv
  <2> QED
    BY <2>4, <2>5
<1> QED
  BY <1>1, <1>2, <1>3, <1>4 DEF Receive

\* Without failing files and starts that lose the ids, the deque, the files
\* and what is acked fit together at every step.
LEMMA LossStep == TypeOK /\ TypeOK' /\ LossInv /\ [Next]_vars => LossInv'
<1> SUFFICES ASSUME TypeOK, TypeOK', LossInv, [Next]_vars, orderly' PROVE LossInv'
  BY DEF LossInv
<1>0. orderly
  BY OrderlyBefore, NextIsAny DEF TypeOK
<1>1. CASE Start
  BY <1>0, <1>1, LossStart
<1>2. CASE Work \/ Publish
  BY <1>0, <1>2, LossWork
<1>3. CASE Receive \/ \E id \in 0 .. sent : AckLog(id)
  BY <1>0, <1>3, LossReceive
<1>4. CASE Die
  <2>1. /\ UNCHANGED <<diskVars, line, histVars>> /\ mpc' = "down"
        /\ log_entries' = <<>> /\ ack_id' = 0 /\ batch' = <<>>
    BY <1>4 DEF Die, BatchThrows, Crash
  <2>2. FilesInv'
    BY <1>0, <2>1 DEF LossInv, FilesInv, diskVars, histVars, counts
  <2>3. gen \in Nat /\ sent \in Nat
    BY DEF TypeOK
  <2>4. QueueInv'
    BY <1>0, <2>1, <2>3 DEF LossInv, QueueInv, AckedTo, Constructing, LastQueued, histVars, counts
  <2>5. LoadInv' /\ CleanInv'
    BY <2>1 DEF LoadInv, CleanInv
  <2> QED
    BY <2>2, <2>4, <2>5 DEF LossInv
<1>5. CASE UNCHANGED vars
  BY <1>5 DEF vars, diskVars, memVars, mainVars, histVars, counts, LossInv, FilesInv, LoadInv,
     CleanInv, QueueInv, LastQueued, LastRead, Constructing
<1> QED
  BY <1>1, <1>2, <1>3, <1>4, <1>5 DEF Next

LEMMA LossStarts == Init => LossInv
<1> SUFFICES ASSUME Init PROVE LossInv
  OBVIOUS
<1>1. EndsAt(<<>>, 0) /\ Len(<<>>) = 0
  BY EndsAtEmpty
<1> QED
  BY <1>1, ConstantsAssumption
  DEF Init, LossInv, FilesInv, LoadInv, CleanInv, QueueInv, AckedTo, Constructing, LastQueued

LEMMA LossInvariant == Spec => []LossInv
BY LossStep, LossStarts, TypeCorrect, PTL DEF Spec

\* The ids of the last so many logs are consecutive.
LEMMA QueueContiguousFromInv == TypeOK /\ LossInv => QueueContiguous
<1> SUFFICES ASSUME TypeOK, LossInv, orderly, ~Constructing
             PROVE  /\ \A i \in 1 .. Len(log_entries) - 1 :
                         log_entries[i + 1].id = log_entries[i].id + 1
                    /\ log_entries # <<>> =>
                         log_entries[Len(log_entries)].id + 1
                           = (IF mpc \in {"add", "push"} THEN cur.id ELSE new_id)
  BY DEF QueueContiguous, Constructing
<1>1. QueueInv /\ EndsAt(log_entries, LastQueued)
  BY DEF LossInv, QueueInv
<1>2. Len(log_entries) \in Nat /\ log_entries \in Seq(Log) /\ LastQueued \in Int /\ gen \in Nat
  BY DEF TypeOK, LastQueued
<1>3. ASSUME NEW i \in 1 .. Len(log_entries) - 1
      PROVE  log_entries[i + 1].id = log_entries[i].id + 1
  <2>1. i \in 1 .. Len(log_entries) /\ i + 1 \in 1 .. Len(log_entries)
    BY <1>2
  <2>2. log_entries[i].id = LastQueued - Len(log_entries) + i
    BY <1>1, <2>1 DEF EndsAt
  <2>3. log_entries[i + 1].id = LastQueued - Len(log_entries) + (i + 1)
    BY <1>1, <2>1 DEF EndsAt
  <2> QED
    BY <1>2, <2>2, <2>3
<1>4. log_entries # <<>> => log_entries[Len(log_entries)].id = LastQueued
  <2> SUFFICES ASSUME log_entries # <<>> PROVE log_entries[Len(log_entries)].id = LastQueued
    OBVIOUS
  <2>1. Len(log_entries) \in 1 .. Len(log_entries)
    BY <1>2
  <2> QED
    BY <1>1, <1>2, <2>1 DEF EndsAt
<1>5. LastQueued + 1 = IF mpc \in {"add", "push"} THEN cur.id ELSE new_id
  BY <1>1, <1>2 DEF QueueInv, LastQueued, Constructing
<1> QED
  BY <1>3, <1>4, <1>5

\* The deque never has a hole: through concurrent acks, kills in any step and
\* compactions, the ids in it are consecutive and end right before the next
\* one, while no file fails to open and no start is torn or drained.
THEOREM QueueContiguousHolds == Spec => []QueueContiguous
BY QueueContiguousFromInv, LossInvariant, TypeCorrect, PTL

\* The logs not acked are among the last so many of the file and the deque.
LEMMA NoLogLostFromInv == TypeOK /\ LossInv => NoLogLost
<1> SUFFICES ASSUME TypeOK, LossInv, orderly, NEW e \in 1 .. gen, e \notin done
             PROVE  /\ OnDisk(e)
                    /\ Running => Queued(e) \/ (mpc = "push" /\ cur.ev = e)
  BY DEF NoLogLost
<1>1. FilesInv /\ QueueInv
  BY DEF LossInv
<1>2. /\ logFile \in Seq(Log) /\ Len(logFile) \in Nat /\ gen \in Nat
      /\ log_entries \in Seq(Log) /\ Len(log_entries) \in Nat
  BY DEF TypeOK
<1>3. OnDisk(e)
  <2>1. e - (gen - Len(logFile)) \in 1 .. Len(logFile)
    BY <1>1, <1>2 DEF FilesInv, AckedTo
  <2>2. PICK i \in 1 .. Len(logFile) : i = e - (gen - Len(logFile))
    BY <2>1
  <2>3. logFile[i].id = gen - Len(logFile) + i /\ logFile[i].ev = gen - Len(logFile) + i
    BY <1>1 DEF FilesInv, EndsAt
  <2>4. logFile[i].id = e /\ logFile[i].ev = e
    BY <1>2, <2>2, <2>3
  <2>5. ackFile \in Nat => e > ackFile
    BY <1>1, <1>2 DEF FilesInv, AckedTo
  <2> QED
    BY <1>2, <2>4, <2>5 DEF OnDisk
<1>4. ASSUME Running, ~(mpc = "push" /\ cur.ev = e) PROVE Queued(e)
  <2>1. /\ EndsAt(log_entries, LastQueued) /\ AckedTo(done, LastQueued - Len(log_entries))
        /\ mpc = "push" => cur.ev = gen
    BY <1>1, <1>4 DEF QueueInv, Running, Constructing
  <2>2. e <= LastQueued /\ LastQueued \in Int
    BY <1>2, <1>4, <2>1 DEF LastQueued
  <2>3. e - (LastQueued - Len(log_entries)) \in 1 .. Len(log_entries)
    BY <1>2, <2>1, <2>2 DEF AckedTo
  <2>4. PICK i \in 1 .. Len(log_entries) : i = e - (LastQueued - Len(log_entries))
    BY <2>3
  <2>5. log_entries[i].ev = LastQueued - Len(log_entries) + i
    BY <2>1 DEF EndsAt
  <2>6. log_entries[i].ev = e
    BY <1>2, <2>2, <2>4, <2>5
  <2> QED
    BY <1>2, <2>6 DEF Queued
<1> QED
  BY <1>3, <1>4

\* A log that no ack has covered is on disk above the number in the ack file,
\* and queued while the program works, whichever step the last kill fell on:
\* the constructor, the compaction, add_log and ack_log each leave the files
\* in a state from which the next start recovers it.
THEOREM NoLogLostHolds == Spec => []NoLogLost
BY NoLogLostFromInv, LossInvariant, TypeCorrect, PTL
=============================================================================
