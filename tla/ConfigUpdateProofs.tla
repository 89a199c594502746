-------------------------- MODULE ConfigUpdateProofs --------------------------
(***************************************************************************)
(* Proofs about ConfigUpdate, for any clients, hosts, ports, contents and  *)
(* units, and any number of connections, commands, kills and failures.     *)
(***************************************************************************)
EXTENDS ConfigUpdate, TLAPS

\* The conversions stay in the unsigned type.
LEMMA Conversions ==
  ASSUME NEW v \in Nat
  PROVE  /\ AfterRead(v) \in 0 .. W - 1
         /\ BeforeWrite(v) \in 0 .. v
<1>1. U \in Nat /\ U > 0 /\ W \in Nat /\ W > 0
  BY ConfigUpdateAssumption
<1> DEFINE x == v * U
<1>2. x \in Nat
  BY <1>1
<1>3. x % W \in 0 .. W - 1
  <2> HIDE DEF x
  <2> QED
    BY <1>1, <1>2
<1>4. v \div U \in 0 .. v
  BY <1>1
<1> QED
  BY <1>3, <1>4 DEF AfterRead, BeforeWrite

LEMMA MessageFields ==
  ASSUME NEW m \in Message
  PROVE  /\ m.nr \in 1 .. MaxCommands /\ m.nr \in 0 .. MaxCommands /\ m.id \in ConnIds
         /\ m.content # Bad => m.content \in 0 .. W - 1
<1>1. m.nr \in 1 .. MaxCommands /\ m.id \in ConnIds /\ m.content \in Contents \cup {Bad}
  BY DEF Message
<1>2. Contents \subseteq 0 .. W - 1
  BY ConfigUpdateAssumption
<1>3. \A n \in 1 .. MaxCommands : n \in 0 .. MaxCommands
  OBVIOUS
<1> QED
  BY <1>1, <1>2, <1>3

\* What a connection's messages become when one is sent or read.
LEMMA Elements ==
  ASSUME NEW T, NEW q \in Seq(T)
  PROVE  \A i \in DOMAIN q : q[i] \in T /\ i \in Nat
OBVIOUS

LEMMA TailSeq ==
  ASSUME NEW T, NEW q \in Seq(T), q # <<>>
  PROVE  Tail(q) \in Seq(T)
OBVIOUS

LEMMA TailElements ==
  ASSUME NEW T, NEW q \in Seq(T), q # <<>>
  PROVE  \A i \in DOMAIN Tail(q) :
           i + 1 \in DOMAIN q /\ Tail(q)[i] = q[i + 1] /\ i \in Nat /\ 1 < i + 1
OBVIOUS

LEMMA WireSeqs ==
  ASSUME NEW q \in Seq(Message), NEW m \in Message
  PROVE  /\ Append(q, m) \in Seq(Message)
         /\ q # <<>> => Tail(q) \in Seq(Message) /\ Head(q) \in Message
OBVIOUS

LEMMA Bounds == MaxConns \in Nat /\ MaxCommands \in Nat /\ MaxKills \in Nat /\ MaxFileFails \in Nat
BY ConfigUpdateAssumption

\* Connections are numbered as they are accepted.
LEMMA Numbered ==
  ASSUME ConfigTypeOK
  PROVE  /\ Len(conns) \in Nat /\ DOMAIN conns = 1 .. Len(conns)
         /\ DOMAIN conns \subseteq ConnIds
<1>1. conns \in Seq([client : Clients, port : Ports]) /\ Len(conns) <= MaxConns
  BY DEF ConfigTypeOK
<1>2. Len(conns) \in Nat /\ DOMAIN conns = 1 .. Len(conns)
  BY <1>1
<1> QED
  BY <1>1, <1>2, Bounds DEF ConnIds

\* Accepting appends one.
LEMMA Accepted ==
  ASSUME ConfigTypeOK, NEW c \in Clients, Accept(c)
  PROVE  /\ Len(conns') = Len(conns) + 1 /\ Len(conns') <= MaxConns
         /\ conns' \in Seq([client : Clients, port : Ports])
         /\ DOMAIN conns' = DOMAIN conns \cup {Len(conns')}
         /\ Len(conns') \notin DOMAIN conns
         /\ \A s \in DOMAIN conns : conns'[s] = conns[s]
         /\ conns'[Len(conns')].client = c
         /\ \A s \in alive : Address(s) # <<HostOf[c], conns'[Len(conns')].port>>
<1>1. PICK port \in Ports :
        /\ \A s \in alive : Address(s) # <<HostOf[c], port>>
        /\ conns' = Append(conns, [client |-> c, port |-> port])
  BY DEF Accept
<1>2. conns \in Seq([client : Clients, port : Ports]) /\ Len(conns) < MaxConns
  BY DEF ConfigTypeOK, Accept
<1>3. Len(conns') = Len(conns) + 1 /\ Len(conns') <= MaxConns /\ Len(conns) \in Nat
  BY <1>1, <1>2, Bounds
<1>4. /\ conns' \in Seq([client : Clients, port : Ports])
      /\ \A s \in DOMAIN conns : conns'[s] = conns[s]
      /\ conns'[Len(conns')] = [client |-> c, port |-> port]
  BY <1>1, <1>2
<1>5. DOMAIN conns = 1 .. Len(conns) /\ DOMAIN conns' = 1 .. Len(conns')
  BY <1>2, <1>4
<1> QED
  BY <1>1, <1>3, <1>4, <1>5

LEMMA CutOffType ==
  ASSUME ConfigTypeOK, NEW S, CutOff(S)
  PROVE  /\ alive' \subseteq DOMAIN conns
         /\ wire' \in [ConnIds -> Seq(Message)]
BY DEF ConfigTypeOK, CutOff

LEMMA TypeServer ==
  ConfigTypeOK /\ (Server \/ Administrator) => ConfigTypeOK'
<1> SUFFICES ASSUME ConfigTypeOK, Server \/ Administrator PROVE ConfigTypeOK'
  OBVIOUS
<1> USE DEF serverVars, netVars, clientVars, history, limits
<1>1. CASE AddNewClient
  BY <1>1 DEF AddNewClient, ConfigTypeOK
<1>2. ASSUME NEW t \in sends, SendMessage(t) PROVE ConfigTypeOK'
  <2>1. t \in SendThreads
    BY DEF ConfigTypeOK
  <2>2. t.sock \in ConnIds /\ t.msg \in Message
    BY <2>1 DEF SendThreads
  <2>3. CASE t.sock \in alive
    <3>1. wire[t.sock] \in Seq(Message)
      BY <2>2 DEF ConfigTypeOK
    <3>2. Append(wire[t.sock], t.msg) \in Seq(Message)
      BY <3>1, <2>2
    <3>3. wire' \in [ConnIds -> Seq(Message)]
      BY <1>2, <2>2, <2>3, <3>2 DEF SendMessage, ConfigTypeOK
    <3> QED
      BY <1>2, <2>3, <3>3 DEF SendMessage, ConfigTypeOK
  <2>4. CASE t.sock \notin alive
    <3>1. CutOff(alive)
      BY <1>2, <2>4 DEF SendMessage
    <3> QED
      BY <1>2, <2>4, <3>1, CutOffType DEF SendMessage, ConfigTypeOK
  <2> QED
    BY <2>3, <2>4
<1>3. ASSUME NEW id \in ConnIds, Command(id) PROVE ConfigTypeOK'
  <2>1. PICK s \in Lookup(id), content \in Contents \cup {Bad} :
          LET waiting == {t.msg.nr : t \in {u \in sends : u.sock = s}} IN
            /\ sends' = sends \cup
                 {[sock |-> s, msg |-> [nr |-> commands', id |-> id, content |-> content]]}
            /\ crowded' = crowded \cup
                 (IF waiting = {} THEN {} ELSE waiting \cup {commands'})
    BY <1>3 DEF Command
  <2>2. commands' \in 1 .. MaxCommands
    BY <1>3, ConfigUpdateAssumption DEF Command, ConfigTypeOK
  <2>3. s \in ConnIds
    BY Numbered DEF Lookup, ConfigTypeOK
  <2>4. [sock |-> s, msg |-> [nr |-> commands', id |-> id, content |-> content]] \in SendThreads
    BY <2>2, <2>3 DEF SendThreads, Message
  <2>5. \A t \in sends : t.msg.nr \in 1 .. MaxCommands
    BY DEF ConfigTypeOK, SendThreads, Message
  <2>6. crowded' \subseteq 1 .. MaxCommands
    BY <2>1, <2>2, <2>5 DEF ConfigTypeOK
  <2>7. commands' \in 0 .. MaxCommands
    BY <2>2
  <2> QED
    BY <1>3, <2>1, <2>4, <2>6, <2>7 DEF Command, ConfigTypeOK
<1> QED
  BY <1>1, <1>2, <1>3 DEF Server, Administrator

LEMMA TypeNet ==
  ASSUME ConfigTypeOK,
         \/ \E c \in Clients : Accept(c) \/ Kill(c)
         \/ \E s \in alive : Break(s)
  PROVE  ConfigTypeOK'
<1> USE DEF serverVars, netVars, clientVars, history, limits
<1>1. ASSUME NEW c \in Clients, Accept(c) PROVE ConfigTypeOK'
  BY <1>1, Accepted DEF Accept, ConfigTypeOK
<1>2. ASSUME NEW c \in Clients, Kill(c) PROVE ConfigTypeOK'
  <2>1. CutOff(ConnsOf(c)) /\ ConnsOf(c) \subseteq alive
    BY <1>2 DEF Kill, ConnsOf
  <2>2. alive' \subseteq DOMAIN conns /\ wire' \in [ConnIds -> Seq(Message)]
    BY <2>1, CutOffType
  <2>3. 0 \in 0 .. W - 1 /\ 0 \in 0 .. 2 /\ 0 \in 0 .. MaxCommands
    BY ConfigUpdateAssumption
  <2>4. kills' \in 0 .. MaxKills
    BY <1>2, ConfigUpdateAssumption DEF Kill, ConfigTypeOK
  <2> QED
    BY <1>2, <2>2, <2>3, <2>4 DEF Kill, ConfigTypeOK
<1>3. ASSUME NEW s \in alive, Break(s) PROVE ConfigTypeOK'
  <2>1. CutOff({s}) /\ {s} \subseteq alive
    BY <1>3 DEF Break
  <2>2. alive' \subseteq DOMAIN conns /\ wire' \in [ConnIds -> Seq(Message)]
    BY <2>1, CutOffType
  <2> QED
    BY <1>3, <2>2 DEF Break, ConfigTypeOK
<1> QED
  BY <1>1, <1>2, <1>3

LEMMA TypeStart ==
  ASSUME ConfigTypeOK, NEW c \in Clients,
         ReadConfig(c) \/ StartReceiver(c) \/ Ignore(c) \/ Subscribe(c)
  PROVE  ConfigTypeOK'
<1> USE DEF serverVars, netVars, clientVars, history, limits
<1>1. CASE ReadConfig(c)
  <2>1. FileOf(c) \in {Absent, Torn} \cup 0 .. W - 1
    BY ConfigUpdateAssumption DEF ConfigTypeOK, FileOf
  <2>2. file_fails' \in 0 .. MaxFileFails
    BY <1>1, Bounds DEF ReadConfig, ConfigTypeOK
  <2>3. UNCHANGED <<netVars, serverVars, sends, file, writing, rpc, now, unsaved,
                    history, kills>>
    BY <1>1 DEF ReadConfig
  <2>4. CASE phase' = [phase EXCEPT ![c] = "failed"] /\ UNCHANGED <<config, temp, writes>>
    BY <2>2, <2>3, <2>4 DEF ConfigTypeOK
  <2>5. ASSUME NEW v \in Nat, NEW n \in 1 .. 2, StartWith(c, v, n) PROVE ConfigTypeOK'
    <3>1. AfterRead(v) \in 0 .. W - 1
      BY Conversions
    <3>2. config' \in [Clients -> 0 .. W - 1] /\ temp' \in [Clients -> 0 .. W - 1]
      BY <2>5, <3>1 DEF StartWith, ConfigTypeOK
    <3>3. writes' \in [Clients -> 0 .. 2]
      <4>1. writes \in [Clients -> 0 .. 2]
        BY DEF ConfigTypeOK
      <4>2. writes' = [writes EXCEPT ![c] = n]
        BY <2>5 DEF StartWith
      <4>3. n \in 0 .. 2
        OBVIOUS
      <4> QED
        BY <4>1, <4>2, <4>3
    <3>4. phase' \in [Clients -> {"down", "starting", "listening", "up", "failed"}]
      BY <2>5 DEF StartWith, ConfigTypeOK
    <3> QED
      BY <2>2, <2>3, <3>2, <3>3, <3>4 DEF ConfigTypeOK
  <2>6. FileOf(c) \notin {Torn, Absent} => FileOf(c) \in Nat
    BY <2>1
  <2> QED
    BY <1>1, <2>4, <2>5, <2>6, ConfigUpdateAssumption DEF ReadConfig
<1>2. CASE StartReceiver(c)
  BY <1>2 DEF StartReceiver, ConfigTypeOK
<1>3. CASE Ignore(c)
  <2>1. PICK s \in ConnsOf(c) : wire[s] # <<>> /\ wire' = [wire EXCEPT ![s] = Tail(@)]
    BY <1>3 DEF Ignore
  <2>2. s \in ConnIds
    BY Numbered DEF ConnsOf, ConfigTypeOK
  <2>3. Tail(wire[s]) \in Seq(Message)
    BY <2>1, <2>2, WireSeqs DEF ConfigTypeOK
  <2> QED
    BY <1>3, <2>1, <2>2, <2>3 DEF Ignore, ConfigTypeOK
<1>4. CASE Subscribe(c)
  BY <1>4 DEF Subscribe, ConfigTypeOK
<1> QED
  BY <1>1, <1>2, <1>3, <1>4

LEMMA TypeWrite ==
  ASSUME ConfigTypeOK, NEW c \in Clients, WriteOpen(c) \/ WriteFails(c) \/ WriteClose(c)
  PROVE  ConfigTypeOK'
<1> USE DEF serverVars, netVars, clientVars, history, limits
<1>1. CASE WriteOpen(c)
  BY <1>1, ConfigUpdateAssumption DEF WriteOpen, ConfigTypeOK
<1>2. CASE WriteFails(c) \/ WriteClose(c)
  <2>1. /\ writes[c] > 0
        /\ temp' = [temp EXCEPT ![c] = IF writes[c] = 1 THEN 0 ELSE @]
        /\ writes' = [writes EXCEPT ![c] = @ - 1]
    BY <1>2 DEF WriteFails, WriteClose, MayWrite
  <2>2. writes' \in [Clients -> 0 .. 2]
    BY <2>1 DEF ConfigTypeOK
  <2>3. 0 \in 0 .. W - 1
    BY ConfigUpdateAssumption
  <2>4. temp' \in [Clients -> 0 .. W - 1]
    BY <2>1, <2>3 DEF ConfigTypeOK
  <2>5. CASE WriteFails(c)
    <3>1. file_fails' \in 0 .. MaxFileFails
      BY <2>5, Bounds DEF WriteFails, ConfigTypeOK
    <3> QED
      BY <2>5, <2>2, <2>4, <3>1 DEF WriteFails, ConfigTypeOK
  <2>6. CASE WriteClose(c)
    <3> DEFINE v == IF writes[c] = 1 THEN temp[c] ELSE config[c]
    <3>1. v \in 0 .. W - 1
      BY DEF ConfigTypeOK
    <3>2. BeforeWrite(v) \in 0 .. W - 1
      BY <3>1, Conversions, ConfigUpdateAssumption
    <3>3. file' \in [Users -> {Absent, Torn} \cup 0 .. W - 1]
      <4>1. file \in [Users -> {Absent, Torn} \cup 0 .. W - 1]
        BY DEF ConfigTypeOK
      <4>2. file' = [file EXCEPT ![UserOf[c]] = BeforeWrite(v)] \/ file' = file
        BY <2>6 DEF WriteClose
      <4> HIDE DEF v
      <4> QED
        BY <3>2, <4>1, <4>2
    <3>4. file_fails' \in 0 .. MaxFileFails
      <4>1. file_fails \in 0 .. MaxFileFails
        BY DEF ConfigTypeOK
      <4>2. file_fails' = file_fails \/ (file_fails < MaxFileFails /\ file_fails' = file_fails + 1)
        BY <2>6 DEF WriteClose
      <4> QED
        BY <4>1, <4>2, Bounds
    <3>5. unsaved' \subseteq Clients /\ cut' \subseteq Clients
      BY <2>6 DEF WriteClose, ConfigTypeOK
    <3> QED
      BY <2>6, <2>2, <2>4, <3>3, <3>4, <3>5 DEF WriteClose, ConfigTypeOK
  <2> QED
    BY <1>2, <2>5, <2>6
<1> QED
  BY <1>1, <1>2

LEMMA TypeReceive ==
  ASSUME ConfigTypeOK, NEW c \in Clients, RecvConfig(c) \/ Assign(c) \/ Reply(c)
  PROVE  ConfigTypeOK'
<1> USE DEF serverVars, netVars, clientVars, history, limits
<1>1. CASE RecvConfig(c)
  <2>1. PICK s \in ConnsOf(c) :
          /\ wire[s] # <<>> /\ wire' = [wire EXCEPT ![s] = Tail(@)]
          /\ IF Head(wire[s]).content = Bad
               THEN UNCHANGED <<temp, now, rpc>>
               ELSE /\ temp' = [temp EXCEPT ![c] = Head(wire[s]).content]
                    /\ now' = [now EXCEPT ![c] = Head(wire[s]).nr]
                    /\ rpc' = [rpc EXCEPT ![c] = "assign"]
    BY <1>1 DEF RecvConfig
  <2>2. s \in ConnIds
    BY Numbered DEF ConnsOf, ConfigTypeOK
  <2>3. Tail(wire[s]) \in Seq(Message) /\ Head(wire[s]) \in Message
    BY <2>1, <2>2, WireSeqs DEF ConfigTypeOK
  <2>4. wire' \in [ConnIds -> Seq(Message)]
    BY <2>1, <2>2, <2>3 DEF ConfigTypeOK
  <2>5. CASE Head(wire[s]).content = Bad
    BY <1>1, <2>1, <2>4, <2>5 DEF RecvConfig, ConfigTypeOK
  <2>6. CASE Head(wire[s]).content # Bad
    <3>1. Head(wire[s]).content \in 0 .. W - 1 /\ Head(wire[s]).nr \in 0 .. MaxCommands
      BY <2>3, <2>6, MessageFields
    <3> QED
      BY <1>1, <2>1, <2>4, <2>6, <3>1 DEF RecvConfig, ConfigTypeOK
  <2> QED
    BY <2>5, <2>6
<1>2. CASE Assign(c)
  <2>1. newest' \in [Clients -> 0 .. MaxCommands]
    BY <1>2 DEF Assign, ConfigTypeOK
  <2>2. config' \in [Clients -> 0 .. W - 1]
    <3>1. config' = [config EXCEPT ![c] = temp[c]]
      BY <1>2 DEF Assign
    <3>2. temp[c] \in 0 .. W - 1 /\ config \in [Clients -> 0 .. W - 1]
      BY DEF ConfigTypeOK
    <3> QED
      BY <3>1, <3>2
  <2>4. writes' \in [Clients -> 0 .. 2]
    BY <1>2 DEF Assign, ConfigTypeOK
  <2>5. rpc' \in [Clients -> {"recv", "assign", "save", "reply"}]
    BY <1>2 DEF Assign, ConfigTypeOK
  <2>3. UNCHANGED <<serverVars, netVars, sends, phase, file, temp, writing, now,
                    unsaved, crowded, cut, limits>>
    BY <1>2 DEF Assign
  <2> QED
    BY <2>1, <2>2, <2>3, <2>4, <2>5 DEF ConfigTypeOK
<1>3. CASE Reply(c)
  <2>1. 0 \in 0 .. MaxCommands
    BY Bounds
  <2> QED
    BY <1>3, <2>1 DEF Reply, ConfigTypeOK
<1> QED
  BY <1>1, <1>2, <1>3

LEMMA ConfigTypeStep == ConfigTypeOK /\ [ConfigNext]_uvars => ConfigTypeOK'
<1> SUFFICES ASSUME ConfigTypeOK, [ConfigNext]_uvars PROVE ConfigTypeOK'
  OBVIOUS
<1>1. CASE Server \/ Administrator
  BY <1>1, TypeServer
<1>2. ASSUME NEW c \in Clients, Client(c) PROVE ConfigTypeOK'
  BY <1>2, TypeStart, TypeWrite, TypeReceive DEF Client
<1>3. CASE (\E c \in Clients : Accept(c) \/ Kill(c)) \/ (\E s \in alive : Break(s))
  BY <1>3, TypeNet
<1>4. CASE UNCHANGED uvars
  BY <1>4 DEF uvars, serverVars, netVars, clientVars, history, limits, ConfigTypeOK
<1> QED
  BY <1>1, <1>2, <1>3, <1>4 DEF ConfigNext

LEMMA ConfigTypeStarts == ConfigInit => ConfigTypeOK
<1> SUFFICES ASSUME ConfigInit PROVE ConfigTypeOK
  OBVIOUS
<1>1. /\ 0 \in 0 .. W - 1 /\ 0 \in 0 .. MaxCommands
      /\ 0 \in 0 .. MaxKills /\ 0 \in 0 .. MaxFileFails /\ 0 \in 0 .. 2
  BY ConfigUpdateAssumption
<1>2. <<>> \in Seq([client : Clients, port : Ports]) /\ <<>> \in Seq(Message)
      /\ Len(<<>>) <= MaxConns
  BY Bounds
<1> QED
  BY <1>1, <1>2 DEF ConfigInit, ConfigTypeOK

\* The variables have the types ConfigUpdate states: whatever arrives, a
\* client's configuration and file are values of the unsigned type, and
\* write_config is never called more often than set_config and the
\* destructors do.
THEOREM ConfigTypeCorrect == ConfigSpec => []ConfigTypeOK
BY ConfigTypeStarts, ConfigTypeStep, PTL DEF ConfigSpec
-----------------------------------------------------------------------------
(***************************************************************************)
(* A client, its file and the writes of it.                                *)
(***************************************************************************)

\* A client receives nothing before it is up, and has its file open only
\* while it has it to write.
InPhase(c) ==
  /\ rpc[c] # "recv" => phase[c] = "up"
  /\ writing[c] => MayWrite(c)

Saved(c) == FileOf(c) = BeforeWrite(config[c]) \/ c \in unsaved

\* While calls of write_config are due, the value passed around is the one the
\* client runs with, so that it does not matter which of the two is written
\* last; when none is due it is what the file states, but for the moment in
\* which another has been received.
Written(c) ==
  /\ writes[c] > 0 => temp[c] = config[c]
  /\ Running(c) /\ writes[c] > 0 => phase[c] = "starting" \/ rpc[c] = "save"
  /\ Running(c) /\ writes[c] = 0 /\ rpc[c] # "assign" => Saved(c)

Readable(c) == phase[c] = "failed" \/ (FileOf(c) = Torn /\ ~writing[c]) => c \in cut

ClientInv == \A c \in Clients : InPhase(c) /\ Written(c) /\ Readable(c)

\* The types of a client's state, one by one.
LEMMA ClientFields ==
  ASSUME ConfigTypeOK, NEW c \in Clients
  PROVE  /\ phase[c] \in {"down", "starting", "listening", "up", "failed"}
         /\ config[c] \in Nat /\ temp[c] \in Nat /\ writes[c] \in 0 .. 2
         /\ writing[c] \in BOOLEAN /\ rpc[c] \in {"recv", "assign", "save", "reply"}
<1>1. config[c] \in 0 .. W - 1 /\ temp[c] \in 0 .. W - 1
  BY DEF ConfigTypeOK
<1>2. config[c] \in Nat /\ temp[c] \in Nat
  BY <1>1
<1>3. phase[c] \in {"down", "starting", "listening", "up", "failed"} /\ writes[c] \in 0 .. 2
  BY DEF ConfigTypeOK
<1>4. writing[c] \in BOOLEAN /\ rpc[c] \in {"recv", "assign", "save", "reply"}
  BY DEF ConfigTypeOK
<1> QED
  BY <1>2, <1>3, <1>4

\* A step that leaves alone what the invariant says of a client.
Stays(c) ==
  /\ phase'[c] = phase[c] /\ config'[c] = config[c] /\ FileOf(c)' = FileOf(c)
  /\ temp'[c] = temp[c] /\ writes'[c] = writes[c] /\ writing'[c] = writing[c]
  /\ rpc'[c] = rpc[c]
  /\ c \in unsaved' <=> c \in unsaved
  /\ c \in cut' <=> c \in cut

LEMMA StaysSame ==
  ASSUME NEW c \in Clients, Stays(c), InPhase(c), Written(c), Readable(c)
  PROVE  InPhase(c)' /\ Written(c)' /\ Readable(c)'
<1>1. InPhase(c)'
  BY DEF Stays, InPhase, MayWrite, Running
<1>2. Saved(c)' <=> Saved(c)
  BY DEF Stays, Saved, BeforeWrite
<1>3. Written(c)'
  BY <1>2 DEF Stays, Written, Running
<1>4. Readable(c)'
  BY DEF Stays, Readable
<1> QED
  BY <1>1, <1>3, <1>4

\* A client's write changes its own file and no other client's (OneClientPerUser).
LEMMA OwnFile ==
  ASSUME ConfigTypeOK, NEW c \in Clients, NEW v, file' = [file EXCEPT ![UserOf[c]] = v]
  PROVE  FileOf(c)' = v /\ \A d \in Clients : d # c => FileOf(d)' = FileOf(d)
<1>1. /\ UserOf \in [Clients -> Users] /\ DOMAIN file = Users
      /\ \A d \in Clients : d # c => UserOf[d] # UserOf[c]
  BY ConfigUpdateAssumption, OneClientPerUser DEF ConfigTypeOK
<1> QED
  BY <1>1 DEF FileOf

\* A step of one client changes no other.
LEMMA OthersStay ==
  ASSUME ConfigTypeOK, NEW c \in Clients, Client(c) \/ Kill(c), NEW d \in Clients, c # d
  PROVE  Stays(d)
<1> USE DEF serverVars, netVars, clientVars, history, limits, Stays
<1>1. CASE ReadConfig(c)
  <2>1. phase'[d] = phase[d]
    BY <1>1 DEF ReadConfig, StartWith, ConfigTypeOK
  <2>2. config'[d] = config[d] /\ temp'[d] = temp[d] /\ writes'[d] = writes[d]
    BY <1>1 DEF ReadConfig, StartWith, ConfigTypeOK
  <2> QED
    BY <1>1, <2>1, <2>2 DEF ReadConfig, FileOf
<1>2. CASE StartReceiver(c) \/ Ignore(c) \/ Subscribe(c)
  BY <1>2 DEF StartReceiver, Ignore, Subscribe, ConfigTypeOK, FileOf
<1>3. CASE WriteOpen(c)
  BY <1>3, OwnFile DEF WriteOpen, ConfigTypeOK
<1>4. CASE WriteFails(c) \/ WriteClose(c)
  <2>1. temp'[d] = temp[d] /\ writes'[d] = writes[d]
    BY <1>4 DEF WriteFails, WriteClose, ConfigTypeOK
  <2>2. FileOf(d)' = FileOf(d)
    BY <1>4, OwnFile DEF WriteFails, WriteClose, FileOf
  <2>3. writing'[d] = writing[d]
    BY <1>4 DEF WriteFails, WriteClose, ConfigTypeOK
  <2>4. (d \in unsaved' <=> d \in unsaved) /\ (d \in cut' <=> d \in cut)
    BY <1>4 DEF WriteFails, WriteClose
  <2>5. UNCHANGED <<phase, config, rpc>>
    BY <1>4 DEF WriteFails, WriteClose
  <2> QED
    BY <2>1, <2>2, <2>3, <2>4, <2>5
<1>6. CASE RecvConfig(c)
  BY <1>6 DEF RecvConfig, ConfigTypeOK, FileOf
<1>7. CASE Assign(c) \/ Reply(c)
  BY <1>7 DEF Assign, Reply, ConfigTypeOK, FileOf
<1>8. CASE Kill(c)
  <2>1. phase'[d] = phase[d] /\ writes'[d] = writes[d] /\ writing'[d] = writing[d]
    BY <1>8 DEF Kill, ConfigTypeOK
  <2>2. config'[d] = config[d] /\ temp'[d] = temp[d] /\ rpc'[d] = rpc[d]
    BY <1>8 DEF Kill, ConfigTypeOK
  <2>3. (d \in cut' <=> d \in cut) /\ UNCHANGED <<file, unsaved>>
    BY <1>8 DEF Kill
  <2> QED
    BY <2>1, <2>2, <2>3 DEF FileOf
<1> QED
  BY <1>1, <1>2, <1>3, <1>4, <1>6, <1>7, <1>8 DEF Client

LEMMA ClientStarting ==
  ASSUME ConfigTypeOK, NEW c \in Clients, InPhase(c), Written(c), Readable(c),
         ReadConfig(c) \/ StartReceiver(c) \/ Ignore(c) \/ Subscribe(c)
  PROVE  InPhase(c)' /\ Written(c)' /\ Readable(c)'
<1> USE DEF clientVars, history, InPhase, Written, Readable, Saved, MayWrite, Running,
            ConfigTypeOK
<1>1. CASE /\ ReadConfig(c) /\ FileOf(c) = Torn
           /\ phase' = [phase EXCEPT ![c] = "failed"] /\ UNCHANGED <<config, temp, writes>>
  BY <1>1 DEF ReadConfig, FileOf
<1>2. ASSUME ReadConfig(c), NEW v, NEW n \in 1 .. 2, StartWith(c, v, n)
      PROVE  InPhase(c)' /\ Written(c)' /\ Readable(c)'
  <2>1. /\ phase'[c] = "starting" /\ temp'[c] = config'[c] /\ writes'[c] \in {1, 2}
        /\ UNCHANGED <<file, writing, rpc, unsaved, cut>>
    BY <1>2 DEF ReadConfig, StartWith
  <2>2. phase[c] = "down"
    BY <1>2 DEF ReadConfig
  <2> QED
    BY <1>2, <2>1, <2>2 DEF FileOf
<1>3. CASE StartReceiver(c)
  BY <1>3 DEF StartReceiver, FileOf
<1>4. CASE Ignore(c)
  BY <1>4 DEF Ignore, FileOf
<1>5. CASE Subscribe(c)
  BY <1>5 DEF Subscribe, FileOf
<1>6. ReadConfig(c) => \/ /\ FileOf(c) = Torn /\ phase' = [phase EXCEPT ![c] = "failed"]
                          /\ UNCHANGED <<config, temp, writes>>
                       \/ \E v : \E n \in 1 .. 2 : StartWith(c, v, n)
  BY DEF ReadConfig
<1> QED
  BY <1>1, <1>2, <1>3, <1>4, <1>5, <1>6

LEMMA ClientWriting ==
  ASSUME ConfigTypeOK, NEW c \in Clients, InPhase(c), Written(c), Readable(c),
         WriteOpen(c) \/ WriteFails(c) \/ WriteClose(c)
  PROVE  InPhase(c)' /\ Written(c)' /\ Readable(c)'
<1> USE DEF clientVars, history, InPhase, Written, Readable, Saved, MayWrite, Running
<1>1. CASE WriteOpen(c)
  <2>1. /\ writing'[c] = TRUE /\ writes[c] > 0
        /\ UNCHANGED <<phase, config, temp, writes, rpc, unsaved, cut>>
        /\ phase[c] # "failed"
    BY <1>1 DEF WriteOpen, ConfigTypeOK
  <2>2. writes[c] # 0
    BY <2>1, ClientFields
  <2> QED
    BY <1>1, <2>1, <2>2 DEF WriteOpen, FileOf
<1>2. CASE WriteFails(c)
  <2>1. /\ UNCHANGED <<phase, config, file, writing, rpc, cut>>
        /\ c \in unsaved' /\ ~writing[c] /\ writes[c] > 0
        /\ writes'[c] = writes[c] - 1
        /\ writes'[c] > 0 => temp'[c] = temp[c]
    BY <1>2 DEF WriteFails, ConfigTypeOK
  <2> QED
    BY <2>1, ClientFields DEF FileOf
<1>3. CASE WriteClose(c)
  <2>1. /\ phase'[c] = phase[c] /\ config'[c] = config[c] /\ rpc'[c] = rpc[c]
        /\ ~writing'[c] /\ phase[c] # "failed"
        /\ writes'[c] = writes[c] - 1
        /\ writes'[c] > 0 => temp'[c] = temp[c]
    BY <1>3 DEF WriteClose, ConfigTypeOK
  <2>2. writes[c] \in Nat
    BY ClientFields
  <2>3. CASE file' = [file EXCEPT ![UserOf[c]] =
                        BeforeWrite(IF writes[c] = 1 THEN temp[c] ELSE config[c])]
    <3>1. FileOf(c)' = BeforeWrite(config[c])
      BY <1>3, <2>2, <2>3, OwnFile DEF WriteClose
    <3>2. BeforeWrite(config[c]) # Torn
      BY Conversions, ClientFields DEF Torn
    <3>3. FileOf(c)' = BeforeWrite(config'[c]) /\ FileOf(c)' # Torn
      BY <2>1, <3>1, <3>2 DEF BeforeWrite
    <3>4. Saved(c)'
      BY <3>3 DEF BeforeWrite
    <3> HIDE DEF Saved
    <3> QED
      BY <1>3, <2>1, <2>2, <3>3, <3>4 DEF WriteClose
  <2>4. CASE unsaved' = unsaved \cup {c} /\ cut' = cut \cup {c}
    BY <1>3, <2>1, <2>2, <2>4 DEF WriteClose
  <2> QED
    BY <1>3, <2>3, <2>4 DEF WriteClose
<1> QED
  BY <1>1, <1>2, <1>3

LEMMA ClientReceiving ==
  ASSUME ConfigTypeOK, NEW c \in Clients, InPhase(c), Written(c), Readable(c),
         RecvConfig(c) \/ Assign(c) \/ Reply(c) \/ Kill(c)
  PROVE  InPhase(c)' /\ Written(c)' /\ Readable(c)'
<1> USE DEF clientVars, history, InPhase, Written, Readable, Saved, MayWrite, Running
<1>1. CASE RecvConfig(c)
  <2>1. /\ phase'[c] = "up" /\ rpc'[c] \in {"recv", "assign"} /\ phase[c] = "up"
        /\ rpc[c] = "recv"
        /\ UNCHANGED <<config, file, writes, writing, unsaved, cut>>
    BY <1>1 DEF RecvConfig, ConfigTypeOK
  <2>2. writes[c] = 0
    BY <2>1, ClientFields
  <2> QED
    BY <2>1, <2>2 DEF BeforeWrite, FileOf
<1>2. CASE Assign(c)
  BY <1>2 DEF FileOf, Assign, ConfigTypeOK
<1>3. CASE Reply(c)
  BY <1>3 DEF FileOf, Reply, ConfigTypeOK
<1>4. CASE Kill(c)
  BY <1>4 DEF FileOf, Kill, ConfigTypeOK
<1> QED
  BY <1>1, <1>2, <1>3, <1>4

LEMMA ClientStep == ConfigTypeOK /\ ClientInv /\ [ConfigNext]_uvars => ClientInv'
<1> SUFFICES ASSUME ConfigTypeOK, ClientInv, [ConfigNext]_uvars, NEW d \in Clients
             PROVE  InPhase(d)' /\ Written(d)' /\ Readable(d)'
  BY DEF ClientInv
<1>1. InPhase(d) /\ Written(d) /\ Readable(d)
  BY DEF ClientInv
<1>2. ASSUME NEW c \in Clients, Client(c) \/ Kill(c)
      PROVE  InPhase(d)' /\ Written(d)' /\ Readable(d)'
  <2>1. CASE c # d
    BY <1>1, <1>2, <2>1, OthersStay, StaysSame
  <2>2. CASE c = d
    BY <1>1, <1>2, <2>2, ClientStarting, ClientWriting, ClientReceiving DEF Client
  <2> QED
    BY <2>1, <2>2
<1>3. CASE UNCHANGED <<clientVars, cut>>
  <2>1. Stays(d)
    BY <1>3 DEF clientVars, Stays, FileOf
  <2> QED
    BY <1>1, <2>1, StaysSame
<1>4. CASE Server \/ Administrator \/ (\E c \in Clients : Accept(c)) \/ (\E s \in alive : Break(s))
  <2>1. UNCHANGED <<clientVars, cut>>
    BY <1>4 DEF Server, Administrator, AddNewClient, SendMessage, Command, Accept, Break,
                clientVars, history
  <2> QED
    BY <1>3, <2>1
<1>5. CASE UNCHANGED uvars
  BY <1>3, <1>5 DEF uvars, history
<1> QED
  BY <1>2, <1>4, <1>5 DEF ConfigNext

LEMMA ClientStarts == ConfigInit => ClientInv
<1> SUFFICES ASSUME ConfigInit, NEW c \in Clients
             PROVE  InPhase(c) /\ Written(c) /\ Readable(c)
  BY DEF ClientInv
<1>1. /\ phase[c] = "down" /\ FileOf(c) = Absent /\ writes[c] = 0 /\ writing[c] = FALSE
      /\ rpc[c] = "recv"
  BY ConfigUpdateAssumption DEF ConfigInit, FileOf
<1> QED
  BY <1>1 DEF InPhase, Written, Readable, Running, Torn, Absent

\* Whenever a client waits for messages, its file states the configuration
\* it runs with, unless the last write failed (set_config, ~Config).
THEOREM FileIsCurrentHolds == ConfigSpec => []FileIsCurrent
<1>1. ConfigTypeOK /\ ClientInv => FileIsCurrent
  <2> SUFFICES ASSUME ConfigTypeOK, ClientInv, NEW c \in Clients, Idle(c) PROVE Saved(c)
    BY DEF FileIsCurrent, Saved
  <2>1. Written(c) /\ Running(c) /\ phase[c] = "up" /\ rpc[c] = "recv"
    BY DEF ClientInv, Idle, Running
  <2>2. writes[c] = 0
    BY <2>1, ClientFields DEF Written
  <2> QED
    BY <2>1, <2>2 DEF Written
<1> QED
  BY <1>1, ConfigTypeStarts, ConfigTypeStep, ClientStarts, ClientStep, PTL DEF ConfigSpec

\* A client fails to start only if the file it last opened for writing was not
\* written in full, because it was killed or because the write failed
\* (read_config, write_config).
THEOREM FailsOnlyIfCutHolds == ConfigSpec => []FailsOnlyIfCut
<1>1. ClientInv => FailsOnlyIfCut
  BY DEF ClientInv, Readable, FailsOnlyIfCut
<1> QED
  BY <1>1, ConfigTypeStarts, ConfigTypeStep, ClientStarts, ClientStep, PTL DEF ConfigSpec
-----------------------------------------------------------------------------
(***************************************************************************)
(* Connections and addresses.                                              *)
(***************************************************************************)

\* Two open connections are of two clients and have two addresses; only on an
\* open one is anything on its way.
ConnInv ==
  /\ \A s, t \in alive : conns[s].client = conns[t].client => s = t
  /\ \A s, t \in alive : Address(s) = Address(t) => s = t
  /\ \A s \in ConnIds : wire[s] # <<>> => s \in alive

\* A message is for the address the typed id has, and one typed already.
Directed(s, m) ==
  /\ s \in DOMAIN conns /\ m.id \in DOMAIN conns
  /\ Address(s) = Address(m.id) /\ m.nr <= commands

AddressInv ==
  /\ \A t \in sends : Directed(t.sock, t.msg)
  /\ \A s \in ConnIds : \A i \in DOMAIN wire[s] : Directed(s, wire[s][i])

\* Reading a message or cutting a connection off only takes messages away:
\* what is on its way afterwards was on its way in the same order.
Shrinks ==
  /\ alive' \subseteq alive
  /\ \A s \in ConnIds :
       \/ wire'[s] = <<>>
       \/ /\ wire[s] # <<>> /\ wire'[s] \in {wire[s], Tail(wire[s])}
          /\ s \in alive => s \in alive'

\* The connections stay as they are and messages are only taken away.
LEMMA ClientShrinks ==
  ASSUME ConfigTypeOK, ConnInv, NEW c \in Clients, Client(c) \/ Kill(c)
  PROVE  Shrinks /\ UNCHANGED <<conns, sends, commands>>
<1> USE DEF serverVars, netVars, clientVars, history, limits, Shrinks
<1>1. CASE UNCHANGED <<alive, wire, conns, sends, commands>>
  BY <1>1
<1>2. ASSUME NEW s \in ConnsOf(c), wire[s] # <<>>, wire' = [wire EXCEPT ![s] = Tail(@)],
             UNCHANGED <<alive, conns, sends, commands>>
      PROVE  Shrinks /\ UNCHANGED <<conns, sends, commands>>
  BY <1>2 DEF ConfigTypeOK
<1>3. CASE Kill(c)
  BY <1>3 DEF Kill, CutOff
<1>4. CASE Ignore(c) \/ RecvConfig(c)
  BY <1>2, <1>4 DEF Ignore, RecvConfig
<1>5. CASE Client(c) /\ ~(Ignore(c) \/ RecvConfig(c))
  <2>1. UNCHANGED <<alive, wire, conns, sends, commands>>
    BY <1>5 DEF Client, ReadConfig, StartReceiver, Subscribe, WriteOpen, WriteFails,
                WriteClose, Assign, Reply
  <2> QED
    BY <1>1, <2>1
<1> QED
  BY <1>3, <1>4, <1>5

LEMMA BreakShrinks ==
  ASSUME ConfigTypeOK, NEW s \in alive, Break(s)
  PROVE  Shrinks /\ UNCHANGED <<conns, sends, commands>>
BY DEF Break, CutOff, Shrinks, serverVars

\* What Shrinks preserves.
LEMMA ShrinkStep ==
  ASSUME ConfigTypeOK, ConnInv, AddressInv, Shrinks,
         UNCHANGED <<conns, commands>>, sends' \subseteq sends
  PROVE  ConnInv' /\ AddressInv'
<1>1. \A s \in DOMAIN conns : Address(s)' = Address(s)
  BY DEF Address, Host
<1>2. alive \subseteq DOMAIN conns
  BY DEF ConfigTypeOK
<1>3. \A s \in ConnIds : wire'[s] # <<>> => s \in alive'
  BY DEF Shrinks, ConnInv
<1>4. ConnInv'
  BY <1>1, <1>2, <1>3 DEF ConnInv, Shrinks, Address, Host
<1>5. ASSUME NEW s \in ConnIds, NEW i \in DOMAIN wire'[s] PROVE Directed(s, wire[s][i])'
  <2>1. wire[s] \in Seq(Message) /\ wire'[s] \in {wire[s], Tail(wire[s])} /\ wire[s] # <<>>
    BY <1>5 DEF ConfigTypeOK, Shrinks
  <2>2. PICK j \in DOMAIN wire[s] : wire'[s][i] = wire[s][j]
    BY <1>5, <2>1
  <2>3. Directed(s, wire[s][j])
    BY DEF AddressInv
  <2> QED
    BY <2>2, <2>3 DEF Directed, Address, Host
<1>6. \A t \in sends' : Directed(t.sock, t.msg)'
  BY DEF AddressInv, Directed, Address, Host
<1>7. AddressInv'
  BY <1>5, <1>6 DEF AddressInv
<1> QED
  BY <1>4, <1>7

\* What Command does: a message with the next number, for a connection with
\* the address the typed id has.
LEMMA Commanded ==
  ASSUME ConfigTypeOK, NEW id \in ConnIds, Command(id)
  PROVE  /\ commands' = commands + 1 /\ commands \in Nat
         /\ UNCHANGED <<netVars, conns, newest, now, rpc>>
         /\ \E s \in DOMAIN conns, m \in Message :
              /\ m.nr = commands' /\ m.id = id
              /\ id \in DOMAIN conns /\ Address(s) = Address(id)
              /\ sends' = sends \cup {[sock |-> s, msg |-> m]}
              /\ crowded' = crowded \cup
                   (IF {u \in sends : u.sock = s} = {} THEN {}
                    ELSE {t.msg.nr : t \in {u \in sends : u.sock = s}} \cup {commands'})
<1> DEFINE waiting(s) == {t.msg.nr : t \in {u \in sends : u.sock = s}}
<1>1. PICK s \in Lookup(id), content \in Contents \cup {Bad} :
        /\ sends' = sends \cup
             {[sock |-> s, msg |-> [nr |-> commands', id |-> id, content |-> content]]}
        /\ crowded' = crowded \cup (IF waiting(s) = {} THEN {} ELSE waiting(s) \cup {commands'})
  BY DEF Command
<1> DEFINE m == [nr |-> commands', id |-> id, content |-> content]
<1>2. commands' = commands + 1 /\ commands \in Nat /\ commands' \in 1 .. MaxCommands
  BY Bounds DEF Command, ConfigTypeOK
<1>3. m \in Message /\ m.nr = commands' /\ m.id = id
  BY <1>2 DEF Message
<1>4. s \in DOMAIN conns /\ id \in DOMAIN conns /\ Address(s) = Address(id)
  BY DEF Command, Known, Lookup, ConfigTypeOK
<1>5. waiting(s) = {} <=> {u \in sends : u.sock = s} = {}
  OBVIOUS
<1>6. sends' = sends \cup {[sock |-> s, msg |-> m]}
  BY <1>1
<1>7. UNCHANGED <<netVars, conns, newest, now, rpc>>
  BY DEF Command, clientVars
<1> HIDE DEF m
<1>8. /\ m.nr = commands' /\ m.id = id
      /\ id \in DOMAIN conns /\ Address(s) = Address(id)
      /\ sends' = sends \cup {[sock |-> s, msg |-> m]}
      /\ crowded' = crowded \cup
           (IF {u \in sends : u.sock = s} = {} THEN {}
            ELSE {t.msg.nr : t \in {u \in sends : u.sock = s}} \cup {commands'})
  BY <1>1, <1>3, <1>4, <1>5, <1>6
<1> QED
  BY <1>2, <1>3, <1>4, <1>7, <1>8

\* What SendMessage does to a connection that is alive.
LEMMA Sent ==
  ASSUME ConfigTypeOK, NEW t \in sends, SendMessage(t), t.sock \in alive
  PROVE  /\ t.sock \in ConnIds /\ t.msg \in Message
         /\ wire' = [wire EXCEPT ![t.sock] = Append(@, t.msg)]
         /\ sends' = sends \ {t}
         /\ UNCHANGED <<serverVars, alive, clientVars, history>>
BY DEF ConfigTypeOK, SendThreads, SendMessage

\* On one that is not, everything ends.
LEMMA SendEnds ==
  ASSUME ConfigTypeOK, ConnInv, NEW t \in sends, SendMessage(t), t.sock \notin alive
  PROVE  Shrinks /\ sends' = {} /\ UNCHANGED <<serverVars, clientVars, history>>
BY DEF SendMessage, CutOff, Shrinks, ConnInv

LEMMA SentStep ==
  ASSUME ConfigTypeOK, ConnInv, AddressInv, NEW t \in sends, SendMessage(t), t.sock \in alive
  PROVE  ConnInv' /\ AddressInv'
<1>1. /\ t.sock \in ConnIds /\ t.msg \in Message
      /\ wire' = [wire EXCEPT ![t.sock] = Append(@, t.msg)]
      /\ sends' = sends \ {t}
      /\ UNCHANGED <<conns, commands, alive>>
  BY Sent DEF serverVars
<1>2. \A s \in ConnIds : s # t.sock => wire'[s] = wire[s]
  BY <1>1 DEF ConfigTypeOK
<1>3. wire'[t.sock] = Append(wire[t.sock], t.msg) /\ wire[t.sock] \in Seq(Message)
  BY <1>1 DEF ConfigTypeOK
<1>4. ConnInv'
  BY <1>1, <1>2 DEF ConnInv, Address, Host
<1>5. ASSUME NEW s \in ConnIds, NEW i \in DOMAIN wire'[s] PROVE Directed(s, wire[s][i])'
  <2>1. CASE s = t.sock /\ i \notin DOMAIN wire[s]
    <3>1. wire'[s][i] = t.msg
      BY <1>3, <1>5, <2>1
    <3> QED
      BY <1>1, <2>1, <3>1 DEF AddressInv, Directed, Address, Host
  <2>2. CASE s # t.sock \/ i \in DOMAIN wire[s]
    <3>1. i \in DOMAIN wire[s] /\ wire'[s][i] = wire[s][i]
      BY <1>2, <1>3, <1>5, <2>2
    <3> QED
      BY <1>1, <3>1 DEF AddressInv, Directed, Address, Host
  <2> QED
    BY <2>1, <2>2
<1>6. \A u \in sends' : Directed(u.sock, u.msg)'
  BY <1>1 DEF AddressInv, Directed, Address, Host
<1> QED
  BY <1>4, <1>5, <1>6 DEF AddressInv

LEMMA CommandStep ==
  ASSUME ConfigTypeOK, ConnInv, AddressInv, NEW id \in ConnIds, Command(id)
  PROVE  ConnInv' /\ AddressInv'
<1>1. /\ commands' = commands + 1 /\ commands \in Nat
      /\ UNCHANGED <<conns, alive, wire>>
  BY Commanded DEF netVars
<1>2. PICK s \in DOMAIN conns, m \in Message :
        /\ m.nr = commands' /\ m.id = id
        /\ id \in DOMAIN conns /\ Address(s) = Address(id)
        /\ sends' = sends \cup {[sock |-> s, msg |-> m]}
  BY Commanded
<1>3. ConnInv'
  BY <1>1 DEF ConnInv, Address, Host
<1>4. \A t \in sends : t.msg.nr \in Nat
  BY DEF ConfigTypeOK, SendThreads, Message
<1>5. \A x \in ConnIds : \A i \in DOMAIN wire[x] : wire[x][i].nr \in Nat
  <2> SUFFICES ASSUME NEW x \in ConnIds, NEW i \in DOMAIN wire[x] PROVE wire[x][i] \in Message
    BY DEF Message
  <2>1. wire[x] \in Seq(Message)
    BY DEF ConfigTypeOK
  <2> QED
    BY <2>1
<1>6. \A t \in sends' : Directed(t.sock, t.msg)'
  <2>1. \A t \in sends : Directed(t.sock, t.msg)'
    BY <1>1, <1>4 DEF AddressInv, Directed, Address, Host
  <2>2. ASSUME NEW t \in {[sock |-> s, msg |-> m]} PROVE Directed(t.sock, t.msg)'
    <3>1. t.sock = s /\ t.msg = m
      OBVIOUS
    <3> QED
      BY <1>1, <1>2, <3>1 DEF Directed, Address, Host
  <2> QED
    BY <1>2, <2>1, <2>2
<1>7. \A x \in ConnIds : \A i \in DOMAIN wire'[x] : Directed(x, wire[x][i])'
  BY <1>1, <1>5 DEF AddressInv, Directed, Address, Host
<1> QED
  BY <1>3, <1>6, <1>7 DEF AddressInv

LEMMA AcceptStep ==
  ASSUME ConfigTypeOK, ConnInv, AddressInv, NEW c \in Clients, Accept(c)
  PROVE  ConnInv' /\ AddressInv'
<1>0. PICK n : n = Len(conns')
  OBVIOUS
<1>1. /\ DOMAIN conns' = DOMAIN conns \cup {n} /\ n \notin DOMAIN conns
      /\ \A s \in DOMAIN conns : conns'[s] = conns[s]
      /\ conns'[n].client = c
      /\ \A s \in alive : Address(s) # <<HostOf[c], conns'[n].port>>
  BY <1>0, Accepted
<1>2. UNCHANGED <<wire, sends, commands>> /\ alive' = alive \cup {n} /\ ConnsOf(c) = {}
  BY <1>0 DEF Accept
<1>3. alive \subseteq DOMAIN conns
  BY DEF ConfigTypeOK
<1>4. \A s \in DOMAIN conns : Address(s)' = Address(s)
  BY <1>1 DEF Address, Host
<1>5. Address(n)' = <<HostOf[c], conns'[n].port>>
  BY <1>1 DEF Address, Host
<1>6. \A s \in alive : conns'[s].client # c
  BY <1>1, <1>2, <1>3 DEF ConnsOf
<1>7. ConnInv'
  <2>1. \A s, t \in alive' : conns'[s].client = conns'[t].client => s = t
    BY <1>1, <1>2, <1>3, <1>6 DEF ConnInv
  <2>2. \A s \in alive : Address(s)' = Address(s) /\ Address(s)' # Address(n)'
    BY <1>1, <1>3, <1>4, <1>5
  <2>3. \A s, t \in alive : Address(s) = Address(t) => s = t
    BY DEF ConnInv
  <2>4. \A s, t \in alive' : Address(s)' = Address(t)' => s = t
    BY <1>2, <2>2, <2>3
  <2> QED
    BY <1>2, <2>1, <2>4 DEF ConnInv
<1>8. \A t \in sends : Directed(t.sock, t.msg)'
  BY <1>1, <1>2 DEF AddressInv, Directed, Address, Host
<1>9. \A x \in ConnIds : \A i \in DOMAIN wire[x] : Directed(x, wire[x][i])'
  BY <1>1, <1>2 DEF AddressInv, Directed, Address, Host
<1> QED
  BY <1>2, <1>7, <1>8, <1>9 DEF AddressInv

LEMMA AddressStep ==
  ConfigTypeOK /\ ConnInv /\ AddressInv /\ [ConfigNext]_uvars => ConnInv' /\ AddressInv'
<1> SUFFICES ASSUME ConfigTypeOK, ConnInv, AddressInv, [ConfigNext]_uvars
             PROVE  ConnInv' /\ AddressInv'
  OBVIOUS
<1>1. CASE UNCHANGED <<conns, alive, wire, sends, commands>>
  BY <1>1 DEF ConnInv, AddressInv, Directed, Address, Host
<1>2. CASE AddNewClient \/ UNCHANGED uvars
  BY <1>1, <1>2 DEF AddNewClient, uvars, serverVars, netVars
<1>3. ASSUME NEW t \in sends, SendMessage(t) PROVE ConnInv' /\ AddressInv'
  <2>1. CASE t.sock \in alive
    BY <1>3, <2>1, SentStep
  <2>2. CASE t.sock \notin alive
    BY <1>3, <2>2, SendEnds, ShrinkStep DEF serverVars
  <2> QED
    BY <2>1, <2>2
<1>4. ASSUME NEW id \in ConnIds, Command(id) PROVE ConnInv' /\ AddressInv'
  BY <1>4, CommandStep
<1>5. ASSUME NEW c \in Clients, Accept(c) PROVE ConnInv' /\ AddressInv'
  BY <1>5, AcceptStep
<1>6. ASSUME NEW c \in Clients, Client(c) \/ Kill(c) PROVE ConnInv' /\ AddressInv'
  BY <1>6, ClientShrinks, ShrinkStep
<1>7. ASSUME NEW s \in alive, Break(s) PROVE ConnInv' /\ AddressInv'
  BY <1>7, BreakShrinks, ShrinkStep
<1> QED
  BY <1>2, <1>3, <1>4, <1>5, <1>6, <1>7 DEF ConfigNext, Server, Administrator

LEMMA AddressStarts == ConfigInit => ConnInv /\ AddressInv
BY DEF ConfigInit, ConnInv, AddressInv

\* A configuration reaches another client than the one typed only over an
\* address the typed id's connection had before (get_client_info_from_ip_and_port).
THEOREM WrongClientHolds == ConfigSpec => []WrongClientOnlyByReuse
<1>1. ConfigTypeOK /\ ConnInv /\ AddressInv => WrongClientOnlyByReuse
  <2> SUFFICES ASSUME ConfigTypeOK, ConnInv, AddressInv, NEW s \in alive,
                      NEW i \in DOMAIN wire[s],
                      conns[s].client # conns[wire[s][i].id].client
               PROVE  Address(s) = Address(wire[s][i].id) /\ wire[s][i].id \notin alive
    BY DEF WrongClientOnlyByReuse
  <2>1. s \in ConnIds
    BY Numbered DEF ConfigTypeOK
  <2>2. Directed(s, wire[s][i])
    BY <2>1 DEF AddressInv
  <2> QED
    BY <2>2 DEF Directed, ConnInv
<1> QED
  BY <1>1, ConfigTypeStarts, ConfigTypeStep, AddressStarts, AddressStep, PTL DEF ConfigSpec

\* The server ends by sending only if the typed id's connection has ended or
\* an ended connection had its address (send_output_to_client).
THEOREM SurvivesLiveClientsHolds == ConfigSpec => SurvivesLiveClients
<1>1. ASSUME ConfigTypeOK, AddressInv, [ConfigNext]_uvars, server_up, ~server_up'
      PROVE  \E t \in sends : \E s \in DOMAIN conns \ alive : Address(s) = Address(t.msg.id)
  <2>1. PICK t \in sends : SendMessage(t) /\ t.sock \notin alive
    <3>1. CASE \E t \in sends : SendMessage(t)
      BY <1>1, <3>1 DEF SendMessage
    <3>2. CASE ~ \E t \in sends : SendMessage(t)
      BY <1>1, <3>2 DEF ConfigNext, Server, Administrator, Client, AddNewClient, Command,
           ReadConfig, StartReceiver, Ignore, Subscribe, WriteOpen, WriteFails, WriteClose,
           RecvConfig, Assign, Reply, Accept, Kill, Break, uvars, netVars
    <3> QED
      BY <3>1, <3>2
  <2>2. t.sock \in DOMAIN conns \ alive /\ Address(t.sock) = Address(t.msg.id)
    BY <1>1, <2>1 DEF AddressInv, Directed
  <2> QED
    BY <2>2
<1>2. ConfigTypeOK /\ AddressInv /\ [ConfigNext]_uvars =>
        [server_up /\ ~server_up' =>
           \E t \in sends :
             \/ t.msg.id \notin alive
             \/ \E s \in DOMAIN conns \ alive : Address(s) = Address(t.msg.id)]_uvars
  BY <1>1
<1> QED
  BY <1>2, ConfigTypeStarts, ConfigTypeStep, AddressStarts, AddressStep, PTL
  DEF ConfigSpec, SurvivesLiveClients
-----------------------------------------------------------------------------
(***************************************************************************)
(* The order of commands.                                                  *)
(***************************************************************************)

\* A command that has its place after another: it was typed later, or was
\* waiting to be sent together with others.
Follows(n, m) == n > m \/ n \in crowded

\* It has its place after what the client is setting and has set.
FollowsClient(n, c) == Follows(n, now[c]) /\ Follows(n, newest[c])

SendsInOrder ==
  /\ \A t, u \in sends : t.sock = u.sock => t = u \/ t.msg.nr \in crowded
  /\ \A t \in sends : \A i \in DOMAIN wire[t.sock] : Follows(t.msg.nr, wire[t.sock][i].nr)
  /\ \A t \in sends : t.sock \in alive => FollowsClient(t.msg.nr, conns[t.sock].client)

WireInOrder ==
  \A s \in alive : \A j \in DOMAIN wire[s] :
    /\ \A i \in DOMAIN wire[s] : i < j => Follows(wire[s][j].nr, wire[s][i].nr)
    /\ FollowsClient(wire[s][j].nr, conns[s].client)

ClientInOrder ==
  \A c \in Clients :
    /\ rpc[c] = "assign" => Follows(now[c], newest[c])
    /\ now[c] <= commands /\ newest[c] <= commands

OrderInv == SendsInOrder /\ WireInOrder /\ ClientInOrder

LEMMA OrderTypes ==
  ASSUME ConfigTypeOK
  PROVE  /\ commands \in Nat
         /\ \A t \in sends : t.sock \in ConnIds /\ t.msg.nr \in Nat /\ t.msg.nr > 0
         /\ \A c \in Clients : now[c] \in Nat /\ newest[c] \in Nat
         /\ \A s \in ConnIds : wire[s] \in Seq(Message)
         /\ \A s \in ConnIds : \A i \in DOMAIN wire[s] :
              wire[s][i] \in Message /\ wire[s][i].nr \in Nat /\ wire[s][i].nr > 0
         /\ \A s \in DOMAIN conns : conns[s].client \in Clients
         /\ alive \subseteq DOMAIN conns /\ DOMAIN conns \subseteq ConnIds
<1>1. \A m \in Message : m.nr \in Nat /\ m.nr > 0
  BY DEF Message
<1>2. \A t \in sends : t.sock \in ConnIds /\ t.msg \in Message
  BY DEF ConfigTypeOK, SendThreads
<1>3. \A s \in ConnIds : wire[s] \in Seq(Message)
  BY DEF ConfigTypeOK
<1>4. \A s \in ConnIds : \A i \in DOMAIN wire[s] : wire[s][i] \in Message
  BY <1>3
<1>5. \A c \in Clients : now[c] \in 0 .. MaxCommands /\ newest[c] \in 0 .. MaxCommands
  BY DEF ConfigTypeOK
<1>6. commands \in Nat /\ alive \subseteq DOMAIN conns
  BY DEF ConfigTypeOK
<1>7. \A s \in DOMAIN conns : conns[s].client \in Clients
  <2>1. conns \in Seq([client : Clients, port : Ports])
    BY DEF ConfigTypeOK
  <2>2. \A s \in DOMAIN conns : conns[s] \in [client : Clients, port : Ports]
    BY <2>1, Elements
  <2> QED
    BY <2>2
<1>8. ASSUME NEW c \in Clients PROVE now[c] \in Nat /\ newest[c] \in Nat
  BY <1>5
<1> QED
  BY <1>1, <1>2, <1>3, <1>4, <1>6, <1>7, <1>8, Numbered

\* Taking messages away and forgetting what a client was setting keeps the order.
LEMMA OrderShrinks ==
  ASSUME ConfigTypeOK, OrderInv, Shrinks, sends' \subseteq sends,
         UNCHANGED <<conns, commands, newest, crowded>>,
         \A c \in Clients :
           /\ now'[c] \in {0, now[c]}
           /\ rpc'[c] = "assign" => rpc[c] = "assign" /\ now'[c] = now[c]
  PROVE  OrderInv'
<1>1. ASSUME NEW s \in ConnIds, NEW i \in DOMAIN wire'[s]
      PROVE  \E k \in {0, 1} :
               /\ i + k \in DOMAIN wire[s] /\ wire'[s][i] = wire[s][i + k]
               /\ \A j \in DOMAIN wire'[s] :
                    j + k \in DOMAIN wire[s] /\ wire'[s][j] = wire[s][j + k]
  <2>1. wire[s] \in Seq(Message) /\ wire[s] # <<>>
    BY <1>1, OrderTypes DEF Shrinks
  <2>2. CASE wire'[s] = wire[s]
    <3>1. \A j \in DOMAIN wire[s] : j + 0 = j
      BY <2>1
    <3> QED
      BY <1>1, <2>2, <3>1
  <2>3. CASE wire'[s] = Tail(wire[s])
    <3>1. \A j \in DOMAIN Tail(wire[s]) :
            j + 1 \in DOMAIN wire[s] /\ Tail(wire[s])[j] = wire[s][j + 1]
      BY <2>1
    <3> QED
      BY <1>1, <2>3, <3>1
  <2>4. DOMAIN wire'[s] # {} /\ DOMAIN <<>> = {}
    BY <1>1
  <2>5. wire'[s] \in {wire[s], Tail(wire[s])}
    BY <2>4 DEF Shrinks
  <2> QED
    BY <2>2, <2>3, <2>5
<1>2. alive' \subseteq alive /\ \A s \in alive : conns'[s].client = conns[s].client
  BY DEF Shrinks
<1>3. ASSUME NEW n \in Nat, n > 0, NEW c \in Clients, FollowsClient(n, c)
      PROVE  FollowsClient(n, c)'
  BY <1>3 DEF FollowsClient, Follows
<1>4. SendsInOrder'
  <2>1. \A t, u \in sends' : t.sock = u.sock => t = u \/ t.msg.nr \in crowded'
    BY DEF OrderInv, SendsInOrder
  <2>2. ASSUME NEW t \in sends', NEW i \in DOMAIN wire'[t.sock]
        PROVE  Follows(t.msg.nr, wire[t.sock][i].nr)'
    <3>1. PICK j \in DOMAIN wire[t.sock] : wire'[t.sock][i] = wire[t.sock][j]
      BY <1>1, <2>2, OrderTypes
    <3> QED
      BY <3>1 DEF OrderInv, SendsInOrder, Follows
  <2>3. ASSUME NEW t \in sends', t.sock \in alive'
        PROVE  FollowsClient(t.msg.nr, conns[t.sock].client)'
    <3>1. t \in sends /\ t.sock \in alive /\ conns'[t.sock] = conns[t.sock]
      BY <1>2, <2>3
    <3>2. FollowsClient(t.msg.nr, conns[t.sock].client)
      BY <3>1 DEF OrderInv, SendsInOrder
    <3>3. t.msg.nr \in Nat /\ t.msg.nr > 0 /\ conns[t.sock].client \in Clients
      BY <3>1, OrderTypes
    <3> QED
      BY <3>1, <3>2, <3>3 DEF FollowsClient, Follows
  <2> QED
    BY <2>1, <2>2, <2>3 DEF SendsInOrder
<1>5. WireInOrder'
  <2> SUFFICES ASSUME NEW s \in alive', NEW j \in DOMAIN wire'[s]
               PROVE  /\ \A i \in DOMAIN wire'[s] : i < j => Follows(wire[s][j].nr, wire[s][i].nr)'
                      /\ FollowsClient(wire[s][j].nr, conns[s].client)'
    BY DEF WireInOrder
  <2>1. s \in alive /\ s \in ConnIds /\ wire[s] \in Seq(Message)
    BY <1>2, OrderTypes
  <2>2. PICK k \in {0, 1} :
          /\ j + k \in DOMAIN wire[s] /\ wire'[s][j] = wire[s][j + k]
          /\ \A i \in DOMAIN wire'[s] : i + k \in DOMAIN wire[s] /\ wire'[s][i] = wire[s][i + k]
    BY <1>1, <2>1
  <2>3. ASSUME NEW i \in DOMAIN wire'[s], i < j PROVE Follows(wire[s][j].nr, wire[s][i].nr)'
    <3>1. i \in Nat /\ j \in Nat
      <4>1. wire'[s] = <<>> \/ wire'[s] = wire[s] \/ (wire[s] # <<>> /\ wire'[s] = Tail(wire[s]))
        BY <2>1 DEF Shrinks
      <4>2. <<>> \in Seq(Message) /\ (wire[s] # <<>> => Tail(wire[s]) \in Seq(Message))
        BY <2>1, TailSeq
      <4>3. wire'[s] \in Seq(Message)
        BY <2>1, <4>1, <4>2
      <4> QED
        BY <4>3, Elements
    <3>2. i + k < j + k
      BY <2>3, <3>1
    <3> QED
      BY <2>1, <2>2, <3>2 DEF OrderInv, WireInOrder, Follows
  <2>4. FollowsClient(wire[s][j + k].nr, conns[s].client)
    BY <2>1, <2>2 DEF OrderInv, WireInOrder
  <2>5. FollowsClient(wire[s][j].nr, conns[s].client)'
    BY <1>2, <1>3, <2>1, <2>2, <2>4, OrderTypes
  <2> QED
    BY <2>3, <2>5
<1>6. ClientInOrder'
  BY OrderTypes DEF OrderInv, ClientInOrder, Follows
<1> QED
  BY <1>4, <1>5, <1>6 DEF OrderInv

LEMMA OrderSent ==
  ASSUME ConfigTypeOK, OrderInv, NEW t \in sends, SendMessage(t), t.sock \in alive
  PROVE  OrderInv'
<1> DEFINE s == t.sock
<1>1. /\ s \in ConnIds /\ sends' = sends \ {t}
      /\ wire' = [wire EXCEPT ![s] = Append(@, t.msg)]
      /\ UNCHANGED <<conns, commands, alive, now, rpc, newest, crowded>>
  BY Sent DEF serverVars, clientVars, history
<1>2. \A x \in ConnIds : x # s => wire'[x] = wire[x]
  BY <1>1 DEF ConfigTypeOK
<1>3. wire'[s] = Append(wire[s], t.msg) /\ wire[s] \in Seq(Message)
  BY <1>1 DEF ConfigTypeOK
<1>4. /\ DOMAIN wire'[s] = DOMAIN wire[s] \cup {Len(wire[s]) + 1}
      /\ \A i \in DOMAIN wire[s] : wire'[s][i] = wire[s][i] /\ i \in Nat /\ i < Len(wire[s]) + 1
      /\ wire'[s][Len(wire[s]) + 1] = t.msg
      /\ Len(wire[s]) \in Nat
  BY <1>3
<1> HIDE DEF s
<1>5. SendsInOrder'
  <2>1. \A u \in sends' : u \in sends /\ u # t /\ u.sock \in ConnIds
    BY <1>1, OrderTypes
  <2>2. ASSUME NEW u \in sends', NEW i \in DOMAIN wire'[u.sock]
        PROVE  Follows(u.msg.nr, wire[u.sock][i].nr)'
    <3>1. CASE u.sock = s
      <4>1. u.msg.nr \in crowded
        BY <1>1, <2>1, <3>1 DEF OrderInv, SendsInOrder, s
      <4> QED
        BY <1>1, <4>1 DEF Follows
    <3>2. CASE u.sock # s
      BY <1>1, <1>2, <2>1, <3>2 DEF OrderInv, SendsInOrder, Follows
    <3> QED
      BY <3>1, <3>2
  <2> QED
    BY <1>1, <2>1, <2>2 DEF OrderInv, SendsInOrder, FollowsClient, Follows
<1>6. WireInOrder'
  <2> SUFFICES ASSUME NEW x \in alive, NEW j \in DOMAIN wire'[x]
               PROVE  /\ \A i \in DOMAIN wire'[x] : i < j => Follows(wire[x][j].nr, wire[x][i].nr)'
                      /\ FollowsClient(wire[x][j].nr, conns[x].client)'
    BY <1>1 DEF WireInOrder
  <2>1. x \in ConnIds
    BY OrderTypes
  <2>2. CASE x # s
    BY <1>1, <1>2, <2>1, <2>2 DEF OrderInv, WireInOrder, FollowsClient, Follows
  <2>3. CASE x = s /\ j \in DOMAIN wire[s]
    <3>1. \A i \in DOMAIN wire'[s] : i < j => i \in DOMAIN wire[s]
      BY <1>4, <2>3
    <3> QED
      BY <1>1, <1>4, <2>3, <3>1 DEF OrderInv, WireInOrder, FollowsClient, Follows
  <2>4. CASE x = s /\ j = Len(wire[s]) + 1
    <3>1. \A i \in DOMAIN wire'[s] : i < j => i \in DOMAIN wire[s]
      BY <1>4, <2>4
    <3>2. wire'[s][j] = t.msg
      BY <1>4, <2>4
    <3>3. \A i \in DOMAIN wire[s] : Follows(t.msg.nr, wire[s][i].nr)
      BY DEF OrderInv, SendsInOrder, s
    <3>4. FollowsClient(t.msg.nr, conns[s].client)
      BY DEF OrderInv, SendsInOrder, s
    <3> QED
      BY <1>1, <1>4, <2>4, <3>1, <3>2, <3>3, <3>4 DEF FollowsClient, Follows
  <2> QED
    BY <1>4, <2>2, <2>3, <2>4
<1>7. ClientInOrder'
  BY <1>1 DEF OrderInv, ClientInOrder, Follows
<1> QED
  BY <1>5, <1>6, <1>7 DEF OrderInv

LEMMA OrderCommanded ==
  ASSUME ConfigTypeOK, AddressInv, OrderInv, NEW id \in ConnIds, Command(id)
  PROVE  OrderInv'
<1>1. /\ commands' = commands + 1 /\ commands \in Nat
      /\ UNCHANGED <<conns, alive, wire, newest, now, rpc>>
  BY Commanded DEF netVars
<1>2. PICK s \in DOMAIN conns, m \in Message :
        /\ m.nr = commands' /\ m.id = id
        /\ sends' = sends \cup {[sock |-> s, msg |-> m]}
        /\ crowded' = crowded \cup
             (IF {u \in sends : u.sock = s} = {} THEN {}
              ELSE {t.msg.nr : t \in {u \in sends : u.sock = s}} \cup {commands'})
  BY Commanded
<1> DEFINE new == [sock |-> s, msg |-> m]
<1>3. new.sock = s /\ new.msg = m
  OBVIOUS
<1> HIDE DEF new
<1>4. sends' = sends \cup {new}
  BY <1>2 DEF new
<1>5. crowded \subseteq crowded'
  BY <1>2
<1>9. s \in ConnIds /\ conns[s].client \in Clients
  BY OrderTypes
<1>10. \A i \in DOMAIN wire[s] : wire[s][i].nr \in Nat /\ wire[s][i].nr <= commands
  BY <1>9, OrderTypes DEF AddressInv, Directed
<1>11. SendsInOrder'
  <2>1. ASSUME NEW t \in sends', NEW u \in sends', t.sock = u.sock, t # u
        PROVE  t.msg.nr \in crowded'
    <3>1. CASE t \in sends /\ u \in sends
      BY <1>5, <2>1, <3>1 DEF OrderInv, SendsInOrder
    <3>2. CASE t.sock = s /\ (t = new \/ u = new)
      <4>1. t = new => u \in {x \in sends : x.sock = s}
        BY <1>3, <1>4, <2>1, <3>2
      <4>2. u = new => t \in {x \in sends : x.sock = s}
        BY <1>3, <1>4, <2>1, <3>2
      <4>3. {x \in sends : x.sock = s} # {}
        BY <3>2, <4>1, <4>2
      <4> QED
        BY <1>2, <1>3, <3>2, <4>2, <4>3
    <3> QED
      BY <1>3, <1>4, <2>1, <3>1, <3>2
  <2>2. ASSUME NEW t \in sends', NEW i \in DOMAIN wire[t.sock]
        PROVE  Follows(t.msg.nr, wire[t.sock][i].nr)'
    <3>1. CASE t \in sends
      BY <1>1, <1>5, <2>2, <3>1 DEF OrderInv, SendsInOrder, Follows
    <3>2. CASE t = new
      BY <1>1, <1>2, <1>3, <1>10, <2>2, <3>2 DEF Follows
    <3> QED
      BY <1>4, <3>1, <3>2
  <2>3. ASSUME NEW t \in sends', t.sock \in alive
        PROVE  FollowsClient(t.msg.nr, conns[t.sock].client)'
    <3>1. CASE t \in sends
      BY <1>1, <1>5, <2>3, <3>1 DEF OrderInv, SendsInOrder, FollowsClient, Follows
    <3>2. CASE t = new
      <4> DEFINE c == conns[s].client
      <4>1. now[c] \in Nat /\ newest[c] \in Nat /\ now[c] <= commands /\ newest[c] <= commands
        BY <1>9, OrderTypes DEF OrderInv, ClientInOrder
      <4> QED
        BY <1>1, <1>2, <1>3, <3>2, <4>1 DEF FollowsClient, Follows
    <3> QED
      BY <1>4, <3>1, <3>2
  <2> QED
    BY <1>1, <2>1, <2>2, <2>3 DEF SendsInOrder
<1>12. WireInOrder'
  BY <1>1, <1>5 DEF OrderInv, WireInOrder, FollowsClient, Follows
<1>13. ClientInOrder'
  BY <1>1, <1>5, OrderTypes DEF OrderInv, ClientInOrder, Follows
<1> QED
  BY <1>11, <1>12, <1>13 DEF OrderInv

LEMMA OrderAccepted ==
  ASSUME ConfigTypeOK, ConnInv, AddressInv, OrderInv, NEW c \in Clients, Accept(c)
  PROVE  OrderInv'
<1>0. PICK n : n = Len(conns')
  OBVIOUS
<1>1. n \notin DOMAIN conns /\ \A s \in DOMAIN conns : conns'[s] = conns[s]
  BY <1>0, Accepted
<1>2. alive' = alive \cup {n} /\ UNCHANGED <<wire, sends, commands, now, rpc, newest, crowded>>
  BY <1>0 DEF Accept, clientVars, history
<1>3. \A t \in sends : t.sock \in DOMAIN conns
  BY DEF AddressInv, Directed
<1>4. \A s \in DOMAIN conns : s # n
  BY <1>1
<1>5. n \in ConnIds => wire[n] = <<>>
  BY <1>1, OrderTypes DEF ConnInv
<1>6. SendsInOrder'
  BY <1>1, <1>2, <1>3, <1>4 DEF OrderInv, SendsInOrder, FollowsClient, Follows
<1>7. ASSUME NEW s \in alive', NEW j \in DOMAIN wire[s]
      PROVE  /\ \A i \in DOMAIN wire[s] : i < j => Follows(wire[s][j].nr, wire[s][i].nr)'
             /\ FollowsClient(wire[s][j].nr, conns[s].client)'
  <2>1. CASE s = n
    <3>1. n \in ConnIds
      BY <1>0, Accepted, Bounds, Numbered DEF ConnIds
    <3> QED
      BY <1>5, <2>1, <3>1
  <2>2. CASE s \in alive
    BY <1>1, <1>2, <2>2, OrderTypes DEF OrderInv, WireInOrder, FollowsClient, Follows
  <2> QED
    BY <1>2, <2>1, <2>2
<1>8. WireInOrder'
  BY <1>2, <1>7 DEF WireInOrder
<1>9. ClientInOrder'
  BY <1>2 DEF OrderInv, ClientInOrder, Follows
<1> QED
  BY <1>6, <1>8, <1>9 DEF OrderInv

\* The receiver thread reads a configuration: what is still on the way, and
\* what is sent later, has its place after it.
LEMMA OrderReceived ==
  ASSUME ConfigTypeOK, ConnInv, AddressInv, OrderInv, NEW c \in Clients, RecvConfig(c),
         rpc'[c] = "assign"
  PROVE  OrderInv'
<1>1. PICK s \in ConnsOf(c) :
        /\ wire[s] # <<>> /\ wire' = [wire EXCEPT ![s] = Tail(@)]
        /\ now' = [now EXCEPT ![c] = Head(wire[s]).nr]
        /\ rpc' = [rpc EXCEPT ![c] = "assign"]
  BY DEF RecvConfig
<1>2. UNCHANGED <<conns, commands, alive, sends, newest, crowded>>
  BY DEF RecvConfig, serverVars, history
<1>3. s \in alive /\ s \in ConnIds /\ s \in DOMAIN conns /\ conns[s].client = c
  BY OrderTypes DEF ConnsOf
<1>4. wire[s] \in Seq(Message)
  BY <1>3, OrderTypes
<1> DEFINE n == wire[s][1].nr
<1>5. n = Head(wire[s]).nr /\ 1 \in DOMAIN wire[s]
  BY <1>1, <1>4
<1>6. n \in Nat /\ n <= commands
  BY <1>3, <1>5, OrderTypes DEF AddressInv, Directed
<1>7. Follows(n, newest[c])
  BY <1>3, <1>5 DEF OrderInv, WireInOrder, FollowsClient
<1>8. now'[c] = n /\ \A d \in Clients : d # c => now'[d] = now[d] /\ rpc'[d] = rpc[d]
  BY <1>1, <1>5 DEF ConfigTypeOK
<1>9. /\ \A x \in ConnIds : x # s => wire'[x] = wire[x]
      /\ wire'[s] = Tail(wire[s])
  BY <1>1, <1>3 DEF ConfigTypeOK
<1>10. \A i \in DOMAIN wire'[s] :
         /\ i + 1 \in DOMAIN wire[s] /\ wire'[s][i] = wire[s][i + 1]
         /\ i \in Nat /\ 1 < i + 1
  <2>1. \A i \in DOMAIN Tail(wire[s]) :
          /\ i + 1 \in DOMAIN wire[s] /\ Tail(wire[s])[i] = wire[s][i + 1]
          /\ i \in Nat /\ 1 < i + 1
    BY <1>1, <1>4, TailElements
  <2> QED
    BY <1>9, <2>1
<1> HIDE DEF n
<1>11. \A i \in DOMAIN wire'[s] : Follows(wire'[s][i].nr, n) /\ Follows(wire'[s][i].nr, newest[c])
  BY <1>3, <1>5, <1>10 DEF OrderInv, WireInOrder, FollowsClient, n
<1>12. \A x \in alive : x # s => conns[x].client # c
  BY <1>3 DEF ConnInv
<1>13. SendsInOrder'
  <2>1. ASSUME NEW t \in sends, NEW i \in DOMAIN wire'[t.sock]
        PROVE  Follows(t.msg.nr, wire[t.sock][i].nr)'
    <3>1. CASE t.sock = s
      BY <1>2, <1>10, <2>1, <3>1 DEF OrderInv, SendsInOrder, Follows
    <3>2. CASE t.sock # s
      BY <1>2, <1>9, <2>1, <3>2, OrderTypes DEF OrderInv, SendsInOrder, Follows
    <3> QED
      BY <3>1, <3>2
  <2>2. ASSUME NEW t \in sends, t.sock \in alive
        PROVE  FollowsClient(t.msg.nr, conns[t.sock].client)'
    <3>1. FollowsClient(t.msg.nr, conns[t.sock].client) /\ conns[t.sock].client \in Clients
      BY <2>2, OrderTypes DEF OrderInv, SendsInOrder
    <3>2. CASE t.sock = s
      <4>1. Follows(t.msg.nr, n)
        BY <1>5, <2>2, <3>2 DEF OrderInv, SendsInOrder, n
      <4> QED
        BY <1>2, <1>3, <1>8, <3>1, <3>2, <4>1 DEF FollowsClient, Follows
    <3>3. CASE t.sock # s
      BY <1>2, <1>8, <1>12, <2>2, <3>1, <3>3 DEF FollowsClient, Follows
    <3> QED
      BY <3>2, <3>3
  <2> QED
    BY <1>2, <2>1, <2>2 DEF OrderInv, SendsInOrder
<1>14. WireInOrder'
  <2> SUFFICES ASSUME NEW x \in alive, NEW j \in DOMAIN wire'[x]
               PROVE  /\ \A i \in DOMAIN wire'[x] : i < j => Follows(wire[x][j].nr, wire[x][i].nr)'
                      /\ FollowsClient(wire[x][j].nr, conns[x].client)'
    BY <1>2 DEF WireInOrder
  <2>1. CASE x = s
    <3>1. ASSUME NEW i \in DOMAIN wire'[s], i < j PROVE Follows(wire[s][j].nr, wire[s][i].nr)'
      <4>1. i + 1 < j + 1
        BY <1>10, <2>1, <3>1
      <4> QED
        BY <1>2, <1>3, <1>10, <2>1, <4>1 DEF OrderInv, WireInOrder, Follows
    <3>2. FollowsClient(wire[s][j].nr, conns[s].client)'
      BY <1>2, <1>3, <1>8, <1>11, <2>1 DEF FollowsClient, Follows
    <3> QED
      BY <2>1, <3>1, <3>2
  <2>2. CASE x # s
    <3>1. wire'[x] = wire[x] /\ conns[x].client \in Clients /\ conns[x].client # c
      BY <1>9, <1>12, <2>2, OrderTypes
    <3> QED
      BY <1>2, <1>8, <3>1 DEF OrderInv, WireInOrder, FollowsClient, Follows
  <2> QED
    BY <2>1, <2>2
<1>15. ClientInOrder'
  BY <1>2, <1>6, <1>7, <1>8 DEF OrderInv, ClientInOrder, Follows
<1> QED
  BY <1>13, <1>14, <1>15 DEF OrderInv

\* It sets it.
LEMMA OrderAssigned ==
  ASSUME ConfigTypeOK, OrderInv, NEW c \in Clients, Assign(c)
  PROVE  OrderInv'
<1>1. /\ newest' = [newest EXCEPT ![c] = IF now[c] > @ THEN now[c] ELSE @]
      /\ rpc' = [rpc EXCEPT ![c] = "save"]
      /\ UNCHANGED <<conns, commands, alive, wire, sends, now, crowded>>
  BY DEF Assign, serverVars, netVars
<1>2. \A d \in Clients : newest'[d] \in {now[d], newest[d]} /\ (d # c => newest'[d] = newest[d])
  BY <1>1 DEF ConfigTypeOK
<1>3. \A d \in Clients : rpc'[d] = "assign" => rpc[d] = "assign" /\ newest'[d] = newest[d]
  BY <1>1, <1>2 DEF ConfigTypeOK
<1>5. SendsInOrder'
  BY <1>1, <1>2, OrderTypes DEF OrderInv, SendsInOrder, FollowsClient, Follows
<1>6. WireInOrder'
  BY <1>1, <1>2, OrderTypes DEF OrderInv, WireInOrder, FollowsClient, Follows
<1>7. ClientInOrder'
  BY <1>1, <1>2, <1>3 DEF OrderInv, ClientInOrder, Follows
<1> QED
  BY <1>5, <1>6, <1>7 DEF OrderInv

LEMMA OrderStep ==
  ConfigTypeOK /\ ConnInv /\ AddressInv /\ OrderInv /\ [ConfigNext]_uvars => OrderInv'
<1> SUFFICES ASSUME ConfigTypeOK, ConnInv, AddressInv, OrderInv, [ConfigNext]_uvars
             PROVE  OrderInv'
  OBVIOUS
<1> DEFINE Forgets == /\ sends' \subseteq sends
                      /\ UNCHANGED <<conns, commands, newest, crowded>>
                      /\ \A c \in Clients :
                           /\ now'[c] \in {0, now[c]}
                           /\ rpc'[c] = "assign" => rpc[c] = "assign" /\ now'[c] = now[c]
<1>1. CASE AddNewClient \/ UNCHANGED uvars
  <2>1. Shrinks /\ Forgets
    BY <1>1 DEF AddNewClient, uvars, serverVars, netVars, clientVars, history, Shrinks, ConnInv
  <2> QED
    BY <2>1, OrderShrinks
<1>2. ASSUME NEW t \in sends, SendMessage(t) PROVE OrderInv'
  <2>1. CASE t.sock \in alive
    BY <1>2, <2>1, OrderSent
  <2>2. CASE t.sock \notin alive
    <3>1. Shrinks /\ Forgets
      BY <1>2, <2>2, SendEnds DEF serverVars, clientVars, history
    <3> QED
      BY <3>1, OrderShrinks
  <2> QED
    BY <2>1, <2>2
<1>3. ASSUME NEW id \in ConnIds, Command(id) PROVE OrderInv'
  BY <1>3, OrderCommanded
<1>4. ASSUME NEW c \in Clients, Accept(c) PROVE OrderInv'
  BY <1>4, OrderAccepted
<1>5. ASSUME NEW s \in alive, Break(s) PROVE OrderInv'
  <2>1. Shrinks /\ Forgets
    BY <1>5, BreakShrinks DEF Break, clientVars, history
  <2> QED
    BY <2>1, OrderShrinks
<1>6. ASSUME NEW c \in Clients, Client(c) \/ Kill(c), ~Assign(c),
             ~(RecvConfig(c) /\ rpc'[c] = "assign")
      PROVE  OrderInv'
  <2>1. Shrinks /\ UNCHANGED <<conns, sends, commands>>
    BY <1>6, ClientShrinks
  <2>2. UNCHANGED <<newest, crowded>>
    BY <1>6 DEF Client, ReadConfig, StartReceiver, Ignore, Subscribe, WriteOpen, WriteFails,
                WriteClose, RecvConfig, Reply, Kill, clientVars, history
  <2>3. \/ UNCHANGED <<now, rpc>>
        \/ rpc' = [rpc EXCEPT ![c] = "recv"] /\ now' = [now EXCEPT ![c] = 0]
    <3>1. CASE RecvConfig(c)
      BY <1>6, <3>1 DEF RecvConfig, ConfigTypeOK
    <3>2. CASE ~RecvConfig(c)
      BY <1>6, <3>2 DEF Client, ReadConfig, StartReceiver, Ignore, Subscribe, WriteOpen,
           WriteFails, WriteClose, Reply, Kill, clientVars, history
    <3> QED
      BY <3>1, <3>2
  <2>4. \A d \in Clients :
          /\ now'[d] \in {0, now[d]}
          /\ rpc'[d] = "assign" => rpc[d] = "assign" /\ now'[d] = now[d]
    BY <2>3 DEF ConfigTypeOK
  <2> QED
    BY <2>1, <2>2, <2>4, OrderShrinks
<1> QED
  BY <1>1, <1>2, <1>3, <1>4, <1>5, <1>6, OrderReceived, OrderAssigned
  DEF ConfigNext, Server, Administrator

LEMMA OrderStarts == ConfigInit => OrderInv
BY DEF ConfigInit, OrderInv, SendsInOrder, WireInOrder, ClientInOrder

\* A configuration typed earlier replaces one typed later only if the threads
\* sending them were waiting at the same time: breaks, restarts and reused
\* addresses do not reorder commands (send_output_to_client, register_recv_config).
THEOREM SetInOrderHolds == ConfigSpec => []SetInOrder
<1>1. ConfigTypeOK /\ OrderInv => SetInOrder
  BY OrderTypes DEF OrderInv, ClientInOrder, Follows, SetInOrder
<1> QED
  BY <1>1, ConfigTypeStarts, ConfigTypeStep, AddressStarts, AddressStep, OrderStarts,
     OrderStep, PTL DEF ConfigSpec
=============================================================================
