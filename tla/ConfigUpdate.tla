---------------------------- MODULE ConfigUpdate ----------------------------
(***************************************************************************)
(* An administrator's "<client-id>:config <file>", from the server's input *)
(* thread to the configuration of a client and the file it is kept in:     *)
(* ClientManager (src/server/client_manager.cpp), register_recv_config     *)
(* (src/client/client.cpp), ClientLogger::set_config and Config            *)
(* (src/common/config.cpp), whose destructor writes the file too.          *)
(*                                                                         *)
(* A configuration is one threshold.  A file states it in units, a Config  *)
(* in memory holds U times as many (convert_after_read), in W-valued       *)
(* unsigned arithmetic; writing divides by U (convert_before_write).       *)
(*                                                                         *)
(* A client is known to the server by its address, the IP of its host and  *)
(* a port the host gives to a connection and may give again to a later     *)
(* one.  Connections are numbered as they are accepted; the number is both *)
(* the client id and the socket.                                           *)
(***************************************************************************)
EXTENDS Integers, Sequences

CONSTANTS
  Clients,
  HostOf,     \* the host a client runs on, which has one IP
  Users,
  UserOf,     \* the user a client runs as, whose home directory has the file
  Ports,
  Contents,   \* thresholds that configuration files state
  Default,    \* Config::default_config, in units
  U,          \* CPU_UNIT, MEM_UNIT, ...
  W,          \* the unsigned type's size
  MaxConns,   \* bound: connections accepted in a behaviour
  MaxCommands,\* bound: commands typed
  MaxKills,   \* bound: client kills
  MaxFileFails \* bound: failures to open or to write the configuration file

ASSUME ConfigUpdateAssumption ==
  /\ U \in Nat \ {0} /\ W \in Nat \ {0}
  /\ Default \in Nat /\ Contents \subseteq 0 .. W - 1
  /\ \A n \in {MaxConns, MaxCommands, MaxKills, MaxFileFails} : n \in Nat
  /\ UserOf \in [Clients -> Users]

\* Two clients that one user runs on one host would share a file: each would
\* then read, and overwrite, what the other was configured with.
ASSUME OneClientPerUser ==
  \A c, d \in Clients : c # d => UserOf[c] # UserOf[d]

Bad    == -1  \* content that does not parse
Absent == -2  \* no configuration file
Torn   == -3  \* a file that is empty or ends too early: opened for writing, and
              \* not written in full
Nobody == 0

VARIABLES
  \* the server
  server_up,
  conns,     \* connections accepted so far: their clients and ports
  alive,     \* those that are not broken
  adding,    \* accept_new_client: the handler not yet in client_handlers
  client_handlers,
  sends,     \* threads started by send_output_to_client that have not sent yet
  wire,      \* messages on their way to the client of a connection
  commands,  \* commands so far
  \* the clients
  phase,     \* client_main: down, starting, listening, up or failed
  config,
  file,      \* of each user
  temp,      \* the Config passed by value
  writes,    \* calls of write_config yet to come
  writing,   \* the file is open
  rpc,       \* the receiver thread's next step
  now,       \* the command whose configuration it is setting
  \* history
  crowded,   \* commands that were to be sent on one socket at the same time
  newest,    \* the latest command whose configuration a client has set
  unsaved,   \* clients whose last call of write_config failed
  cut,       \* clients whose latest opened file was not written in full: they were
             \* killed before, or the write failed
  kills, file_fails

serverVars == <<conns, adding, client_handlers, commands>>
netVars    == <<server_up, alive, wire>>
clientVars == <<phase, config, file, temp, writes, writing, rpc, now, unsaved>>
history    == <<crowded, newest, cut>>
limits     == <<kills, file_fails>>
uvars      == <<serverVars, netVars, sends, clientVars, history, limits>>

ConnIds    == 1 .. MaxConns
Message    == [nr : 1 .. MaxCommands, id : ConnIds, content : Contents \cup {Bad}]
SendThreads == [sock : ConnIds, msg : Message]

ConfigTypeOK ==
  /\ server_up \in BOOLEAN
  /\ conns \in Seq([client : Clients, port : Ports]) /\ Len(conns) <= MaxConns
  /\ alive \subseteq DOMAIN conns /\ client_handlers \subseteq DOMAIN conns
  /\ adding \in DOMAIN conns \cup {Nobody}
  /\ sends \subseteq SendThreads /\ wire \in [ConnIds -> Seq(Message)]
  /\ commands \in 0 .. MaxCommands
  /\ phase \in [Clients -> {"down", "starting", "listening", "up", "failed"}]
  /\ config \in [Clients -> 0 .. W - 1] /\ temp \in [Clients -> 0 .. W - 1]
  /\ file \in [Users -> {Absent, Torn} \cup 0 .. W - 1]
  /\ writes \in [Clients -> 0 .. 2] /\ writing \in [Clients -> BOOLEAN]
  /\ rpc \in [Clients -> {"recv", "assign", "save", "reply"}]
  /\ now \in [Clients -> 0 .. MaxCommands]
  /\ crowded \subseteq 1 .. MaxCommands
  /\ newest \in [Clients -> 0 .. MaxCommands] /\ unsaved \subseteq Clients /\ cut \subseteq Clients
  /\ kills \in 0 .. MaxKills /\ file_fails \in 0 .. MaxFileFails

ConfigInit ==
  /\ server_up = TRUE
  /\ conns = <<>> /\ alive = {} /\ adding = Nobody /\ client_handlers = {}
  /\ sends = {} /\ wire = [s \in ConnIds |-> <<>>] /\ commands = 0
  /\ phase = [c \in Clients |-> "down"]
  /\ config = [c \in Clients |-> 0] /\ temp = [c \in Clients |-> 0]
  /\ file = [u \in Users |-> Absent]
  /\ writes = [c \in Clients |-> 0] /\ writing = [c \in Clients |-> FALSE]
  /\ rpc = [c \in Clients |-> "recv"] /\ now = [c \in Clients |-> 0]
  /\ crowded = {} /\ newest = [c \in Clients |-> 0] /\ unsaved = {} /\ cut = {}
  /\ kills = 0 /\ file_fails = 0

AfterRead(v)   == (v * U) % W
BeforeWrite(v) == v \div U

FileOf(c)   == file[UserOf[c]]
Host(s)     == HostOf[conns[s].client]
Address(s)  == <<Host(s), conns[s].port>>
Running(c)  == phase[c] \in {"starting", "listening", "up"}
ConnsOf(c)  == {s \in alive : conns[s].client = c}

\* The connections in S end and what is under way on them is lost.
CutOff(S) ==
  /\ alive' = alive \ S
  /\ wire' = [s \in ConnIds |-> IF s \in S THEN <<>> ELSE wire[s]]
-----------------------------------------------------------------------------
(***************************************************************************)
(* The server: accept thread, input thread and one thread per message.     *)
(***************************************************************************)

\* accept returns, and the ClientHandler is made.  A port is given out
\* again once its connection has ended.
Accept(c) ==
  /\ server_up /\ adding = Nobody /\ Len(conns) < MaxConns
  /\ Running(c) /\ ConnsOf(c) = {}
  /\ \E port \in Ports :
       /\ \A s \in alive : Address(s) # <<HostOf[c], port>>
       /\ conns' = Append(conns, [client |-> c, port |-> port])
  /\ adding' = Len(conns') /\ alive' = alive \cup {Len(conns')}
  /\ UNCHANGED <<server_up, client_handlers, sends, wire, commands, clientVars,
                 history, limits>>

AddNewClient ==
  /\ server_up /\ adding # Nobody
  /\ client_handlers' = client_handlers \cup {adding} /\ adding' = Nobody
  /\ UNCHANGED <<netVars, conns, sends, commands, clientVars, history, limits>>

\* Mutation: the handler is looked up by IP alone.
Lookup_ByIp(id) == {s \in client_handlers : Host(s) = Host(id)}

\* get_client_info_from_ip_and_port stops at the first handler with the
\* address, in the order of a hash table.
Lookup(id) == {s \in client_handlers : Address(s) = Address(id)}

\* find_client_from_input: a line for another id is only complained about.
Known(id) == id \in client_handlers

\* A command for a client id that is known.  The file is parsed
\* and then read a second time, as text: it may have been changed meanwhile.
Command(id) ==
  /\ server_up /\ commands < MaxCommands /\ Known(id)
  /\ commands' = commands + 1
  /\ \E s \in Lookup(id), content \in Contents \cup {Bad} :
       LET waiting == {t.msg.nr : t \in {u \in sends : u.sock = s}} IN
         /\ sends' = sends \cup
              {[sock |-> s, msg |-> [nr |-> commands', id |-> id, content |-> content]]}
         /\ crowded' = crowded \cup
              (IF waiting = {} THEN {} ELSE waiting \cup {commands'})
  /\ UNCHANGED <<netVars, conns, adding, client_handlers, clientVars, newest, cut,
                 limits>>

\* The thread sends; how two threads' messages mix is Connection's subject.
\* On a connection that has ended send_message throws and, as nothing in
\* the thread catches that, ends the server.
SendMessage(t) ==
  /\ server_up /\ t \in sends
  /\ IF t.sock \in alive
       THEN /\ wire' = [wire EXCEPT ![t.sock] = Append(@, t.msg)]
            /\ sends' = sends \ {t}
            /\ UNCHANGED <<server_up, alive>>
       ELSE server_up' = FALSE /\ sends' = {} /\ CutOff(alive)
  /\ UNCHANGED <<serverVars, clientVars, history, limits>>
-----------------------------------------------------------------------------
(***************************************************************************)
(* A client's main thread up to the main loop.                             *)
(***************************************************************************)

\* The Config client_main starts with, in units; n calls of write_config
\* follow from it.
StartWith(c, v, n) ==
  /\ phase' = [phase EXCEPT ![c] = "starting"]
  /\ config' = [config EXCEPT ![c] = AfterRead(v)]
  /\ temp' = [temp EXCEPT ![c] = AfterRead(v)]
  /\ writes' = [writes EXCEPT ![c] = n]

\* The client is started: read_config, or default_config if there is no file
\* or it cannot be opened.  The latter's value is destroyed, hence written, as
\* is in both cases the one that is passed to ClientLogger.  A file that does
\* not parse throws out of client_main.
\* (The thread that connects runs already; a connection made before this step
\* is one made right after it.)
ReadConfig(c) ==
  /\ phase[c] = "down"
  /\ \/ /\ FileOf(c) = Torn
        /\ phase' = [phase EXCEPT ![c] = "failed"]
        /\ UNCHANGED <<config, temp, writes, file_fails>>
     \/ /\ FileOf(c) \notin {Torn, Absent} /\ StartWith(c, FileOf(c), 1)
        /\ UNCHANGED file_fails
     \/ /\ StartWith(c, Default, 2)
        /\ IF FileOf(c) = Absent
             THEN UNCHANGED file_fails
             ELSE file_fails < MaxFileFails /\ file_fails' = file_fails + 1
  /\ UNCHANGED <<netVars, serverVars, sends, file, writing, rpc, now, unsaved,
                 history, kills>>

\* The receiver thread is started...
StartReceiver(c) ==
  /\ phase[c] = "starting" /\ writes[c] = 0
  /\ phase' = [phase EXCEPT ![c] = "listening"]
  /\ UNCHANGED <<serverVars, netVars, sends, config, file, temp, writes, writing,
                 rpc, now, unsaved, history, limits>>

\* ... and until recv_config is subscribed it reads messages nobody handles.
Ignore(c) ==
  /\ phase[c] = "listening"
  /\ \E s \in ConnsOf(c) : wire[s] # <<>> /\ wire' = [wire EXCEPT ![s] = Tail(@)]
  /\ UNCHANGED <<server_up, alive, serverVars, sends, clientVars, history, limits>>

\* register_recv_config.
Subscribe(c) ==
  /\ phase[c] = "listening"
  /\ phase' = [phase EXCEPT ![c] = "up"]
  /\ UNCHANGED <<serverVars, netVars, sends, config, file, temp, writes, writing,
                 rpc, now, unsaved, history, limits>>
-----------------------------------------------------------------------------
(***************************************************************************)
(* write_config, in three steps; the last of several calls is always a     *)
(* destructor's.                                                           *)
(***************************************************************************)

MayWrite(c) == Running(c) /\ writes[c] > 0

\* The file is opened, which truncates it.
WriteOpen(c) ==
  /\ MayWrite(c) /\ ~writing[c]
  /\ writing' = [writing EXCEPT ![c] = TRUE]
  /\ file' = [file EXCEPT ![UserOf[c]] = Torn]
  /\ UNCHANGED <<serverVars, netVars, sends, phase, config, temp, writes, rpc,
                 now, unsaved, history, limits>>

\* Mutation: the file is found not to be writable after it was truncated.
WriteFails_Truncated(c) ==
  /\ MayWrite(c) /\ ~writing[c] /\ file_fails < MaxFileFails
  /\ file_fails' = file_fails + 1
  /\ writes' = [writes EXCEPT ![c] = @ - 1] /\ unsaved' = unsaved \cup {c}
  /\ temp' = [temp EXCEPT ![c] = IF writes[c] = 1 THEN 0 ELSE @]
  /\ file' = [file EXCEPT ![UserOf[c]] = Torn]
  /\ UNCHANGED <<serverVars, netVars, sends, phase, config, writing,
                 rpc, now, history, kills>>

\* It cannot be opened: 1 is returned, and nobody looks at that.
WriteFails(c) ==
  /\ MayWrite(c) /\ ~writing[c] /\ file_fails < MaxFileFails
  /\ file_fails' = file_fails + 1
  /\ writes' = [writes EXCEPT ![c] = @ - 1] /\ unsaved' = unsaved \cup {c}
  /\ temp' = [temp EXCEPT ![c] = IF writes[c] = 1 THEN 0 ELSE @]
  /\ UNCHANGED <<serverVars, netVars, sends, phase, config, file, writing,
                 rpc, now, history, kills>>

\* It is written when it is closed, in full or not: the stream's state is not
\* looked at.  The last call is the destructor of temp.
WriteClose(c) ==
  /\ MayWrite(c) /\ writing[c]
  /\ \/ /\ file' = [file EXCEPT ![UserOf[c]] =
                      BeforeWrite(IF writes[c] = 1 THEN temp[c] ELSE config[c])]
        /\ unsaved' = unsaved \ {c} /\ cut' = cut \ {c}
        /\ UNCHANGED file_fails
     \/ /\ file_fails < MaxFileFails /\ file_fails' = file_fails + 1
        /\ unsaved' = unsaved \cup {c} /\ cut' = cut \cup {c}
        /\ UNCHANGED file
  /\ writing' = [writing EXCEPT ![c] = FALSE]
  /\ writes' = [writes EXCEPT ![c] = @ - 1]
  /\ temp' = [temp EXCEPT ![c] = IF writes[c] = 1 THEN 0 ELSE @]
  /\ UNCHANGED <<serverVars, netVars, sends, phase, config, rpc, now,
                 crowded, newest, kills>>
-----------------------------------------------------------------------------
(***************************************************************************)
(* A client's receiver thread: register_recv_config.                       *)
(***************************************************************************)

\* Mutation: the content is not checked.
RecvConfig_Unchecked(c) ==
  /\ phase[c] = "up" /\ rpc[c] = "recv"
  /\ \E s \in ConnsOf(c) :
       /\ wire[s] # <<>> /\ wire' = [wire EXCEPT ![s] = Tail(@)]
       /\ temp' = [temp EXCEPT ![c] = Head(wire[s]).content]
       /\ now' = [now EXCEPT ![c] = Head(wire[s]).nr]
  /\ rpc' = [rpc EXCEPT ![c] = "assign"]
  /\ UNCHANGED <<serverVars, server_up, alive, sends, phase, config, file, writes,
                 writing, unsaved, history, limits>>

\* Mutation: each message is given to a thread of its own.
RecvConfig_AnyOrder(c) ==
  /\ phase[c] = "up" /\ rpc[c] = "recv"
  /\ \E s \in ConnsOf(c) : \E i \in DOMAIN wire[s] :
       LET m == wire[s][i] IN
         /\ wire' = [wire EXCEPT ![s] = SelectSeq(@, LAMBDA x : x # m)]
         /\ IF m.content = Bad
              THEN UNCHANGED <<temp, now, rpc>>
              ELSE /\ temp' = [temp EXCEPT ![c] = m.content]
                   /\ now' = [now EXCEPT ![c] = m.nr]
                   /\ rpc' = [rpc EXCEPT ![c] = "assign"]
  /\ UNCHANGED <<serverVars, server_up, alive, sends, phase, config, file, writes,
                 writing, unsaved, history, limits>>

\* A message arrives and is parsed; one that does not parse is only logged.
RecvConfig(c) ==
  /\ phase[c] = "up" /\ rpc[c] = "recv"
  /\ \E s \in ConnsOf(c) :
       /\ wire[s] # <<>> /\ wire' = [wire EXCEPT ![s] = Tail(@)]
       /\ IF Head(wire[s]).content = Bad
            THEN UNCHANGED <<temp, now, rpc>>
            ELSE /\ temp' = [temp EXCEPT ![c] = Head(wire[s]).content]
                 /\ now' = [now EXCEPT ![c] = Head(wire[s]).nr]
                 /\ rpc' = [rpc EXCEPT ![c] = "assign"]
  /\ UNCHANGED <<serverVars, server_up, alive, sends, phase, config, file, writes,
                 writing, unsaved, history, limits>>

\* Mutation: the member and the parameter change places.
Assign_Swap(c) ==
  /\ phase[c] = "up" /\ rpc[c] = "assign"
  /\ config' = [config EXCEPT ![c] = temp[c]]
  /\ temp' = [temp EXCEPT ![c] = config[c]]
  /\ writes' = [writes EXCEPT ![c] = 2] /\ rpc' = [rpc EXCEPT ![c] = "save"]
  /\ newest' = [newest EXCEPT ![c] = IF now[c] > @ THEN now[c] ELSE @]
  /\ UNCHANGED <<serverVars, netVars, sends, phase, file, writing, now,
                 unsaved, crowded, cut, limits>>

\* set_config: the member is assigned what the message said, unconverted;
\* then it is written and the parameter destroyed.
Assign(c) ==
  /\ phase[c] = "up" /\ rpc[c] = "assign"
  /\ config' = [config EXCEPT ![c] = temp[c]]
  /\ writes' = [writes EXCEPT ![c] = 2] /\ rpc' = [rpc EXCEPT ![c] = "save"]
  /\ newest' = [newest EXCEPT ![c] = IF now[c] > @ THEN now[c] ELSE @]
  /\ UNCHANGED <<serverVars, netVars, sends, phase, file, temp, writing, now,
                 unsaved, crowded, cut, limits>>

\* "config ok" is sent, which the server prints.
Reply(c) ==
  /\ phase[c] = "up" /\ rpc[c] = "save" /\ writes[c] = 0
  /\ rpc' = [rpc EXCEPT ![c] = "recv"]
  /\ now' = [now EXCEPT ![c] = 0]
  /\ UNCHANGED <<serverVars, netVars, sends, phase, config, file, temp, writes,
                 writing, unsaved, history, limits>>
-----------------------------------------------------------------------------
\* The process is killed, or ends for any other reason.
Kill(c) ==
  /\ Running(c) /\ kills < MaxKills
  /\ kills' = kills + 1 /\ phase' = [phase EXCEPT ![c] = "down"]
  /\ writes' = [writes EXCEPT ![c] = 0] /\ writing' = [writing EXCEPT ![c] = FALSE]
  /\ config' = [config EXCEPT ![c] = 0] /\ temp' = [temp EXCEPT ![c] = 0]
  /\ rpc' = [rpc EXCEPT ![c] = "recv"] /\ now' = [now EXCEPT ![c] = 0]
  /\ cut' = IF writing[c] THEN cut \cup {c} ELSE cut
  /\ CutOff(ConnsOf(c))
  /\ UNCHANGED <<server_up, serverVars, sends, file, unsaved, crowded, newest,
                 file_fails>>

Break(s) ==
  /\ s \in alive /\ CutOff({s})
  /\ UNCHANGED <<server_up, serverVars, sends, clientVars, history, limits>>
-----------------------------------------------------------------------------
Server == \/ AddNewClient
          \/ \E t \in sends : SendMessage(t)

Client(c) == \/ ReadConfig(c) \/ StartReceiver(c) \/ Ignore(c) \/ Subscribe(c)
             \/ WriteOpen(c) \/ WriteFails(c) \/ WriteClose(c)
             \/ RecvConfig(c) \/ Assign(c) \/ Reply(c)

\* The input thread.
Administrator == \E id \in ConnIds : Command(id)

ConfigNext ==
  \/ Server \/ Administrator
  \/ \E c \in Clients : Client(c) \/ Accept(c) \/ Kill(c)
  \/ \E s \in alive : Break(s)

ConfigSpec == ConfigInit /\ [][ConfigNext]_uvars
-----------------------------------------------------------------------------
(***************************************************************************)
(* Properties                                                              *)
(***************************************************************************)

Idle(c) == phase[c] = "up" /\ rpc[c] = "recv"

\* Whenever a client waits for messages its file states the configuration
\* it runs with, unless the last write failed: the destructors of all the
\* Config values passed around never put an older one back.
FileIsCurrent ==
  \A c \in Clients :
    Idle(c) => FileOf(c) = BeforeWrite(config[c]) \/ c \in unsaved

\* Read back, the file means what the client runs with: a restart does not
\* change the thresholds.
FileMeansConfig ==
  \A c \in Clients \ unsaved : Idle(c) => AfterRead(FileOf(c)) = config[c]

\* A configuration only reaches another client than the one whose id the
\* administrator typed if that one's connection has ended and its port was
\* given to a client on the same host.
WrongClientOnlyByReuse ==
  \A s \in alive : \A i \in DOMAIN wire[s] :
    LET id == wire[s][i].id IN
      conns[s].client # conns[id].client => Address(s) = Address(id) /\ id \notin alive

\* A client only fails to start because the file it last opened for writing
\* was not written in full: it was killed in between, or the write failed, and
\* no later call of write_config has succeeded.  Failing opens, received
\* configurations that do not parse and the writes of the many destructors
\* leave a file that can be read, or that the next of them replaces.
FailsOnlyIfCut ==
  \A c \in Clients :
    phase[c] = "failed" \/ (FileOf(c) = Torn /\ ~writing[c]) => c \in cut

\* The server, which ends when it sends to a connection that has ended, does
\* not do so over a client that is still connected, unless an ended
\* connection had that client's address.
SurvivesLiveClients ==
  [][server_up /\ ~server_up' =>
       \E t \in sends :
         \/ t.msg.id \notin alive
         \/ \E s \in DOMAIN conns \ alive : Address(s) = Address(t.msg.id)]_uvars

\* A configuration typed earlier replaces one typed later only if the
\* threads sending them were waiting at the same time: breaks, restarts,
\* ids of earlier connections and slow clients do not reorder commands.
SetInOrder ==
  \A c \in Clients :
    rpc[c] = "assign" /\ now[c] < newest[c] => now[c] \in crowded
=============================================================================
