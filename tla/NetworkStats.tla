---------------------------- MODULE NetworkStats ----------------------------
(***************************************************************************)
(* How packets become a process's network usage                            *)
(* (src/client/network_processing.cpp and the parts of                     *)
(* ProcessTable::update_table around it, src/client/process_table.cpp).    *)
(* The two builds do it differently; a behaviour is one of either.         *)
(*                                                                         *)
(*  - On Linux a scan reads /proc/net/tcp, then each process's open files, *)
(*    makes a map from ports to pids of the two, and then looks up the     *)
(*    packets that libpcap has queued since the last scan.  libpcap        *)
(*    listens promiscuously: it has frames of other hosts, too.            *)
(*  - On Windows a trace thread adds each packet to a map by pid, which a  *)
(*    scan takes away under a mutex.  The counters of a process's I/O      *)
(*    include the network's, which is therefore subtracted.  Processes end *)
(*    there, and their pids are given to others.                           *)
(*                                                                         *)
(* A packet is a number, in order of arrival, and an amount of bytes the   *)
(* set of packets it consists of; an empty set is std::nullopt.  All have  *)
(* one byte, but those counted as 0.                                       *)
(***************************************************************************)
EXTENDS Integers, Sequences, FiniteSets

CONSTANTS
  Platforms,   \* the builds considered
  Pids, NoPid, \* NoPid: pid 0, for which a packet that is not decoded is counted
  Ports, NoPort,
  Ips, AnyIp,  \* local addresses; INADDR_ANY, of a socket that listens
  LongInodes,  \* inodes of eight digits or more
  MaxSockets,  \* bound: sockets opened in a behaviour
  MaxPackets,  \* bound: packets in a behaviour
  MaxBoth,     \* bound: sockets and packets, together
  MaxDisk,     \* bound: bytes read from and written to disk in a behaviour
  TracedPids,  \* bound: pids given to processes on Windows
  W            \* the unsigned type's size

ASSUME NetworkAssumption ==
  /\ Platforms \subseteq {"linux", "windows"}
  /\ NoPid \notin Pids /\ NoPort \notin Ports /\ AnyIp \notin Ips
  /\ TracedPids \subseteq Pids
  /\ MaxSockets \in Nat /\ MaxPackets \in Nat /\ MaxDisk \in Nat
  /\ W \in Nat /\ W > MaxPackets + MaxDisk

VARIABLES
  platform,
  \* the system
  socks,       \* sockets so far, an index being an inode
  fds,         \* those a process has open
  running,     \* Windows: the processes there are
  packets,     \* packets so far
  queue,       \* packets libpcap, or the trace session, has not yet handed over
  io, disk,    \* Windows: bytes of a process's I/O, and those of its disk I/O
  \* network_processing
  tracing,     \* Windows: the trace thread
  in_hand,     \* Windows: the packet decoded in OnEvent
  usage,       \* pid_network_map, pid_network_stat_map
  \* update_table
  pc, todo, inode_list_all, port_to_pid_map, local_ip,
  listed,      \* Windows: list_pids
  taken,       \* Windows: pid_network_usage
  last,        \* Windows: last_stat_table
  stat,        \* stat_table: the network usage
  \* history
  had,         \* sockets a process has or had open
  reborn,      \* pids whose process was given them while update_table, or the
               \* trace, still had something of the one before
  before,      \* the packets there were when a process started
  stale,       \* pids whose stat is of an earlier scan
  shown,       \* Windows: disk usage reported so far, and what it was of
  gone,        \* packets a scan has taken, or found no process for
  logged       \* packets generate_log has seen

sockVars  == <<platform, socks, fds, had>>
procVars  == <<running, reborn, before>>
loadVars  == <<packets, io, disk>>
traceVars == <<tracing, in_hand>>
mapVars   == <<inode_list_all, port_to_pid_map, local_ip>>
tableVars == <<last, stat, stale, shown>>
nvars == <<sockVars, procVars, loadVars, queue, traceVars, usage, pc, todo, mapVars,
           listed, taken, tableVars, gone, logged>>

Dirs      == {"recv", "send"}
None      == 0  \* no packet
AllPids   == Pids \cup {NoPid}
Amount    == [Dirs -> SUBSET (1 .. MaxPackets)]     \* NetworkStat
NoUsage   == [d \in Dirs |-> {}]
Nothing   == [q \in AllPids |-> NoUsage]
Zero      == [d \in Dirs |-> 0]
MostBytes == MaxPackets + MaxDisk
Bytes     == [Dirs -> 0 .. MostBytes]
Socket    == [port : Ports, ip : Ips \cup {AnyIp}, tcp : BOOLEAN]
Kinds     == Dirs \cup {"other", "ipv6"}
Foreign   == [pid : {NoPid}, sock : {0}, rport : Ports, kind : {"foreign"}]
Packet    == [pid : Pids, sock : 0 .. MaxSockets, rport : Ports \cup {NoPort}, kind : Kinds]
               \cup Foreign

NetworkTypeOK ==
  /\ platform \in Platforms
  /\ socks \in Seq(Socket)
  /\ fds \in [Pids -> SUBSET DOMAIN socks] /\ had \in [Pids -> SUBSET DOMAIN socks]
  /\ running \subseteq TracedPids /\ reborn \subseteq TracedPids
  /\ before \in [Pids -> 0 .. Len(packets)]
  /\ packets \in Seq(Packet) /\ queue \in Seq(DOMAIN packets)
  /\ io \in [Pids -> Bytes] /\ disk \in [Pids -> Bytes]
  /\ tracing \in {"starting", "on", "off"} /\ in_hand \in {None} \cup DOMAIN packets
  /\ usage \in [AllPids -> Amount] /\ taken \in [AllPids -> Amount]
  /\ pc \in {"setup", "idle", "fds", "drain", "list", "table", "report", "ended"}
  /\ todo \subseteq Pids /\ listed \subseteq TracedPids /\ inode_list_all \subseteq DOMAIN socks
  /\ DOMAIN port_to_pid_map \subseteq Ports
  /\ port_to_pid_map \in [DOMAIN port_to_pid_map -> Pids]
  /\ local_ip \in Ips \cup {AnyIp}
  /\ last \in [Pids -> Bytes] /\ stat \in [Pids -> Amount] /\ stale \subseteq Pids
  /\ shown \in [Pids -> [of : Bytes, sum : Bytes]]
  /\ gone \subseteq DOMAIN packets /\ logged \subseteq DOMAIN packets

NetworkInit ==
  /\ platform \in Platforms
  /\ socks = <<>> /\ packets = <<>> /\ queue = <<>>
  /\ fds = [q \in Pids |-> {}] /\ had = [q \in Pids |-> {}]
  /\ running = TracedPids /\ reborn = {} /\ before = [q \in Pids |-> 0]
  /\ io = [q \in Pids |-> Zero] /\ disk = [q \in Pids |-> Zero]
  /\ tracing = "starting" /\ in_hand = None
  /\ usage = Nothing /\ taken = Nothing
  /\ pc = "setup" /\ todo = {} /\ listed = {}
  /\ inode_list_all = {} /\ port_to_pid_map = <<>> /\ local_ip = AnyIp
  /\ last = [q \in Pids |-> Zero] /\ stat = [q \in Pids |-> NoUsage]
  /\ stale = {} /\ shown = [q \in Pids |-> [of |-> Zero, sum |-> Zero]]
  /\ gone = {} /\ logged = {}

\* network_stat.network_x = network_stat.network_x.value_or(0) + size
Add(q, d, p) == usage' = [usage EXCEPT ![q][d] = @ \cup {p}]

PacketsOf(u, S) == UNION {u[q][d] : q \in S, d \in Dirs}

Least(a, b) == IF a < b THEN a ELSE b
-----------------------------------------------------------------------------
(***************************************************************************)
(* Linux: the system's sockets and packets.                                *)
(***************************************************************************)

open == UNION {fds[q] : q \in Pids}

OpenSocket(q, s) ==
  /\ platform = "linux" /\ Len(socks) < MaxSockets /\ Len(socks) + Len(packets) < MaxBoth
  /\ s.ip = AnyIp => s.tcp
  /\ \A i \in open : <<socks[i].port, socks[i].ip, socks[i].tcp>> # <<s.port, s.ip, s.tcp>>
  /\ socks' = Append(socks, s)
  /\ fds' = [fds EXCEPT ![q] = @ \cup {Len(socks')}]
  /\ had' = [had EXCEPT ![q] = @ \cup {Len(socks')}]
  /\ UNCHANGED <<platform, procVars, loadVars, queue, traceVars, usage, pc, todo, mapVars,
                 listed, taken, tableVars, gone, logged>>

\* r is forked by q, or passed the socket by it.
Inherit(q, r, i) ==
  /\ i \in fds[q] \ fds[r]
  /\ fds' = [fds EXCEPT ![r] = @ \cup {i}] /\ had' = [had EXCEPT ![r] = @ \cup {i}]
  /\ UNCHANGED <<platform, socks, procVars, loadVars, queue, traceVars, usage, pc, todo,
                 mapVars, listed, taken, tableVars, gone, logged>>

\* q closes a socket, or ends.
CloseSocket(q, i) ==
  /\ i \in fds[q] /\ fds' = [fds EXCEPT ![q] = @ \ {i}]
  /\ UNCHANGED <<platform, socks, had, procVars, loadVars, queue, traceVars, usage, pc,
                 todo, mapVars, listed, taken, tableVars, gone, logged>>

Arrive(k) ==
  /\ Len(packets) < MaxPackets /\ Len(socks) + Len(packets) < MaxBoth
  /\ pc \notin {"setup", "ended"}
  /\ packets' = Append(packets, k) /\ queue' = Append(queue, Len(packets'))
  /\ UNCHANGED <<sockVars, procVars, io, disk, traceVars, usage, pc, todo, mapVars,
                 listed, taken, tableVars, gone, logged>>

\* A packet that q sends or receives reaches libpcap's buffer...
Capture(q, i, d, rport) ==
  /\ i \in fds[q] /\ socks[i].ip # AnyIp
  /\ Arrive([pid |-> q, sock |-> i, rport |-> rport, kind |-> d])

\* ... or one that another host has sent to a third one, to the port rport.
Overhear(rport) ==
  /\ platform = "linux"
  /\ Arrive([pid |-> NoPid, sock |-> 0, rport |-> rport, kind |-> "foreign"])
-----------------------------------------------------------------------------
(***************************************************************************)
(* Linux: setup_network and a scan.                                        *)
(***************************************************************************)

\* If the device cannot be opened the null handle is used nevertheless.
SetupCapture ==
  /\ platform = "linux" /\ pc = "setup" /\ pc' \in {"idle", "ended"}
  /\ UNCHANGED <<sockVars, procVars, loadVars, queue, traceVars, usage, todo, mapVars,
                 listed, taken, tableVars, gone, logged>>

\* parse_net_tcp.  Sockets of the loopback interface are left out of the model.
ReadNetTcp ==
  /\ platform = "linux" /\ pc = "idle" /\ pc' = "fds"
  /\ inode_list_all' = {i \in open : socks[i].tcp} /\ todo' = Pids
  /\ UNCHANGED <<sockVars, procVars, loadVars, queue, traceVars, usage, port_to_pid_map,
                 local_ip, listed, taken, tableVars, gone, logged>>

\* The inodes get_socket_inode_list returns that are in the list: those it can
\* read.  parse_socket_inode passes from_chars an end nine characters short:
\* of eight digits it reads none and returns an uninitialized number, of more
\* it reads the first few.
Found(q) ==
  {F \in SUBSET inode_list_all :
     Cardinality(F \ (fds[q] \ LongInodes)) =< Cardinality(fds[q] \cap LongInodes)}

\* One turn of the loop over pids; a later pid replaces an earlier one, as that
\* of a process that has inherited the socket does.
ReadFds(q) ==
  /\ pc = "fds" /\ q \in todo /\ todo' = todo \ {q}
  /\ \E F \in Found(q) :
       LET ports == {socks[i].port : i \in F}
       IN port_to_pid_map' = [x \in DOMAIN port_to_pid_map \cup ports |->
                                IF x \in ports THEN q ELSE port_to_pid_map[x]]
  /\ UNCHANGED <<sockVars, procVars, loadVars, queue, traceVars, usage, pc,
                 inode_list_all, local_ip, listed, taken, tableVars, gone, logged>>

\* local_ip is the address of the first socket in the order of a hash table;
\* if there is none, a null pointer is followed.
ChooseIp ==
  /\ pc = "fds" /\ todo = {} /\ inode_list_all' = {}
  /\ \/ inode_list_all = {} /\ pc' = "ended" /\ UNCHANGED local_ip
     \/ \E i \in inode_list_all : local_ip' = socks[i].ip /\ pc' = "drain"
  /\ UNCHANGED <<sockVars, procVars, loadVars, queue, traceVars, usage, todo,
                 port_to_pid_map, listed, taken, tableVars, gone, logged>>

\* Mutation: an outgoing packet is looked up by its destination.
LookupPort_Swapped(k) ==
  IF k.kind \in {"foreign", "send"} THEN k.rport ELSE socks[k.sock].port

\* The port a packet is looked up by: its source port if its source address is
\* local_ip, otherwise its destination port, which is another host's port if
\* the packet is sent from another local address, or by another host to a third.
LookupPort(k) ==
  IF k.kind = "foreign" \/ (k.kind = "send" /\ socks[k.sock].ip # local_ip)
    THEN k.rport ELSE socks[k.sock].port

Outgoing(k) == k.kind = "send" /\ socks[k.sock].ip = local_ip

\* One turn of process_packets.
ProcessPacket ==
  /\ pc = "drain" /\ queue # <<>> /\ queue' = Tail(queue)
  /\ LET p    == Head(queue)
         k    == packets[p]
         port == LookupPort(k)
     IN IF (k.kind = "foreign" \/ socks[k.sock].tcp) /\ port \in DOMAIN port_to_pid_map
          THEN /\ Add(port_to_pid_map[port], IF Outgoing(k) THEN "send" ELSE "recv", p)
               /\ UNCHANGED gone
          ELSE gone' = gone \cup {p} /\ UNCHANGED usage
  /\ UNCHANGED <<sockVars, procVars, loadVars, traceVars, pc, todo, mapVars, listed, taken,
                 tableVars, logged>>

\* pcap_next has no more.  The usage of the processes that can be read is put
\* in the table, the others are erased.
FillTable ==
  /\ pc = "drain" /\ queue = <<>> /\ pc' = "report"
  /\ \E ok \in SUBSET Pids :
       stat' = [q \in Pids |-> IF q \in ok THEN usage[q] ELSE NoUsage]
  /\ gone' = gone \cup PacketsOf(usage, Pids)
  /\ usage' = Nothing /\ port_to_pid_map' = <<>>
  /\ UNCHANGED <<sockVars, procVars, loadVars, queue, traceVars, todo, inode_list_all,
                 local_ip, listed, taken, last, stale, shown, logged>>
-----------------------------------------------------------------------------
(***************************************************************************)
(* Windows: the system and the trace thread.                               *)
(***************************************************************************)

\* setup_network starts the thread; start_trace may give up.
StartTrace ==
  /\ platform = "windows" /\ pc # "setup"
  /\ tracing = "starting" /\ tracing' \in {"on", "off"}
  /\ UNCHANGED <<sockVars, procVars, loadVars, queue, in_hand, usage, pc, todo, mapVars,
                 listed, taken, tableVars, gone, logged>>

SetupTrace ==
  /\ platform = "windows" /\ pc = "setup" /\ pc' = "idle"
  /\ UNCHANGED <<sockVars, procVars, loadVars, queue, traceVars, usage, todo, mapVars,
                 listed, taken, tableVars, gone, logged>>

\* A process sends or receives, which its I/O counters include before the
\* session hands the event over; or the session reports something else about a
\* connection, which is no I/O.
NetIo(q, kind, d) ==
  /\ platform = "windows" /\ tracing = "on" /\ Len(packets) < MaxPackets
  /\ q \in running /\ (kind \in Dirs => kind = d)
  /\ packets' = Append(packets, [pid |-> q, sock |-> 0, rport |-> NoPort, kind |-> kind])
  /\ queue' = Append(queue, Len(packets'))
  /\ io' = IF kind = "other" THEN io ELSE [io EXCEPT ![q][d] = @ + 1]
  /\ UNCHANGED <<sockVars, procVars, disk, traceVars, usage, pc, todo, mapVars, listed,
                 taken, tableVars, gone, logged>>

DiskIo(q, d) ==
  /\ platform = "windows" /\ q \in running
  /\ Cardinality({x \in Pids \X Dirs : disk[x[1]][x[2]] > 0}) < MaxDisk
  /\ disk[q][d] = 0
  /\ disk' = [disk EXCEPT ![q][d] = 1] /\ io' = [io EXCEPT ![q][d] = @ + 1]
  /\ UNCHANGED <<sockVars, procVars, packets, queue, traceVars, usage, pc, todo, mapVars,
                 listed, taken, tableVars, gone, logged>>

EndProcess(q) ==
  /\ platform = "windows" /\ q \in running /\ running' = running \ {q}
  /\ UNCHANGED <<sockVars, reborn, before, loadVars, queue, traceVars, usage, pc, todo,
                 mapVars, listed, taken, tableVars, gone, logged>>

\* Something of the process that had the pid before has not been dealt with:
\* its counters, or packets of it.
Remains(q) ==
  \/ last[q] # Zero \/ taken[q] # NoUsage
  \/ \E p \in DOMAIN packets \ gone : packets[p].pid = q

\* The pid of a process that has ended is given to another, whose counters
\* start anew.
StartProcess(q) ==
  /\ platform = "windows" /\ q \notin running /\ running' = running \cup {q}
  /\ io' = [io EXCEPT ![q] = Zero] /\ disk' = [disk EXCEPT ![q] = Zero]
  /\ shown' = [shown EXCEPT ![q] = [of |-> Zero, sum |-> Zero]]
  /\ before' = [before EXCEPT ![q] = Len(packets)]
  /\ reborn' = IF Remains(q) THEN reborn \cup {q} ELSE reborn \ {q}
  /\ UNCHANGED <<sockVars, packets, queue, traceVars, usage, pc, todo, mapVars, listed,
                 taken, last, stat, stale, gone, logged>>

\* get_network_packet, before the mutex is taken.
Decode ==
  /\ platform = "windows" /\ in_hand = None /\ queue # <<>>
  /\ in_hand' = Head(queue) /\ queue' = Tail(queue)
  /\ UNCHANGED <<sockVars, procVars, loadVars, tracing, usage, pc, todo, mapVars,
                 listed, taken, tableVars, gone, logged>>

\* The rest of OnEvent, with the mutex held.  An event that is not IPv4 has
\* the defaults of NetworkPacketInfo; one that is neither "sent" nor
\* "received" is not a received one.
OnEvent ==
  /\ in_hand # None /\ in_hand' = None
  /\ LET e == packets[in_hand] IN
       Add(IF e.kind = "ipv6" THEN NoPid ELSE e.pid,
           IF e.kind = "recv" THEN "recv" ELSE "send", in_hand)
  /\ UNCHANGED <<sockVars, procVars, loadVars, queue, tracing, pc, todo, mapVars,
                 listed, taken, tableVars, gone, logged>>
-----------------------------------------------------------------------------
(***************************************************************************)
(* Windows: a scan.                                                        *)
(***************************************************************************)

\* get_list_pids.
ListPids ==
  /\ platform = "windows" /\ pc = "idle" /\ pc' = "list"
  /\ listed' = running /\ todo' = running
  /\ UNCHANGED <<sockVars, procVars, loadVars, queue, traceVars, usage, mapVars, taken,
                 tableVars, gone, logged>>

\* Mutation: the map is copied and not cleared.
TakeAway_Copies ==
  /\ pc = "list" /\ pc' = "table" /\ taken' = usage
  /\ gone' = gone \cup PacketsOf(usage, AllPids)
  /\ UNCHANGED <<sockVars, procVars, loadVars, queue, traceVars, usage, todo, mapVars,
                 listed, tableVars, logged>>

\* get_pid_network_stat, with the mutex held.
TakeAway ==
  /\ pc = "list" /\ pc' = "table" /\ taken' = usage /\ usage' = Nothing
  /\ gone' = gone \cup PacketsOf(usage, AllPids)
  /\ UNCHANGED <<sockVars, procVars, loadVars, queue, traceVars, todo, mapVars, listed,
                 tableVars, logged>>

\* Bytes of packets; those not decoded have size 0.
Size(P) == Cardinality({p \in P : packets[p].kind # "ipv6"})

\* Unsigned subtraction: the counters of a process are less than those read
\* last if another process had the pid then.
Minus(a, b) == IF b =< a THEN a - b ELSE W + a - b

\* Mutation: the network's bytes are subtracted as they are.
DiskDelta_NoMin(q, d) == Minus(io[q][d], last[q][d]) - Size(taken[q][d])

\* What was read or written, less what the network has received or sent.
DiskDelta(q, d) ==
  LET delta == Minus(io[q][d], last[q][d]) IN delta - Least(delta, Size(taken[q][d]))

\* Mutation: last_stat_table is updated for a process that is not opened too.
ReadProcess_LastOfAll(q) ==
  /\ pc = "table" /\ q \in todo /\ todo' = todo \ {q}
  /\ last' = [last EXCEPT ![q] = io[q]]
  /\ \/ stale' = stale \cup {q} /\ UNCHANGED <<stat, shown>>
     \/ /\ q \in running
        /\ stale' = stale \ {q} /\ stat' = [stat EXCEPT ![q] = taken[q]]
        /\ shown' = [shown EXCEPT ![q] = [of |-> disk[q],
             sum |-> [d \in Dirs |-> Least(@.sum[d] + DiskDelta(q, d), MostBytes)]]]
  /\ UNCHANGED <<sockVars, procVars, loadVars, queue, traceVars, usage, pc, mapVars, listed,
                 taken, gone, logged>>

\* One process of the list.  If it cannot be opened, as when it has ended, its
\* entry stays as the last scan left it, and is "seen" all the same.  If its
\* counters cannot be read it has no disk usage and the next scan subtracts
\* nothing.
ReadProcess(q) ==
  /\ pc = "table" /\ q \in todo /\ todo' = todo \ {q}
  /\ \/ stale' = stale \cup {q} /\ UNCHANGED <<last, stat, shown>>
     \/ /\ q \in running
        /\ stale' = stale \ {q} /\ stat' = [stat EXCEPT ![q] = taken[q]]
        /\ \/ last' = [last EXCEPT ![q] = Zero] /\ UNCHANGED shown
           \/ /\ last' = [last EXCEPT ![q] = io[q]]
              /\ shown' = [shown EXCEPT ![q] = [of |-> disk[q],
                   sum |-> [d \in Dirs |-> Least(@.sum[d] + DiskDelta(q, d), MostBytes)]]]
  /\ UNCHANGED <<sockVars, procVars, loadVars, queue, traceVars, usage, pc, mapVars, listed,
                 taken, gone, logged>>

\* Mutation: the entries of processes that are not listed are kept.
TableDone_KeepsAll ==
  /\ pc = "table" /\ todo = {} /\ pc' = "report" /\ taken' = Nothing /\ listed' = {}
  /\ UNCHANGED <<sockVars, procVars, loadVars, queue, traceVars, usage, todo, mapVars,
                 tableVars, gone, logged>>

\* The entries of processes that are not listed are erased.
TableDone ==
  /\ pc = "table" /\ todo = {} /\ pc' = "report" /\ taken' = Nothing /\ listed' = {}
  /\ last' = [q \in Pids |-> IF q \in listed THEN last[q] ELSE Zero]
  /\ stat' = [q \in Pids |-> IF q \in listed THEN stat[q] ELSE NoUsage]
  /\ stale' = stale \cap listed
  /\ UNCHANGED <<sockVars, procVars, loadVars, queue, traceVars, usage, todo, mapVars,
                 shown, gone, logged>>
-----------------------------------------------------------------------------
\* generate_log looks at the table.  On Linux the next scan replaces or erases
\* every entry, so they are forgotten here.
GenerateLog ==
  /\ pc = "report" /\ pc' = "idle" /\ local_ip' = AnyIp
  /\ logged' = logged \cup PacketsOf(stat, Pids)
  /\ stat' = IF platform = "linux" THEN [q \in Pids |-> NoUsage] ELSE stat
  /\ UNCHANGED <<sockVars, procVars, loadVars, queue, traceVars, usage, todo,
                 inode_list_all, port_to_pid_map, listed, taken, last, stale, shown, gone>>

System ==
  \/ \E q \in Pids, s \in Socket : OpenSocket(q, s)
  \/ \E q, r \in Pids : \E i \in fds[q] : Inherit(q, r, i)
  \/ \E q \in Pids : \E i \in fds[q] :
       CloseSocket(q, i) \/ \E d \in Dirs, rport \in Ports : Capture(q, i, d, rport)
  \/ \E rport \in Ports : Overhear(rport)
  \/ \E q \in TracedPids : EndProcess(q) \/ StartProcess(q)
  \/ \E q \in TracedPids, d \in Dirs : DiskIo(q, d) \/ \E kind \in Kinds : NetIo(q, kind, d)

Scan ==
  \/ SetupCapture \/ ReadNetTcp \/ ChooseIp \/ ProcessPacket \/ FillTable
  \/ SetupTrace \/ ListPids \/ TakeAway \/ TableDone \/ GenerateLog
  \/ \E q \in todo : ReadFds(q) \/ ReadProcess(q)

Trace == StartTrace \/ Decode \/ OnEvent

NetworkNext == System \/ Scan \/ Trace

NetworkSpec == NetworkInit /\ [][NetworkNext]_nvars
-----------------------------------------------------------------------------
(***************************************************************************)
(* Properties                                                              *)
(***************************************************************************)

\* The places a packet is in: waiting, decoded, counted for a pid in a
\* direction, or done with.
Places(p) ==
  {<<"queue", i>> : i \in {j \in DOMAIN queue : queue[j] = p}}
    \cup {<<"hand", x>> : x \in {in_hand} \cap {p}}
    \cup {<<"gone", x>> : x \in gone \cap {p}}
    \cup {<<"usage", x>> : x \in {y \in AllPids \X Dirs : p \in usage[y[1]][y[2]]}}

\* Each packet is at any time counted once: the trace thread that adds and
\* the scan that takes away lose none and double none, and neither does a
\* scan that looks packets up while more arrive (OnEvent,
\* get_pid_network_stat, process_packets).
EachPacketOnce == \A p \in DOMAIN packets : Cardinality(Places(p)) = 1

\* generate_log sees no packet it has seen in an earlier scan, unless it is
\* in an entry that the last scan has not renewed, because its process could
\* not be opened any more.
NoPacketLoggedTwice ==
  pc = "report" => PacketsOf(stat, Pids \ stale) \cap logged = {}

\* On Linux a packet is accounted to the process that sent or received it, in
\* the right direction, unless another TCP socket has or had its port, or
\* another process has or had its socket, or the process it is accounted to
\* has or had a socket with a long inode, or it was sent from an address other
\* than the one chosen as the machine's.  One that other hosts exchange is only
\* accounted as received, by a process that has or had a socket with the port it
\* was sent to (update_table, process_packets).
ChargedRight ==
  platform = "linux" /\ pc = "report" =>
    \A q \in Pids, d \in Dirs : \A p \in stat[q][d] :
      LET k == packets[p] IN
        \/ q = k.pid /\ d = k.kind
        \/ had[q] \cap LongInodes # {}
        \/ /\ k.kind = "foreign" /\ d = "recv"
           /\ \E i \in had[q] : socks[i].tcp /\ socks[i].port = k.rport
        \/ /\ k.kind # "foreign"
           /\ \/ \E i \in DOMAIN socks \ {k.sock} :
                   socks[i].tcp /\ socks[i].port = socks[k.sock].port
              \/ \E r \in Pids \ {k.pid} : k.sock \in had[r]
              \/ k.kind = "send" /\ socks[k.sock].ip # local_ip

\* On Windows the disk usage reported for a process so far is never less than
\* what it had read and written on disk, but for the events that were counted
\* as sent and were not: subtracting the network's bytes a scan later than the
\* process's counters had them never makes up for disk.  Unless the process
\* was given the pid of one that ended after the last whole scan, or whose
\* packets were still under way: then that one's counters and packets are
\* subtracted from its own (update_table).
DiskNotUnderReported ==
  \A q \in Pids \ reborn, d \in Dirs :
    shown[q].sum[d] + Cardinality({p \in DOMAIN packets :
                                     /\ packets[p].pid = q /\ p > before[q]
                                     /\ d = "send" /\ packets[p].kind = "other"})
      >= shown[q].of[d]
=============================================================================
