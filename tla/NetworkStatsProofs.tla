-------------------------- MODULE NetworkStatsProofs --------------------------
(***************************************************************************)
(* Proofs about NetworkStats, for both builds and any number of processes, *)
(* ports, addresses, sockets and packets.                                  *)
(***************************************************************************)
EXTENDS NetworkStats, FiniteSetTheorems, TLAPS

LEMMA Bounds ==
  /\ MaxSockets \in Nat /\ MaxPackets \in Nat /\ MaxDisk \in Nat
  /\ MostBytes \in Nat /\ Zero \in Bytes /\ NoUsage \in Amount
  /\ Nothing \in [AllPids -> Amount]
<1>1. MaxSockets \in Nat /\ MaxPackets \in Nat /\ MaxDisk \in Nat
  BY NetworkAssumption
<1>2. MostBytes \in Nat
  BY <1>1 DEF MostBytes
<1>3. NoUsage \in Amount
  BY DEF NoUsage, Amount
<1> QED
  BY <1>1, <1>2, <1>3 DEF Zero, Bytes, Nothing

LEMMA Elements ==
  ASSUME NEW T, NEW s \in Seq(T)
  PROVE  /\ Len(s) \in Nat /\ DOMAIN s = 1 .. Len(s)
         /\ \A i \in DOMAIN s : s[i] \in T /\ i \in Nat
OBVIOUS

\* What appending does to a sequence.
LEMMA Appending ==
  ASSUME NEW T, NEW s \in Seq(T), NEW e \in T
  PROVE  /\ Append(s, e) \in Seq(T) /\ Len(Append(s, e)) = Len(s) + 1
         /\ DOMAIN Append(s, e) = DOMAIN s \cup {Len(s) + 1}
         /\ Len(s) + 1 \notin DOMAIN s /\ Len(s) \in Nat
         /\ \A i \in DOMAIN s : Append(s, e)[i] = s[i]
         /\ Append(s, e)[Len(s) + 1] = e
OBVIOUS

\* What taking the first does.
LEMMA Taking ==
  ASSUME NEW T, NEW s \in Seq(T), s # <<>>
  PROVE  /\ Tail(s) \in Seq(T) /\ Head(s) \in T /\ Head(s) = s[1] /\ 1 \in DOMAIN s
         /\ \A i \in DOMAIN Tail(s) :
              i + 1 \in DOMAIN s /\ Tail(s)[i] = s[i + 1] /\ i \in Nat /\ i + 1 # 1
         /\ \A i \in DOMAIN s : i # 1 => i - 1 \in DOMAIN Tail(s) /\ Tail(s)[i - 1] = s[i]
OBVIOUS

LEMMA Widen ==
  ASSUME NEW S, NEW T, S \subseteq T, NEW s \in Seq(S)
  PROVE  s \in Seq(T)
OBVIOUS

\* A packet is added to one set of the map.
LEMMA Adding ==
  ASSUME usage \in [AllPids -> Amount], NEW q \in AllPids, NEW d \in Dirs,
         NEW p \in 1 .. MaxPackets, Add(q, d, p)
  PROVE  /\ usage' \in [AllPids -> Amount]
         /\ usage'[q][d] = usage[q][d] \cup {p}
         /\ \A r \in AllPids, e \in Dirs : r # q \/ e # d => usage'[r][e] = usage[r][e]
<1>1. usage' = [usage EXCEPT ![q] = [usage[q] EXCEPT ![d] = usage[q][d] \cup {p}]]
  BY DEF Add
<1>2. usage[q] \in [Dirs -> SUBSET (1 .. MaxPackets)]
  BY DEF Amount
<1>3. [usage[q] EXCEPT ![d] = usage[q][d] \cup {p}] \in Amount
  BY <1>2 DEF Amount
<1>4. usage' \in [AllPids -> Amount]
  BY <1>1, <1>3
<1>5. usage'[q] = [usage[q] EXCEPT ![d] = usage[q][d] \cup {p}]
  BY <1>1
<1>6. \A r \in AllPids : r # q => usage'[r] = usage[r]
  BY <1>1
<1> QED
  BY <1>2, <1>4, <1>5, <1>6
-----------------------------------------------------------------------------
(***************************************************************************)
(* Types and bounds.                                                       *)
(***************************************************************************)

\* What has been read from or written to disk.
DiskUsers == {x \in Pids \X Dirs : disk[x[1]][x[2]] > 0}

\* There are as many sockets and packets as may be, and no more bytes of I/O
\* than packets and disk accesses.
BoundInv ==
  /\ Len(socks) <= MaxSockets /\ Len(packets) <= MaxPackets
  /\ IsFiniteSet(DiskUsers)
  /\ \A q \in Pids, d \in Dirs :
       disk[q][d] <= MaxDisk /\ io[q][d] <= Len(packets) + disk[q][d]

\* Only packets there are have been counted.
CountedInv == \A q \in AllPids, d \in Dirs : usage[q][d] \subseteq DOMAIN packets

TypeInv == NetworkTypeOK /\ BoundInv /\ CountedInv

\* What is reported, and what will be, has been taken.
GoneInv ==
  /\ logged \subseteq gone
  /\ \A q \in Pids, d \in Dirs : stat[q][d] \subseteq gone
  /\ \A q \in AllPids, d \in Dirs : taken[q][d] \subseteq gone

LEMMA TypeFacts ==
  ASSUME TypeInv
  PROVE  /\ Len(socks) \in Nat /\ DOMAIN socks = 1 .. Len(socks)
         /\ DOMAIN socks \subseteq 0 .. MaxSockets
         /\ \A i \in DOMAIN socks : socks[i] \in Socket
         /\ Len(packets) \in Nat /\ DOMAIN packets = 1 .. Len(packets)
         /\ DOMAIN packets \subseteq 1 .. MaxPackets
         /\ \A p \in DOMAIN packets : packets[p] \in Packet
         /\ \A q \in Pids, d \in Dirs : /\ io[q][d] \in Nat /\ disk[q][d] \in Nat
                                        /\ last[q][d] \in Nat
<1>1. /\ Len(socks) \in Nat /\ DOMAIN socks = 1 .. Len(socks)
      /\ \A i \in DOMAIN socks : socks[i] \in Socket
  BY Elements DEF TypeInv, NetworkTypeOK
<1>2. /\ Len(packets) \in Nat /\ DOMAIN packets = 1 .. Len(packets)
      /\ \A p \in DOMAIN packets : packets[p] \in Packet
  BY Elements DEF TypeInv, NetworkTypeOK
<1>3. DOMAIN socks \subseteq 0 .. MaxSockets /\ DOMAIN packets \subseteq 1 .. MaxPackets
  BY <1>1, <1>2, Bounds DEF TypeInv, BoundInv
<1>4. ASSUME NEW f \in [Pids -> Bytes], NEW q \in Pids, NEW d \in Dirs PROVE f[q][d] \in Nat
  <2>1. f[q] \in [Dirs -> 0 .. MostBytes]
    BY DEF Bytes
  <2>2. f[q][d] \in 0 .. MostBytes
    BY <2>1
  <2> QED
    BY <2>2
<1>5. \A q \in Pids, d \in Dirs : io[q][d] \in Nat /\ disk[q][d] \in Nat /\ last[q][d] \in Nat
  BY <1>4 DEF TypeInv, NetworkTypeOK
<1> QED
  BY <1>1, <1>2, <1>3, <1>5

LEMMA BoundsKept ==
  ASSUME TypeInv, UNCHANGED <<socks, packets, io, disk>>
  PROVE  BoundInv'
BY DEF TypeInv, BoundInv, DiskUsers

LEMMA CountedKept ==
  ASSUME TypeInv, usage' = usage, DOMAIN packets \subseteq DOMAIN packets'
  PROVE  CountedInv'
BY DEF TypeInv, CountedInv

LEMMA AddCounted ==
  ASSUME TypeInv, NEW q \in AllPids, NEW d \in Dirs, NEW p \in DOMAIN packets, Add(q, d, p),
         packets' = packets
  PROVE  CountedInv'
<1>1. p \in 1 .. MaxPackets /\ usage \in [AllPids -> Amount]
  BY TypeFacts DEF TypeInv, NetworkTypeOK
<1> QED
  BY <1>1, Adding DEF TypeInv, CountedInv

\* What a packet that libpcap hears of is.
Heard(k) ==
  \/ \E q \in Pids : \E i \in fds[q] : \E d \in Dirs, rport \in Ports :
       k = [pid |-> q, sock |-> i, rport |-> rport, kind |-> d]
  \/ \E rport \in Ports : k = [pid |-> NoPid, sock |-> 0, rport |-> rport, kind |-> "foreign"]

LEMMA Hearing ==
  ASSUME TypeInv, NEW k, Heard(k)
  PROVE  /\ k \in Packet
         /\ \/ k.pid \in Pids /\ k.sock \in fds[k.pid] /\ k.kind \in Dirs
            \/ k.kind = "foreign" /\ k.rport \in Ports
<1>1. ASSUME NEW q \in Pids, NEW i \in fds[q], NEW d \in Dirs, NEW rport \in Ports,
             k = [pid |-> q, sock |-> i, rport |-> rport, kind |-> d]
      PROVE  k \in Packet /\ k.pid \in Pids /\ k.sock \in fds[k.pid] /\ k.kind \in Dirs
  <2>1. fds[q] \subseteq DOMAIN socks
    BY DEF TypeInv, NetworkTypeOK
  <2>2. i \in 0 .. MaxSockets
    BY <2>1, TypeFacts
  <2> QED
    BY <1>1, <2>2 DEF Packet, Kinds
<1>2. ASSUME NEW rport \in Ports,
             k = [pid |-> NoPid, sock |-> 0, rport |-> rport, kind |-> "foreign"]
      PROVE  k \in Packet /\ k.kind = "foreign" /\ k.rport \in Ports
  BY <1>2 DEF Packet, Foreign
<1> QED
  BY <1>1, <1>2 DEF Heard

LEMMA Captured ==
  ASSUME \/ \E q \in Pids : \E i \in fds[q] : \E d \in Dirs, rport \in Ports :
              Capture(q, i, d, rport)
         \/ \E rport \in Ports : Overhear(rport)
  PROVE  \E k : Heard(k) /\ Arrive(k)
BY DEF Capture, Overhear, Heard

\* A packet of type Packet is appended, and its number to the queue.
LEMMA ArrivalType ==
  ASSUME TypeInv, NEW k \in Packet, packets' = Append(packets, k),
         queue' = Append(queue, Len(packets')), before' = before
  PROVE  /\ packets' \in Seq(Packet) /\ Len(packets') = Len(packets) + 1
         /\ DOMAIN packets' = DOMAIN packets \cup {Len(packets')}
         /\ queue' \in Seq(DOMAIN packets') /\ before' \in [Pids -> 0 .. Len(packets')]
<1>1. /\ packets' \in Seq(Packet) /\ Len(packets') = Len(packets) + 1
      /\ DOMAIN packets' = DOMAIN packets \cup {Len(packets')}
  BY Appending DEF TypeInv, NetworkTypeOK
<1>2. queue' \in Seq(DOMAIN packets')
  <2>1. queue \in Seq(DOMAIN packets')
    BY <1>1, Widen DEF TypeInv, NetworkTypeOK
  <2> QED
    BY <1>1, <2>1, Appending
<1>3. before' \in [Pids -> 0 .. Len(packets')]
  <2>1. 0 .. Len(packets) \subseteq 0 .. Len(packets')
    BY <1>1, TypeFacts
  <2>2. before \in [Pids -> 0 .. Len(packets)]
    BY DEF TypeInv, NetworkTypeOK
  <2> QED
    BY <2>1, <2>2
<1> QED
  BY <1>1, <1>2, <1>3

\* g is f but for more of the process q.
LEMMA SetsGrow ==
  ASSUME NEW D, NEW E, D \subseteq E, NEW f \in [Pids -> SUBSET D], NEW q, NEW i \in E
  PROVE  /\ f \in [Pids -> SUBSET E] /\ [f EXCEPT ![q] = @ \cup {i}] \in [Pids -> SUBSET E]
         /\ [f EXCEPT ![q] = @ \ {i}] \in [Pids -> SUBSET E]
OBVIOUS

LEMMA TypeSockets ==
  ASSUME TypeInv, \/ \E q \in Pids, s \in Socket : OpenSocket(q, s)
                  \/ \E q, r \in Pids : \E i \in fds[q] : Inherit(q, r, i)
                  \/ \E q \in Pids : \E i \in fds[q] : CloseSocket(q, i)
                  \/ \E k : Heard(k) /\ Arrive(k)
  PROVE  TypeInv'
<1> USE DEF sockVars, procVars, loadVars, traceVars, mapVars, tableVars
<1>0. fds \in [Pids -> SUBSET DOMAIN socks] /\ had \in [Pids -> SUBSET DOMAIN socks]
  BY DEF TypeInv, NetworkTypeOK
<1>1. ASSUME NEW q \in Pids, NEW s \in Socket, OpenSocket(q, s) PROVE TypeInv'
  <2>1. /\ socks' \in Seq(Socket) /\ Len(socks') = Len(socks) + 1
        /\ DOMAIN socks' = DOMAIN socks \cup {Len(socks')}
    BY <1>1, Appending DEF OpenSocket, TypeInv, NetworkTypeOK
  <2>2. fds' \in [Pids -> SUBSET DOMAIN socks'] /\ had' \in [Pids -> SUBSET DOMAIN socks']
    BY <1>0, <1>1, <2>1, SetsGrow DEF OpenSocket
  <2>3. NetworkTypeOK'
    BY <1>1, <2>1, <2>2 DEF OpenSocket, TypeInv, NetworkTypeOK
  <2>4. BoundInv'
    BY <1>1, <2>1, TypeFacts, Bounds DEF OpenSocket, TypeInv, BoundInv, DiskUsers
  <2>5. CountedInv'
    BY <1>1, CountedKept DEF OpenSocket
  <2> QED
    BY <2>3, <2>4, <2>5 DEF TypeInv
<1>2. ASSUME NEW q \in Pids, NEW i \in fds[q], CloseSocket(q, i) PROVE TypeInv'
  <2>1. i \in DOMAIN socks
    BY <1>0
  <2>2. fds' \in [Pids -> SUBSET DOMAIN socks]
    BY <1>0, <1>2, <2>1, SetsGrow DEF CloseSocket
  <2> QED
    BY <1>2, <2>2, BoundsKept, CountedKept DEF CloseSocket, TypeInv, NetworkTypeOK
<1>3. ASSUME NEW q \in Pids, NEW r \in Pids, NEW i \in fds[q], Inherit(q, r, i) PROVE TypeInv'
  <2>1. i \in DOMAIN socks
    BY <1>0
  <2>2. fds' \in [Pids -> SUBSET DOMAIN socks] /\ had' \in [Pids -> SUBSET DOMAIN socks]
    BY <1>0, <1>3, <2>1, SetsGrow DEF Inherit
  <2> QED
    BY <1>3, <2>2, BoundsKept, CountedKept DEF Inherit, TypeInv, NetworkTypeOK
<1>4. ASSUME NEW k, Heard(k), Arrive(k) PROVE TypeInv'
  <2>1. k \in Packet
    BY <1>4, Hearing
  <2>2. /\ packets' \in Seq(Packet) /\ Len(packets') = Len(packets) + 1
        /\ DOMAIN packets' = DOMAIN packets \cup {Len(packets')}
        /\ queue' \in Seq(DOMAIN packets') /\ before' \in [Pids -> 0 .. Len(packets')]
    BY <1>4, <2>1, ArrivalType DEF Arrive
  <2>3. NetworkTypeOK'
    BY <1>4, <2>2 DEF Arrive, TypeInv, NetworkTypeOK
  <2>4. BoundInv'
    <3>1. Len(packets') <= MaxPackets
      BY <1>4, <2>2, TypeFacts, Bounds DEF Arrive
    <3>2. \A q \in Pids, e \in Dirs : io[q][e] <= Len(packets') + disk[q][e]
      BY <2>2, TypeFacts DEF TypeInv, BoundInv
    <3> QED
      BY <1>4, <3>1, <3>2 DEF Arrive, TypeInv, BoundInv, DiskUsers
  <2>5. CountedInv'
    BY <1>4, <2>2, CountedKept DEF Arrive
  <2> QED
    BY <2>3, <2>4, <2>5 DEF TypeInv
<1> QED
  BY <1>1, <1>2, <1>3, <1>4

\* g is f but for one direction of one process.
SetTo(f, g, q, d, v) ==
  /\ f \in [Pids -> Bytes] /\ q \in Pids /\ d \in Dirs /\ v \in 0 .. MostBytes
  /\ g = [f EXCEPT ![q] = [f[q] EXCEPT ![d] = v]]

LEMMA Setting ==
  ASSUME NEW f, NEW g, NEW q, NEW d, NEW v, SetTo(f, g, q, d, v)
  PROVE  /\ g \in [Pids -> Bytes] /\ g[q][d] = v
         /\ \A r \in Pids, e \in Dirs : r # q \/ e # d => g[r][e] = f[r][e]
<1>1. f[q] \in [Dirs -> 0 .. MostBytes] /\ v \in 0 .. MostBytes /\ q \in Pids /\ d \in Dirs
  BY DEF SetTo, Bytes
<1>2. [f[q] EXCEPT ![d] = v] \in Bytes
  BY <1>1 DEF Bytes
<1>3. g \in [Pids -> Bytes]
  BY <1>2 DEF SetTo
<1>4. g[q] = [f[q] EXCEPT ![d] = v] /\ \A r \in Pids : r # q => g[r] = f[r]
  BY DEF SetTo
<1> QED
  BY <1>1, <1>3, <1>4

\* What the counters of I/O do when a packet is sent or received.
LEMMA IoCounts ==
  ASSUME TypeInv, NEW q \in TracedPids, NEW d \in Dirs, NEW kind \in Kinds, NetIo(q, kind, d)
  PROVE  /\ q \in Pids /\ io' \in [Pids -> Bytes]
         /\ \A r \in Pids, e \in Dirs : io'[r][e] \in {io[r][e], io[r][e] + 1}
         /\ kind # "other" => io'[q][d] = io[q][d] + 1
<1>1. q \in Pids
  BY NetworkAssumption
<1>2. io[q][d] + 1 \in 0 .. MostBytes
  <2>1. io[q][d] <= Len(packets) + disk[q][d] /\ disk[q][d] <= MaxDisk
    BY <1>1 DEF TypeInv, BoundInv
  <2>2. Len(packets) < MaxPackets
    BY DEF NetIo
  <2>3. io[q][d] \in Nat /\ disk[q][d] \in Nat /\ Len(packets) \in Nat
    BY <1>1, TypeFacts
  <2> QED
    BY <2>1, <2>2, <2>3, Bounds DEF MostBytes
<1>3. io \in [Pids -> Bytes]
  BY DEF TypeInv, NetworkTypeOK
<1>4. CASE io' = [io EXCEPT ![q][d] = @ + 1]
  <2>1. SetTo(io, io', q, d, io[q][d] + 1)
    BY <1>1, <1>2, <1>3, <1>4 DEF SetTo
  <2>2. /\ io' \in [Pids -> Bytes] /\ io'[q][d] = io[q][d] + 1
        /\ \A r \in Pids, e \in Dirs : r # q \/ e # d => io'[r][e] = io[r][e]
    BY <2>1, Setting
  <2> QED
    BY <1>1, <2>2
<1>5. CASE kind = "other" /\ io' = io
  BY <1>1, <1>3, <1>5
<1> QED
  BY <1>4, <1>5 DEF NetIo

LEMMA TypeNetIo ==
  ASSUME TypeInv, NEW q \in TracedPids, NEW d \in Dirs, NEW kind \in Kinds, NetIo(q, kind, d)
  PROVE  TypeInv'
<1> USE DEF sockVars, procVars, loadVars, traceVars, mapVars, tableVars
<1> DEFINE k == [pid |-> q, sock |-> 0, rport |-> NoPort, kind |-> kind]
<1>1. k \in Packet /\ q \in Pids
  BY NetworkAssumption DEF Packet
<1>2. packets' = Append(packets, k) /\ queue' = Append(queue, Len(packets')) /\ before' = before
  BY DEF NetIo
<1> HIDE DEF k
<1>3. /\ packets' \in Seq(Packet) /\ Len(packets') = Len(packets) + 1
      /\ DOMAIN packets' = DOMAIN packets \cup {Len(packets')}
      /\ queue' \in Seq(DOMAIN packets') /\ before' \in [Pids -> 0 .. Len(packets')]
  BY <1>1, <1>2, ArrivalType
<1>6. /\ io' \in [Pids -> Bytes]
      /\ \A r \in Pids, e \in Dirs : io'[r][e] \in {io[r][e], io[r][e] + 1}
  BY IoCounts
<1>7. NetworkTypeOK'
  BY <1>3, <1>6 DEF NetIo, TypeInv, NetworkTypeOK
<1>8. BoundInv'
  <2>1. Len(packets') <= MaxPackets
    BY <1>3, TypeFacts, Bounds DEF NetIo
  <2>2. ASSUME NEW r \in Pids, NEW e \in Dirs PROVE io'[r][e] <= Len(packets') + disk[r][e]
    <3>1. io[r][e] <= Len(packets) + disk[r][e]
      BY DEF TypeInv, BoundInv
    <3>2. io[r][e] \in Nat /\ disk[r][e] \in Nat /\ Len(packets) \in Nat
      BY TypeFacts
    <3>3. io'[r][e] \in {io[r][e], io[r][e] + 1} /\ Len(packets') = Len(packets) + 1
      BY <1>3, <1>6
    <3> QED
      BY <3>1, <3>2, <3>3
  <2> QED
    BY <2>1, <2>2 DEF NetIo, TypeInv, BoundInv, DiskUsers
<1>9. CountedInv'
  BY <1>3, CountedKept DEF NetIo
<1> QED
  BY <1>7, <1>8, <1>9 DEF TypeInv

\* What they do when a process uses the disk.
LEMMA DiskCounts ==
  ASSUME TypeInv, NEW q \in TracedPids, NEW d \in Dirs, DiskIo(q, d)
  PROVE  /\ q \in Pids /\ disk[q][d] = 0 /\ 1 <= MaxDisk
         /\ disk' \in [Pids -> Bytes] /\ disk'[q][d] = 1
         /\ \A r \in Pids, e \in Dirs : r # q \/ e # d => disk'[r][e] = disk[r][e]
         /\ io' \in [Pids -> Bytes] /\ io'[q][d] = io[q][d] + 1
         /\ \A r \in Pids, e \in Dirs : r # q \/ e # d => io'[r][e] = io[r][e]
<1>1. q \in Pids
  BY NetworkAssumption
<1>2. Cardinality(DiskUsers) \in Nat /\ IsFiniteSet(DiskUsers)
  BY FS_CardinalityType DEF TypeInv, BoundInv
<1>3. 1 <= MaxDisk
  BY <1>2, Bounds DEF DiskIo, DiskUsers
<1>4. io[q][d] + 1 \in 0 .. MostBytes /\ 1 \in 0 .. MostBytes
  <2>1. io[q][d] <= Len(packets) /\ Len(packets) <= MaxPackets
    BY <1>1, TypeFacts DEF DiskIo, TypeInv, BoundInv
  <2>2. io[q][d] \in Nat /\ Len(packets) \in Nat
    BY <1>1, TypeFacts
  <2> QED
    BY <1>3, <2>1, <2>2, Bounds DEF MostBytes
<1>5. SetTo(disk, disk', q, d, 1) /\ SetTo(io, io', q, d, io[q][d] + 1)
  <2>1. disk' = [disk EXCEPT ![q][d] = 1] /\ io' = [io EXCEPT ![q][d] = @ + 1]
    BY DEF DiskIo
  <2>2. disk \in [Pids -> Bytes] /\ io \in [Pids -> Bytes]
    BY DEF TypeInv, NetworkTypeOK
  <2> QED
    BY <1>1, <1>4, <2>1, <2>2 DEF SetTo
<1>6. disk[q][d] = 0
  BY DEF DiskIo
<1>7. /\ disk' \in [Pids -> Bytes] /\ disk'[q][d] = 1
      /\ \A r \in Pids, e \in Dirs : r # q \/ e # d => disk'[r][e] = disk[r][e]
  BY <1>5, Setting
<1>8. /\ io' \in [Pids -> Bytes] /\ io'[q][d] = io[q][d] + 1
      /\ \A r \in Pids, e \in Dirs : r # q \/ e # d => io'[r][e] = io[r][e]
  BY <1>5, Setting
<1> QED
  BY <1>1, <1>3, <1>6, <1>7, <1>8

LEMMA TypeDiskIo ==
  ASSUME TypeInv, NEW q \in TracedPids, NEW d \in Dirs, DiskIo(q, d)
  PROVE  TypeInv'
<1> USE DEF sockVars, procVars, loadVars, traceVars, mapVars, tableVars
<1>1. q \in Pids /\ disk[q][d] = 0 /\ 1 <= MaxDisk
  BY DiskCounts
<1>2. IsFiniteSet(DiskUsers)
  BY DEF TypeInv, BoundInv
<1>5. /\ disk' \in [Pids -> Bytes] /\ disk'[q][d] = 1
      /\ \A r \in Pids, e \in Dirs : r # q \/ e # d => disk'[r][e] = disk[r][e]
  BY DiskCounts
<1>6. /\ io' \in [Pids -> Bytes] /\ io'[q][d] = io[q][d] + 1
      /\ \A r \in Pids, e \in Dirs : r # q \/ e # d => io'[r][e] = io[r][e]
  BY DiskCounts
<1>7. NetworkTypeOK'
  BY <1>5, <1>6 DEF DiskIo, TypeInv, NetworkTypeOK
<1>8. IsFiniteSet(DiskUsers)'
  <2>1. DiskUsers' = DiskUsers \cup {<<q, d>>}
    BY <1>1, <1>5 DEF DiskUsers
  <2> QED
    BY <1>2, <2>1, FS_AddElement
<1>9. ASSUME NEW r \in Pids, NEW e \in Dirs
      PROVE  disk'[r][e] <= MaxDisk /\ io'[r][e] <= Len(packets) + disk'[r][e]
  <2>1. CASE r = q /\ e = d
    BY <1>1, <1>5, <1>6, <2>1, TypeFacts DEF TypeInv, BoundInv
  <2>2. CASE r # q \/ e # d
    BY <1>5, <1>6, <2>2 DEF TypeInv, BoundInv
  <2> QED
    BY <2>1, <2>2
<1>10. BoundInv'
  BY <1>8, <1>9 DEF DiskIo, TypeInv, BoundInv
<1>11. CountedInv'
  BY CountedKept DEF DiskIo
<1> QED
  BY <1>7, <1>10, <1>11 DEF TypeInv

\* A process ends, or another one gets its pid.
LEMMA TypeProcesses ==
  ASSUME TypeInv, NEW q \in TracedPids, EndProcess(q) \/ StartProcess(q)
  PROVE  TypeInv'
<1> USE DEF sockVars, procVars, loadVars, traceVars, mapVars, tableVars
<1>1. q \in Pids
  BY NetworkAssumption
<1>2. CASE EndProcess(q)
  BY <1>2, BoundsKept, CountedKept DEF EndProcess, TypeInv, NetworkTypeOK
<1>3. CASE StartProcess(q)
  <2>1. io' \in [Pids -> Bytes] /\ disk' \in [Pids -> Bytes]
    BY <1>3, Bounds DEF StartProcess, TypeInv, NetworkTypeOK
  <2>2. shown' \in [Pids -> [of : Bytes, sum : Bytes]]
    <3>1. [of |-> Zero, sum |-> Zero] \in [of : Bytes, sum : Bytes]
      BY Bounds
    <3> QED
      BY <1>3, <3>1 DEF StartProcess, TypeInv, NetworkTypeOK
  <2>3. before' \in [Pids -> 0 .. Len(packets')]
    <3>1. packets' = packets /\ Len(packets) \in 0 .. Len(packets)
      BY <1>3, TypeFacts DEF StartProcess
    <3> QED
      BY <1>3, <3>1 DEF StartProcess, TypeInv, NetworkTypeOK
  <2>4. running' \subseteq TracedPids /\ reborn' \subseteq TracedPids
    BY <1>3 DEF StartProcess, TypeInv, NetworkTypeOK
  <2>5. NetworkTypeOK'
    BY <1>3, <2>1, <2>2, <2>3, <2>4 DEF StartProcess, TypeInv, NetworkTypeOK
  <2>6. /\ \A d \in Dirs : io'[q][d] = 0 /\ disk'[q][d] = 0
        /\ \A r \in Pids : r # q => io'[r] = io[r] /\ disk'[r] = disk[r]
    BY <1>1, <1>3 DEF StartProcess, Zero, TypeInv, NetworkTypeOK
  <2>7. IsFiniteSet(DiskUsers)'
    <3>1. DiskUsers' \subseteq DiskUsers
      BY <2>6 DEF DiskUsers
    <3> QED
      BY <3>1, FS_Subset DEF TypeInv, BoundInv
  <2>8. ASSUME NEW r \in Pids, NEW e \in Dirs
        PROVE  disk'[r][e] <= MaxDisk /\ io'[r][e] <= Len(packets) + disk'[r][e]
    <3>1. CASE r = q
      BY <2>6, <3>1, TypeFacts, Bounds
    <3>2. CASE r # q
      BY <2>6, <3>2 DEF TypeInv, BoundInv
    <3> QED
      BY <3>1, <3>2
  <2>9. BoundInv'
    BY <1>3, <2>7, <2>8 DEF StartProcess, TypeInv, BoundInv
  <2>10. CountedInv'
    BY <1>3, CountedKept DEF StartProcess
  <2> QED
    BY <2>5, <2>9, <2>10 DEF TypeInv
<1> QED
  BY <1>2, <1>3

\* A step that only changes what update_table works with.
LEMMA TypeWork ==
  ASSUME TypeInv,
         UNCHANGED <<sockVars, procVars, loadVars, queue, traceVars, usage, taken, tableVars,
                     gone, logged>>,
         pc' \in {"setup", "idle", "fds", "drain", "list", "table", "report", "ended"},
         listed' \subseteq TracedPids,
         todo' \subseteq Pids, inode_list_all' \subseteq DOMAIN socks,
         DOMAIN port_to_pid_map' \subseteq Ports,
         port_to_pid_map' \in [DOMAIN port_to_pid_map' -> Pids],
         local_ip' \in Ips \cup {AnyIp}
  PROVE  TypeInv'
<1> USE DEF sockVars, procVars, loadVars, traceVars, tableVars
<1>1. BoundInv' /\ CountedInv'
  BY BoundsKept, CountedKept
<1>2. NetworkTypeOK'
  BY DEF TypeInv, NetworkTypeOK
<1> QED
  BY <1>1, <1>2 DEF TypeInv

LEMMA TypeLinux ==
  ASSUME TypeInv, \/ SetupCapture \/ ReadNetTcp \/ ChooseIp \/ ProcessPacket \/ FillTable
                  \/ \E q \in todo : ReadFds(q)
  PROVE  TypeInv'
<1> USE DEF sockVars, procVars, loadVars, traceVars, mapVars, tableVars
<1>0. BoundInv'
  BY BoundsKept DEF SetupCapture, ReadNetTcp, ChooseIp, ProcessPacket, FillTable, ReadFds
<1>1. CASE SetupCapture
  <2>1. /\ pc' \in {"idle", "ended"}
        /\ UNCHANGED <<sockVars, procVars, loadVars, queue, traceVars, usage, todo, mapVars,
                       listed, taken, tableVars, gone, logged>>
    BY <1>1 DEF SetupCapture
  <2> QED
    BY <2>1, TypeWork DEF TypeInv, NetworkTypeOK
<1>2. CASE ReadNetTcp
  <2>1. /\ pc' = "fds" /\ todo' = Pids /\ inode_list_all' \subseteq open
        /\ UNCHANGED <<sockVars, procVars, loadVars, queue, traceVars, usage, port_to_pid_map,
                       local_ip, listed, taken, tableVars, gone, logged>>
    BY <1>2 DEF ReadNetTcp
  <2>2. open \subseteq DOMAIN socks
    BY DEF open, TypeInv, NetworkTypeOK
  <2> QED
    BY <2>1, <2>2, TypeWork DEF TypeInv, NetworkTypeOK
<1>3. CASE ChooseIp
  <2>1. \A i \in inode_list_all : socks[i].ip \in Ips \cup {AnyIp}
    BY TypeFacts DEF TypeInv, NetworkTypeOK, Socket
  <2>2. local_ip' \in Ips \cup {AnyIp} /\ pc' \in {"ended", "drain"} /\ inode_list_all' = {}
    BY <1>3, <2>1 DEF ChooseIp, TypeInv, NetworkTypeOK
  <2> QED
    BY <1>3, <2>2, TypeWork DEF ChooseIp, TypeInv, NetworkTypeOK
<1>4. CASE ProcessPacket
  <2> DEFINE p == Head(queue)
             port == LookupPort(packets[p])
             d == IF Outgoing(packets[p]) THEN "send" ELSE "recv"
  <2>1. queue' \in Seq(DOMAIN packets) /\ p \in DOMAIN packets
    BY <1>4, Taking DEF ProcessPacket, TypeInv, NetworkTypeOK
  <2>2. \/ port \in DOMAIN port_to_pid_map /\ Add(port_to_pid_map[port], d, p) /\ gone' = gone
        \/ gone' = gone \cup {p} /\ usage' = usage
    BY <1>4 DEF ProcessPacket
  <2>3. p \in 1 .. MaxPackets /\ d \in Dirs
    BY <2>1, TypeFacts DEF Dirs
  <2> HIDE DEF p, d, port
  <2>4. usage' \in [AllPids -> Amount] /\ gone' \subseteq DOMAIN packets /\ CountedInv'
    <3>1. CASE port \in DOMAIN port_to_pid_map /\ Add(port_to_pid_map[port], d, p) /\ gone' = gone
      <4>1. port_to_pid_map[port] \in AllPids
        BY <3>1 DEF TypeInv, NetworkTypeOK, AllPids
      <4>2. CountedInv'
        BY <1>4, <2>1, <2>3, <3>1, <4>1, AddCounted DEF ProcessPacket
      <4> QED
        BY <2>3, <3>1, <4>1, <4>2, Adding DEF TypeInv, NetworkTypeOK
    <3>2. CASE gone' = gone \cup {p} /\ usage' = usage
      BY <1>4, <2>1, <3>2, CountedKept DEF ProcessPacket, TypeInv, NetworkTypeOK
    <3> QED
      BY <2>2, <3>1, <3>2
  <2> QED
    BY <1>0, <1>4, <2>1, <2>4 DEF ProcessPacket, TypeInv, NetworkTypeOK
<1>6. ASSUME NEW q \in todo, ReadFds(q) PROVE TypeInv'
  <2>1. PICK F \in Found(q) :
          LET ports == {socks[i].port : i \in F}
          IN port_to_pid_map' = [x \in DOMAIN port_to_pid_map \cup ports |->
                                   IF x \in ports THEN q ELSE port_to_pid_map[x]]
    BY <1>6 DEF ReadFds
  <2>2. F \subseteq DOMAIN socks /\ q \in Pids
    BY DEF Found, TypeInv, NetworkTypeOK
  <2>3. {socks[i].port : i \in F} \subseteq Ports
    BY <2>2, TypeFacts DEF Socket
  <2>4. /\ DOMAIN port_to_pid_map' \subseteq Ports
        /\ port_to_pid_map' \in [DOMAIN port_to_pid_map' -> Pids]
    BY <2>1, <2>2, <2>3 DEF TypeInv, NetworkTypeOK
  <2> QED
    BY <1>0, <1>6, <2>4, CountedKept DEF ReadFds, TypeInv, NetworkTypeOK
<1>7. CASE FillTable
  <2>1. PICK ok \in SUBSET Pids :
          stat' = [q \in Pids |-> IF q \in ok THEN usage[q] ELSE NoUsage]
    BY <1>7 DEF FillTable
  <2>2. stat' \in [Pids -> Amount]
    BY <2>1, Bounds DEF TypeInv, NetworkTypeOK, AllPids
  <2>3. usage' \in [AllPids -> Amount]
    BY <1>7, Bounds DEF FillTable
  <2>4. PacketsOf(usage, Pids) \subseteq DOMAIN packets
    BY DEF PacketsOf, AllPids, TypeInv, CountedInv
  <2>5. CountedInv'
    BY <1>7 DEF FillTable, CountedInv, Nothing, NoUsage
  <2> QED
    BY <1>0, <1>7, <2>2, <2>3, <2>4, <2>5 DEF FillTable, TypeInv, NetworkTypeOK
<1> QED
  BY <1>1, <1>2, <1>3, <1>4, <1>6, <1>7

LEMMA TypeTrace ==
  ASSUME TypeInv, StartTrace \/ Decode \/ OnEvent
  PROVE  TypeInv'
<1> USE DEF sockVars, procVars, loadVars, traceVars, mapVars, tableVars
<1>0. BoundInv'
  BY BoundsKept DEF StartTrace, Decode, OnEvent
<1>1. CASE StartTrace
  BY <1>0, <1>1, CountedKept DEF StartTrace, TypeInv, NetworkTypeOK
<1>2. CASE Decode
  <2>1. Tail(queue) \in Seq(DOMAIN packets) /\ Head(queue) \in DOMAIN packets
    BY <1>2, Taking DEF Decode, TypeInv, NetworkTypeOK
  <2> QED
    BY <1>0, <1>2, <2>1, CountedKept DEF Decode, TypeInv, NetworkTypeOK
<1>3. CASE OnEvent
  <2>1. in_hand \in DOMAIN packets
    BY <1>3 DEF OnEvent, TypeInv, NetworkTypeOK
  <2>2. PICK q \in AllPids, d \in Dirs : Add(q, d, in_hand)
    <3>1. packets[in_hand].pid \in AllPids /\ NoPid \in AllPids /\ {"recv", "send"} \subseteq Dirs
      BY <2>1, TypeFacts DEF Packet, Foreign, AllPids, Dirs
    <3> QED
      BY <1>3, <3>1 DEF OnEvent
  <2>3. usage' \in [AllPids -> Amount]
    BY <2>1, <2>2, TypeFacts, Adding DEF TypeInv, NetworkTypeOK
  <2>4. CountedInv'
    BY <1>3, <2>1, <2>2, AddCounted DEF OnEvent
  <2> QED
    BY <1>0, <1>3, <2>3, <2>4 DEF OnEvent, TypeInv, NetworkTypeOK
<1> QED
  BY <1>1, <1>2, <1>3

\* What is subtracted is never more than the difference, which is itself a
\* number of the unsigned type.
LEMMA DeltaType ==
  ASSUME TypeInv, NEW q \in Pids, NEW d \in Dirs
  PROVE  /\ Size(taken[q][d]) \in Nat /\ DiskDelta(q, d) \in Nat
         /\ DiskDelta(q, d) + Size(taken[q][d]) >= io[q][d] - last[q][d]
<1>1. taken[q][d] \subseteq 1 .. MaxPackets
  BY DEF TypeInv, NetworkTypeOK, AllPids, Amount
<1>2. IsFiniteSet(1 .. MaxPackets)
  BY Bounds, FS_Interval
<1>3. IsFiniteSet({p \in taken[q][d] : packets[p].kind # "ipv6"})
  BY <1>1, <1>2, FS_Subset
<1>4. Size(taken[q][d]) \in Nat
  BY <1>3, FS_CardinalityType DEF Size
<1>5. io[q][d] \in Nat /\ last[q][d] \in 0 .. MostBytes
  <2>1. last[q] \in [Dirs -> 0 .. MostBytes]
    BY DEF TypeInv, NetworkTypeOK, Bytes
  <2> QED
    BY <2>1, TypeFacts
<1>6. W \in Nat /\ MostBytes \in Nat /\ W > MostBytes
  BY NetworkAssumption, Bounds DEF MostBytes
<1>7. /\ Minus(io[q][d], last[q][d]) \in Nat
      /\ Minus(io[q][d], last[q][d]) >= io[q][d] - last[q][d]
  BY <1>5, <1>6 DEF Minus
<1> QED
  BY <1>4, <1>5, <1>7 DEF DiskDelta, Least

LEMMA TypeWindowsScan ==
  ASSUME TypeInv, GoneInv, SetupTrace \/ ListPids \/ TakeAway \/ TableDone \/ GenerateLog
  PROVE  TypeInv'
<1> USE DEF sockVars, procVars, loadVars, traceVars, mapVars, tableVars
<1>0. BoundInv'
  BY BoundsKept DEF SetupTrace, ListPids, TakeAway, TableDone, GenerateLog
<1>1. CASE SetupTrace
  BY <1>0, <1>1, CountedKept DEF SetupTrace, TypeInv, NetworkTypeOK
<1>2. CASE TakeAway
  <2>1. PacketsOf(usage, AllPids) \subseteq DOMAIN packets
    BY DEF PacketsOf, TypeInv, CountedInv
  <2>2. CountedInv'
    BY <1>2 DEF TakeAway, CountedInv, Nothing, NoUsage
  <2>3. usage' \in [AllPids -> Amount] /\ taken' \in [AllPids -> Amount]
    BY <1>2, Bounds DEF TakeAway, TypeInv, NetworkTypeOK
  <2> QED
    BY <1>0, <1>2, <2>1, <2>2, <2>3, NetworkAssumption DEF TakeAway, TypeInv, NetworkTypeOK
<1>3. CASE TableDone
  <2>1. last' \in [Pids -> Bytes] /\ stat' \in [Pids -> Amount]
    BY <1>3, Bounds DEF TableDone, TypeInv, NetworkTypeOK
  <2>2. taken' \in [AllPids -> Amount] /\ stale' \subseteq Pids
    BY <1>3, Bounds DEF TableDone, TypeInv, NetworkTypeOK
  <2> QED
    BY <1>0, <1>3, <2>1, <2>2, CountedKept DEF TableDone, TypeInv, NetworkTypeOK
<1>4. CASE GenerateLog
  <2>1. PacketsOf(stat, Pids) \subseteq DOMAIN packets
    BY DEF PacketsOf, GoneInv, TypeInv, NetworkTypeOK
  <2>2. stat' \in [Pids -> Amount]
    BY <1>4, Bounds DEF GenerateLog, TypeInv, NetworkTypeOK
  <2>3. CountedInv'
    BY <1>4, CountedKept DEF GenerateLog
  <2>4. /\ pc' = "idle" /\ local_ip' = AnyIp /\ logged' = logged \cup PacketsOf(stat, Pids)
        /\ UNCHANGED <<sockVars, procVars, loadVars, queue, traceVars, usage, todo,
                       inode_list_all, port_to_pid_map, listed, taken, last, stale, shown, gone>>
    BY <1>4 DEF GenerateLog
  <2> QED
    BY <1>0, <2>1, <2>2, <2>3, <2>4 DEF TypeInv, NetworkTypeOK
<1>5. CASE ListPids
  <2>1. running \subseteq Pids
    BY NetworkAssumption DEF TypeInv, NetworkTypeOK
  <2> QED
    BY <1>5, <2>1, TypeWork DEF ListPids, TypeInv, NetworkTypeOK
<1> QED
  BY <1>1, <1>2, <1>3, <1>4, <1>5

\* What a process is shown to have used of its disk, after it has been read.
LEMMA ShownType ==
  ASSUME TypeInv, NEW q \in Pids,
         shown' = [shown EXCEPT ![q] = [of |-> disk[q],
           sum |-> [d \in Dirs |-> Least(@.sum[d] + DiskDelta(q, d), MostBytes)]]]
  PROVE  /\ shown' \in [Pids -> [of : Bytes, sum : Bytes]]
         /\ \A r \in Pids : r # q => shown'[r] = shown[r]
         /\ shown'[q].of = disk[q]
         /\ \A d \in Dirs :
              shown'[q].sum[d] = Least(shown[q].sum[d] + DiskDelta(q, d), MostBytes)
<1> DEFINE s == [d \in Dirs |-> Least(shown[q].sum[d] + DiskDelta(q, d), MostBytes)]
           e == [of |-> disk[q], sum |-> s]
<1>1. shown \in [Pids -> [of : Bytes, sum : Bytes]] /\ disk[q] \in Bytes
  BY DEF TypeInv, NetworkTypeOK
<1>2. shown[q].sum \in [Dirs -> 0 .. MostBytes]
  BY <1>1 DEF Bytes
<1>3. ASSUME NEW d \in Dirs
      PROVE  Least(shown[q].sum[d] + DiskDelta(q, d), MostBytes) \in 0 .. MostBytes
  <2>1. shown[q].sum[d] \in 0 .. MostBytes /\ DiskDelta(q, d) \in Nat /\ MostBytes \in Nat
    BY <1>2, DeltaType, Bounds
  <2> QED
    BY <2>1 DEF Least
<1>4. s \in Bytes
  BY <1>3 DEF Bytes
<1>5. e \in [of : Bytes, sum : Bytes] /\ e.of = disk[q] /\ e.sum = s
  BY <1>1, <1>4
<1>6. shown' = [shown EXCEPT ![q] = e]
  OBVIOUS
<1>7. \A d \in Dirs : s[d] = Least(shown[q].sum[d] + DiskDelta(q, d), MostBytes)
  OBVIOUS
<1> HIDE DEF e, s
<1>8. /\ shown' \in [Pids -> [of : Bytes, sum : Bytes]] /\ shown'[q] = e
      /\ \A r \in Pids : r # q => shown'[r] = shown[r]
  BY <1>1, <1>5, <1>6
<1> QED
  BY <1>5, <1>7, <1>8

LEMMA TypeReadProcess ==
  ASSUME TypeInv, NEW q \in todo, ReadProcess(q)
  PROVE  TypeInv'
<1>1. q \in Pids
  BY DEF TypeInv, NetworkTypeOK
<1>2. BoundInv' /\ CountedInv'
  BY BoundsKept, CountedKept DEF ReadProcess, sockVars, procVars, loadVars
<1>3. stat' \in [Pids -> Amount] /\ stale' \subseteq Pids /\ todo' \subseteq Pids
  <2>1. taken[q] \in Amount /\ stat \in [Pids -> Amount]
    BY <1>1 DEF TypeInv, NetworkTypeOK, AllPids
  <2>2. stat' = stat \/ stat' = [stat EXCEPT ![q] = taken[q]]
    BY DEF ReadProcess
  <2>3. stat' \in [Pids -> Amount]
    BY <1>1, <2>1, <2>2
  <2>4. (stale' = stale \cup {q} \/ stale' = stale \ {q}) /\ todo' = todo \ {q}
    BY DEF ReadProcess
  <2> QED
    BY <1>1, <2>3, <2>4 DEF TypeInv, NetworkTypeOK
<1>4. last' \in [Pids -> Bytes]
  BY <1>1, Bounds DEF ReadProcess, TypeInv, NetworkTypeOK
<1>5. shown' \in [Pids -> [of : Bytes, sum : Bytes]]
  <2>1. shown' = shown \/
          shown' = [shown EXCEPT ![q] = [of |-> disk[q],
            sum |-> [d \in Dirs |-> Least(@.sum[d] + DiskDelta(q, d), MostBytes)]]]
    BY DEF ReadProcess
  <2> QED
    BY <1>1, <2>1, ShownType DEF TypeInv, NetworkTypeOK
<1>6. UNCHANGED <<sockVars, procVars, loadVars, queue, traceVars, usage, pc, mapVars, listed,
                  taken, gone, logged>>
  BY DEF ReadProcess
<1> QED
  BY <1>2, <1>3, <1>4, <1>5, <1>6
  DEF TypeInv, NetworkTypeOK, sockVars, procVars, loadVars, traceVars, mapVars

LEMMA NetworkTypeStep == TypeInv /\ GoneInv /\ [NetworkNext]_nvars => TypeInv'
<1> SUFFICES ASSUME TypeInv, GoneInv, [NetworkNext]_nvars PROVE TypeInv'
  OBVIOUS
<1>1. CASE System
  BY <1>1, Captured, TypeSockets, TypeNetIo, TypeDiskIo, TypeProcesses DEF System
<1>2. CASE Scan
  BY <1>2, TypeLinux, TypeWindowsScan, TypeReadProcess DEF Scan
<1>3. CASE Trace
  BY <1>3, TypeTrace DEF Trace
<1>4. CASE UNCHANGED nvars
  <2>1. UNCHANGED <<sockVars, procVars, loadVars, queue, traceVars, usage, pc, todo, mapVars,
                    listed, taken, tableVars, gone, logged>>
    BY <1>4 DEF nvars
  <2> QED
    BY <2>1, TypeWork DEF TypeInv, NetworkTypeOK, mapVars
<1> QED
  BY <1>1, <1>2, <1>3, <1>4 DEF NetworkNext

LEMMA NetworkTypeStarts == NetworkInit => TypeInv
<1> SUFFICES ASSUME NetworkInit PROVE TypeInv
  OBVIOUS
<1>1. BoundInv
  <2>1. DiskUsers = {}
    BY DEF NetworkInit, DiskUsers, Zero
  <2> QED
    BY <2>1, Bounds, FS_EmptySet DEF NetworkInit, BoundInv, Zero
<1>2. CountedInv
  BY DEF NetworkInit, CountedInv, Nothing, NoUsage
<1>3. packets = <<>> /\ DOMAIN packets = {} /\ queue = <<>> /\ queue \in Seq(DOMAIN packets)
  BY DEF NetworkInit
<1>4. /\ packets \in Seq(Packet) /\ socks \in Seq(Socket) /\ Len(packets) = 0
      /\ fds \in [Pids -> SUBSET DOMAIN socks] /\ had \in [Pids -> SUBSET DOMAIN socks]
      /\ before \in [Pids -> 0 .. Len(packets)]
  BY DEF NetworkInit
<1>5. /\ DOMAIN port_to_pid_map = {}
      /\ port_to_pid_map \in [DOMAIN port_to_pid_map -> Pids]
  <2>1. port_to_pid_map = <<>> /\ DOMAIN <<>> = {}
    BY DEF NetworkInit
  <2>2. <<>> = [x \in DOMAIN <<>> |-> <<>>[x]]
    OBVIOUS
  <2> QED
    BY <2>1, <2>2
<1>6. /\ shown \in [Pids -> [of : Bytes, sum : Bytes]]
      /\ io \in [Pids -> Bytes] /\ disk \in [Pids -> Bytes] /\ last \in [Pids -> Bytes]
  <2>1. [of |-> Zero, sum |-> Zero] \in [of : Bytes, sum : Bytes]
    BY Bounds
  <2>2. shown \in [Pids -> [of : Bytes, sum : Bytes]]
    BY <2>1 DEF NetworkInit
  <2>3. io \in [Pids -> Bytes] /\ disk \in [Pids -> Bytes] /\ last \in [Pids -> Bytes]
    BY Bounds DEF NetworkInit
  <2> QED
    BY <2>2, <2>3
<1>7. usage \in [AllPids -> Amount] /\ taken \in [AllPids -> Amount] /\ stat \in [Pids -> Amount]
  BY Bounds DEF NetworkInit
<1>8. NetworkTypeOK
  BY <1>3, <1>4, <1>5, <1>6, <1>7 DEF NetworkInit, NetworkTypeOK
<1> QED
  BY <1>1, <1>2, <1>8 DEF TypeInv
-----------------------------------------------------------------------------
(***************************************************************************)
(* Where a scan is.                                                        *)
(***************************************************************************)

\* Sockets are read and packets looked up on Linux, usage is taken away on
\* Windows; a scan is done with every process before it reports; and on
\* Linux packets are counted between the two, for processes.
PhaseInv ==
  /\ pc \in {"fds", "drain"} => platform = "linux"
  /\ pc \in {"list", "table"} => platform = "windows"
  /\ pc \in {"drain", "report"} => todo = {}
  /\ pc # "table" => taken = Nothing
  /\ platform = "linux" =>
       /\ in_hand = None
       /\ \A d \in Dirs : usage[NoPid][d] = {}
       /\ pc # "drain" => usage = Nothing

LEMMA PhaseStep == TypeInv /\ PhaseInv /\ [NetworkNext]_nvars => PhaseInv'
<1> SUFFICES ASSUME TypeInv, PhaseInv, [NetworkNext]_nvars PROVE PhaseInv'
  OBVIOUS
<1> USE DEF sockVars, procVars, loadVars, traceVars, mapVars, tableVars
<1>1. CASE UNCHANGED <<platform, pc, todo, in_hand, usage, taken>>
  BY <1>1 DEF PhaseInv
<1>2. CASE System \/ UNCHANGED nvars
  <2>1. UNCHANGED <<platform, pc, todo, in_hand, usage, taken>>
    BY <1>2 DEF System, OpenSocket, Inherit, CloseSocket, Capture, Overhear, Arrive, NetIo, DiskIo,
                EndProcess, StartProcess, nvars
  <2> QED
    BY <1>1, <2>1
<1>3. CASE SetupCapture
  BY <1>3 DEF SetupCapture, PhaseInv
<1>4. CASE ReadNetTcp
  BY <1>4 DEF ReadNetTcp, PhaseInv
<1>5. CASE ChooseIp
  BY <1>5 DEF ChooseIp, PhaseInv
<1>6. CASE ProcessPacket
  <2> DEFINE p == Head(queue)
             port == LookupPort(packets[p])
             d == IF Outgoing(packets[p]) THEN "send" ELSE "recv"
  <2>1. \/ port \in DOMAIN port_to_pid_map /\ Add(port_to_pid_map[port], d, p)
        \/ usage' = usage
    BY <1>6 DEF ProcessPacket
  <2>2. p \in 1 .. MaxPackets /\ d \in Dirs
    BY <1>6, Taking, TypeFacts DEF ProcessPacket, TypeInv, NetworkTypeOK, Dirs
  <2> HIDE DEF p, d, port
  <2>3. \A e \in Dirs : usage'[NoPid][e] = usage[NoPid][e]
    <3>1. CASE port \in DOMAIN port_to_pid_map /\ Add(port_to_pid_map[port], d, p)
      <4>1. port_to_pid_map[port] \in Pids
        BY <3>1 DEF TypeInv, NetworkTypeOK
      <4>2. port_to_pid_map[port] \in AllPids /\ NoPid \in AllPids /\ port_to_pid_map[port] # NoPid
        BY <4>1, NetworkAssumption DEF AllPids
      <4> QED
        BY <2>2, <3>1, <4>2, Adding DEF TypeInv, NetworkTypeOK
    <3> QED
      BY <2>1, <3>1
  <2>4. UNCHANGED <<platform, pc, todo, in_hand, taken>> /\ pc = "drain"
    BY <1>6 DEF ProcessPacket
  <2> QED
    BY <2>3, <2>4 DEF PhaseInv
<1>7. CASE FillTable
  BY <1>7 DEF FillTable, PhaseInv, Nothing, NoUsage, AllPids
<1>8. CASE SetupTrace
  BY <1>8 DEF SetupTrace, PhaseInv
<1>9. CASE TakeAway
  BY <1>9 DEF TakeAway, PhaseInv
<1>10. CASE TableDone
  BY <1>10 DEF TableDone, PhaseInv
<1>11. CASE GenerateLog
  BY <1>11 DEF GenerateLog, PhaseInv
<1>12. ASSUME NEW q \in todo, ReadFds(q) PROVE PhaseInv'
  BY <1>12 DEF ReadFds, PhaseInv
<1>13. ASSUME NEW q \in todo, ReadProcess(q) PROVE PhaseInv'
  BY <1>13 DEF ReadProcess, PhaseInv
<1>14. CASE StartTrace \/ Decode
  BY <1>14 DEF StartTrace, Decode, PhaseInv
<1>15. CASE OnEvent
  BY <1>15 DEF OnEvent, PhaseInv
<1>16. CASE ListPids
  BY <1>16 DEF ListPids, PhaseInv
<1> QED
  BY <1>2, <1>3, <1>4, <1>5, <1>6, <1>7, <1>8, <1>9, <1>10, <1>11, <1>12, <1>13, <1>14, <1>15,
     <1>16
  DEF NetworkNext, Scan, Trace
-----------------------------------------------------------------------------
(***************************************************************************)
(* Where a packet is.                                                      *)
(***************************************************************************)

InQueue(p)   == \E i \in DOMAIN queue : queue[i] = p
IsCounted(p) == \E q \in AllPids, d \in Dirs : p \in usage[q][d]

\* The queue holds a packet once.
QueuedOnce == \A i, j \in DOMAIN queue : queue[i] = queue[j] => i = j

\* A packet is counted once.
CountedOnce ==
  \A q, r \in AllPids, d, e \in Dirs :
    usage[q][d] \cap usage[r][e] # {} => q = r /\ d = e

\* A packet is in the queue, in the trace thread's hand, done with or counted.
InOnePlace(p) ==
  /\ InQueue(p) \/ p = in_hand \/ p \in gone \/ IsCounted(p)
  /\ InQueue(p) => p # in_hand /\ p \notin gone /\ ~IsCounted(p)
  /\ p = in_hand => p \notin gone /\ ~IsCounted(p)
  /\ p \in gone => ~IsCounted(p)

PlaceInv == QueuedOnce /\ CountedOnce /\ \A p \in DOMAIN packets : InOnePlace(p)

LEMMA Queueing ==
  ASSUME NEW T, queue \in Seq(T), NEW p \in T, queue' = Append(queue, p),
         QueuedOnce, ~InQueue(p)
  PROVE  QueuedOnce' /\ \A x : InQueue(x)' <=> InQueue(x) \/ x = p
<1>1. /\ DOMAIN queue' = DOMAIN queue \cup {Len(queue) + 1} /\ Len(queue) + 1 \notin DOMAIN queue
      /\ \A i \in DOMAIN queue : queue'[i] = queue[i]
      /\ queue'[Len(queue) + 1] = p
  BY Appending
<1>2. QueuedOnce'
  BY <1>1 DEF QueuedOnce, InQueue
<1>3. \A x : InQueue(x)' <=> InQueue(x) \/ x = p
  BY <1>1 DEF InQueue
<1> QED
  BY <1>2, <1>3

LEMMA Dequeueing ==
  ASSUME NEW T, queue \in Seq(T), queue # <<>>, queue' = Tail(queue), QueuedOnce
  PROVE  /\ QueuedOnce' /\ InQueue(Head(queue)) /\ Head(queue) \in T
         /\ \A x : InQueue(x)' <=> InQueue(x) /\ x # Head(queue)
<1>1. /\ Head(queue) \in T /\ Head(queue) = queue[1] /\ 1 \in DOMAIN queue
      /\ \A i \in DOMAIN queue' :
           i + 1 \in DOMAIN queue /\ queue'[i] = queue[i + 1] /\ i \in Nat /\ i + 1 # 1
      /\ \A i \in DOMAIN queue : i # 1 => i - 1 \in DOMAIN queue' /\ queue'[i - 1] = queue[i]
  BY Taking
<1>2. QueuedOnce'
  BY <1>1 DEF QueuedOnce
<1>3. InQueue(Head(queue))
  BY <1>1 DEF InQueue
<1>4. ASSUME NEW x PROVE InQueue(x)' => InQueue(x) /\ x # Head(queue)
  BY <1>1 DEF QueuedOnce, InQueue
<1>5. ASSUME NEW x, InQueue(x), x # Head(queue) PROVE InQueue(x)'
  <2>1. PICK i \in DOMAIN queue : queue[i] = x
    BY <1>5 DEF InQueue
  <2>2. i # 1
    BY <1>1, <1>5, <2>1
  <2> QED
    BY <1>1, <2>1, <2>2 DEF InQueue
<1> QED
  BY <1>1, <1>2, <1>3, <1>4, <1>5

LEMMA Counting ==
  ASSUME TypeInv, NEW q \in AllPids, NEW d \in Dirs, NEW p \in DOMAIN packets, Add(q, d, p),
         CountedOnce, ~IsCounted(p)
  PROVE  CountedOnce' /\ \A x : IsCounted(x)' <=> IsCounted(x) \/ x = p
<1>1. /\ usage'[q][d] = usage[q][d] \cup {p}
      /\ \A r \in AllPids, e \in Dirs : r # q \/ e # d => usage'[r][e] = usage[r][e]
  BY TypeFacts, Adding DEF TypeInv, NetworkTypeOK
<1>2. \A r \in AllPids, e \in Dirs : p \notin usage[r][e]
  BY DEF IsCounted
<1>3. CountedOnce'
  BY <1>1, <1>2 DEF CountedOnce
<1>4. \A x : IsCounted(x)' <=> IsCounted(x) \/ x = p
  BY <1>1 DEF IsCounted
<1> QED
  BY <1>3, <1>4

\* A packet arrives.
LEMMA PlaceArrive ==
  ASSUME TypeInv, PlaceInv,
         NEW k \in Packet, packets' = Append(packets, k), queue' = Append(queue, Len(packets')),
         UNCHANGED <<in_hand, usage, gone>>
  PROVE  PlaceInv'
<1>1. PICK n : n = Len(packets')
  OBVIOUS
<1>2. DOMAIN packets' = DOMAIN packets \cup {n} /\ n \notin DOMAIN packets /\ n # None
  <2>1. /\ Len(packets') = Len(packets) + 1 /\ Len(packets) \in Nat
        /\ DOMAIN packets' = DOMAIN packets \cup {Len(packets) + 1}
        /\ Len(packets) + 1 \notin DOMAIN packets
    BY Appending DEF TypeInv, NetworkTypeOK
  <2> QED
    BY <1>1, <2>1 DEF None
<1>3. ~InQueue(n) /\ n # in_hand /\ n \notin gone /\ ~IsCounted(n)
  <2>1. queue \in Seq(DOMAIN packets)
    BY DEF TypeInv, NetworkTypeOK
  <2>2. ~InQueue(n)
    BY <1>2, <2>1, Elements DEF InQueue
  <2>3. n # in_hand /\ n \notin gone /\ ~IsCounted(n)
    BY <1>2 DEF IsCounted, TypeInv, NetworkTypeOK, CountedInv
  <2> QED
    BY <2>2, <2>3
<1>4. QueuedOnce' /\ \A x : InQueue(x)' <=> InQueue(x) \/ x = n
  <2>1. queue \in Seq(DOMAIN packets \cup {n})
    BY Widen DEF TypeInv, NetworkTypeOK
  <2> QED
    BY <1>1, <1>3, <2>1, Queueing DEF PlaceInv
<1>5. CountedOnce' /\ \A x : IsCounted(x)' <=> IsCounted(x)
  BY DEF PlaceInv, CountedOnce, IsCounted
<1> QED
  BY <1>2, <1>3, <1>4, <1>5 DEF PlaceInv, InOnePlace

\* What a turn of process_packets does with the packet it takes.
LEMMA Processed ==
  ASSUME TypeInv, ProcessPacket
  PROVE  /\ Head(queue) \in DOMAIN packets /\ queue # <<>> /\ queue' = Tail(queue)
         /\ \/ gone' = gone \cup {Head(queue)} /\ usage' = usage
            \/ /\ gone' = gone
               /\ \E q \in Pids, d \in Dirs :
                    LET k == packets[Head(queue)] IN
                      /\ LookupPort(k) \in DOMAIN port_to_pid_map
                      /\ q = port_to_pid_map[LookupPort(k)]
                      /\ d = "send" <=> Outgoing(k)
                      /\ Add(q, d, Head(queue))
<1>1. Head(queue) \in DOMAIN packets /\ queue # <<>> /\ queue' = Tail(queue)
  BY Taking DEF ProcessPacket, TypeInv, NetworkTypeOK
<1> DEFINE k == packets[Head(queue)]
           d == IF Outgoing(k) THEN "send" ELSE "recv"
<1>2. \/ gone' = gone \cup {Head(queue)} /\ usage' = usage
      \/ /\ gone' = gone /\ LookupPort(k) \in DOMAIN port_to_pid_map
         /\ Add(port_to_pid_map[LookupPort(k)], d, Head(queue))
  BY DEF ProcessPacket
<1>3. d \in Dirs /\ (d = "send" <=> Outgoing(k))
  BY DEF Dirs
<1>4. LookupPort(k) \in DOMAIN port_to_pid_map => port_to_pid_map[LookupPort(k)] \in Pids
  BY DEF TypeInv, NetworkTypeOK
<1> HIDE DEF d, k
<1> QED
  BY <1>1, <1>2, <1>3, <1>4 DEF k

\* The trace thread counts the packet it has in hand.
LEMMA Traced ==
  ASSUME TypeInv, OnEvent
  PROVE  LET k == packets[in_hand] IN
           /\ in_hand \in DOMAIN packets /\ in_hand' = None
           /\ \E q \in AllPids, d \in Dirs :
                /\ q = IF k.kind = "ipv6" THEN NoPid ELSE k.pid
                /\ d = IF k.kind = "recv" THEN "recv" ELSE "send"
                /\ Add(q, d, in_hand)
<1>1. in_hand \in DOMAIN packets /\ in_hand' = None
  BY DEF OnEvent, TypeInv, NetworkTypeOK
<1>2. packets[in_hand].pid \in AllPids /\ NoPid \in AllPids /\ "recv" \in Dirs /\ "send" \in Dirs
  BY <1>1, TypeFacts DEF Packet, Foreign, AllPids, Dirs
<1> QED
  BY <1>1, <1>2 DEF OnEvent

\* All that is counted becomes taken.
LEMMA PlaceTaken ==
  ASSUME TypeInv, PlaceInv, UNCHANGED <<packets, queue, in_hand>>, usage' = Nothing,
         gone' = gone \cup PacketsOf(usage, AllPids)
  PROVE  PlaceInv'
<1>1. \A x : ~IsCounted(x)'
  BY DEF IsCounted, Nothing, NoUsage
<1>2. \A x : x \in gone' <=> x \in gone \/ IsCounted(x)
  BY DEF PacketsOf, IsCounted
<1>3. CountedOnce'
  BY DEF CountedOnce, Nothing, NoUsage
<1>4. QueuedOnce' /\ \A x : InQueue(x)' <=> InQueue(x)
  BY DEF PlaceInv, QueuedOnce, InQueue
<1> QED
  BY <1>1, <1>2, <1>3, <1>4 DEF PlaceInv, InOnePlace

LEMMA PlaceStep == TypeInv /\ PhaseInv /\ PlaceInv /\ [NetworkNext]_nvars => PlaceInv'
<1> SUFFICES ASSUME TypeInv, PhaseInv, PlaceInv, [NetworkNext]_nvars PROVE PlaceInv'
  OBVIOUS
<1> USE DEF sockVars, procVars, loadVars, traceVars, mapVars, tableVars
<1>1. CASE UNCHANGED <<packets, queue, in_hand, usage, gone>>
  BY <1>1 DEF PlaceInv, QueuedOnce, CountedOnce, InOnePlace, InQueue, IsCounted
<1>2. ASSUME NEW k, Heard(k), Arrive(k) PROVE PlaceInv'
  BY <1>2, Hearing, PlaceArrive DEF Arrive
<1>3. ASSUME NEW q \in TracedPids, NEW d \in Dirs, NEW kind \in Kinds, NetIo(q, kind, d)
      PROVE  PlaceInv'
  <2> DEFINE k == [pid |-> q, sock |-> 0, rport |-> NoPort, kind |-> kind]
  <2>1. k \in Packet
    BY NetworkAssumption DEF Packet
  <2>2. /\ packets' = Append(packets, k) /\ queue' = Append(queue, Len(packets'))
        /\ UNCHANGED <<in_hand, usage, gone>>
    BY <1>3 DEF NetIo
  <2> HIDE DEF k
  <2> QED
    BY <2>1, <2>2, PlaceArrive
<1>4. CASE ProcessPacket
  <2>1. UNCHANGED <<packets, in_hand>>
    BY <1>4 DEF ProcessPacket
  <2>2. /\ QueuedOnce' /\ InQueue(Head(queue)) /\ Head(queue) \in DOMAIN packets
        /\ \A x : InQueue(x)' <=> InQueue(x) /\ x # Head(queue)
    BY <1>4, Processed, Dequeueing DEF PlaceInv, TypeInv, NetworkTypeOK
  <2>3. CASE gone' = gone \cup {Head(queue)} /\ usage' = usage
    <3>1. CountedOnce' /\ \A x : IsCounted(x)' <=> IsCounted(x)
      BY <2>3 DEF PlaceInv, CountedOnce, IsCounted
    <3> QED
      BY <2>1, <2>2, <2>3, <3>1 DEF PlaceInv, InOnePlace
  <2>4. CASE gone' = gone /\ \E q \in Pids, d \in Dirs : Add(q, d, Head(queue))
    <3>1. PICK q \in AllPids, d \in Dirs : Add(q, d, Head(queue))
      BY <2>4 DEF AllPids
    <3>2. ~IsCounted(Head(queue))
      BY <2>2 DEF PlaceInv, InOnePlace
    <3>3. CountedOnce' /\ \A x : IsCounted(x)' <=> IsCounted(x) \/ x = Head(queue)
      BY <2>2, <3>1, <3>2, Counting DEF PlaceInv
    <3> QED
      BY <2>1, <2>2, <2>4, <3>3 DEF PlaceInv, InOnePlace
  <2> QED
    BY <1>4, <2>3, <2>4, Processed
<1>5. CASE FillTable
  <2>1. PacketsOf(usage, Pids) = PacketsOf(usage, AllPids)
    <3>1. platform = "linux" /\ NoPid \notin Pids
      BY <1>5, NetworkAssumption DEF FillTable, PhaseInv
    <3>2. \A d \in Dirs : usage[NoPid][d] = {}
      BY <3>1 DEF PhaseInv
    <3> QED
      BY <3>2 DEF PacketsOf, AllPids
  <2> QED
    BY <1>5, <2>1, PlaceTaken DEF FillTable
<1>6. CASE TakeAway
  BY <1>6, PlaceTaken DEF TakeAway
<1>7. CASE Decode
  <2>1. /\ QueuedOnce' /\ InQueue(Head(queue)) /\ Head(queue) \in DOMAIN packets
        /\ \A x : InQueue(x)' <=> InQueue(x) /\ x # Head(queue)
    BY <1>7, Dequeueing DEF Decode, PlaceInv, TypeInv, NetworkTypeOK
  <2>2. in_hand = None /\ in_hand' = Head(queue) /\ UNCHANGED <<packets, usage, gone>>
    BY <1>7 DEF Decode
  <2>3. None \notin DOMAIN packets
    BY TypeFacts DEF None
  <2>4. CountedOnce' /\ \A x : IsCounted(x)' <=> IsCounted(x)
    BY <2>2 DEF PlaceInv, CountedOnce, IsCounted
  <2> QED
    BY <2>1, <2>2, <2>3, <2>4 DEF PlaceInv, InOnePlace
<1>8. CASE OnEvent
  <2>1. in_hand \in DOMAIN packets /\ in_hand' = None /\ None \notin DOMAIN packets
    BY <1>8, Traced, TypeFacts DEF None
  <2>2. ~IsCounted(in_hand)
    BY <2>1 DEF PlaceInv, InOnePlace
  <2>3. CountedOnce' /\ \A x : IsCounted(x)' <=> IsCounted(x) \/ x = in_hand
    BY <1>8, <2>1, <2>2, Traced, Counting DEF PlaceInv
  <2>4. UNCHANGED <<packets, queue, gone>>
    BY <1>8 DEF OnEvent
  <2>5. QueuedOnce' /\ \A x : InQueue(x)' <=> InQueue(x)
    BY <2>4 DEF PlaceInv, QueuedOnce, InQueue
  <2> QED
    BY <2>1, <2>3, <2>4, <2>5 DEF PlaceInv, InOnePlace
<1>9. CASE \/ \E q \in Pids, s \in Socket : OpenSocket(q, s)
           \/ \E q, r \in Pids : \E i \in fds[q] : Inherit(q, r, i)
           \/ \E q \in Pids : \E i \in fds[q] : CloseSocket(q, i)
           \/ \E q \in TracedPids : EndProcess(q) \/ StartProcess(q)
           \/ \E q \in TracedPids, d \in Dirs : DiskIo(q, d)
           \/ SetupCapture \/ ReadNetTcp \/ ChooseIp
           \/ SetupTrace \/ ListPids \/ TableDone \/ GenerateLog
           \/ \E q \in todo : ReadFds(q) \/ ReadProcess(q)
           \/ StartTrace \/ UNCHANGED nvars
  <2>1. UNCHANGED <<packets, queue, in_hand, usage, gone>>
    BY <1>9 DEF OpenSocket, Inherit, CloseSocket, EndProcess, StartProcess, DiskIo,
                SetupCapture, ReadNetTcp, ChooseIp, SetupTrace, ListPids, TableDone, GenerateLog,
                ReadFds, ReadProcess, StartTrace, nvars
  <2> QED
    BY <1>1, <2>1
<1> QED
  BY <1>2, <1>3, <1>4, <1>5, <1>6, <1>7, <1>8, <1>9, Captured
  DEF NetworkNext, System, Scan, Trace

LEMMA PlaceStarts == NetworkInit => PhaseInv /\ PlaceInv
BY DEF NetworkInit, PhaseInv, PlaceInv, QueuedOnce, CountedOnce, Nothing, NoUsage, AllPids

LEMMA OncePlaced == TypeInv /\ PlaceInv => EachPacketOnce
<1> SUFFICES ASSUME TypeInv, PlaceInv, NEW p \in DOMAIN packets
             PROVE  Cardinality(Places(p)) = 1
  BY DEF EachPacketOnce
<1>1. InOnePlace(p)
  BY DEF PlaceInv
<1>2. \E x : Places(p) = {x}
  <2>1. CASE InQueue(p)
    <3>1. PICK i \in DOMAIN queue : queue[i] = p
      BY <2>1 DEF InQueue
    <3>2. {j \in DOMAIN queue : queue[j] = p} = {i}
      BY <3>1 DEF PlaceInv, QueuedOnce
    <3>3. Places(p) = {<<"queue", i>>}
      BY <1>1, <2>1, <3>2 DEF Places, InOnePlace, IsCounted
    <3> QED
      BY <3>3
  <2>2. CASE p = in_hand
    <3>1. Places(p) = {<<"hand", p>>}
      BY <1>1, <2>2 DEF Places, InOnePlace, InQueue, IsCounted
    <3> QED
      BY <3>1
  <2>3. CASE p \in gone
    <3>1. Places(p) = {<<"gone", p>>}
      BY <1>1, <2>3 DEF Places, InOnePlace, InQueue, IsCounted
    <3> QED
      BY <3>1
  <2>4. CASE IsCounted(p)
    <3>1. PICK q \in AllPids, d \in Dirs : p \in usage[q][d]
      BY <2>4 DEF IsCounted
    <3>2. {y \in AllPids \X Dirs : p \in usage[y[1]][y[2]]} = {<<q, d>>}
      BY <3>1 DEF PlaceInv, CountedOnce
    <3>3. Places(p) = {<<"usage", <<q, d>>>>}
      BY <1>1, <2>4, <3>2 DEF Places, InOnePlace, InQueue
    <3> QED
      BY <3>3
  <2> QED
    BY <1>1, <2>1, <2>2, <2>3, <2>4 DEF InOnePlace
<1> QED
  BY <1>2, FS_Singleton

LEMMA GoneStep == TypeInv /\ GoneInv /\ [NetworkNext]_nvars => GoneInv'
<1> SUFFICES ASSUME TypeInv, GoneInv, [NetworkNext]_nvars PROVE GoneInv'
  OBVIOUS
<1> USE DEF sockVars, procVars, loadVars, traceVars, mapVars, tableVars
<1>1. CASE UNCHANGED <<stat, taken, logged>> /\ gone \subseteq gone'
  BY <1>1 DEF GoneInv
<1>2. CASE FillTable
  <2>1. PICK ok \in SUBSET Pids :
          stat' = [q \in Pids |-> IF q \in ok THEN usage[q] ELSE NoUsage]
    BY <1>2 DEF FillTable
  <2>2. \A q \in Pids, d \in Dirs : stat'[q][d] \subseteq usage[q][d]
    BY <2>1 DEF NoUsage
  <2>3. \A q \in Pids, d \in Dirs : usage[q][d] \subseteq PacketsOf(usage, Pids)
    BY DEF PacketsOf
  <2>4. gone' = gone \cup PacketsOf(usage, Pids) /\ UNCHANGED <<taken, logged>>
    BY <1>2 DEF FillTable
  <2> QED
    BY <2>2, <2>3, <2>4 DEF GoneInv
<1>3. CASE TakeAway
  <2>1. \A q \in AllPids, d \in Dirs : usage[q][d] \subseteq PacketsOf(usage, AllPids)
    BY DEF PacketsOf
  <2> QED
    BY <1>3, <2>1 DEF TakeAway, GoneInv
<1>4. ASSUME NEW q \in todo, ReadProcess(q) PROVE GoneInv'
  <2>1. stat' = stat \/ stat' = [stat EXCEPT ![q] = taken[q]]
    BY <1>4 DEF ReadProcess
  <2>2. \A r \in Pids : stat'[r] = stat[r] \/ (r = q /\ stat'[r] = taken[r])
    BY <2>1 DEF TypeInv, NetworkTypeOK
  <2>3. UNCHANGED <<taken, gone, logged>>
    BY <1>4 DEF ReadProcess
  <2> QED
    BY <2>2, <2>3 DEF GoneInv, AllPids
<1>5. CASE TableDone
  <2>1. \A q \in Pids, d \in Dirs : stat'[q][d] \subseteq stat[q][d]
    BY <1>5 DEF TableDone, NoUsage
  <2>2. /\ \A q \in AllPids, d \in Dirs : taken'[q][d] = {}
        /\ UNCHANGED <<gone, logged>>
    BY <1>5 DEF TableDone, Nothing, NoUsage
  <2> QED
    BY <2>1, <2>2 DEF GoneInv
<1>6. CASE GenerateLog
  <2>1. PacketsOf(stat, Pids) \subseteq gone
    BY DEF GoneInv, PacketsOf
  <2>2. \A q \in Pids, d \in Dirs : stat'[q][d] \subseteq stat[q][d]
    BY <1>6 DEF GenerateLog, NoUsage
  <2>3. logged' = logged \cup PacketsOf(stat, Pids) /\ UNCHANGED <<taken, gone>>
    BY <1>6 DEF GenerateLog
  <2> QED
    BY <2>1, <2>2, <2>3 DEF GoneInv
<1>7. CASE \/ System \/ Trace \/ SetupCapture \/ ReadNetTcp \/ ChooseIp \/ ProcessPacket
           \/ SetupTrace \/ ListPids \/ \E q \in todo : ReadFds(q)
           \/ UNCHANGED nvars
  <2>1. UNCHANGED <<stat, taken, logged>> /\ gone \subseteq gone'
    BY <1>7 DEF System, Trace, OpenSocket, Inherit, CloseSocket, Capture, Overhear, Arrive, DiskIo,
                NetIo, EndProcess, StartProcess, SetupCapture, ReadNetTcp, ChooseIp, ProcessPacket,
                SetupTrace, ListPids, ReadFds, StartTrace, Decode, OnEvent, nvars
  <2> QED
    BY <1>1, <2>1
<1> QED
  BY <1>2, <1>3, <1>4, <1>5, <1>6, <1>7 DEF NetworkNext, Scan

LEMMA GoneStarts == NetworkInit => GoneInv
BY DEF NetworkInit, GoneInv, Nothing, NoUsage

\* All variables stay in their types: no count exceeds what there was to
\* count, and every packet that is queued, in hand, taken or reported is one
\* there was.  Of the disk usage it says that no more of the network's bytes
\* is subtracted than the difference of the process's counters
\* (update_table, DiskDelta); that difference is taken modulo the unsigned
\* type's size, and is a large number if the process was given the pid of
\* another one since.
THEOREM NetworkTypeCorrect == NetworkSpec => []NetworkTypeOK
<1>1. NetworkInit => TypeInv /\ GoneInv
  BY NetworkTypeStarts, GoneStarts
<1>2. TypeInv /\ GoneInv /\ [NetworkNext]_nvars => (TypeInv /\ GoneInv)'
  BY NetworkTypeStep, GoneStep
<1>3. TypeInv => NetworkTypeOK
  BY DEF TypeInv
<1> QED
  BY <1>1, <1>2, <1>3, PTL DEF NetworkSpec

LEMMA PlacesHold == NetworkSpec => [](TypeInv /\ GoneInv /\ PhaseInv /\ PlaceInv)
<1>1. NetworkInit => TypeInv /\ GoneInv /\ PhaseInv /\ PlaceInv
  BY NetworkTypeStarts, GoneStarts, PlaceStarts
<1>2. TypeInv /\ GoneInv /\ PhaseInv /\ PlaceInv /\ [NetworkNext]_nvars
        => (TypeInv /\ GoneInv /\ PhaseInv /\ PlaceInv)'
  BY NetworkTypeStep, GoneStep, PhaseStep, PlaceStep
<1> QED
  BY <1>1, <1>2, PTL DEF NetworkSpec

\* Each packet is at any time in one place: waiting, in the trace thread's
\* hand, counted once, or done with.  The trace thread that adds to the map
\* and the scan that takes it away, in any order, lose no packet and count
\* none twice (OnEvent, get_pid_network_stat, process_packets).
THEOREM EachPacketOnceHolds == NetworkSpec => []EachPacketOnce
<1>1. TypeInv /\ GoneInv /\ PhaseInv /\ PlaceInv => EachPacketOnce
  BY OncePlaced
<1> QED
  BY <1>1, PlacesHold, PTL
-----------------------------------------------------------------------------
(***************************************************************************)
(* What generate_log has seen.                                             *)
(***************************************************************************)

\* What a scan takes has not been reported, and neither has what it has put
\* in the table; only processes it has listed have anything in it when it is
\* done.
SeenInv ==
  /\ pc \in {"list", "table"} =>
       /\ todo \subseteq listed
       /\ \A q \in listed \ (stale \cup todo), d \in Dirs : stat[q][d] \cap logged = {}
  /\ pc = "table" => \A q \in AllPids, d \in Dirs : taken[q][d] \cap logged = {}
  /\ pc = "report" => \A q \in Pids \ stale, d \in Dirs : stat[q][d] \cap logged = {}

\* What is counted is not done with, and so has not been reported.
LEMMA CountedUnseen ==
  ASSUME GoneInv, TypeInv, PlaceInv, NEW q \in AllPids, NEW d \in Dirs
  PROVE  usage[q][d] \cap logged = {}
<1>1. \A p \in usage[q][d] : p \in DOMAIN packets /\ IsCounted(p)
  BY DEF TypeInv, CountedInv, IsCounted
<1> QED
  BY <1>1 DEF GoneInv, PlaceInv, InOnePlace

LEMMA SeenStep ==
  TypeInv /\ GoneInv /\ PhaseInv /\ PlaceInv /\ SeenInv /\ [NetworkNext]_nvars => SeenInv'
<1> SUFFICES ASSUME TypeInv, GoneInv, PhaseInv, PlaceInv, SeenInv, [NetworkNext]_nvars
             PROVE  SeenInv'
  OBVIOUS
<1> USE DEF sockVars, procVars, loadVars, traceVars, mapVars, tableVars
<1>1. CASE pc' \notin {"list", "table", "report"}
  BY <1>1 DEF SeenInv
<1>2. CASE UNCHANGED <<pc, todo, listed, taken, stat, stale, logged>>
  BY <1>2 DEF SeenInv
<1>3. CASE FillTable
  <2>1. PICK ok \in SUBSET Pids :
          stat' = [q \in Pids |-> IF q \in ok THEN usage[q] ELSE NoUsage]
    BY <1>3 DEF FillTable
  <2>2. \A q \in Pids, d \in Dirs : stat'[q][d] \subseteq usage[q][d]
    BY <2>1 DEF NoUsage
  <2>3. \A q \in Pids, d \in Dirs : stat'[q][d] \cap logged = {}
    BY <2>2, CountedUnseen DEF AllPids
  <2>4. pc' = "report" /\ UNCHANGED <<stale, logged>>
    BY <1>3 DEF FillTable
  <2> QED
    BY <2>3, <2>4 DEF SeenInv
<1>4. CASE TakeAway
  <2>1. \A q \in AllPids, d \in Dirs : taken'[q][d] \cap logged = {}
    BY <1>4, CountedUnseen DEF TakeAway
  <2>2. pc = "list" /\ pc' = "table" /\ UNCHANGED <<todo, listed, stat, stale, logged>>
    BY <1>4 DEF TakeAway
  <2> QED
    BY <2>1, <2>2 DEF SeenInv
<1>5. ASSUME NEW q \in todo, ReadProcess(q) PROVE SeenInv'
  <2>1. pc = "table" /\ todo' = todo \ {q} /\ UNCHANGED <<pc, listed, taken, logged>>
    BY <1>5 DEF ReadProcess
  <2>2. \/ stale' = stale \cup {q} /\ stat' = stat
        \/ stale' = stale \ {q} /\ stat' = [stat EXCEPT ![q] = taken[q]]
    BY <1>5 DEF ReadProcess
  <2>3. q \in Pids /\ q \in AllPids
    BY DEF TypeInv, NetworkTypeOK, AllPids
  <2>4. \A r \in Pids : r # q => stat'[r] = stat[r]
    BY <2>2 DEF TypeInv, NetworkTypeOK
  <2>5. q \notin stale' => stat'[q] = taken[q]
    BY <2>2, <2>3 DEF TypeInv, NetworkTypeOK
  <2>6. \A r \in listed \ (stale' \cup todo'), d \in Dirs : stat'[r][d] \cap logged = {}
    <3> SUFFICES ASSUME NEW r \in listed \ (stale' \cup todo'), NEW d \in Dirs
                 PROVE  stat'[r][d] \cap logged = {}
      OBVIOUS
    <3>0. r \in Pids
      BY NetworkAssumption DEF TypeInv, NetworkTypeOK
    <3>1. CASE r = q
      BY <2>1, <2>3, <2>5, <3>1 DEF SeenInv
    <3>2. CASE r # q
      BY <2>1, <2>2, <2>4, <3>0, <3>2 DEF SeenInv
    <3> QED
      BY <3>1, <3>2
  <2> QED
    BY <2>1, <2>6 DEF SeenInv
<1>6. CASE TableDone
  <2>1. pc = "table" /\ pc' = "report" /\ todo = {} /\ logged' = logged /\ stale' = stale \cap listed
    BY <1>6 DEF TableDone
  <2>2. \A q \in Pids : IF q \in listed THEN stat'[q] = stat[q] ELSE stat'[q] = NoUsage
    BY <1>6 DEF TableDone
  <2>3. ASSUME NEW q \in Pids \ stale', NEW d \in Dirs PROVE stat'[q][d] \cap logged = {}
    <3>1. CASE q \in listed
      BY <2>1, <2>2, <3>1 DEF SeenInv
    <3>2. CASE q \notin listed
      BY <2>2, <3>2 DEF NoUsage
    <3> QED
      BY <3>1, <3>2
  <2> QED
    BY <2>1, <2>3 DEF SeenInv
<1>7. CASE ListPids
  BY <1>7 DEF ListPids, SeenInv
<1>8. CASE SetupCapture \/ ReadNetTcp \/ ChooseIp \/ SetupTrace \/ GenerateLog
  <2>1. pc' \notin {"list", "table", "report"}
    BY <1>8 DEF SetupCapture, ReadNetTcp, ChooseIp, SetupTrace, GenerateLog
  <2> QED
    BY <1>1, <2>1
<1>9. ASSUME NEW q \in todo, ReadFds(q) PROVE SeenInv'
  <2>1. pc' \notin {"list", "table", "report"}
    BY <1>9 DEF ReadFds
  <2> QED
    BY <1>1, <2>1
<1>10. CASE System \/ Trace \/ ProcessPacket \/ UNCHANGED nvars
  <2>1. UNCHANGED <<pc, todo, listed, taken, stat, stale, logged>>
    BY <1>10 DEF System, Trace, OpenSocket, Inherit, CloseSocket, Capture, Overhear, Arrive, DiskIo,
                 NetIo, EndProcess, StartProcess, ProcessPacket, StartTrace, Decode, OnEvent, nvars
  <2> QED
    BY <1>2, <2>1
<1> QED
  BY <1>3, <1>4, <1>5, <1>6, <1>7, <1>8, <1>9, <1>10 DEF NetworkNext, Scan

\* generate_log sees no packet it has seen in an earlier scan but in an entry
\* that the last scan has not renewed: the map is taken away under the mutex
\* with all that is in it and a new one begun, and on Linux the packets of a
\* scan are looked up in that scan (get_pid_network_stat, update_table).
THEOREM NoPacketLoggedTwiceHolds == NetworkSpec => []NoPacketLoggedTwice
<1>1. NetworkInit => SeenInv
  BY DEF NetworkInit, SeenInv, Nothing, NoUsage
<1>2. /\ TypeInv /\ GoneInv /\ PhaseInv /\ PlaceInv /\ SeenInv
      /\ (TypeInv /\ GoneInv /\ PhaseInv /\ PlaceInv)'
      /\ [NetworkNext]_nvars
      => SeenInv'
  BY SeenStep
<1>3. SeenInv => NoPacketLoggedTwice
  BY DEF SeenInv, NoPacketLoggedTwice, PacketsOf
<1> QED
  BY <1>1, <1>2, <1>3, PlacesHold, PTL DEF NetworkSpec
-----------------------------------------------------------------------------
(***************************************************************************)
(* Linux: whom a packet is accounted to.                                   *)
(***************************************************************************)

\* A port is in the map for a process that had a TCP socket there, or for one
\* with a socket of a long inode.
MapRight(x) ==
  LET q == port_to_pid_map[x] IN
    \/ \E i \in had[q] : socks[i].tcp /\ socks[i].port = x
    \/ had[q] \cap LongInodes # {}

\* A packet is of another host, or of a socket its process had.
FromSocket(k) ==
  \/ k.kind = "foreign" /\ k.rport \in Ports
  \/ k.pid \in Pids /\ k.sock \in had[k.pid] /\ k.kind \in Dirs

SocketInv ==
  platform = "linux" =>
    /\ \A p \in DOMAIN packets : FromSocket(packets[p])
    /\ \A q \in Pids : fds[q] \subseteq had[q]
    /\ \A i \in inode_list_all : socks[i].tcp
    /\ \A x \in DOMAIN port_to_pid_map : MapRight(x)

\* Of what a process finds, all is its own or it has a long inode.
LEMMA FoundOwn ==
  ASSUME TypeInv, NEW q \in Pids, NEW F \in Found(q)
  PROVE  F \subseteq inode_list_all /\ (fds[q] \cap LongInodes # {} \/ F \subseteq fds[q])
<1>1. F \subseteq inode_list_all /\ F \subseteq DOMAIN socks
  BY DEF Found, TypeInv, NetworkTypeOK
<1>2. CASE fds[q] \cap LongInodes = {}
  <2>1. IsFiniteSet(F \ (fds[q] \ LongInodes))
    <3>1. IsFiniteSet(1 .. Len(socks))
      BY TypeFacts, FS_Interval
    <3> QED
      BY <1>1, <3>1, TypeFacts, FS_Subset
  <2>2. Cardinality(F \ (fds[q] \ LongInodes)) <= 0
    BY <1>2, FS_EmptySet DEF Found
  <2>3. Cardinality(F \ (fds[q] \ LongInodes)) = 0
    BY <2>1, <2>2, FS_CardinalityType
  <2>4. F \ (fds[q] \ LongInodes) = {}
    BY <2>1, <2>3, FS_EmptySet
  <2> QED
    BY <1>1, <2>4
<1> QED
  BY <1>1, <1>2

LEMMA PlatformStays == [NetworkNext]_nvars => platform' = platform
<1> SUFFICES ASSUME [NetworkNext]_nvars PROVE platform' = platform
  OBVIOUS
<1>1. CASE System \/ UNCHANGED nvars
  BY <1>1 DEF System, OpenSocket, Inherit, CloseSocket, Capture, Overhear, Arrive, DiskIo, NetIo,
              EndProcess, StartProcess, nvars, sockVars
<1>2. CASE Scan
  BY <1>2 DEF Scan, SetupCapture, ReadNetTcp, ChooseIp, ProcessPacket, FillTable, SetupTrace,
              ListPids, TakeAway, TableDone, GenerateLog, ReadFds, ReadProcess, sockVars
<1>3. CASE Trace
  BY <1>3 DEF Trace, StartTrace, Decode, OnEvent, sockVars
<1> QED
  BY <1>1, <1>2, <1>3 DEF NetworkNext

\* Sockets are not taken out of socks, nor is it forgotten whose they were.
LEMMA SocketsStay ==
  ASSUME TypeInv, [NetworkNext]_nvars
  PROVE  /\ DOMAIN socks \subseteq DOMAIN socks'
         /\ \A i \in DOMAIN socks : socks'[i] = socks[i]
         /\ \A q \in Pids : had[q] \subseteq had'[q] /\ had[q] \subseteq DOMAIN socks
<1> USE DEF sockVars, procVars, loadVars, traceVars, mapVars, tableVars
<1>0. had \in [Pids -> SUBSET DOMAIN socks]
  BY DEF TypeInv, NetworkTypeOK
<1>1. CASE \E q \in Pids, s \in Socket : OpenSocket(q, s)
  <2>1. DOMAIN socks \subseteq DOMAIN socks' /\ \A i \in DOMAIN socks : socks'[i] = socks[i]
    BY <1>1, Appending DEF OpenSocket, TypeInv, NetworkTypeOK
  <2>2. \A q \in Pids : had[q] \subseteq had'[q]
    BY <1>0, <1>1 DEF OpenSocket
  <2> QED
    BY <1>0, <2>1, <2>2
<1>2. CASE UNCHANGED <<socks, had>>
  BY <1>0, <1>2
<1>3. CASE \E q, r \in Pids : \E i \in fds[q] : Inherit(q, r, i)
  BY <1>0, <1>3 DEF Inherit
<1>4. CASE \/ \E q \in Pids : \E i \in fds[q] : CloseSocket(q, i)
           \/ \E k : Heard(k) /\ Arrive(k)
           \/ \E q \in TracedPids : EndProcess(q) \/ StartProcess(q)
           \/ \E q \in TracedPids, d \in Dirs : DiskIo(q, d) \/ \E kind \in Kinds : NetIo(q, kind, d)
           \/ UNCHANGED nvars
  BY <1>2, <1>4 DEF CloseSocket, Arrive, EndProcess, StartProcess, DiskIo, NetIo, nvars
<1>5. CASE Scan
  BY <1>2, <1>5 DEF Scan, SetupCapture, ReadNetTcp, ChooseIp, ProcessPacket, FillTable, SetupTrace,
                    ListPids, TakeAway, TableDone, GenerateLog, ReadFds, ReadProcess
<1>6. CASE Trace
  BY <1>2, <1>6 DEF Trace, StartTrace, Decode, OnEvent
<1> QED
  BY <1>1, <1>3, <1>4, <1>5, <1>6, Captured DEF NetworkNext, System

\* Packets are not taken out of packets.
LEMMA PacketsStay ==
  ASSUME TypeInv, [NetworkNext]_nvars
  PROVE  /\ DOMAIN packets \subseteq DOMAIN packets'
         /\ \A p \in DOMAIN packets : packets'[p] = packets[p]
<1> USE DEF sockVars, procVars, loadVars
<1>1. ASSUME NEW k, Heard(k), Arrive(k) PROVE \E x : packets' = Append(packets, x)
  BY <1>1 DEF Arrive
<1>2. ASSUME NEW q \in TracedPids, NEW d \in Dirs, NEW kind \in Kinds, NetIo(q, kind, d)
      PROVE  \E k : packets' = Append(packets, k)
  BY <1>2 DEF NetIo
<1>3. CASE \/ \E q \in Pids, s \in Socket : OpenSocket(q, s)
           \/ \E q, r \in Pids : \E i \in fds[q] : Inherit(q, r, i)
           \/ \E q \in Pids : \E i \in fds[q] : CloseSocket(q, i)
           \/ \E q \in TracedPids : EndProcess(q) \/ StartProcess(q)
           \/ \E q \in TracedPids, d \in Dirs : DiskIo(q, d)
           \/ UNCHANGED nvars
  BY <1>3 DEF OpenSocket, Inherit, CloseSocket, EndProcess, StartProcess, DiskIo, nvars
<1>4. CASE Scan
  BY <1>4 DEF Scan, SetupCapture, ReadNetTcp, ChooseIp, ProcessPacket, FillTable, SetupTrace,
              ListPids, TakeAway, TableDone, GenerateLog, ReadFds, ReadProcess
<1>5. CASE Trace
  BY <1>5 DEF Trace, StartTrace, Decode, OnEvent
<1>6. CASE \E k : packets' = Append(packets, k)
  <2>1. packets \in Seq(Packet)
    BY DEF TypeInv, NetworkTypeOK
  <2>2. PICK k : packets' = Append(packets, k)
    BY <1>6
  <2> QED
    BY <2>1, <2>2, TypeFacts
<1> QED
  BY <1>1, <1>2, <1>3, <1>4, <1>5, <1>6, Captured DEF NetworkNext, System

\* What a step that makes no entry leaves of the map.
LEMMA MapKept ==
  ASSUME TypeInv, SocketInv, platform = "linux", [NetworkNext]_nvars,
         port_to_pid_map' = port_to_pid_map
  PROVE  \A x \in DOMAIN port_to_pid_map' : MapRight(x)'
<1>1. \A x \in DOMAIN port_to_pid_map : MapRight(x) /\ port_to_pid_map[x] \in Pids
  BY DEF SocketInv, TypeInv, NetworkTypeOK
<1> QED
  BY <1>1, SocketsStay DEF MapRight

LEMMA FromKept ==
  ASSUME TypeInv, SocketInv, platform = "linux", [NetworkNext]_nvars, NEW p \in DOMAIN packets
  PROVE  FromSocket(packets[p])'
<1>1. FromSocket(packets[p])
  BY DEF SocketInv
<1> QED
  BY <1>1, PacketsStay, SocketsStay DEF FromSocket

\* Open sockets are among those a process had.
LEMMA OpenHad ==
  ASSUME TypeInv, SocketInv, platform = "linux", [NetworkNext]_nvars
  PROVE  \A q \in Pids : fds'[q] \subseteq had'[q]
<1> USE DEF sockVars, procVars, loadVars, traceVars, mapVars, tableVars
<1>0. /\ fds \in [Pids -> SUBSET DOMAIN socks] /\ had \in [Pids -> SUBSET DOMAIN socks]
      /\ \A q \in Pids : fds[q] \subseteq had[q]
  BY DEF TypeInv, NetworkTypeOK, SocketInv
<1>1. CASE UNCHANGED <<fds, had>>
  BY <1>0, <1>1
<1>2. ASSUME NEW q \in Pids, NEW s \in Socket, OpenSocket(q, s)
      PROVE  \A r \in Pids : fds'[r] \subseteq had'[r]
  BY <1>0, <1>2 DEF OpenSocket
<1>3. ASSUME NEW q \in Pids, NEW r \in Pids, NEW i \in fds[q], Inherit(q, r, i)
      PROVE  \A t \in Pids : fds'[t] \subseteq had'[t]
  BY <1>0, <1>3 DEF Inherit
<1>4. ASSUME NEW q \in Pids, NEW i \in fds[q], CloseSocket(q, i)
      PROVE  \A r \in Pids : fds'[r] \subseteq had'[r]
  BY <1>0, <1>4 DEF CloseSocket
<1>5. CASE \/ \E k : Heard(k) /\ Arrive(k)
           \/ \E q \in TracedPids : EndProcess(q) \/ StartProcess(q)
           \/ \E q \in TracedPids, d \in Dirs : DiskIo(q, d) \/ \E kind \in Kinds : NetIo(q, kind, d)
           \/ UNCHANGED nvars
  BY <1>1, <1>5 DEF Arrive, EndProcess, StartProcess, DiskIo, NetIo, nvars
<1>6. CASE Scan
  BY <1>1, <1>6 DEF Scan, SetupCapture, ReadNetTcp, ChooseIp, ProcessPacket, FillTable, SetupTrace,
                    ListPids, TakeAway, TableDone, GenerateLog, ReadFds, ReadProcess
<1>7. CASE Trace
  BY <1>1, <1>7 DEF Trace, StartTrace, Decode, OnEvent
<1> QED
  BY <1>2, <1>3, <1>4, <1>5, <1>6, <1>7, Captured DEF NetworkNext, System

LEMMA SocketStep == TypeInv /\ PhaseInv /\ SocketInv /\ [NetworkNext]_nvars => SocketInv'
<1> SUFFICES ASSUME TypeInv, PhaseInv, SocketInv, [NetworkNext]_nvars, platform = "linux"
             PROVE  SocketInv'
  BY PlatformStays DEF SocketInv
<1> USE DEF sockVars, procVars, loadVars, traceVars, mapVars, tableVars
<1>0. /\ \A i \in DOMAIN socks : socks'[i] = socks[i]
      /\ \A i \in inode_list_all : i \in DOMAIN socks /\ socks[i].tcp
      /\ \A q \in Pids : fds'[q] \subseteq had'[q]
      /\ \A p \in DOMAIN packets : FromSocket(packets[p])'
  <2>1. \A i \in inode_list_all : i \in DOMAIN socks /\ socks[i].tcp
    BY DEF SocketInv, TypeInv, NetworkTypeOK
  <2> QED
    BY <2>1, SocketsStay, OpenHad, FromKept
<1>1. CASE UNCHANGED <<packets, port_to_pid_map>> /\ inode_list_all' \subseteq inode_list_all
  BY <1>0, <1>1, MapKept DEF SocketInv
<1>2. ASSUME NEW k, Heard(k), Arrive(k) PROVE SocketInv'
  <2>1. /\ k \in Packet
        /\ \/ k.pid \in Pids /\ k.sock \in fds[k.pid] /\ k.kind \in Dirs
           \/ k.kind = "foreign" /\ k.rport \in Ports
    BY <1>2, Hearing
  <2>2. /\ packets' = Append(packets, k)
        /\ UNCHANGED <<had, inode_list_all, port_to_pid_map>>
    BY <1>2 DEF Arrive
  <2>3. FromSocket(k)'
    BY <2>1, <2>2 DEF FromSocket, SocketInv
  <2>4. \A p \in DOMAIN packets' : \/ p \in DOMAIN packets /\ packets'[p] = packets[p]
                                   \/ packets'[p] = k
    BY <2>1, <2>2, Appending DEF TypeInv, NetworkTypeOK
  <2>5. ASSUME NEW p \in DOMAIN packets' PROVE FromSocket(packets[p])'
    BY <1>0, <2>2, <2>3, <2>4 DEF FromSocket
  <2> QED
    BY <1>0, <2>2, <2>5, MapKept DEF SocketInv
<1>3. CASE ReadNetTcp
  <2>1. /\ UNCHANGED <<packets, socks, port_to_pid_map>>
        /\ \A i \in inode_list_all' : socks[i].tcp
    BY <1>3 DEF ReadNetTcp
  <2> QED
    BY <1>0, <2>1, MapKept DEF SocketInv
<1>4. ASSUME NEW q \in todo, ReadFds(q) PROVE SocketInv'
  <2>1. PICK F \in Found(q) :
          LET ports == {socks[i].port : i \in F}
          IN port_to_pid_map' = [x \in DOMAIN port_to_pid_map \cup ports |->
                                   IF x \in ports THEN q ELSE port_to_pid_map[x]]
    BY <1>4 DEF ReadFds
  <2>2. UNCHANGED <<socks, had, packets, inode_list_all>> /\ q \in Pids
    BY <1>4 DEF ReadFds, TypeInv, NetworkTypeOK
  <2>3. \A x \in DOMAIN port_to_pid_map' :
          \/ \E i \in F : socks[i].port = x /\ port_to_pid_map'[x] = q
          \/ x \in DOMAIN port_to_pid_map /\ port_to_pid_map'[x] = port_to_pid_map[x]
    BY <2>1
  <2>4. ASSUME NEW x \in DOMAIN port_to_pid_map' PROVE MapRight(x)'
    <3>1. CASE \E i \in F : socks[i].port = x /\ port_to_pid_map'[x] = q
      <4>1. /\ F \subseteq inode_list_all /\ (fds[q] \cap LongInodes # {} \/ F \subseteq fds[q])
            /\ fds[q] \subseteq had[q]
        BY <2>2, FoundOwn DEF SocketInv
      <4> QED
        BY <1>0, <2>2, <3>1, <4>1 DEF MapRight
    <3>2. CASE x \in DOMAIN port_to_pid_map /\ port_to_pid_map'[x] = port_to_pid_map[x]
      BY <2>2, <3>2 DEF SocketInv, MapRight
    <3> QED
      BY <2>3, <3>1, <3>2
  <2> QED
    BY <1>0, <2>2, <2>4 DEF SocketInv
<1>5. CASE FillTable
  <2>1. DOMAIN port_to_pid_map' = {} /\ UNCHANGED <<packets, inode_list_all>>
    BY <1>5 DEF FillTable
  <2> QED
    BY <1>0, <2>1 DEF SocketInv
<1>6. CASE \/ System /\ packets' = packets
           \/ SetupCapture \/ ChooseIp \/ ProcessPacket \/ SetupTrace \/ ListPids \/ TableDone
           \/ GenerateLog \/ TakeAway \/ \E q \in todo : ReadProcess(q)
           \/ Trace \/ UNCHANGED nvars
  <2>1. UNCHANGED <<packets, port_to_pid_map>> /\ inode_list_all' \subseteq inode_list_all
    BY <1>6 DEF System, OpenSocket, Inherit, CloseSocket, Capture, Overhear, Arrive, DiskIo, NetIo,
                EndProcess, StartProcess, SetupCapture, ChooseIp, ProcessPacket, SetupTrace,
                ListPids, TableDone, GenerateLog, TakeAway, ReadProcess, Trace, StartTrace, Decode,
                OnEvent, nvars
  <2> QED
    BY <1>1, <2>1
<1>7. ASSUME System, packets' # packets PROVE \E k : Heard(k) /\ Arrive(k)
  BY <1>7, Captured DEF System, OpenSocket, Inherit, CloseSocket, DiskIo, NetIo, EndProcess,
                        StartProcess
<1> QED
  BY <1>2, <1>3, <1>4, <1>5, <1>6, <1>7 DEF NetworkNext, Scan

LEMMA SocketStarts == NetworkInit => SocketInv
BY DEF NetworkInit, SocketInv

\* A packet may be accounted to a process in a direction.
Charged(q, d, p) ==
  LET k == packets[p] IN
    \/ q = k.pid /\ d = k.kind
    \/ had[q] \cap LongInodes # {}
    \/ /\ k.kind = "foreign" /\ d = "recv"
       /\ \E i \in had[q] : socks[i].tcp /\ socks[i].port = k.rport
    \/ /\ k.kind # "foreign"
       /\ \/ \E i \in DOMAIN socks \ {k.sock} :
               socks[i].tcp /\ socks[i].port = socks[k.sock].port
          \/ \E r \in Pids \ {k.pid} : k.sock \in had[r]
          \/ k.kind = "send" /\ socks[k.sock].ip # local_ip

ChargeInv ==
  platform = "linux" =>
    /\ \A q \in Pids, d \in Dirs : \A p \in usage[q][d] : Charged(q, d, p)
    /\ pc = "report" => \A q \in Pids, d \in Dirs : \A p \in stat[q][d] : Charged(q, d, p)

\* A packet stays accounted right while there come packets and sockets.
LEMMA ChargedStays ==
  ASSUME TypeInv, SocketInv, platform = "linux", [NetworkNext]_nvars, NEW p \in DOMAIN packets,
         NEW q \in Pids, NEW d, Charged(q, d, p), local_ip' = local_ip
  PROVE  Charged(q, d, p)'
<1>1. PICK k : k = packets[p]
  OBVIOUS
<1>2. packets'[p] = k /\ (k.kind = "foreign" \/ k.sock \in DOMAIN socks)
  BY <1>1, PacketsStay, SocketsStay DEF SocketInv, FromSocket
<1>3. /\ DOMAIN socks \subseteq DOMAIN socks' /\ \A i \in DOMAIN socks : socks'[i] = socks[i]
      /\ \A r \in Pids : had[r] \subseteq had'[r] /\ had[r] \subseteq DOMAIN socks
  BY SocketsStay
<1> QED
  BY <1>1, <1>2, <1>3 DEF Charged

\* A packet is looked up right.
LEMMA LookedUpRight ==
  ASSUME TypeInv, SocketInv, platform = "linux", NEW p \in DOMAIN packets, NEW q \in Pids,
         NEW d \in Dirs, LookupPort(packets[p]) \in DOMAIN port_to_pid_map,
         q = port_to_pid_map[LookupPort(packets[p])], d = "send" <=> Outgoing(packets[p])
  PROVE  Charged(q, d, p)
<1>0. PICK k : k = packets[p]
  OBVIOUS
<1>1. FromSocket(k) /\ MapRight(LookupPort(k)) /\ had[q] \subseteq DOMAIN socks
  BY <1>0 DEF SocketInv, TypeInv, NetworkTypeOK
<1>2. CASE had[q] \cap LongInodes # {}
  BY <1>0, <1>2 DEF Charged
<1>3. CASE \E i \in had[q] : socks[i].tcp /\ socks[i].port = LookupPort(k)
  <2>1. PICK i \in had[q] : socks[i].tcp /\ socks[i].port = LookupPort(k)
    BY <1>3
  <2>2. CASE k.kind = "foreign"
    <3>1. LookupPort(k) = k.rport /\ d = "recv"
      BY <1>0, <2>2 DEF LookupPort, Outgoing, Dirs
    <3> QED
      BY <1>0, <2>1, <2>2, <3>1 DEF Charged
  <2>3. CASE k.kind # "foreign"
    <3>1. k.pid \in Pids /\ k.sock \in had[k.pid] /\ k.kind \in Dirs
      BY <1>1, <2>3 DEF FromSocket
    <3>2. CASE k.kind = "send" /\ socks[k.sock].ip # local_ip
      BY <1>0, <2>3, <3>2 DEF Charged
    <3>3. CASE ~(k.kind = "send" /\ socks[k.sock].ip # local_ip)
      <4>1. LookupPort(k) = socks[k.sock].port
        BY <2>3, <3>3 DEF LookupPort
      <4>2. d = k.kind
        BY <1>0, <3>1, <3>3 DEF Outgoing, Dirs
      <4>3. CASE q = k.pid
        BY <1>0, <4>2, <4>3 DEF Charged
      <4>4. CASE q # k.pid /\ i = k.sock
        BY <1>0, <2>1, <2>3, <4>4 DEF Charged
      <4>5. CASE i # k.sock
        BY <1>0, <1>1, <2>1, <2>3, <4>1, <4>5 DEF Charged
      <4> QED
        BY <4>3, <4>4, <4>5
    <3> QED
      BY <3>2, <3>3
  <2> QED
    BY <2>2, <2>3
<1> QED
  BY <1>0, <1>1, <1>2, <1>3 DEF MapRight

LEMMA ChargeStep ==
  TypeInv /\ GoneInv /\ PhaseInv /\ SocketInv /\ ChargeInv /\ [NetworkNext]_nvars => ChargeInv'
<1> SUFFICES ASSUME TypeInv, GoneInv, PhaseInv, SocketInv, ChargeInv, [NetworkNext]_nvars,
                    platform = "linux"
             PROVE  ChargeInv'
  BY PlatformStays DEF ChargeInv
<1> USE DEF sockVars, procVars, loadVars, traceVars, mapVars, tableVars
<1>0. \A p \in DOMAIN packets : \A q \in Pids, d \in Dirs :
        local_ip' = local_ip /\ Charged(q, d, p) => Charged(q, d, p)'
  BY ChargedStays
<1>00. \A q \in Pids, d \in Dirs : usage[q][d] \subseteq DOMAIN packets
                                   /\ stat[q][d] \subseteq DOMAIN packets
  BY DEF TypeInv, NetworkTypeOK, CountedInv, GoneInv, AllPids
<1>1. CASE UNCHANGED <<local_ip, usage, stat>> /\ (pc' = "report" => pc = "report")
  BY <1>0, <1>00, <1>1 DEF ChargeInv
<1>2. CASE ChooseIp
  <2>1. pc = "fds" /\ pc' # "report" /\ usage' = usage
    BY <1>2 DEF ChooseIp
  <2> QED
    BY <2>1 DEF PhaseInv, ChargeInv, Nothing, NoUsage, AllPids
<1>3. CASE ProcessPacket
  <2>0. PICK p : p = Head(queue)
    OBVIOUS
  <2>1. UNCHANGED <<platform, pc, local_ip, packets, socks>> /\ pc = "drain"
    BY <1>3 DEF ProcessPacket
  <2>2. CASE usage' = usage
    BY <1>0, <1>00, <2>1, <2>2 DEF ChargeInv
  <2>3. ASSUME NEW q \in Pids, NEW d \in Dirs, Charged(q, d, p), Add(q, d, p),
               p \in DOMAIN packets
        PROVE  ChargeInv'
    <3>1. /\ usage'[q][d] = usage[q][d] \cup {p}
          /\ \A r \in AllPids, e \in Dirs : r # q \/ e # d => usage'[r][e] = usage[r][e]
      BY <2>3, TypeFacts, Adding DEF TypeInv, NetworkTypeOK, AllPids
    <3>2. Charged(q, d, p)'
      BY <1>0, <2>1, <2>3
    <3>3. ASSUME NEW r \in Pids, NEW e \in Dirs, NEW x \in usage'[r][e] PROVE Charged(r, e, x)'
      <4>1. CASE x \in usage[r][e]
        BY <1>0, <1>00, <2>1, <4>1 DEF ChargeInv
      <4>2. CASE x \notin usage[r][e]
        BY <3>1, <3>2, <3>3, <4>2 DEF AllPids
      <4> QED
        BY <4>1, <4>2
    <3> QED
      BY <2>1, <3>3 DEF ChargeInv
  <2>4. usage' = usage \/ \E q \in Pids, d \in Dirs :
          Charged(q, d, p) /\ Add(q, d, p)
    <3>1. /\ p \in DOMAIN packets
          /\ \/ usage' = usage
             \/ \E q \in Pids, d \in Dirs :
                  LET k == packets[p] IN
                    /\ LookupPort(k) \in DOMAIN port_to_pid_map
                    /\ q = port_to_pid_map[LookupPort(k)]
                    /\ d = "send" <=> Outgoing(k)
                    /\ Add(q, d, p)
      BY <1>3, <2>0, Processed
    <3> QED
      BY <3>1, LookedUpRight
  <2>5. p \in DOMAIN packets
    BY <1>3, <2>0, Processed
  <2> QED
    BY <2>2, <2>3, <2>4, <2>5
<1>4. CASE FillTable
  <2>1. PICK ok \in SUBSET Pids :
          stat' = [q \in Pids |-> IF q \in ok THEN usage[q] ELSE NoUsage]
    BY <1>4 DEF FillTable
  <2>2. \A q \in Pids, d \in Dirs : stat'[q][d] \subseteq usage[q][d]
    BY <2>1 DEF NoUsage
  <2>3. usage' = Nothing /\ local_ip' = local_ip
    BY <1>4 DEF FillTable
  <2> QED
    BY <1>0, <1>00, <2>2, <2>3 DEF ChargeInv, Nothing, NoUsage, AllPids
<1>5. CASE GenerateLog
  <2>1. pc = "report" /\ pc' # "report" /\ usage' = usage
    BY <1>5 DEF GenerateLog
  <2> QED
    BY <2>1 DEF PhaseInv, ChargeInv, Nothing, NoUsage, AllPids
<1>6. CASE System \/ SetupCapture \/ ReadNetTcp \/ (\E q \in todo : ReadFds(q)) \/ UNCHANGED nvars
  <2>1. UNCHANGED <<local_ip, usage, stat>> /\ (pc' = "report" => pc = "report")
    BY <1>6 DEF System, OpenSocket, Inherit, CloseSocket, Capture, Overhear, Arrive, DiskIo, NetIo,
                EndProcess, StartProcess, SetupCapture, ReadNetTcp, ReadFds, nvars
  <2> QED
    BY <1>1, <2>1
<1>7. ASSUME \/ SetupTrace \/ ListPids \/ TakeAway \/ TableDone \/ Trace
             \/ \E q \in todo : ReadProcess(q)
      PROVE  FALSE
  BY <1>7 DEF SetupTrace, ListPids, TakeAway, TableDone, Trace, StartTrace, Decode, OnEvent, ReadProcess,
              PhaseInv
<1> QED
  BY <1>2, <1>3, <1>4, <1>5, <1>6, <1>7 DEF NetworkNext, Scan

\* On Linux a packet is accounted to the process that sent or received it and
\* in its direction, whatever sockets open and close, and are inherited,
\* between the reading of /proc/net/tcp, that of the files of the processes and
\* the looking up of the packets, but for the exceptions that the property
\* names; and a frame of other hosts is accounted, as received, only to a
\* process that had a socket with the port it was sent to, or a long inode
\* (update_table, parse_socket_inode, process_packets).
THEOREM ChargedRightHolds == NetworkSpec => []ChargedRight
<1>1. NetworkInit => SocketInv /\ ChargeInv
  BY SocketStarts DEF NetworkInit, ChargeInv, Nothing, NoUsage, AllPids
<1>2. /\ TypeInv /\ GoneInv /\ PhaseInv /\ PlaceInv /\ SocketInv /\ ChargeInv
      /\ [NetworkNext]_nvars
      => (SocketInv /\ ChargeInv)'
  BY SocketStep, ChargeStep
<1>3. ChargeInv => ChargedRight
  BY DEF ChargeInv, Charged, ChargedRight
<1> QED
  BY <1>1, <1>2, <1>3, PlacesHold, PTL DEF NetworkSpec
-----------------------------------------------------------------------------
(***************************************************************************)
(* Windows: the disk usage.                                                *)
(***************************************************************************)

\* The direction the trace counts a packet in; the packets of a pid it counts
\* in a direction; those of them that are of the process that has the pid now;
\* and of these, its own in that direction, and others it takes for sent ones.
CountedAs(k)     == IF k.kind = "recv" THEN "recv" ELSE "send"
OfPid(q, d)      == {p \in DOMAIN packets : packets[p].pid = q /\ packets[p].kind # "ipv6"
                                            /\ CountedAs(packets[p]) = d}
Decoded(q, d)    == {p \in OfPid(q, d) : p > before[q]}
NetPackets(q, d) == {p \in DOMAIN packets : packets[p].pid = q /\ p > before[q]
                                            /\ packets[p].kind = d}
Others(q, d)     == {p \in DOMAIN packets : packets[p].pid = q /\ p > before[q]
                                            /\ d = "send" /\ packets[p].kind = "other"}

\* Those a scan has subtracted, or passed over.
Waiting(q, d) == IF q \in todo THEN taken[q][d] ELSE {}
Done(q, d)    == {p \in Decoded(q, d) : p \in gone /\ p \notin Waiting(q, d)}

\* Of the process that had the pid before there is no packet left.
Fresh(q) == \A p \in DOMAIN packets : packets[p].pid = q /\ p <= before[q] => p \in gone

\* What is counted for a pid is of its packets, and what a scan has taken for
\* a process that is not reborn is of that process's.
TracedInv ==
  platform = "windows" =>
    /\ \A q \in Pids, d \in Dirs : usage[q][d] \subseteq OfPid(q, d)
    /\ \A q \in Pids \ reborn : Fresh(q) /\ \A d \in Dirs : taken[q][d] \subseteq Decoded(q, d)

\* A process's I/O includes its packets, which are all there are, and what is
\* read from or written to disk.
IoInv ==
  platform = "windows" =>
    /\ \A q \in Pids : fds[q] = {}
    /\ \A q \in Pids, d \in Dirs : Cardinality(NetPackets(q, d)) + disk[q][d] <= io[q][d]

\* What is shown and what has been subtracted make up for what was read.
ReadInv ==
  platform = "windows" =>
    \A q \in Pids \ reborn, d \in Dirs :
      shown[q].sum[d] + Cardinality(Done(q, d)) >= last[q][d]

LEMMA Sizes ==
  ASSUME NEW S, NEW T, IsFiniteSet(S), IsFiniteSet(T)
  PROVE  /\ Cardinality(S) \in Nat /\ Cardinality(T) \in Nat
         /\ Cardinality(S \cup T) <= Cardinality(S) + Cardinality(T)
         /\ S \cap T = {} => Cardinality(S \cup T) = Cardinality(S) + Cardinality(T)
         /\ S \subseteq T => Cardinality(S) <= Cardinality(T)
<1>1. IsFiniteSet(S \cap T)
  BY FS_Subset
<1>2. /\ Cardinality(S) \in Nat /\ Cardinality(T) \in Nat /\ Cardinality(S \cap T) \in Nat
  BY <1>1, FS_CardinalityType
<1>3. Cardinality(S \cup T) = Cardinality(S) + Cardinality(T) - Cardinality(S \cap T)
  BY FS_Union
<1>4. S \cap T = {} => Cardinality(S \cap T) = 0
  BY FS_EmptySet
<1>5. S \subseteq T => Cardinality(S) <= Cardinality(T)
  BY FS_Subset
<1> QED
  BY <1>2, <1>3, <1>4, <1>5

LEMMA FinitePackets ==
  ASSUME TypeInv, NEW S, S \subseteq DOMAIN packets
  PROVE  IsFiniteSet(S)
<1>1. IsFiniteSet(DOMAIN packets)
  BY TypeFacts, FS_Interval
<1> QED
  BY <1>1, FS_Subset

LEMMA PacketSets ==
  ASSUME TypeInv, NEW q \in Pids, NEW d
  PROVE  /\ NetPackets(q, d) \subseteq DOMAIN packets /\ Others(q, d) \subseteq DOMAIN packets
         /\ Decoded(q, d) \subseteq DOMAIN packets /\ Done(q, d) \subseteq Decoded(q, d)
         /\ Decoded(q, d) \subseteq NetPackets(q, d) \cup Others(q, d)
         /\ IsFiniteSet(NetPackets(q, d)) /\ IsFiniteSet(Others(q, d))
         /\ IsFiniteSet(Decoded(q, d)) /\ IsFiniteSet(Done(q, d))
<1>1. /\ NetPackets(q, d) \subseteq DOMAIN packets /\ Others(q, d) \subseteq DOMAIN packets
      /\ Decoded(q, d) \subseteq DOMAIN packets /\ Done(q, d) \subseteq Decoded(q, d)
  BY DEF NetPackets, Others, Decoded, Done, OfPid
<1>2. Decoded(q, d) \subseteq NetPackets(q, d) \cup Others(q, d)
  <2>1. \A p \in DOMAIN packets : packets[p].pid = q => packets[p].kind \in Kinds
    BY TypeFacts, NetworkAssumption DEF Packet, Foreign
  <2> QED
    BY <2>1 DEF Decoded, OfPid, CountedAs, NetPackets, Others, Kinds, Dirs
<1> QED
  BY <1>1, <1>2, FinitePackets

\* What a step does to a process that is not reborn and has not just started:
\* it was not reborn before, and started when it did.
LEMMA Persists ==
  ASSUME TypeInv, [NetworkNext]_nvars, NEW q \in Pids, ~StartProcess(q)
  PROVE  before'[q] = before[q] /\ (q \notin reborn' => q \notin reborn)
<1> USE DEF sockVars, procVars, loadVars, traceVars, mapVars, tableVars
<1>1. CASE UNCHANGED <<before, reborn>>
  BY <1>1
<1>2. ASSUME NEW r \in TracedPids, StartProcess(r)
      PROVE  before'[q] = before[q] /\ (q \notin reborn' => q \notin reborn)
  BY <1>2 DEF StartProcess, TypeInv, NetworkTypeOK
<1>3. CASE \/ \E r \in Pids, s \in Socket : OpenSocket(r, s)
           \/ \E r, t \in Pids : \E i \in fds[r] : Inherit(r, t, i)
           \/ \E r \in Pids : \E i \in fds[r] : CloseSocket(r, i)
           \/ \E k : Heard(k) /\ Arrive(k)
           \/ \E r \in TracedPids : EndProcess(r)
           \/ \E r \in TracedPids, d \in Dirs : DiskIo(r, d) \/ \E kind \in Kinds : NetIo(r, kind, d)
           \/ Trace \/ UNCHANGED nvars
  BY <1>1, <1>3 DEF OpenSocket, Inherit, CloseSocket, Arrive, EndProcess, DiskIo, NetIo, Trace,
                    StartTrace, Decode, OnEvent, nvars
<1>4. CASE Scan
  BY <1>1, <1>4 DEF Scan, SetupCapture, ReadNetTcp, ChooseIp, ProcessPacket, FillTable, SetupTrace,
                    ListPids, TakeAway, TableDone, GenerateLog, ReadFds, ReadProcess
<1> QED
  BY <1>2, <1>3, <1>4, Captured DEF NetworkNext, System

\* The packets of a process in a direction stay so, and so do those done with
\* unless the scan takes others.
LEMMA SetsStay ==
  ASSUME TypeInv, [NetworkNext]_nvars, NEW q \in Pids, NEW d
  PROVE  /\ OfPid(q, d) \subseteq OfPid(q, d)'
         /\ ~StartProcess(q) => /\ Decoded(q, d) \subseteq Decoded(q, d)'
                                /\ Others(q, d) \subseteq Others(q, d)'
<1>1. OfPid(q, d) \subseteq OfPid(q, d)'
  BY PacketsStay DEF OfPid
<1>2. ASSUME ~StartProcess(q)
      PROVE  Decoded(q, d) \subseteq Decoded(q, d)' /\ Others(q, d) \subseteq Others(q, d)'
  <2>1. before'[q] = before[q]
    BY <1>2, Persists
  <2>2. Decoded(q, d) \subseteq Decoded(q, d)'
    BY <1>1, <2>1 DEF Decoded
  <2>3. Others(q, d) \subseteq Others(q, d)'
    BY <2>1, PacketsStay DEF Others
  <2> QED
    BY <2>2, <2>3
<1> QED
  BY <1>1, <1>2

LEMMA DoneStays ==
  ASSUME TypeInv, [NetworkNext]_nvars, NEW q \in Pids, NEW d, ~StartProcess(q),
         UNCHANGED <<todo, taken>>, gone \subseteq gone'
  PROVE  Done(q, d) \subseteq Done(q, d)'
BY SetsStay DEF Done, Waiting

\* What is done with stays so.
LEMMA GoneStays ==
  ASSUME [NetworkNext]_nvars
  PROVE  gone \subseteq gone'
<1>1. CASE System \/ UNCHANGED nvars
  BY <1>1 DEF System, OpenSocket, Inherit, CloseSocket, Capture, Overhear, Arrive, DiskIo, NetIo,
              EndProcess, StartProcess, nvars
<1>2. CASE Scan
  BY <1>2 DEF Scan, SetupCapture, ReadNetTcp, ChooseIp, ProcessPacket, FillTable, SetupTrace,
              ListPids, TakeAway, TableDone, GenerateLog, ReadFds, ReadProcess
<1>3. CASE Trace
  BY <1>3 DEF Trace, StartTrace, Decode, OnEvent
<1> QED
  BY <1>1, <1>2, <1>3 DEF NetworkNext

\* A process that is not reborn has a pid of which no packet is left that
\* another process sent or received.
LEMMA FreshStep ==
  ASSUME TypeInv, TypeInv', TracedInv, [NetworkNext]_nvars, platform = "windows",
         NEW q \in Pids, q \notin reborn'
  PROVE  Fresh(q)'
<1>1. CASE StartProcess(q)
  <2>1. ~Remains(q) /\ UNCHANGED <<packets, gone>>
    BY <1>1 DEF StartProcess, TypeInv, NetworkTypeOK
  <2> QED
    BY <2>1 DEF Remains, Fresh
<1>2. CASE ~StartProcess(q)
  <2>1. before'[q] = before[q] /\ q \notin reborn
    BY <1>2, Persists
  <2>2. before[q] \in 0 .. Len(packets)
    BY DEF TypeInv, NetworkTypeOK
  <2>3. \A p \in DOMAIN packets' : p <= before[q] => p \in DOMAIN packets
    <3>1. \A p \in DOMAIN packets' : p \in Nat /\ p >= 1
      <4>1. packets' \in Seq(Packet)
        BY DEF TypeInv, NetworkTypeOK
      <4>2. Len(packets') \in Nat /\ DOMAIN packets' = 1 .. Len(packets')
        BY <4>1, Elements
      <4> QED
        BY <4>2
    <3> QED
      BY <2>2, <3>1, TypeFacts
  <2> QED
    BY <2>1, <2>3, PacketsStay, GoneStays DEF TracedInv, Fresh
<1> QED
  BY <1>1, <1>2

LEMMA TracedStep ==
  /\ TypeInv /\ TypeInv' /\ PhaseInv /\ PlaceInv /\ TracedInv /\ [NetworkNext]_nvars
  => TracedInv'
<1> SUFFICES ASSUME TypeInv, TypeInv', PhaseInv, PlaceInv, TracedInv, [NetworkNext]_nvars,
                    platform = "windows"
             PROVE  TracedInv'
  BY PlatformStays DEF TracedInv
<1> USE DEF sockVars, procVars, loadVars, traceVars, mapVars, tableVars
<1>0. \A q \in Pids, d \in Dirs : /\ OfPid(q, d) \subseteq OfPid(q, d)'
                                  /\ ~StartProcess(q) => Decoded(q, d) \subseteq Decoded(q, d)'
  BY SetsStay
<1>00. \A q \in Pids : q \notin reborn' => Fresh(q)'
  BY FreshStep
<1>000. \A q \in Pids : ~StartProcess(q) => (q \notin reborn' => q \notin reborn)
  BY Persists
<1>1. CASE UNCHANGED <<usage, taken>>
  <2>1. ASSUME NEW q \in Pids \ reborn', NEW d \in Dirs PROVE taken[q][d] \subseteq Decoded(q, d)'
    <3>1. CASE StartProcess(q)
      <4>1. taken[q] = NoUsage
        BY <2>1, <3>1 DEF StartProcess, Remains, TypeInv, NetworkTypeOK
      <4> QED
        BY <4>1 DEF NoUsage
    <3>2. CASE ~StartProcess(q)
      BY <1>0, <1>000, <3>2 DEF TracedInv
    <3> QED
      BY <3>1, <3>2
  <2> QED
    BY <1>0, <1>00, <1>1, <2>1 DEF TracedInv
<1>2. CASE OnEvent
  <2>1. PICK p : p = in_hand
    OBVIOUS
  <2>2. PICK q \in AllPids, d \in Dirs :
          /\ q = IF packets[p].kind = "ipv6" THEN NoPid ELSE packets[p].pid
          /\ d = IF packets[p].kind = "recv" THEN "recv" ELSE "send"
          /\ Add(q, d, p)
    BY <1>2, <2>1, Traced
  <2>3. p \in DOMAIN packets
    BY <1>2, <2>1, Traced
  <2>4. q \in Pids => p \in OfPid(q, d)
    BY <2>2, <2>3, NetworkAssumption DEF OfPid, CountedAs
  <2>5. /\ usage'[q][d] = usage[q][d] \cup {p}
        /\ \A r \in AllPids, e \in Dirs : r # q \/ e # d => usage'[r][e] = usage[r][e]
    BY <2>2, <2>3, TypeFacts, Adding DEF TypeInv, NetworkTypeOK
  <2>6. /\ UNCHANGED <<packets, before, reborn, taken>> /\ Pids \subseteq AllPids
    BY <1>2 DEF OnEvent, AllPids
  <2>7. \A r \in Pids, e \in Dirs : usage'[r][e] \subseteq OfPid(r, e)
    BY <2>4, <2>5, <2>6 DEF TracedInv
  <2>8. \A r \in Pids, e \in Dirs : OfPid(r, e)' = OfPid(r, e) /\ Decoded(r, e)' = Decoded(r, e)
    BY <2>6 DEF OfPid, Decoded
  <2> QED
    BY <1>00, <2>6, <2>7, <2>8 DEF TracedInv
<1>3. CASE TakeAway
  <2>1. taken' = usage /\ usage' = Nothing /\ UNCHANGED <<packets, before, reborn>>
    BY <1>3 DEF TakeAway
  <2>2. ASSUME NEW q \in Pids \ reborn, NEW d \in Dirs PROVE usage[q][d] \subseteq Decoded(q, d)
    <3> SUFFICES ASSUME NEW p \in usage[q][d] PROVE p \in Decoded(q, d)
      OBVIOUS
    <3>1. p \in OfPid(q, d) /\ p \in DOMAIN packets /\ packets[p].pid = q /\ p \in Nat
      BY TypeFacts DEF TracedInv, OfPid
    <3>2. p \notin gone
      BY <3>1 DEF PlaceInv, InOnePlace, IsCounted, AllPids
    <3>3. ~(p <= before[q])
      BY <3>1, <3>2 DEF TracedInv, Fresh
    <3>4. before[q] \in Nat
      BY DEF TypeInv, NetworkTypeOK
    <3> QED
      BY <3>1, <3>3, <3>4 DEF Decoded
  <2>3. \A q \in Pids, d \in Dirs : Decoded(q, d)' = Decoded(q, d)
    BY <2>1 DEF OfPid, Decoded
  <2> QED
    BY <1>00, <2>1, <2>2, <2>3 DEF TracedInv, Nothing, NoUsage, AllPids
<1>4. CASE TableDone
  <2>1. taken' = Nothing /\ usage' = usage
    BY <1>4 DEF TableDone
  <2> QED
    BY <1>0, <1>00, <2>1 DEF TracedInv, Nothing, NoUsage, AllPids
<1>5. CASE \/ System \/ GenerateLog \/ SetupTrace \/ ListPids \/ StartTrace \/ Decode
           \/ \E q \in todo : ReadProcess(q)
           \/ UNCHANGED nvars
  <2>1. UNCHANGED <<usage, taken>>
    BY <1>5 DEF System, OpenSocket, Inherit, CloseSocket, Capture, Overhear, Arrive, DiskIo, NetIo,
                EndProcess, StartProcess, GenerateLog, SetupTrace, ListPids, StartTrace, Decode,
                ReadProcess, nvars
  <2> QED
    BY <1>1, <2>1
<1>6. ASSUME SetupCapture \/ ReadNetTcp \/ ChooseIp \/ ProcessPacket \/ FillTable
             \/ \E q \in todo : ReadFds(q)
      PROVE  FALSE
  BY <1>6 DEF SetupCapture, ReadNetTcp, ChooseIp, ProcessPacket, FillTable, ReadFds, PhaseInv
<1> QED
  BY <1>2, <1>3, <1>4, <1>5, <1>6 DEF NetworkNext, Scan, Trace

LEMMA IoStep == TypeInv /\ IoInv /\ [NetworkNext]_nvars => IoInv'
<1> SUFFICES ASSUME TypeInv, IoInv, [NetworkNext]_nvars, platform = "windows"
             PROVE  IoInv'
  BY PlatformStays DEF IoInv
<1> USE DEF sockVars, procVars, loadVars, traceVars, mapVars, tableVars
<1>0. ASSUME NEW r \in Pids, NEW e \in Dirs
      PROVE  /\ Cardinality(NetPackets(r, e)) + disk[r][e] <= io[r][e]
             /\ disk[r][e] \in Nat /\ io[r][e] \in Nat
             /\ IsFiniteSet(NetPackets(r, e)) /\ Cardinality(NetPackets(r, e)) \in Nat
  BY TypeFacts, PacketSets, FS_CardinalityType DEF IoInv
<1>1. CASE UNCHANGED <<loadVars, before, fds>>
  BY <1>1 DEF IoInv, NetPackets
<1>2. ASSUME NEW q \in TracedPids, NEW d \in Dirs, NEW kind \in Kinds, NetIo(q, kind, d)
      PROVE  IoInv'
  <2> DEFINE k == [pid |-> q, sock |-> 0, rport |-> NoPort, kind |-> kind]
  <2>1. k \in Packet /\ q \in Pids /\ k.pid = q /\ k.kind = kind
    BY NetworkAssumption DEF Packet
  <2>2. /\ packets' = Append(packets, k) /\ packets \in Seq(Packet)
        /\ UNCHANGED <<disk, before, fds>>
    BY <1>2 DEF NetIo, TypeInv, NetworkTypeOK
  <2>3. PICK n : n = Len(packets) + 1
    OBVIOUS
  <2> HIDE DEF k
  <2>4. /\ DOMAIN packets' = DOMAIN packets \cup {n} /\ packets'[n] = k
        /\ \A p \in DOMAIN packets : packets'[p] = packets[p]
    BY <2>1, <2>2, <2>3, Appending
  <2>5. ASSUME NEW r \in Pids, NEW e \in Dirs
        PROVE  Cardinality(NetPackets(r, e)') + disk[r][e] <= io'[r][e]
    <3>1. CASE r = q /\ e = kind
      <4>1. e = d /\ kind # "other"
        BY <1>2, <3>1 DEF NetIo, Dirs
      <4>2. io'[r][e] = io[r][e] + 1
        BY <1>2, <3>1, <4>1, IoCounts
      <4>3. NetPackets(r, e)' = NetPackets(r, e) \cup {n}
        <5>1. before[r] \in 0 .. Len(packets)
          BY DEF TypeInv, NetworkTypeOK
        <5>2. n > before[r]
          BY <2>3, <5>1, TypeFacts
        <5> QED
          BY <2>1, <2>2, <2>4, <3>1, <5>2 DEF NetPackets
      <4>4. Cardinality(NetPackets(r, e)') \in {Cardinality(NetPackets(r, e)),
                                                Cardinality(NetPackets(r, e)) + 1}
        BY <1>0, <4>3, FS_AddElement
      <4> QED
        BY <1>0, <4>2, <4>4
    <3>2. CASE ~(r = q /\ e = kind)
      <4>1. NetPackets(r, e)' = NetPackets(r, e)
        BY <2>1, <2>2, <2>4, <3>2 DEF NetPackets
      <4>2. io'[r][e] \in {io[r][e], io[r][e] + 1}
        BY <1>2, IoCounts
      <4> QED
        BY <1>0, <4>1, <4>2
    <3> QED
      BY <3>1, <3>2
  <2> QED
    BY <1>2, <2>2, <2>5 DEF IoInv, NetIo
<1>3. ASSUME NEW q \in TracedPids, NEW d \in Dirs, DiskIo(q, d) PROVE IoInv'
  <2>1. ASSUME NEW r \in Pids, NEW e \in Dirs
        PROVE  \/ disk'[r][e] = disk[r][e] /\ io'[r][e] = io[r][e]
               \/ disk'[r][e] = disk[r][e] + 1 /\ io'[r][e] = io[r][e] + 1
    <3>1. CASE r = q /\ e = d
      BY <1>3, <3>1, DiskCounts
    <3>2. CASE r # q \/ e # d
      BY <1>3, <3>2, DiskCounts
    <3> QED
      BY <3>1, <3>2
  <2>2. \A r \in Pids, e \in Dirs : Cardinality(NetPackets(r, e)) + disk'[r][e] <= io'[r][e]
    BY <1>0, <2>1
  <2>3. UNCHANGED <<packets, before, fds>>
    BY <1>3 DEF DiskIo
  <2> QED
    BY <2>2, <2>3 DEF IoInv, NetPackets
<1>4. ASSUME \/ \E q \in Pids, s \in Socket : OpenSocket(q, s)
             \/ \E q, r \in Pids : \E i \in fds[q] : Inherit(q, r, i)
             \/ \E q \in Pids : \E i \in fds[q] :
                  \/ CloseSocket(q, i)
                  \/ \E d \in Dirs, rport \in Ports : Capture(q, i, d, rport)
             \/ \E rport \in Ports : Overhear(rport)
      PROVE  FALSE
  BY <1>4 DEF IoInv, OpenSocket, Overhear
<1>5. ASSUME NEW q \in TracedPids, StartProcess(q) PROVE IoInv'
  <2>1. /\ UNCHANGED <<packets, fds>> /\ q \in Pids
        /\ before' = [before EXCEPT ![q] = Len(packets)]
    BY <1>5, NetworkAssumption DEF StartProcess
  <2>2. /\ \A d \in Dirs : io'[q][d] = 0 /\ disk'[q][d] = 0
        /\ \A r \in Pids : r # q => io'[r] = io[r] /\ disk'[r] = disk[r]
    BY <1>5, <2>1 DEF StartProcess, Zero, TypeInv, NetworkTypeOK
  <2>3. before'[q] = Len(packets) /\ \A r \in Pids : r # q => before'[r] = before[r]
    BY <2>1 DEF TypeInv, NetworkTypeOK
  <2>4. ASSUME NEW r \in Pids, NEW e \in Dirs
        PROVE  Cardinality(NetPackets(r, e)') + disk'[r][e] <= io'[r][e]
    <3>1. CASE r = q
      <4>1. \A p \in DOMAIN packets : ~(p > Len(packets))
        BY TypeFacts
      <4>2. NetPackets(r, e)' = {}
        BY <2>1, <2>3, <3>1, <4>1 DEF NetPackets
      <4>3. Cardinality(NetPackets(r, e)') = 0
        BY <4>2, FS_EmptySet
      <4> QED
        BY <2>2, <3>1, <4>3
    <3>2. CASE r # q
      <4>1. NetPackets(r, e)' = NetPackets(r, e)
        BY <2>1, <2>3, <3>2 DEF NetPackets
      <4> QED
        BY <1>0, <2>2, <3>2, <4>1
    <3> QED
      BY <3>1, <3>2
  <2> QED
    BY <2>1, <2>4 DEF IoInv
<1>6. CASE \E q \in TracedPids : EndProcess(q)
  BY <1>1, <1>6 DEF EndProcess
<1>7. CASE Scan
  <2>1. UNCHANGED <<loadVars, before, fds>>
    BY <1>7 DEF Scan, SetupCapture, ReadNetTcp, ChooseIp, ProcessPacket, FillTable, SetupTrace,
                ListPids, TakeAway, TableDone, GenerateLog, ReadFds, ReadProcess
  <2> QED
    BY <1>1, <2>1
<1>8. CASE Trace \/ UNCHANGED nvars
  <2>1. UNCHANGED <<loadVars, before, fds>>
    BY <1>8 DEF Trace, StartTrace, Decode, OnEvent, nvars
  <2> QED
    BY <1>1, <2>1
<1> QED
  BY <1>2, <1>3, <1>4, <1>5, <1>6, <1>7, <1>8 DEF NetworkNext, System

\* A scan reads the counters of a process.
LEMMA CountersRead ==
  ASSUME TypeInv, GoneInv, TracedInv, IoInv, ReadInv, platform = "windows",
         NEW q \in todo, q \notin reborn, ReadProcess(q), last' = [last EXCEPT ![q] = io[q]],
         shown' = [shown EXCEPT ![q] = [of |-> disk[q],
           sum |-> [d \in Dirs |-> Least(@.sum[d] + DiskDelta(q, d), MostBytes)]]],
         NEW d \in Dirs
  PROVE  /\ shown'[q].sum[d] + Cardinality(Done(q, d)') >= last'[q][d]
         /\ shown'[q].sum[d] + Cardinality(Others(q, d)) >= shown'[q].of[d]
<1>1. q \in Pids /\ q \in AllPids
  BY DEF TypeInv, NetworkTypeOK, AllPids
<1>2. taken[q][d] \subseteq Decoded(q, d) /\ taken[q][d] \subseteq gone
  BY <1>1 DEF TracedInv, GoneInv
<1>02. UNCHANGED <<packets, before, taken, gone>> /\ todo' = todo \ {q}
  BY DEF ReadProcess, loadVars, procVars
<1>3. Done(q, d)' = Done(q, d) \cup taken[q][d] /\ Done(q, d) \cap taken[q][d] = {}
  <2>2. Decoded(q, d)' = Decoded(q, d)
    BY <1>02 DEF Decoded, OfPid
  <2>3. Waiting(q, d) = taken[q][d] /\ Waiting(q, d)' = {}
    BY <1>02 DEF Waiting
  <2> QED
    BY <1>02, <1>2, <2>2, <2>3 DEF Done
<1>4. /\ IsFiniteSet(Done(q, d)) /\ IsFiniteSet(taken[q][d]) /\ IsFiniteSet(Done(q, d)')
      /\ IsFiniteSet(NetPackets(q, d)) /\ IsFiniteSet(Others(q, d))
      /\ Done(q, d)' \subseteq NetPackets(q, d) \cup Others(q, d)
  BY <1>1, <1>2, <1>3, PacketSets, FinitePackets
<1>5. PICK S : S = Done(q, d)'
  OBVIOUS
<1>6. /\ Cardinality(S) = Cardinality(Done(q, d)) + Cardinality(taken[q][d])
      /\ Cardinality(Done(q, d)) \in Nat /\ Cardinality(taken[q][d]) \in Nat
  BY <1>3, <1>4, <1>5, Sizes
<1>7. /\ Cardinality(S) <= Cardinality(NetPackets(q, d)) + Cardinality(Others(q, d))
      /\ Cardinality(NetPackets(q, d)) \in Nat /\ Cardinality(Others(q, d)) \in Nat
  <2>1. IsFiniteSet(NetPackets(q, d) \cup Others(q, d))
    BY <1>4, FS_Union
  <2>2. /\ Cardinality(S) <= Cardinality(NetPackets(q, d) \cup Others(q, d))
        /\ Cardinality(S) \in Nat /\ Cardinality(NetPackets(q, d) \cup Others(q, d)) \in Nat
    BY <1>4, <1>5, <2>1, Sizes
  <2>3. /\ Cardinality(NetPackets(q, d) \cup Others(q, d))
             <= Cardinality(NetPackets(q, d)) + Cardinality(Others(q, d))
        /\ Cardinality(NetPackets(q, d)) \in Nat /\ Cardinality(Others(q, d)) \in Nat
    BY <1>4, Sizes
  <2> QED
    BY <2>2, <2>3
<1>8. Size(taken[q][d]) = Cardinality(taken[q][d])
  <2>1. {p \in taken[q][d] : packets[p].kind # "ipv6"} = taken[q][d]
    BY <1>2 DEF Decoded, OfPid
  <2> QED
    BY <2>1 DEF Size
<1>9. /\ DiskDelta(q, d) \in Nat
      /\ DiskDelta(q, d) + Cardinality(taken[q][d]) >= io[q][d] - last[q][d]
  BY <1>1, <1>8, DeltaType
<1>10. /\ io[q][d] \in Nat /\ last[q][d] \in Nat /\ disk[q][d] \in Nat
       /\ io[q][d] <= MostBytes /\ MostBytes \in Nat
  <2>1. io[q] \in [Dirs -> 0 .. MostBytes]
    BY <1>1 DEF TypeInv, NetworkTypeOK, Bytes
  <2>2. io[q][d] \in 0 .. MostBytes
    BY <2>1
  <2> QED
    BY <1>1, <2>2, TypeFacts, Bounds
<1>11. /\ shown[q].sum[d] \in Nat
       /\ shown[q].sum[d] + Cardinality(Done(q, d)) >= last[q][d]
       /\ Cardinality(NetPackets(q, d)) + disk[q][d] <= io[q][d]
  <2>1. shown[q].sum \in [Dirs -> 0 .. MostBytes]
    BY <1>1 DEF TypeInv, NetworkTypeOK, Bytes
  <2>2. shown[q].sum[d] \in 0 .. MostBytes
    BY <2>1
  <2> QED
    BY <1>1, <2>2 DEF ReadInv, IoInv
<1>12. /\ shown'[q].of[d] = disk[q][d]
       /\ shown'[q].sum[d] = Least(shown[q].sum[d] + DiskDelta(q, d), MostBytes)
  BY <1>1, ShownType
<1>13. last'[q][d] = io[q][d]
  BY <1>1 DEF TypeInv, NetworkTypeOK
<1>14. shown'[q].sum[d] + Cardinality(S) >= io[q][d]
  BY <1>6, <1>9, <1>10, <1>11, <1>12 DEF Least
<1>15. shown'[q].sum[d] \in Nat
  BY <1>9, <1>10, <1>11, <1>12 DEF Least
<1>16. shown'[q].sum[d] + Cardinality(Others(q, d)) >= disk[q][d]
  BY <1>6, <1>7, <1>10, <1>11, <1>14, <1>15
<1> QED
  BY <1>5, <1>12, <1>13, <1>14, <1>16

\* Nothing that was done with is not so after a step.
LEMMA DoneGrows ==
  ASSUME TypeInv, GoneInv, PhaseInv, PlaceInv, [NetworkNext]_nvars, platform = "windows",
         NEW q \in Pids, NEW d \in Dirs, ~StartProcess(q)
  PROVE  Done(q, d) \subseteq Done(q, d)'
<1> USE DEF sockVars, procVars, loadVars, traceVars, mapVars, tableVars
<1>0. Decoded(q, d) \subseteq Decoded(q, d)' /\ gone \subseteq gone'
  BY SetsStay, GoneStays
<1>1. CASE UNCHANGED <<todo, taken>>
  BY <1>0, <1>1, DoneStays
<1>2. CASE TakeAway
  <2>1. taken' = usage
    BY <1>2 DEF TakeAway
  <2>2. \A p \in Done(q, d) : p \notin usage[q][d]
    <3> SUFFICES ASSUME NEW p \in Done(q, d), p \in usage[q][d] PROVE FALSE
      OBVIOUS
    <3>1. p \in gone /\ p \in DOMAIN packets
      BY DEF Done, Decoded, OfPid
    <3>2. IsCounted(p)
      BY DEF IsCounted, AllPids
    <3> QED
      BY <3>1, <3>2 DEF PlaceInv, InOnePlace
  <2> QED
    BY <1>0, <2>1, <2>2 DEF Done, Waiting
<1>3. ASSUME NEW r \in todo, ReadProcess(r) PROVE Done(q, d) \subseteq Done(q, d)'
  <2>1. todo' \subseteq todo /\ taken' = taken
    BY <1>3 DEF ReadProcess
  <2> QED
    BY <1>0, <2>1 DEF Done, Waiting
<1>4. CASE TableDone
  <2>1. todo = {} /\ todo' = {}
    BY <1>4 DEF TableDone
  <2> QED
    BY <1>0, <2>1 DEF Done, Waiting
<1>5. CASE ListPids
  <2>1. taken = Nothing /\ taken' = taken
    BY <1>5 DEF ListPids, PhaseInv
  <2>2. taken'[q][d] = {}
    BY <2>1 DEF Nothing, NoUsage, AllPids
  <2> QED
    BY <1>0, <2>2 DEF Done, Waiting
<1>6. ASSUME \/ SetupCapture \/ ReadNetTcp \/ ChooseIp \/ ProcessPacket \/ FillTable
             \/ \E r \in todo : ReadFds(r)
      PROVE  FALSE
  BY <1>6 DEF SetupCapture, ReadNetTcp, ChooseIp, ProcessPacket, FillTable, ReadFds, PhaseInv
<1>7. CASE System \/ Trace \/ SetupTrace \/ GenerateLog \/ UNCHANGED nvars
  <2>1. UNCHANGED <<todo, taken>>
    BY <1>7 DEF System, OpenSocket, Inherit, CloseSocket, Capture, Overhear, Arrive, DiskIo, NetIo,
                EndProcess, StartProcess, Trace, StartTrace, Decode, OnEvent, SetupTrace,
                GenerateLog, nvars
  <2> QED
    BY <1>1, <2>1
<1> QED
  BY <1>2, <1>3, <1>4, <1>5, <1>6, <1>7 DEF NetworkNext, Scan

\* Only a scan that reads a process, the erasing of those not listed and the
\* start of another one change what has been read and shown of it.
LEMMA OnlyReadShows ==
  ASSUME TypeInv, [NetworkNext]_nvars, ~ \E q \in todo : ReadProcess(q),
         NEW r \in Pids, ~StartProcess(r)
  PROVE  shown'[r] = shown[r] /\ (last'[r] = last[r] \/ last'[r] = Zero)
<1> USE DEF sockVars, procVars, loadVars, traceVars, mapVars, tableVars
<1>1. CASE UNCHANGED <<last, shown>>
  BY <1>1
<1>2. CASE TableDone
  BY <1>2 DEF TableDone
<1>3. ASSUME NEW q \in TracedPids, StartProcess(q)
      PROVE  shown'[r] = shown[r] /\ last'[r] = last[r]
  BY <1>3 DEF StartProcess, TypeInv, NetworkTypeOK
<1>4. CASE \/ \E q \in Pids, s \in Socket : OpenSocket(q, s)
           \/ \E q, t \in Pids : \E i \in fds[q] : Inherit(q, t, i)
           \/ \E q \in Pids : \E i \in fds[q] : CloseSocket(q, i)
           \/ \E k : Heard(k) /\ Arrive(k)
           \/ \E q \in TracedPids : EndProcess(q)
           \/ \E q \in TracedPids, d \in Dirs : DiskIo(q, d) \/ \E kind \in Kinds : NetIo(q, kind, d)
           \/ Trace \/ UNCHANGED nvars
  BY <1>1, <1>4 DEF OpenSocket, Inherit, CloseSocket, Arrive, EndProcess, DiskIo, NetIo, Trace,
                    StartTrace, Decode, OnEvent, nvars
<1>5. CASE \/ SetupCapture \/ ReadNetTcp \/ ChooseIp \/ ProcessPacket \/ FillTable \/ SetupTrace
           \/ ListPids \/ TakeAway \/ GenerateLog \/ \E q \in todo : ReadFds(q)
  BY <1>1, <1>5 DEF SetupCapture, ReadNetTcp, ChooseIp, ProcessPacket, FillTable, SetupTrace,
                    ListPids, TakeAway, GenerateLog, ReadFds
<1> QED
  BY <1>2, <1>3, <1>4, <1>5, Captured DEF NetworkNext, System, Scan

\* What reading a process does to it and to the others.
LEMMA ProcessRead ==
  ASSUME TypeInv, NEW q \in todo, ReadProcess(q)
  PROVE  /\ q \in Pids /\ UNCHANGED <<packets, before, reborn>>
         /\ \A r \in Pids : r # q => last'[r] = last[r] /\ shown'[r] = shown[r]
         /\ \/ UNCHANGED <<last, shown>>
            \/ last' = [last EXCEPT ![q] = Zero] /\ shown' = shown
            \/ /\ last' = [last EXCEPT ![q] = io[q]]
               /\ shown' = [shown EXCEPT ![q] = [of |-> disk[q],
                    sum |-> [d \in Dirs |-> Least(@.sum[d] + DiskDelta(q, d), MostBytes)]]]
<1>1. q \in Pids /\ UNCHANGED <<packets, before, reborn>>
  BY DEF TypeInv, NetworkTypeOK, ReadProcess, loadVars, procVars
<1>2. \/ UNCHANGED <<last, shown>>
      \/ last' = [last EXCEPT ![q] = Zero] /\ shown' = shown
      \/ /\ last' = [last EXCEPT ![q] = io[q]]
         /\ shown' = [shown EXCEPT ![q] = [of |-> disk[q],
              sum |-> [d \in Dirs |-> Least(@.sum[d] + DiskDelta(q, d), MostBytes)]]]
  BY DEF ReadProcess
<1>3. last \in [Pids -> Bytes]
  BY DEF TypeInv, NetworkTypeOK
<1>4. CASE UNCHANGED <<last, shown>>
  BY <1>1, <1>4
<1>5. CASE last' = [last EXCEPT ![q] = Zero] /\ shown' = shown
  BY <1>1, <1>3, <1>5
<1>6. CASE /\ last' = [last EXCEPT ![q] = io[q]]
           /\ shown' = [shown EXCEPT ![q] = [of |-> disk[q],
                sum |-> [d \in Dirs |-> Least(@.sum[d] + DiskDelta(q, d), MostBytes)]]]
  <2>1. \A r \in Pids : r # q => shown'[r] = shown[r]
    BY <1>1, <1>6, ShownType
  <2>2. \A r \in Pids : r # q => last'[r] = last[r]
    BY <1>3, <1>6
  <2> QED
    BY <1>1, <1>2, <2>1, <2>2
<1> QED
  BY <1>2, <1>4, <1>5, <1>6

LEMMA ShownSums ==
  ASSUME TypeInv, NEW q \in Pids, NEW d \in Dirs
  PROVE  shown[q].sum[d] \in Nat /\ shown[q].of[d] \in Nat
<1>1. shown[q].sum \in [Dirs -> 0 .. MostBytes] /\ shown[q].of \in [Dirs -> 0 .. MostBytes]
  BY DEF TypeInv, NetworkTypeOK, Bytes
<1>2. shown[q].sum[d] \in 0 .. MostBytes /\ shown[q].of[d] \in 0 .. MostBytes
  BY <1>1
<1> QED
  BY <1>2

\* The sets of packets of a process only grow, and so do their sizes.
LEMMA SizesGrow ==
  ASSUME TypeInv, TypeInv', GoneInv, PhaseInv, PlaceInv, [NetworkNext]_nvars,
         NEW q \in Pids, NEW d \in Dirs
  PROVE  /\ Cardinality(Others(q, d)) \in Nat /\ Cardinality(Others(q, d)') \in Nat
         /\ Cardinality(Done(q, d)) \in Nat /\ Cardinality(Done(q, d)') \in Nat
         /\ ~StartProcess(q) => Cardinality(Others(q, d)) <= Cardinality(Others(q, d)')
         /\ ~StartProcess(q) /\ platform = "windows"
              => Cardinality(Done(q, d)) <= Cardinality(Done(q, d)')
<1>1. PICK S : S = Others(q, d)'
  OBVIOUS
<1>2. PICK T : T = Done(q, d)'
  OBVIOUS
<1>3. IsFiniteSet(DOMAIN packets')
  <2>1. packets' \in Seq(Packet)
    BY DEF TypeInv, NetworkTypeOK
  <2>2. Len(packets') \in Nat /\ DOMAIN packets' = 1 .. Len(packets')
    BY <2>1, Elements
  <2> QED
    BY <2>2, FS_Interval
<1>4. S \subseteq DOMAIN packets' /\ T \subseteq DOMAIN packets'
  BY <1>1, <1>2 DEF Others, Done, Decoded, OfPid
<1>5. /\ IsFiniteSet(S) /\ IsFiniteSet(T)
      /\ IsFiniteSet(Others(q, d)) /\ IsFiniteSet(Done(q, d))
  BY <1>3, <1>4, FS_Subset, PacketSets
<1>6. /\ ~StartProcess(q) => Others(q, d) \subseteq S
      /\ ~StartProcess(q) /\ platform = "windows" => Done(q, d) \subseteq T
  BY <1>1, <1>2, SetsStay, DoneGrows
<1> QED
  BY <1>1, <1>2, <1>5, <1>6, Sizes

LEMMA ReadStep ==
  /\ TypeInv /\ GoneInv /\ PhaseInv /\ PlaceInv /\ TracedInv /\ IoInv /\ ReadInv
  /\ TypeInv' /\ [NetworkNext]_nvars
  => ReadInv'
<1> SUFFICES ASSUME TypeInv, GoneInv, PhaseInv, PlaceInv, TracedInv, IoInv, ReadInv, TypeInv',
                    [NetworkNext]_nvars, platform = "windows",
                    NEW r \in Pids, r \notin reborn', NEW e \in Dirs
             PROVE  shown'[r].sum[e] + Cardinality(Done(r, e)') >= last'[r][e]
  BY PlatformStays DEF ReadInv
<1>1. Cardinality(Done(r, e)) \in Nat /\ Cardinality(Done(r, e)') \in Nat
  BY SizesGrow
<1>2. CASE StartProcess(r)
  <2>1. last[r] = Zero /\ last' = last
    BY <1>2 DEF StartProcess, Remains, TypeInv, NetworkTypeOK
  <2>2. shown'[r] = [of |-> Zero, sum |-> Zero]
    BY <1>2 DEF StartProcess, TypeInv, NetworkTypeOK
  <2>3. last'[r][e] = 0 /\ shown'[r].sum[e] = 0
    BY <2>1, <2>2 DEF Zero
  <2> QED
    BY <1>1, <2>3
<1>3. CASE ~StartProcess(r)
  <2>1. r \notin reborn /\ Cardinality(Done(r, e)) <= Cardinality(Done(r, e)')
    BY <1>3, Persists, SizesGrow
  <2>2. /\ shown[r].sum[e] \in Nat /\ last[r][e] \in Nat
        /\ shown[r].sum[e] + Cardinality(Done(r, e)) >= last[r][e]
    BY <2>1, ShownSums, TypeFacts DEF ReadInv
  <2>3. CASE last'[r] = last[r] /\ shown'[r] = shown[r]
    BY <1>1, <2>1, <2>2, <2>3
  <2>4. CASE last'[r] = Zero /\ shown'[r] = shown[r]
    <3>1. last'[r][e] = 0
      BY <2>4 DEF Zero
    <3> QED
      BY <1>1, <2>2, <2>4, <3>1
  <2>5. ASSUME NEW q \in todo, ReadProcess(q)
        PROVE  shown'[r].sum[e] + Cardinality(Done(r, e)') >= last'[r][e]
    <3>1. CASE r # q
      BY <2>3, <2>5, <3>1, ProcessRead
    <3>2. CASE UNCHANGED <<last, shown>>
      BY <2>3, <3>2
    <3>3. CASE r = q /\ last' = [last EXCEPT ![q] = Zero] /\ shown' = shown
      <4>1. last'[r] = Zero
        BY <3>3 DEF TypeInv, NetworkTypeOK
      <4> QED
        BY <2>4, <3>3, <4>1
    <3>4. CASE r = q /\ last' = [last EXCEPT ![q] = io[q]]
               /\ shown' = [shown EXCEPT ![q] = [of |-> disk[q],
                    sum |-> [d \in Dirs |-> Least(@.sum[d] + DiskDelta(q, d), MostBytes)]]]
      BY <2>1, <2>5, <3>4, CountersRead
    <3> QED
      BY <2>5, <3>1, <3>2, <3>3, <3>4, ProcessRead
  <2> QED
    BY <1>3, <2>3, <2>4, <2>5, OnlyReadShows
<1> QED
  BY <1>2, <1>3

LEMMA ShownStep ==
  /\ TypeInv /\ GoneInv /\ PhaseInv /\ PlaceInv /\ TracedInv /\ IoInv /\ ReadInv
  /\ TypeInv' /\ DiskNotUnderReported /\ [NetworkNext]_nvars
  => DiskNotUnderReported'
<1> SUFFICES ASSUME TypeInv, GoneInv, PhaseInv, PlaceInv, TracedInv, IoInv, ReadInv, TypeInv',
                    DiskNotUnderReported, [NetworkNext]_nvars,
                    NEW r \in Pids, r \notin reborn', NEW e \in Dirs
             PROVE  shown'[r].sum[e] + Cardinality(Others(r, e)') >= shown'[r].of[e]
  BY DEF DiskNotUnderReported, Others
<1>1. Cardinality(Others(r, e)) \in Nat /\ Cardinality(Others(r, e)') \in Nat
  BY SizesGrow
<1>2. CASE StartProcess(r)
  <2>1. shown'[r] = [of |-> Zero, sum |-> Zero]
    BY <1>2 DEF StartProcess, TypeInv, NetworkTypeOK
  <2>2. shown'[r].of[e] = 0 /\ shown'[r].sum[e] = 0
    BY <2>1 DEF Zero
  <2> QED
    BY <1>1, <2>2
<1>3. CASE ~StartProcess(r)
  <2>1. r \notin reborn /\ Cardinality(Others(r, e)) <= Cardinality(Others(r, e)')
    BY <1>3, Persists, SizesGrow
  <2>2. /\ shown[r].sum[e] \in Nat /\ shown[r].of[e] \in Nat
        /\ shown[r].sum[e] + Cardinality(Others(r, e)) >= shown[r].of[e]
    BY <2>1, ShownSums DEF DiskNotUnderReported, Others
  <2>3. CASE shown'[r] = shown[r]
    BY <1>1, <2>1, <2>2, <2>3
  <2>4. ASSUME NEW q \in todo, ReadProcess(q)
        PROVE  shown'[r].sum[e] + Cardinality(Others(r, e)') >= shown'[r].of[e]
    <3>1. CASE r # q \/ shown' = shown
      BY <2>3, <2>4, <3>1, ProcessRead
    <3>2. CASE r = q /\ last' = [last EXCEPT ![q] = io[q]]
               /\ shown' = [shown EXCEPT ![q] = [of |-> disk[q],
                    sum |-> [d \in Dirs |-> Least(@.sum[d] + DiskDelta(q, d), MostBytes)]]]
      <4>1. platform = "windows"
        BY <2>4 DEF ReadProcess, PhaseInv
      <4>2. Others(r, e)' = Others(r, e)
        BY <2>4, ProcessRead DEF Others
      <4> QED
        BY <2>1, <2>4, <3>2, <4>1, <4>2, CountersRead
    <3> QED
      BY <2>4, <3>1, <3>2, ProcessRead
  <2> QED
    BY <1>3, <2>3, <2>4, OnlyReadShows
<1> QED
  BY <1>2, <1>3

LEMMA DiskStarts == NetworkInit => TracedInv /\ IoInv /\ ReadInv /\ DiskNotUnderReported
<1> SUFFICES ASSUME NetworkInit PROVE TracedInv /\ IoInv /\ ReadInv /\ DiskNotUnderReported
  OBVIOUS
<1>1. packets = <<>> /\ DOMAIN packets = {}
  BY DEF NetworkInit
<1>2. TracedInv
  BY <1>1 DEF NetworkInit, TracedInv, Fresh, Nothing, NoUsage, AllPids
<1>3. Cardinality({}) = 0
  BY FS_EmptySet
<1>4. \A q, d : NetPackets(q, d) = {} /\ Done(q, d) = {} /\ Others(q, d) = {}
  BY <1>1 DEF NetPackets, Done, Decoded, OfPid, Others
<1>5. \A q \in Pids, d \in Dirs :
        /\ shown[q].sum[d] = 0 /\ shown[q].of[d] = 0 /\ last[q][d] = 0
        /\ io[q][d] = 0 /\ disk[q][d] = 0
  BY DEF NetworkInit, Zero
<1>6. \A q \in Pids : fds[q] = {}
  BY DEF NetworkInit
<1>7. IoInv /\ ReadInv
  <2>1. \A q, d : Cardinality(NetPackets(q, d)) = 0 /\ Cardinality(Done(q, d)) = 0
    BY <1>3, <1>4
  <2>2. IoInv
    BY <1>5, <1>6, <2>1 DEF IoInv
  <2>3. ReadInv
    BY <1>5, <2>1 DEF ReadInv
  <2> QED
    BY <2>2, <2>3
<1>8. DiskNotUnderReported
  <2>1. \A q, d : Cardinality(Others(q, d)) = 0
    BY <1>3, <1>4
  <2>2. \A q \in Pids, d \in Dirs : shown[q].sum[d] + Cardinality(Others(q, d)) >= shown[q].of[d]
    BY <1>5, <2>1
  <2> QED
    BY <2>2 DEF DiskNotUnderReported, Others
<1> QED
  BY <1>2, <1>7, <1>8

\* On Windows the disk usage reported for a process is never less than what it
\* had read and written, but for the events counted as sent that were not:
\* what else is subtracted for the network is of packets that the
\* process's I/O has counted by then, each subtracted once, however late
\* the trace thread hands them over and whichever scans could not open the
\* process or not read its counters, and whatever processes end and start,
\* unless it was given its pid while the table, the trace or the scan still had
\* something of the process before (update_table, get_pid_network_stat).
THEOREM DiskNotUnderReportedHolds == NetworkSpec => []DiskNotUnderReported
<1>1. NetworkInit => TracedInv /\ IoInv /\ ReadInv /\ DiskNotUnderReported
  BY DiskStarts
<1>2. /\ TypeInv /\ GoneInv /\ PhaseInv /\ PlaceInv
      /\ TracedInv /\ IoInv /\ ReadInv /\ DiskNotUnderReported
      /\ (TypeInv /\ GoneInv /\ PhaseInv /\ PlaceInv)'
      /\ [NetworkNext]_nvars
      => (TracedInv /\ IoInv /\ ReadInv /\ DiskNotUnderReported)'
  BY TracedStep, IoStep, ReadStep, ShownStep
<1> QED
  BY <1>1, <1>2, PlacesHold, PTL DEF NetworkSpec
=============================================================================
