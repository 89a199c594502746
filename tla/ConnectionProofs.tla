-------------------------- MODULE ConnectionProofs --------------------------
(***************************************************************************)
(* Proofs about Connection, for any number of descriptors and of sender    *)
(* threads, of breaks and of chunks in flight.                             *)
(***************************************************************************)
EXTENDS Connection, SequenceTheorems, TLAPS

\* Where the reconnect thread is decides what the flag and the member may
\* be: from the test of is_connected to its assignment the flag is clear,
\* because no other thread sets it, and the socket being connected is the
\* member, because no other thread assigns it.
Attempt ==
  /\ cpc \in {"create", "connect", "set", "backoff"} => ~is_connected
  /\ cpc = "connect" => client_socket # None /\ sock[client_socket] = "new"
  /\ cpc = "set" => client_socket # None /\ sock[client_socket] \in {"up", "broken"}

\* The strengthening of the two safety properties that every step keeps.
ConnectionInv == Attempt /\ ConnectedIsReal /\ MidMessageSocketKept

\* Appending to and taking from one connection's stream keeps its type.
LEMMA StreamType ==
  ASSUME NEW w \in [Socks -> Seq(Chunk)], NEW s \in Socks, NEW c \in Chunk
  PROVE  [w EXCEPT ![s] = Append(@, c)] \in [Socks -> Seq(Chunk)]
  OBVIOUS

\* Likewise for taking its first chunk.
LEMMA StreamTail ==
  ASSUME NEW w \in [Socks -> Seq(Chunk)], NEW s \in Socks, w[s] # <<>>
  PROVE  /\ [w EXCEPT ![s] = Tail(@)] \in [Socks -> Seq(Chunk)]
         /\ Head(w[s]) \in Chunk
<1>1. w[s] \in Seq(Chunk)
  OBVIOUS
<1>2. Head(w[s]) \in Chunk /\ Tail(w[s]) \in Seq(Chunk)
  BY <1>1, HeadTailProperties
<1> QED
  BY <1>2

\* The initial values are of the right types.
LEMMA TypeInit == ConnectionInit => ConnectionTypeOK
<1> SUFFICES ASSUME ConnectionInit PROVE ConnectionTypeOK
  OBVIOUS
<1> USE DEF ConnectionInit
<1>1. /\ sock \in [Socks -> {"free", "new", "up", "broken"}]
      /\ hpc \in [Socks -> {"header", "payload", "garbled", "ended"}]
      /\ expect \in [Socks -> Senders \cup {None}] /\ fails \in [Socks -> Nat]
  OBVIOUS
<1>2. /\ spc \in [Senders -> {"idle", "check", "load", "header", "payload", "fail"}]
      /\ ssock \in [Senders -> Socks \cup {None}]
  OBVIOUS
<1>3. wire \in [Socks -> Seq(Chunk)] /\ delay \in 1 .. MaxDelay
  <2>1. <<>> \in Seq(Chunk)
    OBVIOUS
  <2> QED
    BY <2>1, ConnectionAssumption
<1> QED
  BY <1>1, <1>2, <1>3 DEF ConnectionTypeOK

\* The steps of the reconnect thread.
LEMMA TypeReconnect ==
  ASSUME ConnectionTypeOK, Reconnect \/ Connects \/ ConnectFails, ConnectionInv
  PROVE  ConnectionTypeOK'
<1> USE ConnectionAssumption DEF ConnectionTypeOK, connectVars, receiveVars, sendVars, serverVars, histVars
<1>1. CASE Check
  BY <1>1 DEF Check
<1>2. CASE Create
  BY <1>2 DEF Create, Free
<1>3. CASE SetConnected
  BY <1>3 DEF SetConnected
<1>4. CASE Backoff
  BY <1>4 DEF Backoff
<1>5. CASE Sleep
  BY <1>5 DEF Sleep
<1>6. CASE Connects
  BY <1>6 DEF Connects, ConnectionInv, Attempt
<1>7. CASE ConnectFails
  BY <1>7 DEF ConnectFails, ConnectionInv, Attempt
<1> QED
  BY <1>1, <1>2, <1>3, <1>4, <1>5, <1>6, <1>7 DEF Reconnect

\* The steps of the receiver thread.
LEMMA TypeReceiver == ConnectionTypeOK /\ Receiver => ConnectionTypeOK'
<1> SUFFICES ASSUME ConnectionTypeOK, Receiver PROVE ConnectionTypeOK'
  OBVIOUS
<1> USE DEF ConnectionTypeOK, connectVars, receiveVars, sendVars, serverVars, histVars
<1> QED
  BY DEF Receiver, ReceiverCheck, ReceiverLoad, ReceiverReads, ReceiverFails, ReceiverClears

\* The steps of a sender thread.
LEMMA TypeSender ==
  ASSUME ConnectionTypeOK, NEW t \in Senders, Spawn(t) \/ Sender(t)
  PROVE  ConnectionTypeOK'
<1> USE DEF ConnectionTypeOK, connectVars, receiveVars, sendVars, serverVars, histVars
<1>1. CASE Spawn(t)
  BY <1>1 DEF Spawn
<1>2. CASE SenderCheck(t)
  BY <1>2 DEF SenderCheck
<1>3. CASE SenderLoad(t)
  BY <1>3 DEF SenderLoad
<1>4. CASE SenderHeader(t)
  <2>1. ssock[t] \in Socks /\ <<t, "header">> \in Chunk
    BY <1>4 DEF SenderHeader, Put, Usable, Chunk
  <2>2. wire' \in [Socks -> Seq(Chunk)]
    BY <1>4, <2>1, StreamType DEF SenderHeader, Put
  <2> QED
    BY <1>4, <2>1, <2>2 DEF SenderHeader, Put
<1>5. CASE SenderPayload(t)
  <2>1. ssock[t] \in Socks /\ <<t, "payload">> \in Chunk
    BY <1>5 DEF SenderPayload, Put, Usable, Chunk
  <2>2. wire' \in [Socks -> Seq(Chunk)]
    BY <1>5, <2>1, StreamType DEF SenderPayload, Put
  <2> QED
    BY <1>5, <2>1, <2>2 DEF SenderPayload, Put
<1>6. CASE SenderFails(t)
  BY <1>6 DEF SenderFails
<1>7. CASE SenderClears(t)
  BY <1>7 DEF SenderClears
<1> QED
  BY <1>1, <1>2, <1>3, <1>4, <1>5, <1>6, <1>7 DEF Sender

\* The steps of a handler at the server, and a break.
LEMMA TypeHandler ==
  ASSUME ConnectionTypeOK, NEW s \in Socks, Handler(s) \/ Break(s)
  PROVE  ConnectionTypeOK'
<1> USE DEF ConnectionTypeOK, connectVars, receiveVars, sendVars, serverVars, histVars
<1>1. CASE HandlerHeader(s)
  <2>1. wire' \in [Socks -> Seq(Chunk)] /\ Head(wire[s])[1] \in Senders
    BY <1>1, StreamTail DEF HandlerHeader, Clear, Chunk
  <2>2. hpc' \in [Socks -> {"header", "payload", "garbled", "ended"}]
    BY <1>1 DEF HandlerHeader
  <2>3. expect' \in [Socks -> Senders \cup {None}]
    <3>1. CASE expect' = expect
      BY <3>1
    <3>2. CASE expect' = [expect EXCEPT ![s] = Head(wire[s])[1]]
      BY <2>1, <3>2
    <3> QED
      BY <1>1, <3>1, <3>2 DEF HandlerHeader
  <2> QED
    BY <1>1, <2>1, <2>2, <2>3 DEF HandlerHeader
<1>2. CASE HandlerPayload(s)
  <2>1. wire' \in [Socks -> Seq(Chunk)]
    BY <1>2, StreamTail DEF HandlerPayload, Clear
  <2>2. hpc' \in [Socks -> {"header", "payload", "garbled", "ended"}]
    BY <1>2 DEF HandlerPayload
  <2>3. expect' \in [Socks -> Senders \cup {None}]
    <3>1. expect' = [expect EXCEPT ![s] = None]
      BY <1>2 DEF HandlerPayload
    <3> QED
      BY <3>1
  <2>4. fails' \in [Socks -> Nat] /\ input' \subseteq Socks
    <3>1. \/ fails' = [fails EXCEPT ![s] = 0] /\ input' = input \cup {s}
          \/ fails' = fails /\ input' = input
      BY <1>2 DEF HandlerPayload
    <3> QED
      BY <3>1
  <2> QED
    BY <1>2, <2>1, <2>2, <2>3, <2>4 DEF HandlerPayload
<1>3. CASE HandlerFails(s)
  BY <1>3 DEF HandlerFails
<1>4. CASE HandlerIgnores(s)
  <2>1. wire' \in [Socks -> Seq(Chunk)]
    BY <1>4, StreamTail DEF HandlerIgnores, Clear
  <2> QED
    BY <1>4, <2>1 DEF HandlerIgnores
<1>5. CASE Break(s)
  BY <1>5 DEF Break
<1> QED
  BY <1>1, <1>2, <1>3, <1>4, <1>5 DEF Handler
-----------------------------------------------------------------------------
\* The reconnect thread establishes what the others rely on.
LEMMA InvReconnect ==
  ASSUME ConnectionTypeOK, ConnectionInv, Reconnect \/ Connects \/ ConnectFails
  PROVE  ConnectionInv'
<1> USE DEF ConnectionTypeOK, ConnectionInv, Attempt, ConnectedIsReal,
            MidMessageSocketKept, sendVars
<1>1. CASE Check
  BY <1>1 DEF Check
<1>2. CASE Create
  <2>1. CASE Free = {}
    BY <1>2, <2>1 DEF Create, None
  <2>2. CASE Free # {}
    <3>1. PICK s \in Free : /\ client_socket' = s
                            /\ sock' = [sock EXCEPT ![s] = "new"]
      BY <1>2, <2>2 DEF Create
    <3> QED
      BY <1>2, <2>2, <3>1 DEF Create, Free, None, Socks
  <2> QED
    BY <2>1, <2>2
<1>3. CASE SetConnected
  BY <1>3 DEF SetConnected
<1>4. CASE Backoff
  BY <1>4 DEF Backoff
<1>5. CASE Sleep
  BY <1>5 DEF Sleep
<1>6. CASE Connects
  BY <1>6 DEF Connects
<1>7. CASE ConnectFails
  BY <1>7 DEF ConnectFails
<1> QED
  BY <1>1, <1>2, <1>3, <1>4, <1>5, <1>6, <1>7 DEF Reconnect

\* The receiver can only clear the flag.
LEMMA InvReceiver ==
  ASSUME ConnectionTypeOK, ConnectionInv, Receiver
  PROVE  ConnectionInv'
<1> USE DEF ConnectionTypeOK, ConnectionInv, Attempt, ConnectedIsReal,
            MidMessageSocketKept, sendVars, connectVars
<1> QED
  BY DEF Receiver, ReceiverCheck, ReceiverLoad, ReceiverReads, ReceiverFails, ReceiverClears

\* A sender can only clear the flag, and is in mid-message on a socket that
\* has just carried the size.
LEMMA InvSender ==
  ASSUME ConnectionTypeOK, ConnectionInv, NEW t \in Senders, Spawn(t) \/ Sender(t)
  PROVE  ConnectionInv'
<1> USE DEF ConnectionTypeOK, ConnectionInv, Attempt, ConnectedIsReal,
            MidMessageSocketKept, connectVars
<1>1. CASE Spawn(t)
  BY <1>1 DEF Spawn
<1>2. CASE SenderCheck(t)
  BY <1>2 DEF SenderCheck
<1>3. CASE SenderLoad(t)
  BY <1>3 DEF SenderLoad
<1>4. CASE SenderHeader(t)
  BY <1>4 DEF SenderHeader, Put, Usable
<1>5. CASE SenderPayload(t)
  BY <1>5 DEF SenderPayload, Put
<1>6. CASE SenderFails(t)
  BY <1>6 DEF SenderFails
<1>7. CASE SenderClears(t)
  BY <1>7 DEF SenderClears
<1> QED
  BY <1>1, <1>2, <1>3, <1>4, <1>5, <1>6, <1>7 DEF Sender

\* The server does not touch the client's threads; a break leaves a socket
\* that was connected.
LEMMA InvHandler ==
  ASSUME ConnectionTypeOK, ConnectionInv, NEW s \in Socks, Handler(s) \/ Break(s)
  PROVE  ConnectionInv'
<1> USE DEF ConnectionTypeOK, ConnectionInv, Attempt, ConnectedIsReal,
            MidMessageSocketKept, sendVars, connectVars
<1>1. CASE Handler(s)
  BY <1>1 DEF Handler, HandlerHeader, HandlerPayload, HandlerFails, HandlerIgnores
<1>2. CASE Break(s)
  BY <1>2 DEF Break
<1> QED
  BY <1>1, <1>2

\* Every step keeps the types and the invariant.
LEMMA ConnectionStep ==
  ConnectionTypeOK /\ ConnectionInv /\ [ConnectionNext]_cvars
    => ConnectionTypeOK' /\ ConnectionInv'
<1> SUFFICES ASSUME ConnectionTypeOK, ConnectionInv, [ConnectionNext]_cvars
             PROVE  ConnectionTypeOK' /\ ConnectionInv'
  OBVIOUS
<1>1. CASE Reconnect \/ Connects \/ ConnectFails
  BY <1>1, TypeReconnect, InvReconnect
<1>2. CASE Receiver
  BY <1>2, TypeReceiver, InvReceiver
<1>3. ASSUME NEW t \in Senders, Spawn(t) \/ Sender(t)
      PROVE  ConnectionTypeOK' /\ ConnectionInv'
  BY <1>3, TypeSender, InvSender
<1>4. ASSUME NEW s \in Socks, Handler(s) \/ Break(s)
      PROVE  ConnectionTypeOK' /\ ConnectionInv'
  BY <1>4, TypeHandler, InvHandler
<1>5. CASE UNCHANGED cvars
  BY <1>5 DEF cvars, connectVars, receiveVars, sendVars, serverVars, histVars,
     ConnectionTypeOK, ConnectionInv, Attempt, ConnectedIsReal, MidMessageSocketKept
<1> QED
  BY <1>1, <1>2, <1>3, <1>4, <1>5 DEF ConnectionNext

\* The invariant holds before any thread has moved.
LEMMA ConnectionStart == ConnectionInit => ConnectionTypeOK /\ ConnectionInv
  BY TypeInit DEF ConnectionInit, ConnectionInv, Attempt, ConnectedIsReal, MidMessageSocketKept

\* The types and the invariant hold in every reachable state.
LEMMA ConnectionInvariant == ConnectionSpec => [](ConnectionTypeOK /\ ConnectionInv)
  BY ConnectionStart, ConnectionStep, PTL DEF ConnectionSpec
-----------------------------------------------------------------------------
\* The state keeps its type: in particular the delay is one of the backoff's
\* values however often connecting fails (ExponentialBackoff).
THEOREM ConnectionTypeCorrect == ConnectionSpec => []ConnectionTypeOK
  BY ConnectionInvariant, PTL

\* is_connected is never set while client_socket is not a socket that did
\* connect (ServerConnector::try_connect against recv_input and send_output).
THEOREM ConnectedIsRealHolds == ConnectionSpec => []ConnectedIsReal
<1>1. ConnectionInv => ConnectedIsReal
  BY DEF ConnectionInv
<1> QED
  BY <1>1, ConnectionInvariant, PTL

\* A message's payload goes where its size went (send_message).
THEOREM MidMessageSocketKeptHolds == ConnectionSpec => []MidMessageSocketKept
<1>1. ConnectionInv => MidMessageSocketKept
  BY DEF ConnectionInv
<1> QED
  BY <1>1, ConnectionInvariant, PTL

\* No step replaces client_socket while is_connected is set
\* (reconnect_indefinitely, whatever the other threads do).
THEOREM ReplacedOnlyWhenDownHolds == ConnectionSpec => ReplacedOnlyWhenDown
<1>1. ConnectionInv /\ [ConnectionNext]_cvars
        => [client_socket' # client_socket => ~is_connected]_cvars
  <2> SUFFICES ASSUME ConnectionInv, ConnectionNext, client_socket' # client_socket
               PROVE  ~is_connected
    OBVIOUS
  <2>1. CASE Create
    BY <2>1 DEF Create, ConnectionInv, Attempt
  <2>2. CASE ~Create
    BY <2>2 DEF ConnectionNext, Reconnect, Check, SetConnected, Backoff, Sleep,
       Connects, ConnectFails, Receiver, ReceiverCheck, ReceiverLoad, ReceiverReads,
       ReceiverFails, ReceiverClears, Spawn, Sender, SenderCheck, SenderLoad,
       SenderHeader, SenderPayload, SenderFails, SenderClears, Put, Handler,
       HandlerHeader, HandlerPayload, HandlerFails, HandlerIgnores, Break
  <2> QED
    BY <2>1, <2>2
<1> QED
  BY <1>1, ConnectionInvariant, PTL DEF ConnectionSpec, ReplacedOnlyWhenDown
-----------------------------------------------------------------------------
(***************************************************************************)
(* The handler of a connection keeps step unless messages overlap.  On a   *)
(* live connection without an overlap, what the handler has begun to read  *)
(* and what is in flight alternate, a size and the payload of the same     *)
(* message; the stream ends in a size exactly if its sender is between its *)
(* two sends.  A descriptor that is not in use, or not connected yet, has  *)
(* nothing in flight and a handler that has read nothing.                  *)
(***************************************************************************)
Continues(c, d) ==
  IF c[2] = "header" THEN d = <<c[1], "payload">> ELSE d[2] = "header"

Stepped(b, w) ==
  \A i \in 1 .. Len(w) : Continues(IF i = 1 THEN b ELSE w[i - 1], w[i])

EndOf(b, w) == IF w = <<>> THEN b ELSE w[Len(w)]

\* The chunk the handler has read, as far as the next one depends on it.
Begun(s) ==
  IF hpc[s] = "payload" THEN <<expect[s], "header">> ELSE <<None, "payload">>

InStep(s) ==
  /\ hpc[s] \in {"header", "payload"}
  /\ hpc[s] = "payload" => expect[s] \in Senders
  /\ Stepped(Begun(s), wire[s])
  /\ \A t \in Senders :
       (spc[t] = "payload" /\ ssock[t] = s) <=> EndOf(Begun(s), wire[s]) = <<t, "header">>

Unused(s) == sock[s] \in {"free", "new"} => wire[s] = <<>> /\ hpc[s] = "header"

StreamInv ==
  \A s \in Socks : Unused(s) /\ (sock[s] = "up" /\ s \notin overlapped => InStep(s))

\* A chunk that continues the stream is appended.
LEMMA SteppedAppend ==
  ASSUME NEW b, NEW w \in Seq(Chunk), NEW c \in Chunk,
         Stepped(b, w), Continues(EndOf(b, w), c)
  PROVE  Stepped(b, Append(w, c)) /\ EndOf(b, Append(w, c)) = c
<1> DEFINE v == Append(w, c)
<1>1. /\ Len(v) = Len(w) + 1 /\ Len(w) \in Nat /\ v # <<>>
      /\ v[Len(w) + 1] = c
      /\ \A i \in 1 .. Len(w) : v[i] = w[i]
  BY AppendProperties
<1>2. w = <<>> <=> Len(w) = 0
  OBVIOUS
<1> HIDE DEF v
<1>3. ASSUME NEW i \in 1 .. Len(v) PROVE Continues(IF i = 1 THEN b ELSE v[i - 1], v[i])
  <2>1. CASE i = Len(w) + 1
    <3>1. (IF i = 1 THEN b ELSE v[i - 1]) = EndOf(b, w)
      BY <1>1, <1>2, <2>1 DEF EndOf
    <3> QED BY <1>1, <2>1, <3>1
  <2>2. CASE i # Len(w) + 1
    <3>1. i \in 1 .. Len(w)
      BY <1>1, <1>3, <2>2
    <3>2. (IF i = 1 THEN b ELSE v[i - 1]) = (IF i = 1 THEN b ELSE w[i - 1]) /\ v[i] = w[i]
      BY <1>1, <3>1
    <3> QED BY <3>1, <3>2 DEF Stepped
  <2> QED BY <2>1, <2>2
<1>4. Stepped(b, v) /\ EndOf(b, v) = c
  BY <1>1, <1>3 DEF Stepped, EndOf
<1> QED BY <1>4 DEF v

\* The first chunk is taken: a size is remembered with its sender, of a
\* payload only that it was one.
LEMMA SteppedTail ==
  ASSUME NEW b, NEW w \in Seq(Chunk), w # <<>>, Stepped(b, w), NEW a,
         a = Head(w) \/ (a[2] = "payload" /\ Head(w)[2] = "payload")
  PROVE  /\ Continues(b, Head(w))
         /\ Stepped(a, Tail(w))
         /\ \A t : EndOf(a, Tail(w)) = <<t, "header">> <=> EndOf(b, w) = <<t, "header">>
<1> DEFINE v == Tail(w)
<1>1. /\ Len(w) \in Nat \ {0} /\ Len(v) = Len(w) - 1 /\ Head(w) = w[1]
      /\ \A i \in 1 .. Len(v) : v[i] = w[i + 1]
      /\ v \in Seq(Chunk)
  BY HeadTailProperties, LenProperties, EmptySeq
<1> HIDE DEF v
<1>2. v = <<>> <=> Len(v) = 0
  <2>1. v \in Seq(Chunk)
    BY <1>1
  <2> QED BY <2>1, EmptySeq
<1>3. Continues(b, Head(w))
  BY <1>1 DEF Stepped
<1>4. ASSUME NEW i \in 1 .. Len(v) PROVE Continues(IF i = 1 THEN a ELSE v[i - 1], v[i])
  <2>1. i + 1 \in 1 .. Len(w) /\ i + 1 # 1 /\ (i + 1) - 1 = i /\ v[i] = w[i + 1]
    BY <1>1, <1>4
  <2>2. Continues(w[i], w[i + 1])
    BY <2>1 DEF Stepped
  <2>3. CASE i = 1
    <3>1. Continues(Head(w), v[i])
      BY <1>1, <2>1, <2>2, <2>3
    <3> QED BY <2>3, <3>1 DEF Continues
  <2>4. CASE i # 1
    <3>1. v[i - 1] = w[i]
      <4>1. i - 1 \in 1 .. Len(v) /\ (i - 1) + 1 = i
        BY <1>1, <1>4, <2>4
      <4> QED BY <1>1, <4>1
    <3> QED BY <2>1, <2>2, <2>4, <3>1
  <2> QED BY <2>3, <2>4
<1>5. ASSUME NEW t PROVE EndOf(a, v) = <<t, "header">> <=> EndOf(b, w) = <<t, "header">>
  <2>1. EndOf(b, w) = w[Len(w)]
    BY DEF EndOf
  <2>2. CASE v = <<>>
    <3>1. Len(w) = 1
      BY <1>1, <1>2, <2>2
    <3>2. EndOf(b, w) = Head(w)
      BY <1>1, <2>1, <3>1
    <3>3. EndOf(a, v) = a
      BY <2>2 DEF EndOf
    <3>4. \A c : c = <<t, "header">> => c[2] # "payload"
      OBVIOUS
    <3> QED BY <3>2, <3>3, <3>4
  <2>3. CASE v # <<>>
    <3>1. Len(v) \in 1 .. Len(v) /\ Len(v) + 1 = Len(w)
      BY <1>1, <1>2, <2>3
    <3>2. v[Len(v)] = w[Len(v) + 1]
      BY <1>1, <3>1
    <3>3. EndOf(a, v) = v[Len(v)]
      BY <2>3 DEF EndOf
    <3> QED BY <2>1, <3>1, <3>2, <3>3
  <2> QED BY <2>2, <2>3
<1>6. Stepped(a, v)
  BY <1>4 DEF Stepped
<1> QED BY <1>3, <1>5, <1>6 DEF v

\* Connections no step touches keep step.
LEMMA InStepKept ==
  ASSUME NEW u \in Socks, InStep(u),
         hpc'[u] = hpc[u], expect'[u] = expect[u], wire'[u] = wire[u],
         \A t \in Senders : (spc'[t] = "payload" /\ ssock'[t] = u)
                              <=> (spc[t] = "payload" /\ ssock[t] = u)
  PROVE  InStep(u)'
<1>1. Begun(u)' = Begun(u)
  BY DEF Begun
<1> QED BY <1>1 DEF InStep

\* A connection that is made has nothing in flight, and no sender writes on
\* it yet.
LEMMA NewInStep ==
  ASSUME NEW s \in Socks, hpc[s] = "header", wire[s] = <<>>,
         \A t \in Senders : ~(spc[t] = "payload" /\ ssock[t] = s)
  PROVE  InStep(s)
<1>1. Begun(s) = <<None, "payload">>
  BY DEF Begun
<1>2. Stepped(Begun(s), wire[s])
  BY DEF Stepped
<1>3. ASSUME NEW t \in Senders PROVE EndOf(Begun(s), wire[s]) # <<t, "header">>
  BY <1>1 DEF EndOf
<1> QED BY <1>2, <1>3 DEF InStep

\* A step that leaves the streams, the handlers and the senders in mid-message
\* alone.
LEMMA StreamUnmoved ==
  ASSUME StreamInv, UNCHANGED <<sock, wire, hpc, expect, overlapped>>,
         \A t \in Senders, u \in Socks :
           (spc'[t] = "payload" /\ ssock'[t] = u) <=> (spc[t] = "payload" /\ ssock[t] = u)
  PROVE  StreamInv'
<1>1. ASSUME NEW u \in Socks, sock'[u] = "up", u \notin overlapped' PROVE InStep(u)'
  BY <1>1, InStepKept DEF StreamInv
<1>2. ASSUME NEW u \in Socks PROVE Unused(u)'
  BY DEF StreamInv, Unused
<1> QED BY <1>1, <1>2 DEF StreamInv

\* Making a socket, connecting it and failing to: what starts as a live
\* connection was unused and no sender could have written on it.
LEMMA StreamReconnect ==
  ASSUME ConnectionTypeOK, ConnectionInv, StreamInv, Reconnect \/ Connects \/ ConnectFails
  PROVE  StreamInv'
<1>1. CASE Check \/ SetConnected \/ Backoff \/ Sleep
  <2>1. UNCHANGED <<sock, wire, hpc, expect, overlapped, spc, ssock>>
    BY <1>1 DEF Check, SetConnected, Backoff, Sleep, serverVars, histVars, sendVars
  <2> QED BY <2>1, StreamUnmoved
<1>2. CASE Create \/ Connects \/ ConnectFails
  <2>1. UNCHANGED <<wire, hpc, expect, overlapped, spc, ssock>>
    BY <1>2 DEF Create, Connects, ConnectFails, serverVars, histVars, sendVars
  <2>2. PICK s : \A u \in Socks \ {s} : sock'[u] = sock[u]
    BY <1>2 DEF Create, Connects, ConnectFails, ConnectionTypeOK
  <2>3. \A u \in Socks : \/ sock'[u] = sock[u]
                         \/ sock[u] \in {"free", "new"}
    <3>1. CASE Create
      BY <3>1 DEF Create, Free, ConnectionTypeOK
    <3>2. CASE Connects \/ ConnectFails
      BY <3>2 DEF Connects, ConnectFails, ConnectionTypeOK, ConnectionInv, Attempt
    <3> QED BY <1>2, <3>1, <3>2
  <2>4. ASSUME NEW u \in Socks, sock'[u] = "up", u \notin overlapped' PROVE InStep(u)'
    <3>1. CASE sock[u] = "up"
      <4>1. InStep(u)
        BY <2>1, <2>4, <3>1 DEF StreamInv
      <4> QED BY <2>1, <4>1, InStepKept
    <3>2. CASE sock[u] # "up"
      <4>1. sock[u] \in {"free", "new"}
        BY <2>3, <2>4, <3>2
      <4>2. hpc[u] = "header" /\ wire[u] = <<>>
        BY <4>1 DEF StreamInv, Unused
      <4>3. \A t \in Senders : ~(spc[t] = "payload" /\ ssock[t] = u)
        BY <4>1 DEF ConnectionInv, MidMessageSocketKept
      <4>4. InStep(u)
        BY <4>2, <4>3, NewInStep
      <4> QED BY <2>1, <4>4, InStepKept
    <3> QED BY <3>1, <3>2
  <2>5. ASSUME NEW u \in Socks PROVE Unused(u)'
    <3>1. sock'[u] \in {"free", "new"} => sock[u] \in {"free", "new"}
      BY <2>3
    <3> QED BY <2>1, <3>1 DEF StreamInv, Unused
  <2> QED BY <2>4, <2>5 DEF StreamInv
<1> QED BY <1>1, <1>2 DEF Reconnect

LEMMA StreamReceiver ==
  ASSUME StreamInv, Receiver PROVE StreamInv'
<1>1. UNCHANGED <<sock, wire, hpc, expect, overlapped, spc, ssock>>
  BY DEF Receiver, ReceiverCheck, ReceiverLoad, ReceiverReads, ReceiverFails,
         ReceiverClears, serverVars, histVars, sendVars
<1> QED BY <1>1, StreamUnmoved

\* A size is sent on a connection on which nobody is in mid-message, or else
\* the messages overlap (send_message).
LEMMA StreamHeader ==
  ASSUME ConnectionTypeOK, StreamInv, NEW t \in Senders, SenderHeader(t)
  PROVE  StreamInv'
<1>0. PICK s : s = ssock[t]
  OBVIOUS
<1>1. /\ s \in Socks /\ sock[s] = "up" /\ spc[t] = "header"
      /\ UNCHANGED <<sock, hpc, expect, ssock>>
      /\ wire' = [wire EXCEPT ![s] = Append(wire[s], <<t, "header">>)]
      /\ spc' = [spc EXCEPT ![t] = "payload"]
      /\ overlapped' = IF Alone(t) THEN overlapped ELSE overlapped \cup {s}
  BY <1>0 DEF SenderHeader, Put, Usable, ConnectionTypeOK, serverVars
<1>2. /\ wire \in [Socks -> Seq(Chunk)] /\ wire[s] \in Seq(Chunk)
      /\ <<t, "header">> \in Chunk /\ spc \in [Senders -> {"idle", "check", "load", "header", "payload", "fail"}]
  BY <1>1 DEF ConnectionTypeOK, Chunk
<1>3. \A r \in Senders : spc'[r] = IF r = t THEN "payload" ELSE spc[r]
  BY <1>1, <1>2
<1>4. /\ wire'[s] = Append(wire[s], <<t, "header">>)
      /\ \A u \in Socks \ {s} : wire'[u] = wire[u]
  BY <1>1, <1>2
<1>6. ASSUME NEW u \in Socks \ {s}, sock'[u] = "up", u \notin overlapped' PROVE InStep(u)'
  <2>1. InStep(u)
    BY <1>1, <1>6 DEF StreamInv
  <2>2. \A r \in Senders : (spc'[r] = "payload" /\ ssock'[r] = u)
                             <=> (spc[r] = "payload" /\ ssock[r] = u)
    BY <1>1, <1>3, <1>0
  <2> QED BY <1>1, <1>4, <2>1, <2>2, InStepKept
<1>7. ASSUME s \notin overlapped' PROVE InStep(s)'
  <2>1. Alone(t) /\ s \notin overlapped
    BY <1>1, <1>7
  <2>2. InStep(s)
    BY <1>1, <2>1 DEF StreamInv
  <2>3. ASSUME NEW r \in Senders PROVE ~(spc[r] = "payload" /\ ssock[r] = s)
    BY <1>1, <1>0, <2>1 DEF Alone
  <2>4. \A r \in Senders : EndOf(Begun(s), wire[s]) # <<r, "header">>
    BY <2>2, <2>3 DEF InStep
  <2>5. EndOf(Begun(s), wire[s])[2] # "header"
    <3>1. CASE wire[s] = <<>>
      BY <2>2, <2>4, <3>1 DEF EndOf, Begun, InStep
    <3>2. CASE wire[s] # <<>>
      <4>1. wire[s][Len(wire[s])] \in Chunk
        BY <1>2, <3>2, EmptySeq, LenProperties
      <4> QED BY <2>4, <3>2, <4>1 DEF EndOf, Chunk
    <3> QED BY <3>1, <3>2
  <2>6. Continues(EndOf(Begun(s), wire[s]), <<t, "header">>)
    BY <2>5 DEF Continues
  <2>7. /\ Stepped(Begun(s), wire'[s]) /\ EndOf(Begun(s), wire'[s]) = <<t, "header">>
    BY <1>2, <1>4, <2>2, <2>6, SteppedAppend DEF InStep
  <2>8. Begun(s)' = Begun(s)
    BY <1>1 DEF Begun
  <2>9. \A r \in Senders : (spc'[r] = "payload" /\ ssock'[r] = s) <=> r = t
    BY <1>1, <1>3, <1>0, <2>3
  <2>10. \A r \in Senders : (spc'[r] = "payload" /\ ssock'[r] = s)
                              <=> EndOf(Begun(s), wire'[s]) = <<r, "header">>
    BY <2>7, <2>9
  <2> QED BY <1>1, <2>2, <2>7, <2>8, <2>10 DEF InStep
<1>8. ASSUME NEW u \in Socks PROVE Unused(u)'
  BY <1>1, <1>4 DEF StreamInv, Unused
<1> QED BY <1>6, <1>7, <1>8 DEF StreamInv

\* A payload follows the size of its message (send_message).
LEMMA StreamPayload ==
  ASSUME ConnectionTypeOK, StreamInv, NEW t \in Senders, SenderPayload(t)
  PROVE  StreamInv'
<1>0. PICK s : s = ssock[t]
  OBVIOUS
<1>1. /\ s \in Socks /\ sock[s] = "up" /\ spc[t] = "payload"
      /\ UNCHANGED <<sock, hpc, expect, overlapped>>
      /\ wire' = [wire EXCEPT ![s] = Append(wire[s], <<t, "payload">>)]
      /\ spc' = [spc EXCEPT ![t] = "idle"] /\ ssock' = [ssock EXCEPT ![t] = None]
  BY <1>0 DEF SenderPayload, Put, Usable, ConnectionTypeOK, serverVars
<1>2. /\ wire \in [Socks -> Seq(Chunk)] /\ wire[s] \in Seq(Chunk)
      /\ <<t, "payload">> \in Chunk
      /\ spc \in [Senders -> {"idle", "check", "load", "header", "payload", "fail"}]
      /\ ssock \in [Senders -> Socks \cup {None}]
  BY <1>1 DEF ConnectionTypeOK, Chunk
<1>3. \A r \in Senders : /\ spc'[r] = IF r = t THEN "idle" ELSE spc[r]
                         /\ ssock'[r] = IF r = t THEN None ELSE ssock[r]
  BY <1>1, <1>2
<1>4. /\ wire'[s] = Append(wire[s], <<t, "payload">>)
      /\ \A u \in Socks \ {s} : wire'[u] = wire[u]
  BY <1>1, <1>2
<1>6. ASSUME NEW u \in Socks \ {s}, sock'[u] = "up", u \notin overlapped' PROVE InStep(u)'
  <2>1. InStep(u)
    BY <1>1, <1>6 DEF StreamInv
  <2>2. \A r \in Senders : (spc'[r] = "payload" /\ ssock'[r] = u)
                             <=> (spc[r] = "payload" /\ ssock[r] = u)
    BY <1>1, <1>3, <1>0
  <2> QED BY <1>1, <1>4, <2>1, <2>2, InStepKept
<1>7. ASSUME s \notin overlapped' PROVE InStep(s)'
  <2>1. InStep(s)
    BY <1>1, <1>7 DEF StreamInv
  <2>2. EndOf(Begun(s), wire[s]) = <<t, "header">>
    BY <1>1, <1>0, <2>1 DEF InStep
  <2>3. Continues(EndOf(Begun(s), wire[s]), <<t, "payload">>)
    BY <2>2 DEF Continues
  <2>4. /\ Stepped(Begun(s), wire'[s]) /\ EndOf(Begun(s), wire'[s]) = <<t, "payload">>
    BY <1>2, <1>4, <2>1, <2>3, SteppedAppend DEF InStep
  <2>5. Begun(s)' = Begun(s)
    BY <1>1 DEF Begun
  <2>6. \A r \in Senders : ~(spc'[r] = "payload" /\ ssock'[r] = s)
    <3>1. ASSUME NEW r \in Senders, r # t, spc[r] = "payload", ssock[r] = s PROVE FALSE
      <4>1. <<r, "header">> = <<t, "header">>
        BY <2>1, <2>2, <3>1 DEF InStep
      <4> QED BY <3>1, <4>1
    <3> QED BY <1>3, <3>1
  <2>7. \A r \in Senders : (spc'[r] = "payload" /\ ssock'[r] = s)
                              <=> EndOf(Begun(s), wire'[s]) = <<r, "header">>
    BY <2>4, <2>6
  <2> QED BY <1>1, <2>1, <2>4, <2>5, <2>7 DEF InStep
<1>8. ASSUME NEW u \in Socks PROVE Unused(u)'
  BY <1>1, <1>4 DEF StreamInv, Unused
<1> QED BY <1>6, <1>7, <1>8 DEF StreamInv

\* The other steps of a sender: it gives up only on a connection that is
\* not live (send_exact).
LEMMA StreamSender ==
  ASSUME ConnectionTypeOK, StreamInv, NEW t \in Senders, Spawn(t) \/ Sender(t)
  PROVE  StreamInv'
<1>1. CASE Spawn(t) \/ SenderCheck(t) \/ SenderLoad(t) \/ SenderClears(t)
  <2>1. UNCHANGED <<sock, wire, hpc, expect, overlapped>>
    BY <1>1 DEF Spawn, SenderCheck, SenderLoad, SenderClears, serverVars, histVars
  <2>2. \A r \in Senders : \/ spc'[r] = spc[r] /\ ssock'[r] = ssock[r]
                           \/ spc'[r] # "payload" /\ spc[r] # "payload"
    BY <1>1 DEF Spawn, SenderCheck, SenderLoad, SenderClears, ConnectionTypeOK
  <2> QED BY <2>1, <2>2, StreamUnmoved
<1>2. CASE SenderFails(t)
  <2>1. /\ UNCHANGED <<sock, wire, hpc, expect, overlapped>> /\ ~Usable(ssock[t])
        /\ \A r \in Senders \ {t} : spc'[r] = spc[r] /\ ssock'[r] = ssock[r]
        /\ spc'[t] = "fail"
    BY <1>2 DEF SenderFails, serverVars, histVars, ConnectionTypeOK
  <2>2. ASSUME NEW u \in Socks, sock'[u] = "up", u \notin overlapped' PROVE InStep(u)'
    <3>1. InStep(u)
      BY <2>1, <2>2 DEF StreamInv
    <3>2. ssock[t] # u
      BY <2>1, <2>2 DEF Usable, None, Socks
    <3> QED BY <2>1, <3>1, <3>2, InStepKept
  <2>3. ASSUME NEW u \in Socks PROVE Unused(u)'
    BY <2>1 DEF StreamInv, Unused
  <2> QED BY <2>2, <2>3 DEF StreamInv
<1> QED BY <1>1, <1>2, StreamHeader, StreamPayload DEF Sender

\* The handler takes the next chunk: as it is in step, a size when it waits
\* for one and otherwise the payload of the size it has read (recv_message).
LEMMA StreamHandler ==
  ASSUME ConnectionTypeOK, StreamInv, NEW s \in Socks, Handler(s) \/ Break(s)
  PROVE  StreamInv'
<1>1. UNCHANGED <<spc, ssock, overlapped>>
  BY DEF Handler, HandlerHeader, HandlerPayload, HandlerFails, HandlerIgnores, Break,
         sendVars, histVars
<1>2. \A u \in Socks \ {s} : /\ sock'[u] = sock[u] /\ wire'[u] = wire[u]
                             /\ hpc'[u] = hpc[u] /\ expect'[u] = expect[u]
  <2>1. CASE HandlerHeader(s)
    BY <2>1 DEF HandlerHeader, Clear, ConnectionTypeOK
  <2>2. CASE HandlerPayload(s)
    BY <2>2 DEF HandlerPayload, Clear, ConnectionTypeOK
  <2>3. CASE HandlerFails(s) \/ HandlerIgnores(s) \/ Break(s)
    BY <2>3 DEF HandlerFails, HandlerIgnores, Break, Clear, serverVars, ConnectionTypeOK
  <2> QED BY <2>1, <2>2, <2>3 DEF Handler
<1>3. ASSUME NEW u \in Socks \ {s}
      PROVE  Unused(u)' /\ (sock'[u] = "up" /\ u \notin overlapped' => InStep(u)')
  BY <1>1, <1>2, InStepKept DEF StreamInv, Unused
<1>4. Unused(s)'
  <2>1. CASE sock[s] \in {"up", "broken"}
    BY <2>1 DEF Handler, HandlerHeader, HandlerPayload, HandlerFails, HandlerIgnores, Break,
                Unused, ConnectionTypeOK
  <2>2. CASE sock[s] \in {"free", "new"}
    BY <2>2 DEF Handler, HandlerHeader, HandlerPayload, HandlerFails, HandlerIgnores, Break,
                Unused, StreamInv
  <2> QED BY <2>1, <2>2 DEF ConnectionTypeOK
<1>5. ASSUME sock'[s] = "up", s \notin overlapped' PROVE InStep(s)'
  <2>1. sock[s] = "up" /\ ~Break(s)
    BY <1>5 DEF Handler, HandlerHeader, HandlerPayload, HandlerFails, HandlerIgnores, Break,
                ConnectionTypeOK
  <2>2. InStep(s)
    BY <1>1, <1>5, <2>1 DEF StreamInv
  <2>3. HandlerHeader(s) \/ HandlerPayload(s)
    BY <2>1, <2>2 DEF Handler, HandlerFails, HandlerIgnores, InStep
  <2>4. /\ wire[s] # <<>> /\ wire[s] \in Seq(Chunk) /\ wire'[s] = Tail(wire[s])
    BY <2>3 DEF HandlerHeader, HandlerPayload, Clear, ConnectionTypeOK
  <2>5. PICK h : h = Head(wire[s])
    OBVIOUS
  <2>6. /\ h \in Chunk /\ Stepped(Begun(s), wire[s])
    BY <2>2, <2>4, <2>5, HeadTailProperties DEF InStep
  <2>7. Continues(Begun(s), h)
    BY <2>4, <2>5, <2>6, SteppedTail
  <2>8. CASE HandlerHeader(s)
    <3>1. h[2] = "header"
      BY <2>7, <2>8 DEF HandlerHeader, Continues, Begun
    <3>2. hpc'[s] = "payload" /\ expect'[s] = h[1] /\ h[1] \in Senders /\ h = <<h[1], "header">>
      BY <2>5, <2>6, <2>8, <3>1 DEF HandlerHeader, ConnectionTypeOK, Chunk
    <3>3. Begun(s)' = h
      BY <3>2 DEF Begun
    <3>4. /\ Stepped(h, wire'[s])
          /\ \A r \in Senders : EndOf(h, wire'[s]) = <<r, "header">>
                                  <=> EndOf(Begun(s), wire[s]) = <<r, "header">>
      <4>1. h = Head(wire[s]) \/ (h[2] = "payload" /\ Head(wire[s])[2] = "payload")
        BY <2>5
      <4>2. /\ Stepped(h, Tail(wire[s]))
            /\ \A r : EndOf(h, Tail(wire[s])) = <<r, "header">>
                      <=> EndOf(Begun(s), wire[s]) = <<r, "header">>
        BY <2>4, <2>6, <4>1, SteppedTail
      <4> QED BY <2>4, <4>2
    <3> QED BY <1>1, <2>2, <3>2, <3>3, <3>4 DEF InStep
  <2>9. CASE HandlerPayload(s)
    <3>1. h = <<expect[s], "payload">>
      BY <2>7, <2>9 DEF HandlerPayload, Continues, Begun
    <3>2. hpc'[s] = "header"
      BY <2>5, <2>9, <3>1 DEF HandlerPayload, ConnectionTypeOK
    <3>3. Begun(s)' = <<None, "payload">>
      BY <3>2 DEF Begun
    <3>4. PICK a : a = <<None, "payload">>
      OBVIOUS
    <3>5. a[2] = "payload" /\ Head(wire[s])[2] = "payload"
      BY <2>5, <3>1, <3>4
    <3>6. /\ Stepped(a, wire'[s])
          /\ \A r \in Senders : EndOf(a, wire'[s]) = <<r, "header">>
                                  <=> EndOf(Begun(s), wire[s]) = <<r, "header">>
      <4>1. /\ Stepped(a, Tail(wire[s]))
            /\ \A r : EndOf(a, Tail(wire[s])) = <<r, "header">>
                      <=> EndOf(Begun(s), wire[s]) = <<r, "header">>
        BY <2>4, <2>6, <3>5, SteppedTail
      <4> QED BY <2>4, <4>1
    <3> QED BY <1>1, <2>2, <3>2, <3>3, <3>4, <3>6 DEF InStep
  <2> QED BY <2>3, <2>8, <2>9
<1> QED BY <1>3, <1>4, <1>5 DEF StreamInv

LEMMA StreamInvNext ==
  ConnectionTypeOK /\ ConnectionInv /\ StreamInv /\ [ConnectionNext]_cvars => StreamInv'
<1> SUFFICES ASSUME ConnectionTypeOK, ConnectionInv, StreamInv, [ConnectionNext]_cvars
             PROVE  StreamInv'
  OBVIOUS
<1>1. CASE UNCHANGED cvars
  <2>1. UNCHANGED <<sock, wire, hpc, expect, overlapped, spc, ssock>>
    BY <1>1 DEF cvars, serverVars, histVars, sendVars
  <2> QED BY <2>1, StreamUnmoved
<1> QED
  BY <1>1, StreamReconnect, StreamReceiver, StreamSender, StreamHandler DEF ConnectionNext

\* The server's handler of a live connection reads a payload's bytes as a size,
\* or another message's, only if two sender threads wrote on that connection
\* at once (send_message is two sends without a lock); broken connections,
\* half-sent messages and reused descriptors never garble it, whatever the
\* number of senders, descriptors and breaks (recv_message).
THEOREM OutOfStepByOverlapOnlyHolds == ConnectionSpec => []OutOfStepByOverlapOnly
<1>1. ConnectionInit => StreamInv
  <2> SUFFICES ASSUME ConnectionInit PROVE StreamInv
    OBVIOUS
  <2>1. \A s \in Socks : sock[s] = "free" /\ wire[s] = <<>> /\ hpc[s] = "header"
    BY DEF ConnectionInit
  <2> QED BY <2>1 DEF StreamInv, Unused
<1>2. StreamInv => OutOfStepByOverlapOnly
  BY DEF StreamInv, InStep, OutOfStepByOverlapOnly
<1> QED
  BY <1>1, <1>2, ConnectionStart, ConnectionStep, StreamInvNext, PTL DEF ConnectionSpec
=============================================================================
