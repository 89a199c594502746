----------------------------- MODULE Connection -----------------------------
(***************************************************************************)
(* The client's connection to the server: class ServerConnector            *)
(* (src/client/server_connector.cpp) and the framing of messages           *)
(* (SerializableHelper::send_message, recv_message).                       *)
(*                                                                         *)
(* Three kinds of threads share the members is_connected (atomic) and      *)
(* client_socket (not atomic, no mutex):                                   *)
(*                                                                         *)
(*  - the reconnect thread: the only one that sets is_connected and        *)
(*    assigns client_socket;                                               *)
(*  - the receiver thread: recv_input in a loop;                           *)
(*  - one detached sender thread per message: send_output.                 *)
(*                                                                         *)
(* A sender or the receiver tests is_connected, then reads client_socket,  *)
(* then uses the socket, and clears is_connected when that fails: another  *)
(* thread may act between any two of these steps.                          *)
(*                                                                         *)
(* Sockets are file descriptors: a closed one is given out again.  Only a  *)
(* socket that could not connect is ever closed.                           *)
(***************************************************************************)
EXTENDS Integers, Sequences, FiniteSets

CONSTANTS
  MaxSock,   \* file descriptors the process may have for sockets
  Senders,   \* sender threads that may exist at the same time
  MaxBreaks, \* bound: connections that break in a behaviour
  MaxWire,   \* chunks in flight on a connection before send blocks
  MaxTries,  \* max_tries, 10 in recv_input_from_client
  MaxDelay   \* the backoff's stop, 10 seconds in ServerConnector

ASSUME ConnectionAssumption ==
  /\ MaxSock \in Nat /\ MaxBreaks \in Nat /\ MaxTries \in Nat
  /\ MaxWire \in Nat \ {0} /\ MaxDelay \in Nat \ {0}

Socks == 1 .. MaxSock
None  == 0

VARIABLES
  is_connected, client_socket,
  sock,        \* the state of each descriptor
  cpc, delay,  \* reconnect thread: its next step, ExponentialBackoff's delay
  rpc, rsock,  \* receiver thread: its next step, the socket it has read
  spc, ssock,  \* sender threads, likewise
  wire,        \* chunks sent on a connection and not yet read by the server
  input,       \* connections with a message from the server to be read
  hpc, expect, \* the server's handler of a connection, the sender it is reading from
  fails,       \* count_fail of that handler
  breaks,      \* connections broken so far
  overlapped   \* connections on which two messages were sent at once

connectVars == <<cpc, delay>>
receiveVars == <<rpc, rsock>>
sendVars    == <<spc, ssock>>
serverVars  == <<hpc, expect, fails>>
histVars    == <<breaks, overlapped>>
cvars == <<is_connected, client_socket, sock, connectVars, receiveVars,
           sendVars, wire, input, serverVars, histVars>>

Chunk  == Senders \X {"header", "payload"}

ConnectionTypeOK ==
  /\ is_connected \in BOOLEAN
  /\ client_socket \in Socks \cup {None}
  /\ sock \in [Socks -> {"free", "new", "up", "broken"}]
  /\ cpc \in {"check", "create", "connect", "set", "backoff", "sleep"}
  /\ delay \in 1 .. MaxDelay
  /\ rpc \in {"check", "load", "recv", "fail"} /\ rsock \in Socks \cup {None}
  /\ spc \in [Senders -> {"idle", "check", "load", "header", "payload", "fail"}]
  /\ ssock \in [Senders -> Socks \cup {None}]
  /\ wire \in [Socks -> Seq(Chunk)]
  /\ input \subseteq Socks
  /\ hpc \in [Socks -> {"header", "payload", "garbled", "ended"}]
  /\ expect \in [Socks -> Senders \cup {None}]
  /\ fails \in [Socks -> Nat] /\ breaks \in Nat /\ overlapped \subseteq Socks

ConnectionInit ==
  /\ is_connected = FALSE /\ client_socket = None
  /\ sock = [s \in Socks |-> "free"]
  /\ cpc = "check" /\ delay = 1
  /\ rpc = "check" /\ rsock = None
  /\ spc = [t \in Senders |-> "idle"] /\ ssock = [t \in Senders |-> None]
  /\ wire = [s \in Socks |-> <<>>] /\ input = {}
  /\ hpc = [s \in Socks |-> "header"] /\ expect = [s \in Socks |-> None]
  /\ fails = [s \in Socks |-> 0] /\ breaks = 0 /\ overlapped = {}

Usable(s) == s # None /\ sock[s] = "up"
-----------------------------------------------------------------------------
(***************************************************************************)
(* The reconnect thread: reconnect_indefinitely and try_connect.           *)
(***************************************************************************)

\* Mutation: try_connect does not test is_connected first.
Check_Always ==
  /\ cpc = "check"
  /\ cpc' = "create"
  /\ UNCHANGED <<is_connected, client_socket, sock, delay, receiveVars,
                 sendVars, wire, input, serverVars, histVars>>

\* The loop's test of is_connected, and try_connect's: nobody else sets it.
Check ==
  /\ cpc = "check"
  /\ cpc' = IF is_connected THEN "sleep" ELSE "create"
  /\ UNCHANGED <<is_connected, client_socket, sock, delay, receiveVars,
                 sendVars, wire, input, serverVars, histVars>>

Free == {s \in Socks : sock[s] = "free"}

\* socket() gives the lowest free descriptor, or -1; either way the member
\* client_socket is overwritten.
Create ==
  /\ cpc = "create"
  /\ \/ /\ Free # {}
        /\ \E s \in Free : /\ \A u \in Free : s <= u
                           /\ client_socket' = s
                           /\ sock' = [sock EXCEPT ![s] = "new"]
        /\ cpc' = "connect"
     \/ /\ Free = {}
        /\ client_socket' = None /\ cpc' = "backoff" /\ UNCHANGED sock
  /\ UNCHANGED <<is_connected, delay, receiveVars, sendVars, wire, input,
                 serverVars, histVars>>

\* connect() succeeds and the server accepts the connection.
Connects ==
  /\ cpc = "connect"
  /\ sock' = [sock EXCEPT ![client_socket] = "up"]
  /\ cpc' = "set"
  /\ UNCHANGED <<is_connected, client_socket, delay, receiveVars, sendVars,
                 wire, input, serverVars, histVars>>

\* connect() fails: the socket is closed, client_socket keeps its number.
ConnectFails ==
  /\ cpc = "connect"
  /\ sock' = [sock EXCEPT ![client_socket] = "free"]
  /\ cpc' = "backoff"
  /\ UNCHANGED <<is_connected, client_socket, delay, receiveVars, sendVars,
                 wire, input, serverVars, histVars>>

\* is_connected = true, and ExponentialBackoff::success.
SetConnected ==
  /\ cpc = "set"
  /\ is_connected' = TRUE /\ delay' = 1
  /\ cpc' = "check"
  /\ UNCHANGED <<client_socket, sock, receiveVars, sendVars, wire, input,
                 serverVars, histVars>>

\* Mutation: the delay is doubled without a limit.
Backoff_Uncapped ==
  /\ cpc = "backoff"
  /\ delay' = delay * 2 /\ delay < 4 * MaxDelay
  /\ cpc' = "check"
  /\ UNCHANGED <<is_connected, client_socket, sock, receiveVars, sendVars,
                 wire, input, serverVars, histVars>>

\* ExponentialBackoff::fail: wait, then double the delay up to MaxDelay.
Backoff ==
  /\ cpc = "backoff"
  /\ delay' = IF delay * 2 < MaxDelay THEN delay * 2 ELSE MaxDelay
  /\ cpc' = "check"
  /\ UNCHANGED <<is_connected, client_socket, sock, receiveVars, sendVars,
                 wire, input, serverVars, histVars>>

\* Mutation: the thread ends once it has connected.
Sleep_Ends == cpc = "sleep" /\ UNCHANGED cvars

\* Connected: look again in one second.
Sleep ==
  /\ cpc = "sleep" /\ cpc' = "check"
  /\ UNCHANGED <<is_connected, client_socket, sock, delay, receiveVars,
                 sendVars, wire, input, serverVars, histVars>>

Reconnect == Check \/ Create \/ SetConnected \/ Backoff \/ Sleep
-----------------------------------------------------------------------------
(***************************************************************************)
(* The receiver thread: receive_server_input and recv_input.               *)
(***************************************************************************)

ReceiverCheck ==
  /\ rpc = "check" /\ is_connected
  /\ rpc' = "load"
  /\ UNCHANGED <<is_connected, client_socket, sock, connectVars, rsock,
                 sendVars, wire, input, serverVars, histVars>>

ReceiverLoad ==
  /\ rpc = "load"
  /\ rsock' = client_socket /\ rpc' = "recv"
  /\ UNCHANGED <<is_connected, client_socket, sock, connectVars, sendVars,
                 wire, input, serverVars, histVars>>

\* recv_message returns a message (an ack, a config), which is published.
ReceiverReads ==
  /\ rpc = "recv" /\ rsock \in input
  /\ input' = input \ {rsock} /\ rpc' = "check" /\ rsock' = None
  /\ UNCHANGED <<is_connected, client_socket, sock, connectVars,
                 sendVars, wire, serverVars, histVars>>

\* recv returns an error: the connection is broken, or the descriptor is
\* not connected.
ReceiverFails ==
  /\ rpc = "recv" /\ ~Usable(rsock)
  /\ rpc' = "fail" /\ rsock' = None
  /\ UNCHANGED <<is_connected, client_socket, sock, connectVars,
                 sendVars, wire, input, serverVars, histVars>>

\* The exception is caught and is_connected cleared.
ReceiverClears ==
  /\ rpc = "fail"
  /\ is_connected' = FALSE /\ rpc' = "check"
  /\ UNCHANGED <<client_socket, sock, connectVars, rsock, sendVars, wire,
                 input, serverVars, histVars>>

Receiver == \/ ReceiverCheck \/ ReceiverLoad \/ ReceiverReads
            \/ ReceiverFails \/ ReceiverClears
-----------------------------------------------------------------------------
(***************************************************************************)
(* A sender thread: one send_output, two sends on the socket.              *)
(***************************************************************************)

\* A NetworkSendEvent is published and a thread started for it.
Spawn(t) ==
  /\ spc[t] = "idle" /\ spc' = [spc EXCEPT ![t] = "check"]
  /\ UNCHANGED <<is_connected, client_socket, sock, connectVars, receiveVars,
                 ssock, wire, input, serverVars, histVars>>

\* Not connected: the message is dropped.
SenderCheck(t) ==
  /\ spc[t] = "check"
  /\ spc' = [spc EXCEPT ![t] = IF is_connected THEN "load" ELSE "idle"]
  /\ UNCHANGED <<is_connected, client_socket, sock, connectVars, receiveVars,
                 ssock, wire, input, serverVars, histVars>>

SenderLoad(t) ==
  /\ spc[t] = "load"
  /\ ssock' = [ssock EXCEPT ![t] = client_socket]
  /\ spc' = [spc EXCEPT ![t] = "header"]
  /\ UNCHANGED <<is_connected, client_socket, sock, connectVars, receiveVars,
                 wire, input, serverVars, histVars>>

\* send_exact of the size, then of the payload; each blocks while the
\* connection's buffers are full.
Put(t, kind) ==
  /\ Usable(ssock[t]) /\ Len(wire[ssock[t]]) < MaxWire
  /\ wire' = [wire EXCEPT ![ssock[t]] = Append(@, <<t, kind>>)]
  /\ UNCHANGED <<is_connected, client_socket, sock, connectVars, receiveVars,
                 input, serverVars, breaks>>

Alone(t) == \A u \in Senders \ {t} : spc[u] = "payload" => ssock[u] # ssock[t]

\* Mutation: the size alone is sent for an empty payload, and forgotten.
SenderHeader_Only(t) ==
  /\ spc[t] = "header" /\ Put(t, "header")
  /\ \E next \in {"payload", "idle"} : spc' = [spc EXCEPT ![t] = next]
  /\ UNCHANGED ssock
  /\ overlapped' = IF Alone(t) THEN overlapped ELSE overlapped \cup {ssock[t]}

SenderHeader(t) ==
  /\ spc[t] = "header" /\ Put(t, "header")
  /\ spc' = [spc EXCEPT ![t] = "payload"] /\ UNCHANGED ssock
  /\ overlapped' = IF Alone(t) THEN overlapped ELSE overlapped \cup {ssock[t]}

SenderPayload(t) ==
  /\ spc[t] = "payload" /\ Put(t, "payload")
  /\ spc' = [spc EXCEPT ![t] = "idle"] /\ ssock' = [ssock EXCEPT ![t] = None]
  /\ UNCHANGED overlapped

SenderFails(t) ==
  /\ spc[t] \in {"header", "payload"} /\ ~Usable(ssock[t])
  /\ spc' = [spc EXCEPT ![t] = "fail"] /\ ssock' = [ssock EXCEPT ![t] = None]
  /\ UNCHANGED <<is_connected, client_socket, sock, connectVars, receiveVars,
                 wire, input, serverVars, histVars>>

\* Mutation: the sender that fails also closes client_socket.
SenderClears_Closes(t) ==
  /\ spc[t] = "fail"
  /\ is_connected' = FALSE /\ spc' = [spc EXCEPT ![t] = "idle"]
  /\ sock' = IF client_socket = None THEN sock
             ELSE [sock EXCEPT ![client_socket] = "free"]
  /\ UNCHANGED <<client_socket, connectVars, receiveVars, ssock, wire, input,
                 serverVars, histVars>>

\* The exception is caught and is_connected cleared.
SenderClears(t) ==
  /\ spc[t] = "fail"
  /\ is_connected' = FALSE /\ spc' = [spc EXCEPT ![t] = "idle"]
  /\ UNCHANGED <<client_socket, sock, connectVars, receiveVars, ssock, wire,
                 input, serverVars, histVars>>

Sender(t) == \/ SenderCheck(t) \/ SenderLoad(t) \/ SenderHeader(t)
             \/ SenderPayload(t) \/ SenderFails(t) \/ SenderClears(t)
-----------------------------------------------------------------------------
(***************************************************************************)
(* The server's handler of a connection: recv_input_from_client.           *)
(***************************************************************************)

Clear(s) == [wire EXCEPT ![s] = Tail(@)]

\* recv_message takes four bytes for a size, whatever they are.
HandlerHeader(s) ==
  /\ hpc[s] = "header" /\ sock[s] = "up" /\ wire[s] # <<>>
  /\ wire' = Clear(s)
  /\ IF Head(wire[s])[2] = "header"
       THEN /\ hpc' = [hpc EXCEPT ![s] = "payload"]
            /\ expect' = [expect EXCEPT ![s] = Head(wire[s])[1]]
       ELSE /\ hpc' = [hpc EXCEPT ![s] = "garbled"] /\ UNCHANGED expect
  /\ UNCHANGED <<is_connected, client_socket, sock, connectVars, receiveVars,
                 sendVars, input, fails, histVars>>

\* It then takes that many bytes: a whole message if they are the payload
\* the size belongs to, which is published and answered, and the handler
\* is out of step with the stream otherwise.
HandlerPayload(s) ==
  /\ hpc[s] = "payload" /\ sock[s] = "up" /\ wire[s] # <<>>
  /\ wire' = Clear(s) /\ expect' = [expect EXCEPT ![s] = None]
  /\ \/ /\ Head(wire[s]) = <<expect[s], "payload">>
        /\ input' = input \cup {s}
        /\ hpc' = [hpc EXCEPT ![s] = "header"] /\ fails' = [fails EXCEPT ![s] = 0]
     \/ /\ Head(wire[s]) # <<expect[s], "payload">>
        /\ hpc' = [hpc EXCEPT ![s] = "garbled"]
        /\ UNCHANGED <<input, fails>>
  /\ UNCHANGED <<is_connected, client_socket, sock, connectVars, receiveVars,
                 sendVars, histVars>>

\* recv fails on a broken connection; parsing a garbled message throws.
\* More than max_tries in a row end the thread, the socket stays open.
HandlerFails(s) ==
  /\ hpc[s] # "ended"
  /\ sock[s] = "broken" \/ hpc[s] = "garbled"
  /\ fails' = [fails EXCEPT ![s] = @ + 1]
  /\ hpc' = [hpc EXCEPT ![s] = IF fails[s] + 1 > MaxTries THEN "ended" ELSE @]
  /\ UNCHANGED <<is_connected, client_socket, sock, connectVars, receiveVars,
                 sendVars, wire, input, expect, histVars>>

\* A garbled message that happens to start like a string is ignored.
HandlerIgnores(s) ==
  /\ hpc[s] = "garbled" /\ sock[s] = "up" /\ wire[s] # <<>>
  /\ wire' = Clear(s) /\ fails' = [fails EXCEPT ![s] = 0]
  /\ UNCHANGED <<is_connected, client_socket, sock, connectVars, receiveVars,
                 sendVars, input, hpc, expect, histVars>>

Handler(s) == HandlerHeader(s) \/ HandlerPayload(s) \/ HandlerFails(s) \/ HandlerIgnores(s)

\* A connection breaks; what is in flight is lost.
Break(s) ==
  /\ sock[s] = "up" /\ breaks < MaxBreaks
  /\ sock' = [sock EXCEPT ![s] = "broken"] /\ breaks' = breaks + 1
  /\ wire' = [wire EXCEPT ![s] = <<>>] /\ input' = input \ {s}
  /\ UNCHANGED <<is_connected, client_socket, connectVars, receiveVars,
                 sendVars, serverVars, overlapped>>
-----------------------------------------------------------------------------
ConnectionNext ==
  \/ Reconnect \/ Connects \/ ConnectFails
  \/ Receiver
  \/ \E t \in Senders : Spawn(t) \/ Sender(t)
  \/ \E s \in Socks : Handler(s) \/ Break(s)

ConnectionSpec == ConnectionInit /\ [][ConnectionNext]_cvars

\* The threads are scheduled (of the senders, and of the server's handlers,
\* some one is), client_main publishes a batch every second, and a server
\* that is tried for ever accepts one of the attempts.
ConnectionFairness ==
  /\ WF_cvars(Reconnect) /\ SF_cvars(Connects)
  /\ WF_cvars(Receiver)
  /\ WF_cvars(\E t \in Senders : Spawn(t) \/ Sender(t))
  /\ WF_cvars(\E s \in Socks : Handler(s))

FairConnectionSpec == ConnectionSpec /\ ConnectionFairness
-----------------------------------------------------------------------------
(***************************************************************************)
(* Properties                                                              *)
(***************************************************************************)

\* While is_connected is set, client_socket is a socket that did connect,
\* whatever failures of older sockets clear the flag at whatever moment: no
\* thread that has seen the flag and reads the member at once gets a socket
\* that was never connected.
ConnectedIsReal ==
  is_connected => client_socket # None /\ sock[client_socket] \in {"up", "broken"}

\* The socket on which a sender has written a message's size is not given
\* to another connection before the payload is written: a payload follows
\* its size on the same connection although the descriptor is a plain copy.
\* It holds because a socket that was connected is never closed.
MidMessageSocketKept ==
  \A t \in Senders :
    spc[t] = "payload" => ssock[t] # None /\ sock[ssock[t]] \in {"up", "broken"}

\* Only while is_connected is clear is client_socket replaced: a working
\* connection is never abandoned by the reconnect thread on its own.
ReplacedOnlyWhenDown == [][client_socket' # client_socket => ~is_connected]_cvars

\* The server's handler of a live connection loses step with the stream of
\* sizes and payloads only if a sender has written a size between another's
\* size and payload: broken connections, sends that fail half way, late
\* threads and descriptors given out again cannot do it.
OutOfStepByOverlapOnly ==
  \A s \in Socks : sock[s] = "up" /\ hpc[s] \in {"garbled", "ended"} => s \in overlapped

\* A client that is not connected, or whose connection is dead without the
\* flag showing it, gets a live connection with the flag set, after a break as
\* before it, as long as socket() has not failed for want of a descriptor: a
\* broken connection is noticed even if the receiver listens to another socket.
Reconnects ==
  ~(is_connected /\ Usable(client_socket))
    ~> (is_connected /\ Usable(client_socket)) \/ client_socket = None

\* A message that has arrived on the current connection is read, unless the
\* connection breaks or is replaced.
InputIsRead ==
  \A s \in Socks : (s \in input /\ s = client_socket)
                     ~> (s \notin input \/ s # client_socket)
=============================================================================
