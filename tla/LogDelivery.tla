----------------------------- MODULE LogDelivery -----------------------------
(***************************************************************************)
(* A client and the server: LogQueue and ClientHandler joined by TCP       *)
(* connections.  The client sends a batch in a detached thread per message *)
(* (client.cpp), the server an ack in a detached thread per ack            *)
(* (client_manager.cpp), so messages of one connection may overtake each   *)
(* other.  A message that is sent while no connection exists is dropped;   *)
(* the batch is peeked and sent again one second later.                    *)
(*                                                                         *)
(* How the client notices that a connection is gone and makes the next one *)
(* (ServerConnector), and how messages become bytes (SerializableHelper)   *)
(* are not part of this module.                                            *)
(***************************************************************************)
EXTENDS LogQueue, ClientHandler, FiniteSets

CONSTANTS
  MaxConn,    \* bound: connections the client makes in a behaviour
  MaxFlight,  \* bound: batches in flight
  Overlap     \* the server may still be busy with an old connection

ASSUME DeliveryAssumption ==
  /\ MaxConn \in Nat /\ Handlers = 1 .. MaxConn /\ 0 .. MaxLogs \subseteq Events
  /\ MaxFlight \in Nat \ {0} /\ Overlap \in BOOLEAN

VARIABLES
  conn,       \* the number of connections made; the last one is the current
  connected,  \* whether the current one is usable
  up,         \* batches sent and not yet received, as <<connection, logs>>
  down        \* acks given to a sending thread and not yet received, as
              \* <<connection, id>>

net  == <<conn, connected, up, down>>
dvars == <<vars, hvars, net>>

DeliveryTypeOK ==
  /\ TypeOK /\ HandlerTypeOK
  /\ conn \in 0 .. MaxConn /\ connected \in BOOLEAN
  /\ \A m \in up : m[1] \in Handlers /\ m[2] \in Seq(Log)
  /\ down \subseteq Handlers \X Nat

DeliveryInit ==
  /\ Init /\ HandlerInit
  /\ conn = 0 /\ connected = FALSE /\ up = {} /\ down = {}
-----------------------------------------------------------------------------
Busy(h) == hpc[h] # "recv" \/ \E m \in up : m[1] = h

\* try_connect succeeds and accept_new_client creates the next handler.
Connect ==
  /\ ~connected /\ mpc # "down" /\ conn < MaxConn
  /\ Overlap \/ \A h \in 1 .. conn : ~Busy(h)
  /\ conn' = conn + 1 /\ connected' = TRUE
  /\ UNCHANGED <<vars, hvars, up, down>>

\* The connection breaks.  What the server has received it may still
\* process; acks are not read any more.
Disconnect ==
  /\ connected /\ conn < MaxConn
  /\ connected' = FALSE
  /\ UNCHANGED <<vars, hvars, conn, up, down>>

\* Whether a message belongs to a connection that is no more.
Ended(m) == m[1] < conn \/ ~connected

\* A message in flight on an ended connection is lost: a batch, or an ack that
\* the server's kernel still accepted.
Lose ==
  /\ \/ (\E m \in up : Ended(m) /\ up' = up \ {m}) /\ UNCHANGED down
     \/ (\E m \in down : Ended(m) /\ down' = down \ {m}) /\ UNCHANGED up
  /\ UNCHANGED <<vars, hvars, conn, connected>>

\* send_output: the batch is sent, or dropped when there is no connection.
SendBatch ==
  /\ Publish
  /\ \/ connected /\ Cardinality(up) < MaxFlight /\ up' = up \cup {<<conn, batch>>}
     \/ ~connected /\ UNCHANGED up
  /\ UNCHANGED <<hvars, conn, connected, down>>

\* A handler reads a message of its connection.
ReceiveBatch(h) ==
  /\ h <= conn
  /\ \E m \in up : m[1] = h /\ RecvLog(h, m[2]) /\ up' = up \ {m}
  /\ UNCHANGED <<vars, conn, connected, down>>

\* Mutation: the server acks the id it expects next, as TCP does.
ReplyAck_Next(h) ==
  /\ SendAck(h)
  /\ down' = down \cup {<<h, last[h] + 1>>}
  /\ UNCHANGED <<vars, conn, connected, up>>

\* ClientManager looks the socket up by ip and port and starts a thread that
\* sends the ack.
ReplyAck(h) ==
  /\ SendAck(h)
  /\ down' = down \cup {<<h, last[h]>>}
  /\ UNCHANGED <<vars, conn, connected, up>>

\* Sending an ack on an ended connection throws in its thread, which ends the
\* server; it is started again.  (A last connection is not wasted on that.)
AckThrows ==
  /\ conn < MaxConn /\ \E m \in down : Ended(m)
  /\ ServerEnds
  /\ connected' = FALSE /\ up' = {} /\ down' = {}
  /\ UNCHANGED <<vars, conn>>

\* The rest of a handler's work.
HandleLog(h) ==
  /\ AppendLog(h) \/ Spill(h) \/ StreamFails(h) \/ CloseFile(h)
  /\ UNCHANGED <<vars, net>>

\* The receiver thread reads an ack and calls ack_log.
ReceiveAck ==
  /\ connected
  /\ \E m \in down : m[1] = conn /\ AckLog(m[2]) /\ down' = down \ {m}
  /\ UNCHANGED <<hvars, conn, connected, up>>

\* The client's own steps.
ClientMain     == (Start \/ Work) /\ UNCHANGED <<hvars, net>>
ClientReceiver == Receive /\ UNCHANGED <<hvars, net>>

\* The client's process ends, by a kill or by an exception, and takes the
\* connection with it.  (A last connection is not wasted on a kill.)
ClientDies ==
  /\ Die /\ (conn < MaxConn \/ AckDuringBatch)
  /\ connected' = FALSE
  /\ UNCHANGED <<hvars, conn, up, down>>

\* The server is killed and started again; all connections break.
ServerRestart ==
  /\ ServerCrash /\ conn < MaxConn
  /\ connected' = FALSE /\ up' = {} /\ down' = {}
  /\ UNCHANGED <<vars, conn>>

Server == \E h \in Handlers : ReceiveBatch(h) \/ ReplyAck(h) \/ HandleLog(h)

DeliveryNext ==
  \/ ClientMain \/ ClientReceiver \/ SendBatch \/ ReceiveAck \/ ClientDies
  \/ Server \/ AckThrows \/ ServerRestart
  \/ Connect \/ Disconnect \/ Lose

DeliverySpec == DeliveryInit /\ [][DeliveryNext]_dvars

(***************************************************************************)
(* Fairness.  Every thread is scheduled; TCP delivers what is sent on a    *)
(* connection that stays up; the reconnect thread tries for ever.  The     *)
(* receiver may be served only while the main thread sleeps                *)
(* (AckDuringBatch = FALSE) and a handler reads a message only when it is  *)
(* done with the previous one: these steps need strong fairness.  A client *)
(* that is killed again and again before it can connect delivers nothing:  *)
(* the kills come to an end.                                               *)
(***************************************************************************)
Fairness ==
  /\ WF_dvars(ClientMain \/ SendBatch)
  /\ SF_dvars(ClientReceiver)
  /\ SF_dvars(ReceiveAck)
  /\ WF_dvars(Connect)
  /\ \A h \in Handlers : /\ SF_dvars(ReceiveBatch(h))
                         /\ WF_dvars(ReplyAck(h) \/ HandleLog(h))
  /\ <>[][~ClientDies]_dvars

FairDeliverySpec == DeliverySpec /\ Fairness
-----------------------------------------------------------------------------
(***************************************************************************)
(* Properties                                                              *)
(***************************************************************************)

\* The server's file, up to the first damaged line, is the client's history so
\* far, in order and without repetition: see ReliableLog.  It takes the ids of
\* LogQueue, the rule "id = last + 1" of handle_recv_log and the retransmission
\* together.
RL == INSTANCE ReliableLog WITH
        generated <- gen, stored <- [i \in DOMAIN file |-> file[i].ev]
ImplementsReliableLog == RL!RLSpec

Stored(e) == \E i \in DOMAIN file : file[i].ev = e
Buffered(e) == \E h \in Handlers : \E i \in DOMAIN buf[h] : buf[h][i].ev = e

\* The server has ended, or failed to write, with acked or unacked lines in a
\* stream, or lines were joined.
LinesLost == dropped \/ damaged

\* A log that an ack has removed from the client's queue is in the server's
\* file, or in the stream about to be closed, unless the server has lost lines
\* that it had taken: acks may arrive late, from an old connection, or be
\* deduced from a line that is not finished.
DoneIsStored == LinesLost \/ \A e \in done : Stored(e) \/ Buffered(e)

\* Every log the client has generated is eventually in the server's file, also
\* if an ack to an ended connection ends the server, unless that loses lines it
\* had taken.
EveryLogArrives == \A e \in 1 .. MaxLogs : (gen >= e) ~> (Stored(e) \/ LinesLost)
=============================================================================
