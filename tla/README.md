# Specifications of the remote monitoring tool

This directory holds TLA+ models of the remote monitoring tool, the TLC
configurations that check them and proofs of some of their properties.

The tool is a server and a number of clients. Once per second a client scans
the processes of its machine, turns every exceeded threshold into a *log*,
keeps the logs in a queue and a file, and sends them to the server until the
server acknowledges them. The server stores the logs of each client IP in a
file. An administrator at the server's terminal can send a client another
configuration (the thresholds).

File names below are relative to the repository's `src/` directory, e.g.
`client/log_queue.cpp`.

Contents

1. Inventory
2. Modules, and how they correspond to the code
3. Runs: what is checked, with which bounds
4. Fairness and deadlock
5. Proofs
6. Findings
7. Not modelled
8. Plan

## 1. Inventory

| Component | State | Operations | Talks to |
|---|---|---|---|
| **LogQueue** `client/log_queue` | deque `log_entries`, `ack_id`, `new_id`; on disk `rmt-log.txt`, `rmt-ack.txt` | constructor (reads both files), destructor (compacts, saves the ack), `add_log`, `get_batch_log`, `ack_log`, `clean_old_logs` | called by ClientLogger and `client_main` in the main thread, by the ack callback in the receiver thread |
| **ClientLogger** `client/client_logger` | `config`, the queue | `generate_log`, `set_config`, ack subscription | ProcessTable (reads), LogQueue, Config |
| **client_main** `client/client.cpp` | the threads | main loop, `recv_config`, sender thread per event | everything on the client |
| **ServerConnector** `client/server_connector`, `common/exponential_backoff` | `is_connected` (atomic), `client_socket` (plain `int`), the backoff's delay | `reconnect_indefinitely`, `try_connect`, `recv_input`, `send_output` | three kinds of threads; the kernel's sockets |
| **Message framing** `common/serializable` | none; the position in a stream is its state | `send_message`, `recv_message` | sockets |
| **ClientHandler** `server/client_handler` | `last_acked_id` and the open stream during a message, `client-log-<IP>.txt` on disk, `count_fail` | `recv_input_from_client`, `handle_recv_log` | one thread per accepted connection; publishes acks |
| **ClientManager** `server/client_manager` | `client_handlers` (never cleaned), next client id | accept loop, `accept_new_client`, input commands, `send_output_to_client` subscription | sockets, ClientHandler, EventBus |
| **Config** `common/config`, `config_entry` | entries of thresholds; the configuration file | `read_config`, `write_config`, unit conversions, a *destructor that writes the file* | ClientLogger, `recv_config` |
| **InputHandler** `common/input_handler` | a thread | reads lines and publishes them | EventBus |
| **EventBus** `common/event_bus` | list of subscribers, which only grows | `subscribe`, `publish` (runs the callbacks in the publishing thread) | everything |
| **ProcessTable** `client/process_table`, `process_listing` | `list_table`, `stat_table`, `last_stat_table`, network usage | `update_table`, `get_map_program_name_resource`, sorting, display | `/proc`; on Windows the list of processes and their counters |
| **Network statistics** `client/network_processing` | Linux: libpcap's handle and queue; Windows: `pid_network_stat_map` and its mutex | Linux: `process_packets` in a scan; Windows: `OnEvent` in the trace thread, `get_pid_network_stat` in a scan | libpcap on Linux, ETW on Windows; called by ProcessTable |
| **LogEntry text and util** `common/log_entry`, `util` | none | text and binary form of a log, `str_to_int`, `get_last_line_of_file` | LogQueue, ClientHandler |
| **Windows registry** `common/registry` | a key below `HKEY_CURRENT_USER` | set and get one value | Config |
| **server_main**, **error**, **network** | none of their own | setup, wrappers of system calls | |

How they interact. On the client, the *main thread* runs
scan → `generate_log` → `add_log` → `get_batch_log` → publish → sleep. Publishing
starts a detached *sender thread* that writes the message on `client_socket`.
The *receiver thread* reads messages and runs the subscribers' callbacks itself
(`ack_log`, `recv_config`). The *reconnect thread* makes connections. On the
server, the *accept thread* makes a `ClientHandler` with a thread of its own
per connection; that thread stores a batch and publishes an ack, for which
`ClientManager` starts a detached thread that looks the client up and sends.
The *input thread* does the same for the administrator's commands.

What is hard here:

- **Interleaving without locks.** There is not one mutex around `LogQueue`,
  `client_socket`, the configuration or the stream of a socket. (The one mutex of
  the program is the one around the Windows map of packets.)
- **Crashes.** Both sides keep state in files, opened with truncation and
  written when a stream is closed; a process may be killed in between, and a
  stream's text may end in the middle of a line, which the next append continues.
- **Retransmission.** A batch is peeked and sent again every second; messages
  of one connection may overtake one another since each has its own thread;
  connections break and the client reconnects while the server still processes
  the old connection.
- **Identities that are used again**: log ids after a restart, file
  descriptors, ports, pids; and a pid whose program changes.
- **C++ object lifetimes with effects on disk**: `LogQueue` and `Config` write
  files in their destructors and are passed by value.
- **Figures put together from several sources**: a packet, the socket it
  belongs to and the processes that have the socket are read at three moments; so
  are the I/O counters of a Windows process and the network events they include.

What makes each component correct:

| Component | Property |
|---|---|
| LogQueue | nothing unacknowledged is lost by a kill; order is kept; ids in the queue are consecutive |
| ClientHandler | up to the first damaged line the file has no hole, and with one connection at a time each id exactly once, in order; it is damaged only by what a failed write or an end of the server cut off |
| LogQueue + ClientHandler | the server's file, up to the first damaged line, is always a prefix of the client's history and grows to all of it; what the client forgets is stored |
| ServerConnector | the flag stands for a real connection; a message is never split over two connections; reconnecting succeeds |
| Framing | the server loses step with the stream only by overlapping senders |
| ClientManager, Config | a command goes to the client that was named, in the order typed; the file keeps up with the configuration and means the same after a restart |
| Config on Windows | what is read back is one configuration that was saved, not a mixture; a restart keeps the thresholds |
| ProcessTable | the tables agree whatever reads fail; usage goes to the right program; no process is missed; the order of a sorted table is one; an alarm is raised exactly for an exceeded sum |
| Network statistics | a packet counts once, is logged once and is charged to its process; the network's bytes never hide disk usage |
| Framing, LogEntry | a batch arrives whole or not at all; a line read back is the one written; the id read from a line that is cut off is never above the one in the line |

`PROJECT.json` lists, under `hazards`, the lines where these can go wrong and
the property that covers each.

## 2. Modules, and how they correspond to the code

```
 LogQueue    ClientHandler   Connection   ProcessTable   NetworkStats
      \          /
      LogDelivery                         ConfigUpdate   RegistryConfig
 (implements ReliableLog)

 pure functions:  Encoding (checked beside LogQueue)   Usage (beside ProcessTable)
```

Each component has an `MC…` module with the values a configuration needs and a
`…Proofs` module with its theorems. `LogDeliveryProofs` has those about
`ClientHandler` too, and extends `LogQueueProofs` as `LogDelivery` extends
`LogQueue`; `DataProofs` has the theorems about `Encoding` and `Usage`.
Variables keep the name of the member they stand for (`log_entries`,
`new_id`, `ack_id`, `is_connected`, `client_socket`, `stat_table`, …).
Variables called *history* in a module exist only in the model. Operators
called `X_Something` right before `X` are deliberately wrong variants of `X`,
each the way a plausible bug would change it: no specification uses them; they
show that a property notices the bug.

### LogQueue

Two threads, two files. A log is `[id, ev]`: `id` is the protocol's number,
`ev` the log's place in the history of everything the client ever generated,
which tells apart two logs that have the same id.

| Actions | Code |
|---|---|
| `OpenAckFile`, `CreateAckFile`, `LoadLine`, `LoadFails`, `LoadDone` | constructor, one step per file operation. An ack file that is empty leaves `ack_id` uninitialised: any value of `Garbage` |
| `CleanStart`, `CleanCopy`, `CleanRename`, `DtorOpenAck`, `DtorWriteAck` | the destructor (with `clean_old_logs`). It runs once at each start, on the by-value parameter of ClientLogger's constructor: `LogQueue` declares a destructor, so it has no move constructor and `std::move` copies |
| `WakeUp`, `NewLog`, `AddToFile`, `AddToQueue`, `EndGenerate` | the main loop and `add_log` |
| `BatchStart`, `BatchCopy`, `BatchThrows`, `Publish` | `get_batch_log` with its unlocked deque; `at()` beyond the end throws and ends the process |
| `AckLog`, `AckPop`, `AckPopEnd`, `AckOpen`, `AckWrite` | `ack_log` in the receiver thread |
| `Crash` | a kill at any moment |

A `std::ofstream` truncates its file when opened and the little that is written
reaches it when it is closed: two steps, and a kill between them leaves an empty
file. `add_log` flushes at once, so a line is one step.
Concurrent `pop_front` and `at` on a deque are undefined behaviour in C++; the
model takes the outcome in which each deque operation is atomic.

`Restarts` says in which situations a kill is considered: `"benign"` (a number
in the ack file and a log above it), `"torn"` (an empty ack file), `"drained"`
(every log acknowledged). They are separate because the code promises
different things in each; see the findings. The history variable `orderly`
remembers that no file failed to open and every start so far was the first or a
benign one: what `NoLogLost` and `QueueContiguous` are conditional on.

### ClientHandler

Any number of handlers share one file, each through its own stream that lives
for one message.

| Actions | Code |
|---|---|
| `RecvLog` | the last line is read, from which `last_acked_id` comes, and the file opened; if that fails there is no answer |
| `AppendLog` | one turn of the loop: `id = last + 1` goes into the stream, everything else is skipped |
| `Spill`, `StreamFails` | some of the stream's text reaches the file, ending anywhere; a write fails |
| `SendAck`, `CloseFile` | the ack is published while the stream is open; the stream is destroyed, which writes the rest or what it can |
| `ServerCrash` (`ServerEnds`) | what the streams have not written is lost |

A stream is bytes. What has reached the file may end within a line: `tail` is the
id that would be read from such a line (by `IdOfTornLine` of *Encoding* any
number up to the line's id; 0 if there is no such line). The handler that has begun the
line may finish it (`begun`). If another one writes first, or the next message's
stream after a failed write or a restart of the server, the text continues that
line, and the file is `damaged`: `12` and `3|na…` make `123|na…`. From there on its
contents are not followed. `file` has the lines before, and what is read as
the last id is any of `Misread`. A stream whose write failed is `bad` and takes
no more; what the library does with the rest of such a stream when it is
destroyed is left open (it gives up, gets further, or writes some of it
twice). `dropped` is history: a line that a stream was given never reached the
file whole. What follows the id in a line is abstracted to the client it comes from.

### LogDelivery and ReliableLog

`LogDelivery` extends both and adds the network: a set of batches in flight
(hence reordering), a set of acks, `Connect`, `Disconnect`, `Lose`. The actions
of the two components are joined where code calls code: `SendBatch` is
`Publish` and a message, `ReceiveBatch` a message and `RecvLog`, `ReplyAck` is
`SendAck` and a message, `ReceiveAck` a message and `AckLog`. An ack to a
connection that has ended (`Ended`) is lost if the kernel still accepts it
(`Lose`), or else `send_message` throws in its detached thread, which ends the
server (`AckThrows`): streams lose what they hold, all connections break, and
somebody starts the server again.
`ReliableLog` is the promise: `stored` is the first *n* of `generated`, and
only grows. What is `stored` are the lines of the file before the first damaged
one. `RL == INSTANCE ReliableLog WITH generated <- gen, stored <- the ev's of the
file's lines` is the refinement mapping, and
`ImplementsReliableLog` is checked as a property.

`Overlap = FALSE` means that a connection is accepted when the previous one's
messages are done with. With overlapping handlers ids may repeat in the
file: that is the subject of the run `ClientHandler_overlap`.
`AckDuringBatch = FALSE` means acks are processed while the main thread sleeps,
which it does nearly all the time; the fine interleaving is the subject of the
`LogQueue` runs.

### Connection

`ServerConnector`, the framing and the server's receiving loop, one action per
shared access: test `is_connected`, copy `client_socket`, send the size, send
the payload, clear the flag. Descriptors are given out lowest first, as POSIX
requires, and only a socket that could not connect is ever closed, as in the
code. A message is two chunks on the wire, `header` and `payload`. A handler
that takes a payload for a size is `"garbled"`: what it does next depends on
bytes, so the model allows all of a failed parse, an ignored message, and the
end of the thread after `max_tries` failures. `overlapped` is history:
connections on which a size was written between another message's size and
payload.

### ProcessTable

The Linux `update_table`: list `/proc`, then for each pid `cmdline`, `stat` and
`io`, while processes start, end, use resources and pids are reused between
any two reads. Reads that fail throw, and leave what was entered so far.
A program that is started is a number, with a new process (`Spawn`) or in one that
is there (`Exec`), which keeps its pid and counters. In `list_table` it stands
for the name, which the code reads once per listed pid, and in `stat_table` (field
`of`) for whose numbers these are. One growing counter
stands for CPU time and for disk bytes, read at two moments; the unreadable
`io` is `NoValue`. Differences are taken modulo `W`, as the code's unsigned
ones.

### ConfigUpdate

From the administrator's line to the client's file. `Command` finds the id,
reads the file and starts a sending thread to *whichever handler has the same
address* (`Lookup`), `SendMessage` sends or, on an ended connection, ends the
server. `ReadConfig`, `StartReceiver` and `Subscribe` are the start of
`client_main`: between the last two the receiver thread runs and `recv_config`
is not yet subscribed, so that a message is read and handled by nobody
(`Ignore`). `RecvConfig`, `Assign`, `Reply` are `recv_config` and `set_config`;
`ReadConfig`, `WriteOpen`, `WriteClose`, `WriteFails` are the `Config` functions, with `writes`
counting the calls still to come (explicit ones and destructors'). A
configuration is one threshold, in file units on disk and multiplied by `U` in
memory, modulo `W`. The file is below the home directory of the client's user
(`UserOf`, `FileOf`); that no two clients have one user is an assumption
(`OneClientPerUser`). A file that cannot be opened for reading counts as absent,
and is then overwritten with the default. `WriteClose` may fail, which the code
does not notice, as `WriteFails` (the file cannot be opened) may. `cut` is history:
clients whose latest opened file was not written in full, because they were killed
or because the write failed.

### RegistryConfig

The Windows half of `Config`. There is no file but a registry key, and
`write_config` deletes it (`BeginWrite`, `DeleteKey` one key at a time,
`EndDelete`, which may leave something and does not look), then writes `count`
and each value of each entry with a call of its own that may fail (`SetValue`).
A configuration is a function from places to numbers: place 0 is `count`, then
`N` values for each entry. `convert_after_read` cuts a product to the size of
its type, `convert_before_write` divides. `saved` is history: the latest
configuration of which every value was written; `was` what a start has
read. The calls with which a start reads may fail, too; then it takes the default
although a configuration is there, and writes it over that (`Start`).

### NetworkStats

How a packet becomes a number in a process's row, in both builds; a behaviour
is one of either. An amount of bytes is the *set* of packets it is made of, so
that "counted twice" and "charged to another" can be said.

| Actions | Code |
|---|---|
| `SetupCapture`, `ReadNetTcp`, `ReadFds`, `ChooseIp`, `ProcessPacket`, `FillTable` | Linux: `setup_network`, and in a scan `parse_net_tcp`, `get_socket_inode_list` and the map of ports, `local_ip`, `process_packets`, the entries of `stat_table` |
| `OpenSocket`, `Inherit`, `CloseSocket`, `Capture` | processes and libpcap, at any moment in between; a socket may be among the files of several processes |
| `Overhear` | a frame that other hosts exchange: the capture is promiscuous |
| `SetupTrace`, `StartTrace`, `Decode`, `OnEvent` | Windows: the trace thread; `Decode` is before the mutex, `OnEvent` under it |
| `ListPids`, `TakeAway`, `ReadProcess`, `TableDone` | Windows: `get_list_pids`, `get_pid_network_stat`, the loop over processes with the subtraction of network bytes from I/O, the erasing of processes not listed |
| `NetIo`, `DiskIo` | what the processes do, which their I/O counters include at once |
| `EndProcess`, `StartProcess` | Windows: a process ends, and its pid is given to another whose counters start anew |
| `GenerateLog` | the table is looked at |

What the code does with a null libpcap handle or an empty list of sockets is
undefined and in practice the end of the client: `pc = "ended"`. An inode of
eight or more digits (`LongInodes`) is parsed from too short a piece of text,
and `Found` returns any other inode in its place. A difference of unsigned
counters is taken modulo `W`, and is a large number if the counters read
last were another process's. `reborn` is history: pids that were given out while
the table, the map of packets or the trace still had something of the process before.

### Encoding and Usage

Pure functions, with the names of the code. `Encoding` has the binary form of a
log (big-endian integers, counted strings and vectors; a `Fail` is an
exception) and its line in a file, with `get_last_line_of_file`. `Usage` has the
comparator, `get_sorted` (the set of what `partial_sort` may return), the sums by
name and which logs `generate_log` makes. They keep no state. Their properties
are about the logs in `logs` and the rows in `table`: `MCLogQueue` and
`MCProcessTable` put an input of these beside each initial state, which the first
step forgets; the theorems are about any.

## 3. Runs

Fairness is only used where the table says so. State counts are of distinct
states.

| Run | Checks | States |
|---|---|---|
| `LogQueue_kills` | `TypeOK`, `EventOrder`, `NoLogLost`, `QueueContiguous`; `BatchesWhole`, `LinesKeepLogs` | 835291 |
| `ClientHandler_overlap` | `NoHole` | 661692 |
| `LogDelivery_safe` | `DeliveryTypeOK`, `StoredInOrder`, `DamagedByLossOnly`, `ImplementsReliableLog` | 2585452 |
| `LogDelivery_live` (fair) | `DoneIsStored`, `ImplementsReliableLog`, `EveryLogArrives` | 138230 |
| `LogDelivery_drained` | `DoneIsStored`: violated | – |
| `Connection_pass` (fair) | `ConnectionTypeOK`, `ConnectedIsReal`, `MidMessageSocketKept`, `OutOfStepByOverlapOnly`, `Reconnects` | 393994 |
| `Connection_input` (fair) | `InputIsRead`: violated | – |
| `ProcessTable_scan` | `ProcessTableTypeOK`, `TablesAgree`, `WrongOnlyAfterReuse`, `NoneMissed`; `ShownAreLargest`, `AlarmsRight` | 803280 |
| `NetworkStats_scan` | `NetworkTypeOK`, `EachPacketOnce`, `NoPacketLoggedTwice`, `ChargedRight`, `DiskNotUnderReported` | 4514203 |
| `ConfigUpdate_deliver` | `ConfigTypeOK`, `FileIsCurrent`, `WrongClientOnlyByReuse`, `SetInOrder`, `FailsOnlyIfCut`, `SurvivesLiveClients` | 1536734 |
| `ConfigUpdate_units` | `FileMeansConfig`: violated | – |
| `RegistryConfig_kills` | `RegistryTypeOK`, `NeverMixed`, `DefaultOnlyIfCut`, `StartKeepsThresholds` | 205547 |

What they show, and why the bounds are enough:

- **`LogQueue_kills`**: 3 logs, batches of 2, compaction above 2 lines, any
  number of kills with any restart, failing opens. Three logs are one more than a
  batch, and one more than the file may hold, so a queue with a first, a middle
  and a last log meets compaction, a partial batch, and acks of none, some and
  all of it in the middle of any of these. In orderly behaviours every
  unacknowledged log is on disk above the ack number and in the queue, and ids
  are consecutive; after torn ack files, drained queues and failing opens ids
  repeat and logs are lost, but what is in the files, the deque and a batch is
  still in the order of generation, without duplicates. (`add_log` ignores a
  file it cannot open, and then a kill loses the log by design.)
  *Encoding*: pairs of logs with ids of one to three digits, which are
  consecutive across 9/10 and 99/100, and names that are empty, have digits,
  separators or carriage returns. With bytes below 4 instead of 256 an id has
  up to four bytes that are not 0, so that a wrong order of bytes shows.
  `BatchesWhole` cuts the message at every byte, `LinesKeepLogs` the file
  at every character of its last line.
- **`ClientHandler_overlap`**: two connections of one client served at once,
  any runs of the ids 1..3, failing opens and writes, kills, and text that reaches
  the file in pieces: what one handler has begun within a line another continues,
  or reads as a smaller id. Two handlers are the smallest number that overlap,
  three ids let one handler be two ahead of the other, and with `MaxLines` 4
  there are more lines than ids. Ids may repeat; up to the first damaged line
  none is written before its predecessor. After it, an id read from the file is 0
  or 2 (`Misread`): below or among the ids in use.
- **`LogDelivery_safe`**: 2 logs, batches of 2, two batches in flight, so that a
  batch {1} and the batch {1, 2} after it overtake each other; two connections, lost
  messages, partial and failing writes, and a server that is killed, or ended by
  an ack to an ended connection, at any moment. The client is not restarted (that
  is the next run's part). Up to the first damaged line the file stays 1, 2, …, every
  step of the system is a step of `ReliableLog` or none, and lines are joined only
  if the server has lost what a stream held (`dropped`).
- **`LogDelivery_live`**: 2 logs and two connections, one batch in flight, client
  kills, and a server that acks to ended connections may end. All logs arrive,
  unless the server has lost lines it had taken; an acknowledged log is in the file or
  in the stream about to be closed, with the same exception; and `ReliableLog` is
  implemented through the client's restarts, too. The server is not killed otherwise:
  see *Acknowledged before written* in section 6.
- **`Connection_pass`**: two sender threads, two descriptors, one broken
  connection, two chunks in flight, `max_tries` 0 (10 in the code: the number of
  failures before the handler's thread ends; 0 makes the end reachable at
  once). Two descriptors allow a reconnect with the old one still in use by a
  thread. `Reconnects` demands that reconnect although it takes the last
  descriptor: its excuse is only that `socket()` itself has failed, which needs the
  second connection to end as well.
- **`ProcessTable_scan`**: two ordinary pids and a kernel thread's, three
  programs that are started, in a new process or in one that is there: a pid is
  reused, reused again or execs while another process lives. A counter of 0..1
  modulo 4 is enough to make a difference negative.
  *Usage*: two or three rows, each value missing, 0 or 1, of one or two
  programs. A comparator relates three rows at most; three are also
  enough for the sum of a name to be more than any of its parts. Thresholds
  0..4 are below, at and above what rows add up to.
- **`NetworkStats_scan`**: on Linux two processes, two ports, one address besides
  `INADDR_ANY`, up to two sockets (the second with a long inode) and two packets, three of
  these together (`MaxBoth`): a port is closed and given to another process, two sockets share
  a port, a socket is inherited, a packet of this host or of others arrives before, during
  and after the reading of the sockets. On Windows one pid
  (`TracedPids`), two packets, a unit of disk I/O, and any number of scans: an
  event can be handed over one scan later than the counters had it, and the process
  ends and its pid is given out again at any moment.
- **`ConfigUpdate_deliver`**: two clients on one host, two ports, two
  connections, two commands, one kill, and one call on a file that fails (an open
  for reading, an open for writing, or a write after the file was truncated). Each
  client has a user of its own. A reused port, two commands waiting
  at the same time, and a kill in the middle of a write are all within it.
- **`RegistryConfig_kills`**: configurations with no, one and two
  entries replace one another, among them one written by hand whose thresholds
  overflow; two configurations received, two kills, two failing calls, at
  any value, written or read. A mixture needs one write over the remains of another, so two
  received configurations and a kill are the least that could make one.
- The violated runs find: see section 6.

Symmetry: pids in `ProcessTable_scan`, clients and ports in `ConfigUpdate_*`, and
ports in `NetworkStats_scan` are interchangeable. These runs check invariants
and, in `ConfigUpdate_deliver`, one action property
(`SurvivesLiveClients`), which names no particular client, port or
connection; no liveness is checked under symmetry. (The clients share one host;
the kernel pid, and the pids of `NetworkStats_scan`, are not permuted.)

## 4. Fairness and deadlock

`ConnectionFairness`: every thread is scheduled (weak fairness), the client
publishes a batch every second (so senders go on being started), and an attempt
to connect that is repeated for ever succeeds some time (strong fairness of
`Connects`). The last one is the assumption that the server is running and
reachable again and again; the code's part is to try for ever. No fairness is
given to breaks or failures. Fairness of the server's handlers is that *some*
handler runs, which is less than the system's scheduler gives.

`LogDelivery`'s `Fairness`: threads are scheduled; a connection that stays up
delivers. The actions that receive a message have strong fairness, since a
thread is ready for a message again and again but not all the time. Kills of
the client come to an end: a client killed before each batch delivers nothing. A
server that an ack to an ended connection has ended is started again, which the
code leaves to somebody else. In the live run
`MaxFlight = 1` lets a client send again only when the server has read or
the network lost the last batch; the one-second pause between batches gives
that.

Deadlock is checked except in the runs where the bounds let the system stop:
`LogDelivery_*` (a kill whose restart would not be of an
admitted kind is not taken, and a client that ended by an exception in such a
situation stays down; all logs delivered), `ConfigUpdate_*` (a client whose
file is torn has failed, the server has ended, or everything waits for an
administrator who has used up the commands), `NetworkStats_scan` (a client
without a capture device or without a socket ends) and `RegistryConfig_kills`
(the last kill or configuration has been used up). `LogQueue_kills` does check
it: whatever state the files are left in, a client starts again.

## 5. Proofs

TLAPS proves, for every value of the constants that satisfies the modules'
assumptions:

| Theorem | States |
|---|---|
| `LogQueueProofs!TypeCorrect` | `Spec => []TypeOK` |
| `LogQueueProofs!EventOrderHolds` | `Spec => []EventOrder` |
| `LogQueueProofs!QueueContiguousHolds` | `Spec => []QueueContiguous` |
| `LogQueueProofs!NoLogLostHolds` | `Spec => []NoLogLost` |
| `LogDeliveryProofs!HandlerTypeCorrect` | `HandlerSpec => []HandlerTypeOK` |
| `LogDeliveryProofs!NoHoleHolds` | `HandlerSpec => []NoHole`, for any number of handlers |
| `LogDeliveryProofs!StoredInOrderHolds` | `HandlerSpec => []StoredInOrder`, if there is one handler |
| `LogDeliveryProofs!DamagedByLossOnlyHolds` | `HandlerSpec => []DamagedByLossOnly`, if there is one handler |
| `LogDeliveryProofs!DeliveryTypeCorrect` | `DeliverySpec => []DeliveryTypeOK` |
| `LogDeliveryProofs!DeliveryNoHole` | `DeliverySpec => []NoHole`, with overlapping handlers |
| `LogDeliveryProofs!DeliveryStoredInOrder` | `DeliverySpec => []StoredInOrder`, if handlers do not overlap (A) |
| `LogDeliveryProofs!DeliveryDamagedByLossOnly` | `DeliverySpec => []DamagedByLossOnly`, with A |
| `LogDeliveryProofs!DeliveryImplementsQueue` | while `orderly` and not `damaged`, each step is one of LogQueue's `Next` or a stutter |
| `LogDeliveryProofs!DeliveryKeepsLogs` | `DeliverySpec => [](damaged \/ (QueueContiguous /\ NoLogLost))` |
| `LogDeliveryProofs!OrderlyDelivery` | `DeliverySpec /\ []orderly => ImplementsReliableLog`, with A |
| `LogDeliveryProofs!DeliveryIsReliable` | `DeliverySpec => ImplementsReliableLog`, with A and B |
| `LogDeliveryProofs!DoneIsStoredHolds` | `DeliverySpec => []DoneIsStored`, with B |
| `ConnectionProofs!ConnectionTypeCorrect` | `ConnectionSpec => []ConnectionTypeOK` |
| `ConnectionProofs!ConnectedIsRealHolds` | `ConnectionSpec => []ConnectedIsReal` |
| `ConnectionProofs!MidMessageSocketKeptHolds` | `ConnectionSpec => []MidMessageSocketKept` |
| `ConnectionProofs!ReplacedOnlyWhenDownHolds` | `ConnectionSpec => ReplacedOnlyWhenDown` |
| `ConnectionProofs!OutOfStepByOverlapOnlyHolds` | `ConnectionSpec => []OutOfStepByOverlapOnly` |
| `ProcessTableProofs!ProcessTypeCorrect` | `ProcessTableSpec => []ProcessTableTypeOK` |
| `ProcessTableProofs!TablesAgreeHolds` | `ProcessTableSpec => []TablesAgree` |
| `ProcessTableProofs!NoneMissedHolds` | `ProcessTableSpec => []NoneMissed` |
| `ProcessTableProofs!WrongOnlyAfterReuseHolds` | `ProcessTableSpec => []WrongOnlyAfterReuse` |
| `DataProofs!ComparatorIsOrder` | `StrictWeakOrder(rows)` of any table |
| `DataProofs!ShownAreTheLargest` | `TopIsLargest(rows, limit)` of any table and any limit |
| `DataProofs!ShownAreLargestHolds` | `ShownAreLargest` if `IsTable(table)` |
| `DataProofs!AlarmExactly` | `AlarmIffExceeded(rows, entry)` of any table and any thresholds |
| `DataProofs!AlarmsRightHolds` | `AlarmsRight` if `IsTable(table)` |
| `DataProofs!BatchesWholeHolds` | `BatchesWhole` if `IsBatch(logs)` |
| `DataProofs!LinesKeepLogsHolds` | `LinesKeepLogs` if `IsBatch(logs)` and `OneLineNames(logs)` |
| `ConfigUpdateProofs!ConfigTypeCorrect` | `ConfigSpec => []ConfigTypeOK` |
| `ConfigUpdateProofs!FileIsCurrentHolds` | `ConfigSpec => []FileIsCurrent` |
| `ConfigUpdateProofs!FailsOnlyIfCutHolds` | `ConfigSpec => []FailsOnlyIfCut` |
| `ConfigUpdateProofs!WrongClientHolds` | `ConfigSpec => []WrongClientOnlyByReuse` |
| `ConfigUpdateProofs!SurvivesLiveClientsHolds` | `ConfigSpec => SurvivesLiveClients` |
| `ConfigUpdateProofs!SetInOrderHolds` | `ConfigSpec => []SetInOrder` |
| `NetworkStatsProofs!NetworkTypeCorrect` | `NetworkSpec => []NetworkTypeOK` |
| `NetworkStatsProofs!EachPacketOnceHolds` | `NetworkSpec => []EachPacketOnce` |
| `NetworkStatsProofs!NoPacketLoggedTwiceHolds` | `NetworkSpec => []NoPacketLoggedTwice` |
| `NetworkStatsProofs!ChargedRightHolds` | `NetworkSpec => []ChargedRight` |
| `NetworkStatsProofs!DiskNotUnderReportedHolds` | `NetworkSpec => []DiskNotUnderReported` |
| `RegistryConfigProofs!RegistryTypeCorrect` | `RegistrySpec => []RegistryTypeOK` |
| `RegistryConfigProofs!RegistryNeverMixed` | `RegistrySpec => []NeverMixed` |
| `RegistryConfigProofs!RegistryDefaultOnlyIfCut` | `RegistrySpec => DefaultOnlyIfCut` |
| `RegistryConfigProofs!RegistryStartKeepsThresholds` | `RegistrySpec => []StartKeepsThresholds` |

Some theorems of the whole system have hypotheses on the constants that say in
which circumstances the code keeps its promise; the runs find the promise broken
without them (`LogDelivery_drained`, `ClientHandler_overlap`) or the code says so:

- A: `~Overlap`. A connection is accepted when the handlers of the previous
  one are done. Otherwise ids may repeat in the server's file.
- B: `~DiskMayFail` and `Restarts \subseteq {"benign"}`. The client's files open,
  and no start finds the ack file torn or the queue drained: `orderly` stays true.

Each is satisfied by the instance of a run: `LogDelivery_safe` and
`LogDelivery_live` have both. What the server does wrong is no hypothesis but is
said in the properties: `damaged`, `dropped`.

The arguments:

- **`EventOrder`** is not inductive: a log is appended to the file before it is
  pushed, the destructor rebuilds one file from the queue, the batch is a copy
  of a deque whose front disappears meanwhile. `OrderInv` adds that everything
  anywhere is no newer than `gen`, strictly older than a log still to be pushed; that what
  the constructor has kept is older than the lines it has not yet read; that
  what `clean_old_logs` has copied is older than what it has yet to copy; and
  that a partial batch precedes the entries it will copy next, which popping
  can only move forward.
- **`QueueContiguous`, `NoLogLost`**: `LossInv` says that while `orderly` a log's
  id is its place in the history, so that each place that keeps logs (the file,
  the deque, the temporary file, what the constructor has read) holds the last
  few numbers up to a known one (`EndsAt`) and all that precede are
  acknowledged (`AckedTo`). `FilesInv`, `LoadInv`, `CleanInv` and `QueueInv` say it of
  the files, the constructor, the destructor and the deque. The kills that are not
  benign are where it ends: `new_id` then starts again.
- **`NoHole`**: `NoHoleInv` says of each handler at work that its buffer
  continues the file without a hole, and that all ids up to its
  `last_acked_id` are in the file, the buffer or not above `Cover`, what it has read
  in a line another has begun. Another handler's append
  extends the file, which preserves this (`AfterExtended`): nobody needs to know
  what the other read. `TailInv` says of an unfinished line that it is the first of
  its handler's buffer, so that finishing it covers the ids taken for stored. A
  handler whose stream has failed counts lines that it has dropped; what it
  leaves unfinished the next line joins, and from `damaged` on the invariant only says
  that the file before stays free of holes.
- **`StoredInOrder`, `DamagedByLossOnly`** with one handler: `InOrderInv` ties
  `last_acked_id` to `Len(file) + Len(buf)`, but for a handler that finds a line cut off
  (`Joins`) or whose stream has failed. With two handlers it is false; `OneHandler`
  is the hypothesis. Then a line is unfinished when a message is read only if
  the one before was not written in full: `dropped`.
- **The whole system.** `Projection` shows that a step of `LogDelivery` is, for
  the client's variables, a step of the queue with any ack whatever (`AnyNext`)
  and, for the server's, a step of the handlers with any batch
  (`AnyHandlerNext`); the lemmas of the two components are about these, so that
  they carry over. `OnlyCurrentBusy` makes of hypothesis A the one handler that
  `InOrderInv` needs. `WireInv` follows logs over the wire: in flight, in a
  handler's hands and in the file too an id is a place in the history
  (`AtPlace`), and none is higher than what was sent; nor is an id read from an
  unfinished line, which is at most the line's. So an ack never exceeds
  what was sent, until lines are joined (`WholeInv`), which is what `LogQueue` assumes
  of its server
  (`DeliveryImplementsQueue`), and the queue keeps its promises
  (`DeliveryKeepsLogs`).
- **`ImplementsReliableLog`**: by `StoredInOrder` the id of a line is its number
  in the file, by `WireInv` its place in the history; so the file is a prefix
  (`StoredIsPrefix`). Each action is then a step of `ReliableLog` or leaves
  its two variables alone. `OrderlyDelivery` is about behaviours that stay
  orderly; B makes all of them so (`AlwaysOrderly`).
- **`DoneIsStored`**: `StoredInv` says it of the acks on their way as well. An ack
  is as high as its handler has got, `NoHoleInv` gives that everything up to there
  is in the file or in a stream (the line that `Cover` speaks of is in that of the
  handler that has begun it), and what is there stays unless the server loses lines
  (`LinesLost`, `InFileStable`): a stream is emptied only into the file (`IdleIsEmpty`).
- **`ConnectionInv`** adds `Attempt`: between the test of `is_connected` and
  the assignment the flag stays clear, because only the reconnect thread
  sets it; and the socket in the making is `client_socket`. That a descriptor
  is never given out under a sender in mid-message rests on
  `"up"` and `"broken"` sockets never becoming `"free"`.
- **`OutOfStepByOverlapOnly`** needs all of a stream at once. `StreamInv`: on a
  connection without overlap, what the handler has begun and what is in flight
  alternate between a size and the payload of the same message (`Stepped`), and
  the last of it is a size exactly if its sender is between the two
  (`InStep`). A descriptor that is not in use has nothing in flight (`Unused`), so
  a new connection starts in step.
- **`ScanInv`**: during a scan `stat_table` and `last_stat_table` have the same
  pids, each of them in `list_table` with a name; a seen pid has a stat; the
  pid in hand is in the tables its step needs. `EraseUnseen` then leaves
  exactly the seen pids in all three.
- **`NoneMissed`** needs `ScanInv` and `MissInv`: a process that has been there
  since the scan began is still alive (`StillThere`), and until the scan has
  come to it, it is in the list of pids yet to be visited or in hand; once
  visited it is seen, since its reads cannot fail (`Awaited`).
- **`WrongOnlyAfterReuse`**: `UseInv` says, of each pid not reused, that, unless it
  has run another program since its name was read (`execed`), the
  three tables speak of one program (`SameProcess`), that the counters of the last
  scan are not above those of this one (`LastNotMore`), nor these above what the
  process has used, also while it is between two reads (`ReadingRight`). A
  difference is then no larger than `MaxUse`, and taking it modulo `W` changes
  nothing.
- **Functions on data** are proved about for every input. The library's induction
  takes an operator, which no installed prover can instantiate, but what it says
  of sets follows from `WFMin` and `NatLessThanWellFounded` (`Induction`,
  `StrongInduction`, `SetInduction`). From these, that a recursive definition has a
  value and which equation it satisfies: of a number, if the argument gets smaller
  (`NumberRecursion`), of a finite set, if elements are picked from it one by one
  (`SetRecursion`), which is how the folds and the sums of the community modules are
  defined.
- **`ShownAreLargest`**: a total without its parts compares as pids do, which is why
  the comparator remains an order. `partial_sort` returns an injection of the rows
  onto themselves, hence (by cardinality) all of them; and of two rows the one that
  is not before the other is not larger.
- **`AlarmsRight`**: a sum over a union of disjoint sets is the sum of the sums
  (`SumUnion`), so that what is used of two columns, added over the rows that have
  a value, is what `generate_log` adds column by column; and of the four kinds each
  contributes a log exactly if it exceeds its threshold (`LogsMade`).
- **`BatchesWhole`**: a number of *n* bytes written and read is the same number
  (`ReadWrittenUint`), one that is cut off is not read (`ReadCutUint`), and so on
  for strings and logs (`ReadCutString`, `DeserializeCut`). What read_vector has
  after *i* items of a message cut at *c* is the first *i* logs and the rest up to
  *c*, if the cut is not before the end of the *i*-th, and otherwise a failure
  that stays one (`FirstOf`, `ReadingIs`).
- **`LinesKeepLogs`**: digits are read as the number they were written for
  (`ValueOfDecimal`), and what is split at the first separator is what was joined
  (`SplitIs`). The last line of a file cut off within a line is a prefix of that
  line, without its `\r`s (`LastLineIs`); as long as the prefix is within the
  digits of the id it is a smaller number, since a digit more only makes a number
  larger (`ValueOfMore`), and from the separator on it is the id (`IdOfCut`).
- **`ProcessTableTypeOK`** rests on lemmas about the three operations of
  `std::unordered_map` (`WithMap`, `TouchMap`, `WithoutMap`) and on differences
  modulo `W` staying below it.
- **`FileIsCurrent`, `FailsOnlyIfCut`**: `ClientInv` says where each client is.
  While calls of `write_config` are due, the configuration passed around is the one
  the client runs with, so that it does not matter which copy's destructor is last;
  when none is due the file has it (`Written`). A file that cannot be
  read is one being written, or one that a kill or a failed write has cut (`Readable`).
  Another client's writes do not matter, since its file is another (`OwnFile`, by
  `OneClientPerUser`).
- **`WrongClientOnlyByReuse`**: two open connections never have the same address
  (`ConnInv`), and a message travels to the address that the typed id has
  (`AddressInv`). Another client can only have that address after the first.
- **`SetInOrder`**: `OrderInv` says of threads about to send, of each wire and of
  each client that a later command follows an earlier one, or was typed while
  another was waiting to be sent (`Follows`, `crowded`).
- **`EachPacketOnce`, `NoPacketLoggedTwice`**: `PlaceInv`: a packet is in the
  queue, in the trace thread's hand, counted or done with, and in one of these
  only, once (`QueuedOnce`, `CountedOnce`, `InOnePlace`); `GoneInv`: what
  a scan reports has been taken; `SeenInv`: what it has put in the table so far was
  not reported before, but for entries it does not renew; `PhaseInv`: what is
  empty when.
- **`ChargedRight`**: `SocketInv` says what the map read from `/proc` can hold when
  sockets and inodes were read at different moments and processes share sockets
  (`MapRight`); `ChargeInv` carries the
  causes `ChargedRight` names to each packet that has been counted.
- **`DiskNotUnderReported`** is about numbers that are counted up in one place and
  subtracted in another, one scan later or more. `ReadInv` says of each direction, and
  of each process whose pid is not `reborn`, that what is shown and what has been subtracted come to no less than
  what was read, where what was subtracted is the number of packets that are done with
  (`Done`); `IoInv` that the I/O counters contain the packets and the disk's
  bytes; `TracedInv` that only packets of that process are subtracted, and that none is
  left of the one that had the pid before. The rest is
  cardinalities of finite sets.
- **`NeverMixed`** speaks of the registry alone and is not inductive. `RInv` adds
  `Settled`: outside the writing of values, all that is there is within the
  `count` that is there, so that deleting any entry makes the rest
  unreadable; and `Prefix`: while values are written, those there are the first
  values of the new configuration, less those that failed, and with one that
  failed the whole is unreadable.
- **`DefaultOnlyIfCut`** and **`StartKeepsThresholds`** come from one invariant,
  `KInv`: outside a write, a configuration once saved can be read unless a write was cut
  (`cut`), so that only a failing read turns it into the default; of the configuration being written each value before `next` is there
  unless one failed (`Written`), and until the server sends another, the
  configuration in memory is `AfterRead` of what the start found. The lemma
  `FitsSurvives` is the arithmetic: a product smaller than the type's size,
  divided by the unit, is the number it was.

`RegistryTypeOK` needs of the registry that the values in it fit their types: a
value divided by its unit does, and one read back is cut to the type.

The only assumptions are the named ones on the constants (`ConstantsAssumption`,
`HandlerAssumption`, `DeliveryAssumption`, `ConnectionAssumption`,
`ProcessTableAssumption`, `ConfigUpdateAssumption`, `NetworkAssumption`,
`RegistryAssumption`, `EncodingAssumption`, and `OneClientPerUser`, that no two
clients have one user's home directory), which TLC evaluates in the runs, A and B
where the table says so, and what an input is:

- `IsTable`: finitely many rows, each number of which is natural or missing.
- `IsBatch`: the numbers of a log, the length of its name and that of the batch
  have the widths they are sent in. In a message a character is a byte.
- `OneLineNames`: no process's name has a newline. It may have separators, carriage
  returns and digits, at any place. (The name is that of the configuration's entry,
  whose JSON can express a newline; the log would then be two lines of the file,
  the second of which does not begin with the id.)

The inputs of the runs satisfy them: they are part of `MCInit`.

Only proved: `ReplacedOnlyWhenDown`, an action property, and `HandlerTypeOK` by
itself (as part of `DeliveryTypeOK` it is checked in `LogDelivery_safe`).

Only model-checked:

- `EveryLogArrives` and `Reconnects`: TLAPS does not handle `ENABLED`, which
  fairness is defined by.
- The violations: a counterexample is what TLC shows.

## 6. Findings

- **Logs after a restart with a drained queue are lost**
  (`LogDelivery_drained`, `client/log_queue.cpp:46`). When every log has been
  acknowledged the constructor keeps none and `new_id` starts at 1, while the
  server's file ends with the old ids. In the trace the file ends with id 1 and the
  client sends a batch with the new ids 1 and 2: 1 is rejected as old, 2 is stored
  as the last id's successor, and the ack of 2, the *new* last id, takes
  both off the queue, though the first is stored nowhere. (An ack of the old last
  id, equal to the client's, pops nothing: `log_queue.cpp:119`.) The README
  of the repository says logs survive crashes and shutdowns.
- **A late failure disconnects the new connection** (`Connection_input`,
  `client/server_connector.cpp:94`). A sender that failed on the old socket
  clears `is_connected` after the reconnect thread set it for a new one. The
  client makes yet another connection, while the receiver stays blocked on the
  one before, which is never closed and never breaks: acks and configurations
  on the newest connection are not read.
- **A received configuration is in the wrong units** (`ConfigUpdate_units`,
  `client/client.cpp:69`). It is used as it was parsed, without
  `convert_after_read`, and divided by the units when saved; the restarted
  client reads other thresholds, mostly 0.

Besides, the models contain behaviours that the properties name as exceptions (of
the first the repository's documents say otherwise, of the others nothing):

- *Acknowledged before written* (`server/client_handler.cpp:111`). The ack is
  published before the stream is closed, while the sequence diagram
  `res/model/c4_sequence_log.puml:32-33,37` has "Process logs, write to disk" before
  "Send 'ack <id>' to client", after which the client moves on to newer logs. A kill of
  the server in between, or a write that fails, loses acknowledged logs, and because
  the server then misses an id that the client has forgotten, it rejects everything
  that follows. Hence the exception `LinesLost` of `DoneIsStored` and `EveryLogArrives`.
- *An ack to an ended connection* ends the server (`server/client_manager.cpp:117`):
  `send_message` throws in a detached thread, where nothing catches it. `AckThrows`
  is that step, in every run of `LogDelivery`; `LinesLost` again names what it costs.
- *A last line that is cut off.* The id read from it is never above the line's
  (`LinesKeepLogs`), but it *is* the line's as soon as its digits are
  complete, so that a log of which hardly more than the id was written counts as stored.
  With fewer digits it is less, and the server waits for logs the client has dropped. The
  next stream's text then continues the line: `1` and `2|…` make `12|…`, an id that is
  ahead of the file. That is `damaged`, which `NoHole`, `StoredInOrder` and
  `ReliableLog` do not look beyond; `DamagedByLossOnly` says that, with one
  connection at a time, it takes a failed write or an end of the server with
  lines in a stream.
- *A failed write of the configuration file* after it was truncated
  (`common/config.cpp:91,103`) is not noticed and leaves a file with which the
  next start ends; *two clients of one user* on a machine share that file
  (`config.cpp:87-91`). The first is in `FailsOnlyIfCut`, the second excluded by
  `OneClientPerUser`.
- *A registry call that fails during a read* (`config.cpp:57-61`,
  `config_entry.cpp:64-95`) replaces the saved configuration by the default
  (`DefaultOnlyIfCut`).
- *A process that execs* keeps the name it was first listed with
  (`process_table.cpp:537`): its usage is charged to that name (`execed` in
  `WrongOnlyAfterReuse`).
- *A socket's inode of eight digits* is not found, or another's is
  (`client/process_table.cpp:412`); *a packet sent from another address* than the
  one chosen counts as received; *shared and reused ports* and *sockets inherited by
  fork* charge another process; *a frame that other hosts exchange* is charged to whoever
  has its destination port, since the capture is promiscuous
  (`network_processing.cpp:233,287`). These are the causes `ChargedRight` names.
- *A Windows pid that is given out again* before a scan has noticed has its
  counters subtracted from another process's and that one's packets taken for its own
  (`process_table.cpp:172`; `reborn` in `DiskNotUnderReported`).
- *A Windows process that can no longer be opened* keeps its last figures and
  raises its alarms every second (`stale` in `NoPacketLoggedTwice`).
- *A failing `RegDeleteTreeW`* is not noticed, and what it has left can make a
  mixture readable (`kept` in `NeverMixed`).
- *Thresholds that overflow* their type are replaced by the small ones they
  became, at the start after (`StartKeepsThresholds`).
- *Rows without a value* of a total are shown in descending order of pids, ties
  between equal single values in ascending order.

## 7. Not modelled

- `display_table`, which only formats, and the parsing of the command line (whose
  check admits port 65536). `str_to_int`, which is only used there and for ids
  typed by the administrator.
- How a frame or an ETW event is decoded: `Decode` and `ProcessPacket` take what it
  yields. Network interfaces other than the one captured.
- The Windows version's CPU and memory figures.
- The text of the JSON file: it parses or it does not.
- What the server's file holds after its first damaged line, and when exactly the
  standard library gives up a stream whose write has failed: both are
  over-approximated (`Misread`, `bad`).
- Two clients of one user on one machine, which share a configuration file, and a
  log queue's files if they are started in one directory.
- `write_vector_string`, `read_vector_string`, `Config::serialize` and
  `ClientManager::send_output_to_client` are never called.
- server_main, error messages and wrappers of sockets: no state.
- The list of subscribers of EventBus, which only grows; a handler's thread that
  runs before its subscription appears as a lost message.
- The data race of `set_config` with `generate_log`'s iteration over the
  entries: undefined behaviour whose worst outcome, the end of the process, is
  `Kill`. `/proc/stat` that cannot be read ends the client, which `Crash` covers.

## 8. Plan

What would add most, in this order:

1. **EventBus and subscriptions**: state: subscribers, published events in
   progress. Property: a batch is handled by exactly one handler and answered
   on its own connection; where it is not, it is sent again.
2. **NetworkStats with ProcessTable**: on Linux, pids that are reused or exec between
   the reading of open files and of statistics, so that a packet's bytes meet another
   process's name.

The runs answer one question each; further questions about a module are to be
added as properties of its existing runs where the instance serves for both.
