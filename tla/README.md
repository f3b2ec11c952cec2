# TLA+ models of the FIFO file server

This directory holds TLA+ models of the client/server file store in this
repository, the TLC runs that check them on small instances and the proofs that
TLAPS checks. The models follow the default build, the one over named FIFOs.
`PROJECT.json` maps each definition to the lines it models.

## 1. The system

| component | state it keeps | operations | sources |
|---|---|---|---|
| client shell | connection, `logged`, one listener thread per outstanding get | `open`, `close`, `login`, `logout`, `sendi/s/d`, `get`, `post`, `new-user`, `change-pass` | `client/` |
| FIFO connection | FIFOs `$SRV.in`, `$CLI.$SRV`, `$SRV.$CLI`, their descriptors, `state` | `connection_open`, `connection_close`, `comm_listen`, `comm_accept` | `lib/communication/fifo` |
| FIFO transport | bytes in flight, the listeners' mutex | `comm_send_data`, `comm_send_data_async`, `comm_receive_data` | `lib/communication/fifo` |
| master | the connection being accepted | accept loop, `fork` | `server/main.c` |
| worker | `current_thread`, `num_threads`, `threads[]`, the lock, `user` | receive loop, `server_responder`, the handlers | `server/main.c`, `server/responder.c` |
| database process | a query buffer, the database | read a query, execute, answer | `lib/sqlite/sqlite.c` |
| storage | users, aliases, files | check, insert, update | `server/sql_helpers.c`, `responder.c` |
| monitor | a status slot in shared memory, a named semaphore | `post_status`, the display | `monitor/`, `server/monitor_helper.c` |
| logging (built on request) | a message queue of ten entries, `server.log` | `log_mq`, the logging service | `logging/`, `server/logging_helpers.c` |
| socket transport (alternative build) | a socket | the same send and receive loops | `lib/communication/socket` |

How they interact. A client writes its url into the server's FIFO; master and
client then open a pair of FIFOs named after both and validate each other with
echoes. The master forks a worker, which inherits all descriptors. The client
sends requests through its request FIFO; the worker starts a thread for each
and the threads answer, under one lock, into the response FIFO. A synchronous
command reads its answer in the main thread, a `get` in a listener thread.
Handlers ask the database process through one pair of pipes that all workers
share. Every thread posts its status into shared memory for the monitor, and in
the logging build sends its messages to a queue that a service of its own empties.

What is hard here: several readers and several writers on one FIFO without message
numbers; byte-by-byte writes; a worker that ends while its threads run; blocking opens on
both sides of a handshake; FIFOs that are removed by name by two processes; queries of
several processes in one pipe; processes that end at any moment, also while they hold a
semaphore that outlives them; checks and inserts in separate queries; boundaries that are
not looked for in the text. `hazards` in `PROJECT.json` lists the
places that count most.

What makes each part correct:

- session: client and worker agree on who is logged in; an answer belongs to
  its command; frames are whole; every command returns; the thread array is
  not overrun; accepted requests are answered before the worker ends.
- handshake: an open connection is used by its client and one worker only; the
  master survives any client; `open` returns.
- database pipes: a query is executed once, whole, and its caller gets its
  answer.
- storage: a registered user has a folder and can log in; a row has its file and
  a file its row; what was acknowledged is found again.
- monitor: the slot holds one whole message, the display catches up, no process
  waits for ever for the semaphore.
- transport: messages arrive once, whole and in order, whatever bytes they hold.
- logging: what the queue has taken is written once, in order, and logging never
  stops the server.

## 2. Modules

| module | what it models |
|---|---|
| `Session` | one client and its worker from the open connection on |
| `MCSession` | sets of commands for TLC |
| `SessionProofs` | theorems about `Session`: types, the thread array, the two locks and the frames |
| `SessionSyncProofs` | theorems about `Session` without gets: answers and agreement |
| `Handshake` | opening and closing connections, master and worker processes, the FIFOs' paths and pipes |
| `MCHandshake` | the names clients run under |
| `HandshakeProofs` | theorems about `Handshake` |
| `SqlService` | abstract: a database call is asked, executed once and returned |
| `SqlPipe` | detailed: the database process, its two pipes and the workers |
| `MCSqlPipe` | sets of workers and query lengths |
| `SqlPipeProofs` | theorems about `SqlPipe`, the refinement among them |
| `Storage` | users, aliases, folders and files, as the handlers of several workers change them |
| `MCStorage` | names, one of which is a prefix of another |
| `StorageProofs` | theorems about `Storage` |
| `Monitor` | the status slot, its semaphore and the monitor |
| `MCMonitor` | a thread of the master and a responder |
| `MonitorProofs` | theorems about `Monitor` |
| `Channel` | abstract: messages arrive once, whole, in order |
| `Framing` | detailed: boundaries, bytes, buffers, files as digits |
| `MCFraming` | texts and files at the limits |
| `FramingProofs` | theorems about `Framing`, the refinement among them |
| `Logging`, `MCLogging` | the message queue and the logging services |
| `LoggingProofs` | theorems about `Logging` |

`Session` takes the transport as whole pieces of frames and the database as a choice
of answers; `Framing` and `SqlPipe` show under which conditions that is what the
levels below deliver. `Storage` takes a query as atomic, which is `SqlService`.

### Session

The n-th request sent is the n-th received and gets thread slot n, because the
request FIFO has one writer and one reader. A request is therefore its command
word, and a reply a frame of three pieces (boundary, text, boundary), the three
calls of `write_one_by_one_without_zero` in `comm_send_data`. Pieces of two
writers may mix; two readers may share out the pieces of a frame. A reader keeps
what it reads until the boundary it began with comes again; if what it has does
not start with an object, `parse_encoded` faults.

`cpc`, `rpc`, `got`, `clock` and `logged` are the client (main thread, readers,
what each has read, the listeners' mutex, the flag); `wpc`, `wstate`, `out`,
`current_thread` and `num_threads` the worker's main thread; `tpc`, `tcmd`,
`reply`, `lock` and `user` the responders. `answer` is a history variable: whose
frame was shown as the answer to request n. `out` is the worker's descriptor of
the response FIFO, which `connection_close` sets to 0 while threads may still
write.

What the database and the disk answer is a choice among the replies that the
handler has, because other workers change them at any time. Undefined behaviour
is a choice: a read at end of file runs over its buffer and faults or yields an
empty frame (and so does a request longer than the buffer: `comm_receive_data_overruns`);
the store behind the decoded file faults or does not (`process_post_cmd_faults`).
`parse_encoded` copies a text without its terminator, so the byte behind it is or is
not 0: if not, the client does not recognise "Login failed" and believes it is logged
in. `misread` is history: it says that this has happened, until the client logs out.
`ThreadCreateMayFail` lets `pthread_create` fail.

### Handshake

A FIFO is a path (`fs`) and a pipe (`rd`, `wr`, `data`). `open` blocks until somebody
opens the other end and wakes whoever is blocked there; an unlinked pipe lives on; a pipe
nobody has open loses its data; a write without a reader ends the process. Each system
call of `connection_open`, `comm_accept` and `connection_close` that other processes can
observe is a step. The text of a url is one token and its terminator another. When two
clients write at once the texts run together; `address_from_url` ends the host at the
first colon, and a url is `fifo://name:3000`, so the `Host` is the first client's. The
master makes that client's request FIFO and echoes the whole text (`Text`, which is
nobody's name then); the client refuses the echo and ends, and the master blocks opening
the request FIFO or dies of SIGPIPE before all of the echo is written (`WriteRest`). The
code writes a text byte by byte, so bytes of two texts may mix further; then the host may
also be no client's or no address at all, which `CreateRequest` has as an end of the
master. A forked worker has the ends of its connection, which the master never closes and
never uses again: `Forked` stands for the workers as holders of accepted connections, and
an end stays `Forked`'s when the master ends. `kept` counts the descriptors that the
master so accumulates; when they and the one it asks for are more than `MaxFiles`, `open`
fails and the accept loop ends. `ForkMayFail` lets `fork` fail after the acknowledgement
was read, which aborts the master. `Orderly` states when users open connections: one at a
time, when the server is done with the one before and with its worker of that name.

### SqlPipe and SqlService

Queries are sequences of bytes of which only owner, position, "is it a semicolon" and "is
it the last" matter. The last byte is a semicolon; any other may be one, because names,
passwords, aliases and homes go into the query as the client wrote them. The database
process collects bytes up to a semicolon or the limit of its loop (101 in the code,
`Limit` here), executes and writes rows and end mark. `outcome` is a history variable:
what executing a whole query gave. `disturbed` is one too: it becomes "yes" when two
workers ask at the same time, when a worker ends during its query, when a query is longer
than the limit and when it has a semicolon before its end, for then the server executes it
in pieces and answers each. `SqlService` is the promise `run_sqlite_query` makes to
callers that take turns; `ImplementsService` states that `SqlPipe` implements it,
`disturbed` being the service's `broken`.

The mutex in `run_sqlite_query` belongs to each process and is released before the
answer is read. So nothing makes two workers take turns: bytes of their queries mix
and each reads whatever answer comes first. That is outside `ImplementsService`,
which is why `disturbed` is there.

### Storage

`users` and `files` are the tables in order of insertion, `dirs` and `disk` the
folders and files. A handler is a sequence of steps, one per query and one per
system call that others can see: `NewUserCheck`, `create_user_folder`,
`new_user_in_db`; `PostCheck`, `insert_alias_in_db`, `OpenFile`,
`file_from_raw_data`; `GetCheck`, `GetFile`. Within a worker the responders' lock
admits one handler at a time, so a worker has one `pc`. `run_sqlite_query` gives
its caller the first row (`Lowest`). `Extends` says whose home begins with whose,
because files are looked up by `LIKE 'home%'`. A worker may end at each step; a
`get` whose file is missing hands `NULL` to `encode_raw_data` and ends it. An INSERT
may fail, or be cut at the limit of the database process, and no handler looks at the
result: `insert_alias_in_db` and `new_user_in_db` go on either way.

The history variables name the exceptions: `raced` holds the keys two handlers had checked
before either had inserted, `torn` the files a worker left half posted, `homeless` the
users whose folder could not be made, `unlisted` the paths whose INSERT failed, `acked`
what clients were told "File OK" about. `MaxFaults` bounds these faults together.

### Monitor

`post_status` is a wait, three assignments and a post; the monitor resets, polls and
copies the same fields one by one without the semaphore. A process may end between any
two steps; the semaphore then stays taken (`orphan`), and because it lives on under
its name a restarted server inherits it, unless a handler of SIGINT has unlinked
the name. A monitor interrupted by Ctrl-C unlinks the name as well, after which the
server and the next monitor use different semaphores; as the monitor never waits
for it, nothing changes. `blurred` and `clean` are history: whether two wrote the slot
at once, and whether a post overlapped the present copy. The memory model is that of
the aligned ints: each assignment is atomic.

### Framing and Channel

A byte is its code. Boundaries are `-`, a digit and `__`; the receiver finds the end of
the first one at its first underscore and takes one more byte, then reads until what
it has ends with the same bytes. `spoiled` is history, the first reason why nothing is
promised any more: the boundary occurs in a text (`clash`), the frame fills or exceeds
the buffer (`long`), the sender ended in the middle of a frame (`cut`), or the store
behind its memory at the end of `decode_to_raw_data` was fatal (`fault`). `wire` and
`ends` are history too: every byte given to the transport so far, and where each frame
ends in it. Undefined behaviour is a choice: `strcmp` on a full buffer, or with a full
boundary, finds the end of the frame or does not; a value of kind "data" (a reply) is
copied without its terminator and has whatever lies behind it (`Leftovers`) at its end.
`Arrivals`, the refinement's reading of `received`, takes such a value for the message
that was sent if it begins with it. At end of file the loops run over
their buffers (`overrun`), and so they do when the first underscore is the last byte
that `boundary` has room for. The loops are the same in the FIFO
and the socket transport and in `data_listener`.

### Logging

Each start of the server forks one more service. A service ends only on `MSGEND`,
which no message can begin with, so services accumulate when only the server is
killed, share the queue, and the newest has emptied the file. `init_mq` does not wait
for the service; if the queue is not there after a second of sleep the server
exits. `rival`, `unserved`, `accepted` and `lost` are history.

## 3. Runs

Passing runs:

| run | checks | bounds |
|---|---|---|
| `session_sync` | `SessionAgrees`, `OwnAnswer`, `ExitAfterReplies`, `FramesWhole`, `CommandReturns`, `WorkerFollows` | 4 requests, array of 2 that grows to 4, so that it grows once and a request is refused |
| `session_all` | `TypeOK`, `SlotInArray`, `FramesWholeUnlessRefused` | 3 requests of every kind, gets outstanding |
| `session_gets` | `ListenersTakeWholeFrames`, `GetReturns` | a login and three gets at once |
| `sql_pipes` | `TypeOK`, `InStep`, `ImplementsService`, `QueryReturns` | two workers, two queries together, a limit of 2 and queries of 1 to 3 bytes, each of which may be a semicolon, deaths |
| `handshake_all` | `TypeOK`, `Paired` | three clients, two of one name; a client and the master may be killed, fork may fail, five descriptors |
| `handshake_orderly` | `MasterStaysUp`, `OpenReturns` | two clients, each started twice; six descriptors, so that the fourth connection is one too many |
| `storage_all` | `TypeOK`, `FilesHaveRows`, `RowsHaveFiles`, `AckedStored`, `OwnFirst`, `LoginReaches` | two workers, two users of whom one's home is a prefix of the other's, three rows in each table, two faults |
| `monitor_all` | `TypeOK`, `SlotWhole`, `CopyWhole`, `PostReturns`, `CatchesUp` | two threads of two processes, two posts, two starts |
| `framing_all` | `TypeOK`, `InStep`, `InBuffer`, `Delivered`, `ImplementsChannel` | two messages out of nine texts, three replies and five files, a byte that may follow a reply, two numbers for the boundary, a pipe of three bytes, a buffer of 14, room for a boundary of 5 |
| `logging_all` | `TypeOK`, `OnePlace`, `LogInOrder`, `SendReturns`, `Logged` | two threads, four messages, a queue of two, two starts |

Runs that show where the code departs from what the report or a comment says:

| run | property | what happens |
|---|---|---|
| `session_mixed_answers` | `OwnAnswer` | a command typed while a get is outstanding takes the get's reply |
| `handshake_reconnect` | `MasterStaysUp` | a worker that closes late removes its returned client's FIFOs, the master aborts |

Reading the properties:

- `SessionAgrees` needs the lock: the replies to a failed login and to a logout
  are written before `user` is reset. It states the disagreement there is: a client that
  took "Login failed" for another text (`misread`) believes it is logged in.
- `FramesWholeUnlessRefused`: the refusal ("Server maxed capacity") is the one
  reply written without the lock.
- `CommandReturns` excepts three endings by name: a refusal, after which the worker exits
  while the master keeps the FIFO's write end; a thread that could not be created; and a
  worker that was ended by a fault, of a posted file or of a request beyond its buffer. The
  client then waits for ever. Inside a responder the calls return here; where they may not,
  at an orphaned semaphore and at a full log queue, is `PostReturns` and `SendReturns`.
- `GetReturns` is about a session with room and threads for each request: it has neither a
  refusal nor a thread that cannot be created.
- `Paired` rests on `mkfifo` failing for an existing path. It covers three clients
  started once, of whom two share a name. Beyond that a shared name defeats it: with
  three clients of one name, or two of them that are restarted, the late unlink of a
  worker (see `handshake_reconnect`) takes away the response FIFO of a new client,
  and the next two of the name share one. A connection whose acknowledgement was read has a
  worker, or a request FIFO without a reader, because the master ended before the fork.
- `MasterStaysUp` says that the accept loop ends only when fewer than two descriptors are
  left for the next connection. That it does end then, after some five hundred
  connections, is what the code does: it closes neither descriptor of a connection it has
  forked.
- `OpenReturns` and `MasterStaysUp` need `Orderly`; without it `handshake_reconnect`
  refutes the second, and two clients that write into the server's FIFO together the
  first: one url is mixed with the other, after which the master may wait for ever for a
  client that has refused its echo, or is lost with the pipe.
- `WorkerFollows`: after a close the worker is back in its blocking read before the
  responder has set the state. It ends because its client has ended and the read
  runs over the buffer at end of file, not because of the close.
- `InStep` of `SqlPipe` holds up to a query length of `Limit`; one byte more and the
  database process answers twice, although `MAX_QUERY_LENGTH` is 1024. So it does when a
  text in the query holds a semicolon. What follows is not promised to anybody, except that
  each query returns (`QueryReturns`).
- `FilesHaveRows` and `AckedStored` except the paths whose own INSERT failed: their files are
  written and acknowledged without a row.
- `AckedStored` and `OwnFirst` say what a second post of a name can do: without a race a
  file that was acknowledged has its row and is whole, and a user who has a file finds his
  own, although the lookup matches the homes of longer names too: a post is refused when
  such a file is there already. `LoginReaches`: a user's row is the one a login finds,
  unless two administrators registered the name at once.
- `PostReturns` excuses only a semaphore whose holder has ended. That is a real state:
  `exit(0)` of a worker does not wait for its responders.
- `CatchesUp` is about the last post. Earlier ones can be overwritten before the
  monitor looks; the slot has no acknowledgement.
- `ImplementsChannel` holds with texts that contain an incomplete boundary or
  the boundary of another frame, and with every file: only a text can clash.
- `InBuffer` and `TypeOK` of `Framing`: a text with its boundary in it brings the receiver
  out of step; it then takes what comes for a boundary, up to the next underscore, and two
  texts of `MCFraming` fill its array that way.
- `LogInOrder` compares places: of two messages in the log, with the service or in the
  queue, the one ahead was accepted first, and none is missing that is not lost. With two
  services the order is lost: each takes a message and they append in either order.
- `SendReturns` excuses only a service that was killed or not started: then the
  eleventh message blocks its thread for good.

The bounds are enough for what they are for: an array of 2 with a maximum of 4 grows,
fills up and is refused within three requests; three overlapping gets give every order of
responders and of listeners; a limit of 2 has queries below, at and beyond it; three
clients give a pair with one name and an outsider; two starts give one reconnection. With
five descriptors the master runs out opening the third connection's request FIFO, with six
at its next `accept`. Two workers are enough for a race between a check and an insert, and
a third row shows what later handlers find; two threads, a reset and a copy are all the
actors the slot has; the texts of `MCFraming` are the shapes a boundary can meet (none, a
part, the whole, another's, a full buffer, a full array for the boundary); a queue of two
is full with a message outside. Deadlock checking is off throughout: a user may stop
typing and a process may end.

Each property of a passing run has a mutant in `PROJECT.json`: an operator, defined
next to the one it replaces and marked "Mutant", that a plausible slip in the code
would give. TLC finds the property violated with it.

Fairness. Every thread that can run is scheduled by the kernel: weak fairness of
the client's main thread, each listener, the worker's main thread, each responder,
the database process, a client inside `connection_open`, the master, a thread inside
`post_status` or `log_mq`, the monitor, each logging service, a sender inside
`comm_send_data` and its receiver. The mutexes and
the semaphore need no strong fairness in the instances: each is requested finitely often. Users
owe nobody a command, and nothing is assumed of a worker's `connection_close` or of
deaths.

## 4. Proofs

Each theorem is proved for every value of the constants that the module's `ASSUME`
admits: any number of workers, threads, services or requests, any names, lengths and
bounds. Those assumptions are of the kind `MinThreads > 0`, which the code needs to
start at all. Every theorem rests on an inductive invariant: one lemma for `Init`, one
per process or group of actions with one step for each action, and one that says what
the invariant implies.

| theorem | states | inductive because of |
|---|---|---|
| `SessionProofs!TypeCorrect`, `SlotSafety` | `TypeOK`, `SlotInArray` | `SlotInv`: in the loop the array has a slot left and is at most `Capacity` long; a refused request still has a number that exists |
| `OneHandler` | one responder between lock and unlock | `LockInv`: the lock names the responder that is inside |
| `RepliesStayWhole` | `FramesWholeUnlessRefused` | `RespInv`: what may come behind each piece, and that the responder inside goes on where the last piece left off |
| `GetsTakeWholeFrames` | `ListenersTakeWholeFrames` | `ReaderInv`, `GotInv`: one reader at a time, who holds the beginning of the frame that the FIFO goes on with |
| `SessionSyncProofs!SyncFramesWhole`, `SyncOwnAnswer`, `SyncExitAfterReplies` | `FramesWhole`, `OwnAnswer`, `ExitAfterReplies` | `SyncInv`, below |
| `SyncSessionAgrees` | `SessionAgrees` | `AgreeInv`: client and worker agree when a request is handed over, and the worker's user *as it will be when the handler is done* agrees with what the reply will make the client believe, or the client misreads a refusal |
| `HandshakeProofs!TypeCorrect` | `TypeOK` | `TypeInv`: each start of a client accounts for the two FIFOs it leads to, below |
| `ConnectionsArePaired` | `Paired`, for clients with names of their own, and for pairs of one name that are started once | `PairInv`: a pipe has one path, one role and one client; `ShareInv`: of two clients of one name one connects at a time; `ReaderInv`: nobody but the master reads the request FIFO it has open |
| `MasterServes` | `MasterStaysUp`, for users who open connections one at a time under names of their own, with nobody killed and a fork that does not fail | `UpInv`, the steps at which a client and the master can be together, until the master is `Full` |
| `SqlPipeProofs!TypeCorrect`, `StaysInStep` | `TypeOK`, `InStep` | `TurnInv`, below |
| `PipesImplementService` | `ImplementsService` | the same; each step is a step of `SqlService` or a stutter |
| `StorageProofs!TypeCorrect`, `FilesAreListed`, `RowsAreExplained`, `AckedStaysStored`, `OwnFileFirst`, `LoginIsUnique` | `TypeOK`, `FilesHaveRows`, `RowsHaveFiles`, `AckedStored`, `OwnFirst`, `LoginReaches` | what a handler at each `pc` has checked or done is still so, unless it raced |
| `MonitorProofs!TypeCorrect`, `OnePoster`, `SlotIsWhole`, `CopyIsWhole` | `TypeOK`, one thread inside the semaphore, `SlotWhole`, `CopyWhole` | the holder is who is inside; field by field, what has been written or copied so far |
| `FramingProofs!TypeCorrect` | `TypeOK` | `TypeInv`: what each loop of the receiver has read when it goes round, and room for one more byte |
| `StaysInStep`, `StaysInBuffer` | `InStep`, `InBuffer` | `FramingInv`, below |
| `FramesAreAChannel` | `ImplementsChannel` | the same; each step is a step of `Channel` or a stutter |
| `FilesSurvive` | a file decoded is the file encoded | no invariant: arithmetic of three digits |
| `LoggingProofs!TypeCorrect`, `MessagesInOnePlace` | `TypeOK`, `OnePlace` | messages about to be sent are new, and services not yet started hold none |
| `LogKeepsOrder` | `LogInOrder` | `OrderInv`: one service is alive, and log, service and queue were accepted in that order |

The arguments, where they are more than a few lines:

- *Session without gets* (`"get" \notin Commands`). The worker has a thread for each
  request, and nothing in it makes a client wait. That answers cannot be confused comes
  from the client: it sends when it has read the reply before. `CountInv` follows a
  request from the FIFO into the worker's hand and its slot; `ReplyInv` says
  that what the client has read and what is in the response FIFO is together what the
  last request's writer (its responder, or the main thread that refuses it) has written
  so far; `IdleInv` that at the prompt, and once the worker leaves its loop, everything
  sent has been answered. So a refusal is written when no responder writes, and
  `exit` without joining cuts no reply off. A client or worker that ends at any point, a
  thread that cannot be created and the garbage read at end of file are
  included: `KindInv` says the garbage comes only when the client has gone. With gets
  `OwnAnswer` is false (run `session_mixed_answers`).
- *Session with gets* (`Commands \subseteq {"login", "get"}`, no request refused). The
  listeners' mutex keeps the frame of one reader together; a synchronous command
  reads without it, hence the restriction, which is also that of the run. `Refused`
  is necessary: the refusal is written without the responders' lock.
- *Handshake, types.* The bound on pipe numbers is the hard part: the master makes a FIFO
  for the host of whatever it reads as a url, not for a client. `CountInv` counts the
  pipes made, the texts in the server's FIFO and the text in the master's hand against
  what the clients' starts have accounted for (`Spent`: one when the client has made its
  own FIFO, two when it has written its url). Losing a text only helps.
- *Handshake, pairs.* The hypothesis is `FewNames`: no two clients have one name
  (`OwnNames`), or each name is that of one or two and everybody is started once, as in
  the run; whoever is killed or late. Paths are unlinked by name while others hold the
  pipe, so `PairInv` is about pipes: unused until made (`FreshInv`), response or request
  FIFO for ever (`KindInv`), held by the clients that have opened them (`HoldInv`), by one
  client each, under whose name the path is (`UserInv`). `EchoInv` is the core: a client
  reads an echo only from the FIFO the master has open, and then the request FIFO is the
  one the master has made for that client, so the worker it gets is its own. When texts
  have run together the echo is nobody's name, so no client gets as far as an
  acknowledgement. `ReaderInv` gives the ending without a worker: if the fork does not
  come, the request FIFO has no reader left. A namesake connected before is `Elsewhere`.
  For clients that share a name `ShareInv` adds that whoever has the request FIFO that the
  master made waits for the master (`QuietInv`), that the response FIFO the master has
  open is one of the name it has read (`CalledInv`), and that two `Namesakes` keep out of
  each other's way: while one connects the other does not, because `mkfifo` has refused
  it, and the other has none of the FIFOs the first opens next. What would free the path,
  a worker's unlink, needs a worker of that name, and there is none before one of them has
  acknowledged; then only one is left to begin. That is why the name must not return: a
  third namesake, or a second start, finds the path freed late (section 3).
- *Handshake, the master.* The hypotheses are those of the run: `Orderly` users, nobody
  mortal, a fork that does not fail, and `OwnNames`: the worker of a namesake that has
  gone closes and unlinks by name, and the FIFOs may be the new client's. `BusyInv` has
  two cases: nobody connects and the master waits or is about to read an acknowledgement
  (`Idle`), or one client does and `Connects` says which pairs of steps are possible
  (`Meets`), who waits for whom (`Waits`), how much of the url is where (`Sends`) and who
  has which end of the two FIFOs (`Responds`, `Requests`). `ServeInv` says why `mkfifo` of
  the request FIFO succeeds: an old one belongs to a worker that has not closed. Each
  error branch of the master contradicts one of these or leaves it `Full`: ended, with
  fewer than two descriptors free, which stays so.
- *Database pipes.* While nobody has disturbed the calls, one worker is in a call, and it
  is either `Asking`, its bytes standing in order in buffer and pipe and nowhere else, or
  `Answering`, the rest of one answer standing in the other pipe, recognised by its
  distance from the end. Execution is the moment one becomes the other. After a
  disturbance (two calls at once, a death, a query too long or with a semicolon inside)
  the service has broken its promise, which every later step keeps.
- *Storage.* `CheckInv` has the two halves of a check without a lock: what
  a handler has checked is still true, and two handlers that can spoil each other's
  check have raced; the insert then preserves `NamesInv` and `OrderInv`. `WriteInv` says
  that a handler writes a file nobody else writes and nobody was told of. That the
  first row is well defined uses the well-foundedness of `<`.

- *Framing.* The question is why the receiver stops exactly where the frame does.
  `WireInv` says that the wire is cut by `ends` into the frames of the messages sent and,
  while `Unspoiled`, that each is a good one (`GoodFrame`): its boundary does not occur in
  its text and it is not too long. `PlaceInv` says that the receiver has returned the
  first messages and what it has read of the next, what is in the pipe and what is still
  to be written make up the wire from there. `LoopInv` says what the loops have seen: no
  underscore before the last two bytes of `boundary`, so what `ReadSecond` leaves is the
  frame's own boundary (`BoundaryPart`). `OnlyAtEnd` is the core: in text and boundary
  together the boundary is found at the very end and nowhere before, because a match
  across the seam would need a second dash in it, one inside is excluded by `GoodFrame`,
  and the digits of a file have no dash at all (`NoDashInFile`). So `Completes` is true at
  the last byte of the frame and not sooner, and before it there is room in the buffer.
  The reasons in `spoiled` are thus the only ones, and each step is one of `Channel`:
  `comm_send_data` is its send, the return of a message its receive (of a reply, with what
  may lie behind it), everything else a stutter or the break.
- *Logging.* `PlaceInv` follows a message from place to place; the order needs besides that
  messages accepted are all different and that, while `rival` is "no", at most one service is
  alive, so that what it has taken stands alone between log and queue.

`SessionProofs` has lemmas on `Append` and `Tail` of a sequence of which
neighbours matter, `LoggingProofs` on the range and the order of a sequence without
repetitions, `FramingProofs` on pieces of a sequence that are moved from one end to the
other. They are cited wherever a queue moves on.

Every safety property of a passing run is thus a theorem. Only model-checked, and why:

- Liveness (`CommandReturns`, `WorkerFollows`, `GetReturns`, `QueryReturns`,
  `OpenReturns`, `PostReturns`, `CatchesUp`, `Delivered`, `SendReturns`, `Logged`):
  fairness and `ENABLED` are out of this prover's reach.

## 5. Plan

Done: all modules of section 2 and the theorems of section 4. Every safety property of a
passing run is a theorem, as are both refinements (`SqlPipe` of `SqlService`, `Framing` of
`Channel`). Left: two servers at once, which an `execve` that fails in the logging build would
start; it needs a second master in `Handshake`.

## 6. Not modelled

- Connecting over sockets: `connect`, `accept` and one url, without a protocol of its
  own beyond the kernel's; sending and receiving over them is `Framing`.
- The query builders, `split_arguments`, the configuration readers, help texts:
  formatting and parsing without state that later steps depend on. Some of it writes
  one byte more than it allocates or prints a string into itself; the models take the
  result that is meant.
- Aliases with slashes and names with quotes, which would change path and query.
- The monitor's tables of 100 entries, which are filled without a test, and the
  shortening of a thread's id to an int.
- The 100 bytes of `log_str`, into which the logging build prints the client's text.
- An `execve` of the logging service that fails, after which the child goes on as a
  second server.
