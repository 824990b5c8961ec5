# Verification of ql_muduo, the pools and the applications built on them

TLA+ models of the repository's own code, the TLC runs that check them and the
TLAPS proofs about them. Paths below are relative to `src/`. `PROJECT.json` lists
the components, the runs, the lines each definition translates, the hazards, the
findings and the theorems; this file explains them.

To check everything by hand, in this directory:

    tlc -workers 2 -config ThreadPool.cfg ThreadPool.tla    (a run: cfg and module)
    tlapm EventLoopProofs.tla                               (a proof module)

The runs take from a second to two and a half minutes each.


## 1. The system

The repository holds several programs that share no code except `ql_muduo`, which
`ql_rpc` and the Redis servers link.

| part | state it keeps | operations | talks to | what is hard about it |
|---|---|---|---|---|
| `ql_muduo` EventLoop | `pendingFunctors_`, `callingPendingFunctors_`, `quit_`, `activeChannels_`, an eventfd | `loop`, `quit`, `runInLoop`, `queueInLoop`, `wakeup`, `handleRead`, `doPendingFunctors` | every thread that has work for the loop | the loop swaps its queue, runs it and sleeps while others queue; a wakeup must never be lost |
| `ql_muduo` EventLoopThread, Thread | `loop_` under a mutex and a condition, the thread | `startLoop`, `threadFunc`, the destructor | its owner and its loop | publication of a pointer to a stack object; quit and join |
| `ql_muduo` TcpConnection, TcpServer | `state_`, `outputBuffer_`, the Channel, `connections_` | `send`, `sendInLoop`, `shutdown`, `handleRead/Write/Close/Error`, `connectEstablished`, `connectDestroyed`, `removeConnection`, `~TcpServer` | the base loop, an I/O loop, other threads, the peer | three actors and the peer interleave; lifetime by `shared_ptr` |
| `ql_muduo` Channel, EPollPoller | `events_`, `index_`, `tie_`, `channels_`, the kernel's epoll set | `updateChannel`, `removeChannel`, dispatch | TcpConnection | three copies of "is it registered" that must agree |
| `ql_muduo` Buffer | a vector and two indices | `append`, `retrieve`, `makeSpace`, `readFd`, `writeFd` | TcpConnection | boundary arithmetic, the spill through `extrabuf` |
| MySQL connection pool | `m_connectionQue`, `m_connectionCnt`, a mutex and a condition | `getConnection` and its deleter, a producer and a scanner thread | client threads, MySQL | two background threads and many clients; time; growth and reclamation |
| thread pool (`线程池`) | `tasks`, `stop`, `m_exit`, a mutex, a condition | `commit`, `shutdown`, `restart`, `schedule`, the destructor | client threads | condition variables, flags outside the mutex |
| `webserver` | one `http_conn` per descriptor, the epoll set with EPOLLONESHOT, a worker queue | the epoll loop, `process`, `read`, `write`, `close_conn` | workers, the peer | ownership of a slot handed through the kernel; partial writes from two iovecs |
| net disk (`网盘系统`) server | the tables `usrInfo` and `friendInfo`, the list of sockets, `m_strName`, upload mode, a timer | one handler per PDU | clients, the database | a database that outlives sessions; state of a connection across PDUs |
| net disk client | `m_strLoginName`, windows, download mode | buttons, one handler per answer | the server | acts before answers arrive; answers of others in between |
| `ql_rpc` | ZooKeeper nodes and sessions, a connection per call, a log queue | `CallMethod`, `OnMessage`, `SendRpcResponse`, `Start`, `Create`, `GetData`, `Push`, `Pop` | provider, caller, ZooKeeper | nodes that outlive their process by a session; test and create in two calls; framing over a stream |
| `bubble` | one table, the `err` of `main`; `tableData` in each page | handlers of POST, GET, PUT, DELETE; the page's clicks and answers | pages, MySQL through gorm | handlers run concurrently and share `err`; a page changes its table by index when answers come |
| Redis publish/subscribe | a map of users, two hiredis contexts | `publish`, `subscribe`, `command_callback` | ql_muduo servers | callbacks on another thread |
| Gobang (`人机对战五子棋`) | the board, whose turn, the last stone, the score table | `clickBoard`, `chessDown`, `checkWin`, `checkOver`, `calculateScore`, `think` | the person and the program | intricate scanning at the edges of the board; scores that add up, or are assigned |

The rest is listed as not modelled: wrappers of system calls (Acceptor, Socket,
InetAddress), Logger and Timestamp and their copies in the log module, the
socket examples, the example programs, the generated protobuf code, the `cpp-http`
samples, the libraries vendored in `bubble`'s page and webbench (third party).

What makes each part correct:

* **event loop**: a queued functor or a quit always ends the next sleep; functors
  run once each, in order, on the loop's thread;
* **loop thread**: `startLoop` returns a live loop; the destructor's join returns;
* **connection**: the bytes on the wire are the bytes accepted, in order; the FIN
  comes after them; the application hears "connected" and "disconnected" once
  each; a connection that has gone is freed and leaves nothing in the poller;
* **buffer**: the indices stay in the vector and the buffer is a FIFO of bytes;
* **connection pool**: a connection is queued or lent, never both; the size stays
  between its limits; what has been idle too long is reclaimed; clients are served;
* **thread pool**: a queued task is run, once and in order; the pool stops;
* **webserver**: one thread at a time in a slot; every request gets the whole of
  its response; no open connection is left with nobody watching it;
* **net disk**: one session per name; the client acts for the user it is logged in
  as; friendship needs consent and is recorded once; a file arrives whole; what is
  done to a file is done to the one the user saw, and none is lost;
* **rpc**: a provider that serves is found; a caller never waits for nothing;
* **bubble**: the table holds what was added and not removed; a page whose calls were
  answered shows the table;
* **Gobang**: the game ends at a five and the right side wins; the program completes
  its own fives and stops the person's.


## 2. The modules

One step of a model is what one thread does between two points at which another
can see or change something: a critical section, a system call, an atomic access.
Handlers that run to the end on one thread are one action.

**Executor** is the abstract specification of an event loop: a queue of functors
from which one at a time is executed and which an execution, or anyone else, may
extend at the end. It has no batches, no wakeups and no sleep.

**EventLoop** (`EventLoop.cpp`, `EventLoop.h`). `pc` is where the loop's thread is:
`constructed`, `check` (the test of `quit_`), `poll` (in `epoll_wait`), `handle`
(active channels), `run` (inside `doPendingFunctors`), `stopped`. `pending` is
`pendingFunctors_`, `functors` the local vector it is swapped into, `evt` the
counter of the eventfd. A foreign thread is between `emplace_back` and `wakeup()`
when `tpc` says so. Callbacks and functors may run or queue a further functor and
call `quit()`. Functors of `Early` may be queued by the loop's own thread before
`loop()`, as a thread-init callback may; they have no wakeup. `ExecutorSafety` and `ImplementsExecutor` map
`functors \o pending` to the executor's queue.

**EventLoopThread** EXTENDS EventLoop with the owner's side (`opc`), the thread
(`thread`) and `loopPtr` = `loop_ != nullptr`; `owner` is one of EventLoop's
`Threads`, and the others queue and quit while the owner holds the loop. The
destructor's `quit()` may find `quit_` set already, which EventLoop's own
`QuitFromOther` leaves out, so the theorems about EventLoop's specification cover
all of the loop's users but that one step; the run covers it.

**Channel** holds what a Channel and the EPollPoller decide together: `update`,
`remove`, `index_` (`kNew`, `kAdded`, `kDeleted`), `inMap` (`channels_`) and
`registered`/`interest` (the kernel's set).

**TcpConnection** (`TcpConnection.cpp`, `TcpServer.cpp`, `Channel.cpp`) EXTENDS
Channel. One connection of a server with a base loop and an I/O loop. The two
loops' queues are sequences of the functors that carry the connection
(`connectEstablished`, `sendInLoop`, `shutdownInLoop`, `removeConnectionInLoop`,
`connectDestroyed`): that a loop runs them once and in order is what EventLoop
proves. Reference counts are modelled by who still holds a `shared_ptr`: the map,
a functor, or the guard in `Channel::handleEvent`; `Alive` is the disjunction.
The kernel accepts any part of a write, the peer sends, closes or resets.
`send` and `shutdown` on another thread are two steps: the test of `state_`, then
the store or the functor.

**Buffer** (`Buffer.h`, `Buffer.cpp`): pure operators on a record of vector, reader and
writer, and a specification that feeds chunks and takes bytes in every way the
callers do.

**ConnectionPool** (`CommonConnectionPool.cpp`, `Connection.h`): clients (`at`), the
producer, the scanner with its wakeups by time, `now` as a clock, `stamp` as
`_alivetime`. `Wait` and `TimeOut` are the two ends of `wait_for`.

**ThreadPool** (`线程池/threadpool.h`): clients between the test of `stop`, the push
and the notification; workers between the predicate and the sleep, with spurious
wakeups; `NotifyAll` selects `notify_all` or `notify_one`.

**HttpConn** (`http_conn.cpp`, `main.cpp`, `threadpool.h` of `webserver`): one descriptor,
its slot of `users[]`, the epoll thread and the workers. Requests and responses
are pieces (a request is two, a response a head and a file); `SndBuf` bounds what
the kernel takes. Each handler is split at the system calls at which another
thread can enter the slot. After two threads have met in the slot (`clash`) what
they do to each other is undefined behaviour in C++, and the model stops
claiming anything about that connection.

**NetSession** (`opedb.cpp`, `mytcpserver.cpp`, `mytcpsocket.cpp` 20-272,
`tcpclient.cpp`, `friend.cpp`, `online.cpp`, `privatechat.cpp`): the two tables,
the sockets and their names, the requests and answers under way per client, the
client's windows and message boxes; a client may be started and killed, the
server restarted with the tables kept.

**NetTransfer** (`mytcpsocket.cpp`, `tcpclient.cpp`, `book.cpp`): one client and its
socket on the server, with upload and download mode, the two one-second timers,
the `m_file` both directions share, the pieces on the way, requests answered with
one PDU, and the PDUs of other users. For some of these the client only shows something,
for others it writes on its own: a list request at once (`GetChanged`), or, when the box is
closed, the answer to a share or a list request (`GetTold`, `CloseBox`). `Pushes`, `BoxOf`
and `ReplyOf` say which; yes and no to a share, or to a friend, differ in nothing here.

**NetFiles** (`mytcpsocket.cpp` 273-468 and 537-658, `tcpclient.cpp` 218-363, `book.cpp`,
`sharefile.cpp`): the server's disk as a function from paths to directories and
contents, and for each user the panel: `cur` (`m_strCurPath`), `enter`
(`m_strEnterDir`), the list `shown` and its current `item`, the buttons that are
enabled, what was picked to move or to share, and the open boxes. Requests name a
path; answers bring a list or a success. Uploads are in NetTransfer.

**Rpc** (`rpcprovider.cpp`, `ql_rpcchannel.cpp`, `zookeeperutil.cpp`). `provider[p]` is
where `RpcProvider::Run` of p's process is, and its ZooKeeper session; a process may
crash anywhere and be started again under a new session. `service` and `method` are
the two nodes of one method; `method` is the session that owns the ephemeral node,
and `EndSession` removes it, after a crash or, counted by `trouble`, under a live
process. `Create` is two steps, `zoo_exists` and `zoo_create`, with the exit when
another process was faster. `call[c]` is one `CallMethod`: lookup, connect, send, one
`recv`. `OnMessage` sees the request whole, or a first part and the rest.

**Bubble** (`main.go`, the page's `app.*.js`). `db` is the table; a call is a record that
travels from a page to a goroutine and back. The PUT handler is split at every use of
`err`, which is shared by all PUTs; gorm's `Save` (external) is UPDATE, then, if no row
changed, SELECT, then INSERT. A page's `rows` are row objects and `table` the list
shown, because `handleEdit` keeps an object and an index over the call: after a new
list they may mean different rows. Answers come in any order or not at all.

**Gobang** (`Chess.cpp`, `AI.cpp`, `ChessGame.cpp`, `Man.cpp`): `checkWin` and
`calculateScore` as functions of the board, and `play()` around them. Lines are written
as start, direction and length where the code spells out each comparison.

**MCPrograms** runs Buffer, Bubble, Rpc and Gobang side by side: they share nothing, so
`subject` picks the one a behaviour is about and the others keep still.

A few variables record history only, and no guard reads them: `ran`, `accepted`,
`wire`, `started`, `pushed`, `taken`, `received`; in NetSession `hasty` (a client
clicked login again before its answer), `consent`, `crossed` (both users asked
before either answered); in NetTransfer `op`, `disturbed`, `failed`, `want`, `got`,
`garbled`; in NetFiles `deleted`, `wrong` (a request met another file than the one
meant) and who may complain of it: `hasty` (clicked before an answer due to him),
`mixed`, `cut`, `stale`; in Rpc `skipped`, `expired` and a call's `cut`; in Bubble
`added`, `gone`, `mayReturn`, `masked`, `blame`.


## 3. The runs

| run | instance | what it shows |
|---|---|---|
| EventLoopThread | owner, 1 other thread, 3 functors, 1 of them early | no lost wakeup, `quit()` ends the loop, the loop is an ordered executor; `loop_` is valid when read, `startLoop` and (once the loop runs) the destructor return |
| LostQuit | the same | **violation**: `quit()` before `loop()` stores `quit_ = false` is lost |
| TcpConnection | 1 message from the loop, 1 from another thread, 2 bytes each, 1 read | callbacks paired, stream order, FIN after data, poller consistent, freed after close |
| Programs: Buffer | prepend 1, initial size 3, extrabuf 3, chunks up to 5, 9 bytes received | FIFO |
| Programs: Bubble | 2 pages, 2 rows, 3 clicks, 1 lost call | rows come from additions, pages agree with the table, each but for named races |
| Programs: Rpc | 2 providers, 3 processes, 1 caller, 1 ZooKeeper failure | who serves is found, who waits can be answered |
| Programs: Gobang | boards of 1, 5 and 6; the person in the first row and column, or in eight chosen points | the end of the game, the program's answers to fours |
| ConnectionPool | 2 clients, 3 connections, sizes 1..3, idle time 2, clock to 4 | accounting and limits (`PoolSound`), completeness of a scan, service |
| ThreadPool | 2 workers, 2 clients, 3 tasks, destruction | nothing waits with all asleep, order, every task runs |
| LostExit | 2 workers, 1 client, 1 task | **violation**: `m_exit` stored without the mutex, join for ever |
| HttpConn | 2 workers, 2 connections, 3 request pieces | ownership of the slot, responses whole, requests answered, connections closed |
| HttpOverlap | 1 connection, 2 pieces | **violation**: two threads in one slot |
| NetSession | 2 users, 2 clients, 2 starts, 4 clicks, 1 restart | sessions, identity, friends by consent and once, who can be locked out |
| NetTransfer | files of 0 and 2 pieces, 3 operations, 1 foreign PDU | files whole and modes ended, no garbling |
| NetFiles | 2 users with 1 directory and 2 files each, 3 clicks | path and list agree, nothing missing is used, requests meet the files they mean, no file is lost |

Why the bounds are enough. Every bound is the smallest at which the cases a
property is about all occur, and each property is shown to fail on that very
instance for a plausible bug (`mutants`). Three functors let one run while one is
in the batch and one in the queue. Two bytes a message make a write partial, and
a high water mark of three lets the second message cross it. A buffer of three
plus one has room in front, behind, in both together or in neither; a chunk of
five overflows `extrabuf`'s threshold too. Three connections over an initial size
of one let a scan reclaim, stop half way and reach the limits. Two workers and
three tasks give a worker falling asleep, one running and a task waiting. Two
connections in one descriptor let an event of the first reach the second. Two users
suffice for a crossed friend request, two starts for a login after a kill, four
clicks for two logins and two requests. In NetTransfer three operations let two
overlap and a third be alone; two pieces make a rest that can arrive apart from its
announcement, or outlast an upload that a PDU has cut short; one PDU of another user
is enough for that, as the client may answer it within the second before the data. In NetFiles three clicks pick a file, enter a directory where the same
name exists and move it there, or offer a file, agree and have it copied; choosing
items, closing boxes and answering are free. (Four clicks take hours; what they add is the use
of a list that `mixed` excuses, see section 4, and section 5 has the properties for any
number.) In Bubble three clicks let two calls overlap
while a third row or page changes the table. In Rpc the third process is the restart of
one provider while the other registers; a failure is a session that ends, or a
`zoo_exists` that does not answer. Callers share nothing but the provider, so one is
enough. On a board of 5 the first row and four points of the first column let black win
by a fork and white complete fours of its own in the other directions; white's choice
is free among its best points. The board of 1 is full after the first stone. A three
with room on both sides of it and of the point played needs a line of six: on the board of 6 the person,
in eight points, can get the program to prefer
open threes to a five. Black overlines, which the scores ignore, do not occur in the
runs; the theorems have them. The sizes are model-checking bounds only; where a theorem is listed
the property holds for all of them.

`CHECK_DEADLOCK FALSE` is set in the configurations because every one of
these models may really stop: the loop has ended, the clients have made their
calls, the clock or the counters have reached their bounds.
NetSession uses symmetry in users and clients: its specification has no fairness
and its properties are invariants and one step property, none naming a user; and
so do NetFiles, whose properties are invariants, and Programs, in Bubble's pages.

### Fairness

* *EventLoop, EventLoopThread*: weak fairness of the loop's own steps and of a
  thread between a queue and its `wakeup()`: a scheduler runs a ready thread. The
  `epoll_wait` timeout (10 s) is relied on only while nothing but functors queued
  before `loop()` waits; for everything else liveness rests on wakeups. Nobody is
  obliged to queue or to quit.
* *TcpConnection*: weak fairness of each loop's queue, of the dispatch of ready
  events, of the return of callbacks and of the second half of a foreign call;
  strong fairness of polls that report `write`: a peer that has not reset goes on
  reading, so room in the socket comes up again and again even while other events
  do too; and of the foreign thread's letting go of its reference. Neither the peer
  nor the application must send or close.
* *ConnectionPool*: weak fairness of what a thread does next when it is not blocked,
  including the end of a `wait_for`; `SpecReturning` adds strong fairness of
  returning: clients give back what they borrow. That is the pool's own contract
  with its clients and only `PoolNeverStuck` needs it.
* *ThreadPool*: weak fairness of every started thread, tasks end; strong fairness of
  the steps that take the mutex, since a thread that keeps asking for it gets it
  although others, woken spuriously, take it in between.
* *HttpConn*: weak fairness of workers, of the epoll thread and of the delivery of
  what the kernel holds to the peer; none of what the peer sends, so a request only
  half sent is owed nothing.
* *NetSession, NetTransfer, NetFiles, Programs*: none is needed.


## 4. What the runs found

Three runs end in a violation on purpose, each against a sentence of the
repository:

* **LostQuit.** `EventLoop.cpp:90` says `quit()` may be called from another thread
  to end the loop. `loop()` begins with `quit_ = false` (line 67), after
  `EventLoopThread::threadFunc` has published the loop (line 48). A destructor that
  runs in between quits a loop that then starts and is joined for ever.
* **LostExit.** `threadpool.h:20` calls `m_exit` the flag that lets the threads
  exit smoothly. It is stored, and `cv_task` notified, without `m_task` (line 68): a
  worker that has just evaluated its predicate goes to sleep after the notification.
* **HttpOverlap.** `http_conn.cpp:38`: EPOLLONESHOT keeps one communication from
  being handled by different threads. `write()` enables the descriptor (line 508)
  before it reads `m_linger` and calls `init()` (511-514), so another worker may be
  reading the next request into the slot that is being reset.

Other divergences met while modelling. They are inside the models as the code has
them, and the properties are stated so that the exception is visible:

* `TcpConnection.cpp:111`: data is accepted between `shutdown()` and the close
  although the comment at 110 says it is not; `send` queues the address of the
  caller's characters (95) and a raw `this`; the model writes `Garbage` once the
  caller has returned. `shutdown()` on another thread stores `kDisconnecting`
  over a `kDisconnected` (171-174): the exception `revived`; `RemovedStaysRemoved` makes
  none for it, only for a `shutdown()` (`shutBy`) that `~TcpServer` has overtaken.
* `EventLoopThread.cpp:17`: the destructor reads `loop_` without the mutex; if a
  callback has quit the loop meanwhile, `wakeup()` writes a closed eventfd. And a
  callback that quits before the owner has looked makes `loop_` null again, so that
  `startLoop` (29) waits for ever: the disjunct `quit` of `StartLoopReturns`.
* `CommonConnectionPool.cpp`: the scanner empties the queue without waking the
  producer (190); a timed-out wait starts over instead of failing (150); the result
  of `connect()` is ignored (86, 125). `PoolNeverStuck` needs `InitSize >= 1`.
* `threadpool.h:78`: a task may enter a pool that was shut down between test and push.
* `http_conn.cpp`: a `recv` of 0 removes and closes the descriptor twice and
  `m_user_count` falls by two (182); a request that exactly fills the 4096-byte
  buffer is taken for a disconnect; an empty file gets no response; the branch of
  `write()` for nothing to send (461-468) is reached after a clash only; when the
  epoll thread closes a connection during a partly sent file the mapping is forgotten.
* `opedb.cpp:15,54`: nobody resets `online` at a start, so whoever was logged in
  when the server stopped is refused for ever (`LockedOut` says exactly who);
  the repository's own `cloud.db` holds such rows. `mytcpsocket.cpp:75`: a second
  login on a socket strands the first user in the same way. `tcpclient.cpp:409`: the
  login name is stored before the answer, even when nothing is sent.
* `opedb.cpp:169`: users who ask each other at the same time become friends twice.
  `mytcpsocket.cpp:196`: agreeing falls through to the refusal and the refresh.
  `tcpclient.cpp:161`: the box shows the asked user's own name.
* `mytcpsocket.cpp:30`: of PDUs that arrive together one is read per signal, and the
  rest lags behind.
* Transfers: anything sent within the second between a request and its file is
  taken for the file, and the upload is still reported as successful (677); upload
  and pending download share `m_file` (694); an empty upload leaves the mode on, and so
  does an empty download; a file that cannot be opened leaves data that is parsed
  as a PDU; a download of a missing file is not answered (516-535). No second click is
  needed for the first of these: when another user's share or friend request comes, or his
  answer to one, the client program writes a PDU of its own (`tcpclient.cpp:159-189`,
  325-357); within the second it is counted as a piece of the upload, which ends early,
  and the last piece is parsed as a PDU (the exception `disturbed`).
* Files: a listing of a directory that is not there has `size() - 2` entries
  (`mytcpsocket.cpp:325`), entering one writes from a null pointer (464), and Share
  without a current item uses one (`book.cpp:320`). Users get there by clicking on
  before an answer, and by Return in their root, where a double click on a file
  enables it: `remove(-1, ...)` then takes the last letter off the user's name
  (`book.cpp:233`). The model assumes that no user has the name that is left.
* Files: the path grows by the last name double clicked when an answer arrives
  (`tcpclient.cpp:267`), and the list comes from any answer. A list asked for while a
  directory is being entered (which a friend's answer to a share does, 355) leaves
  the old directory's list with the new path: the exception `mixed` of `ViewIsCurrent`.
  What the user then opens, shares or deletes is looked for where it is not, so `mixed`
  excuses `NothingMissingIsUsed` and `ActsOnWhatIsShown` too. It takes a fourth click, one
  more than the run's bound: the attempt to prove the two without it showed it.
* Files: a share is offered as a name (`book.cpp:320`) and becomes a path only when the
  friend is chosen (`sharefile.cpp:47`), so another file may be given: the exception
  `stale`. Refusing a share falls through to a move (`mytcpsocket.cpp:598-611`) whose
  lengths `sscanf` never sets; a move that failed is reported as done (652).
* `bubble/main.go:97-116`: the PUT handlers assign the `err` of `main`, captured by
  their closures and shared by all requests. While one of them is between an
  assignment and its test, another's missing row makes a good edit answer an error
  (status 200); or another's success hides a missing row, and Save then adds a row
  nobody asked for; or `err.Error()` meets nil and the answer is 500 (`masked`,
  `blame`). A row removed between First and Save comes back (`mayReturn`).
* The page takes any answer of status 2xx for success, so an edit refused with
  `{"error": ...}` is shown as done. It edits `tableData[index]` and splices at the index
  clicked: when answers overlap it changes another row. Two clicks on one row set it to
  the opposite of its present status twice, while both calls carry the same status. A
  late list replaces a newer one.
* `zookeeperutil.cpp:62`: `Create` takes an existing node for its own. A provider that is
  started again before the session of its former process ends (30 s) keeps the old node,
  which then goes: it serves and is never found (`skipped`). The same after an expired
  session, which `global_watcher` ignores (`expired`), and after an error of `zoo_exists`
  other than ZNONODE. `GetData` (85) returns a buffer that nobody terminates.
* `rpcprovider.cpp:101`: `OnMessage` takes what has arrived for one request. A request in
  two parts is lost, `substr` may throw out of the loop's thread, and the caller's `recv`
  has no timeout (`cut`). `ql_rpcchannel.cpp:127` calls a method of the controller, which
  callers pass as null; an answer of more than one `recv` is cut (134).
* `AI.cpp:106,109,113`: the score of a black three or four is assigned over the score
  of the directions before, so the program may miss its own five; five blacks and more
  score nothing (112). Nor is a five worth more than anything else: each open three of
  the program's own adds 10000 (177), so three of them outweigh its five, and two the
  person's, which scores 20000. The exceptions `Counted` and `OpenThrees` of `AnswersFours`
  say when; on a board of 5 the second never happens, and only the attempt to prove the
  property for every size brought it out. `AI.cpp:221` divides by zero on a full board, which every odd size
  reaches; `Chess.cpp:82` lets a click past the last line index outside the board.

## 5. What is proved

Eight modules of proofs; `tlapm` checks every leaf. All constants are arbitrary except
for the named assumptions, which TLC evaluates on the runs.

* **EventLoopProofs**, for any set of threads and functors (`EarlyAssumption` and
  `SelfQuitAssumption` only). `LoopInvariance` gives the types and the shape of an iteration.
  `NoLostWakeup` is not inductive, as it speaks of `poll` only: `WakeupInv` adds that
  outside `handle` whatever is pending has its wakeup made or due, or is early. The crux is that a
  functor queued during `doPendingFunctors` is woken for because
  `callingPendingFunctors_` is set exactly then, and that one queued from a channel's
  callback needs no wakeup as the batch has not been swapped yet. `LoopIsExecutor`:
  every step maps to a step of Executor or a stutter (safety part of the
  refinement; TLC checks the same with fairness). The same two results are proved of the
  loop inside an EventLoopThread (`ThreadSpec`, with `OwnerAssumption`), where only the
  destructor's `quit()` is a step of its own, and `LoopPtrValid` with them: the invariant
  adds that `loop()` is left with `quit_` set, and `loop_` set exactly while it runs.
  `NotifyIsNotLost`: while `startLoop` sleeps, the thread has still to publish and notify.
* **TcpConnectionProofs** (`StreamInOrder`, `BufferedDataIsWatched`, `CallbacksPaired`,
  `NoDanglingChannel`, `RemovedStaysRemoved`), for any messages, message length,
  high-water mark and chunks from the peer (`MsgAssumption`). None of them is inductive.
  `ConnInv`, behind the first three, adds that EPOLLOUT is asked
  for exactly while data is buffered (`Stream`: without it a direct write could overtake,
  and `shutdownInLoop` close over data), that the epoll set holds what the channel asks
  for (`Linked`), that one functor establishes the connection and nobody uses it before
  (`Young`), and that a connection that was closed is out of the epoll set, with no close
  or read event left over (`Paired`). `ChanInv`, behind the other two, adds that `index_`,
  the poller's map and the epoll set agree (`Known`), that `connectEstablished` is the
  first functor and `connectDestroyed` is not asked for before the end (`InOrder`), that
  somebody still holds the connection while the poller knows its channel (`Reclaimed`),
  and that a thread that called `shutdown()` queued its sends before (`Closing`), so that
  none of them registers the channel again. There is a lemma for `sendInLoop`, with every
  partial write, and one per action. `LifeInv` is for what is still to come
  (`ShutdownIsNotForgotten`, `RemovalIsNotForgotten`): a shutdown that was asked for is
  queued or EPOLLOUT is set for the data before it (`Promised`), and the stages from
  `connectEstablished` to `connectDestroyed` hand a connection on without a gap (`Removal`).
* **PoolsProofs** on ThreadPool (`NoIdleWithWork`, `TakenInOrder`), for
  any workers, clients, tasks and both kinds of notification. The invariant adds
  that only a worker that saw an empty queue sleeps, so that a push is followed by
  a notification that finds someone.
* **PoolsProofs** on ConnectionPool (`PoolSound`, which is `Accounting` and `SizeBounded`;
  `OrderedByIdleTime`; `ScanIsComplete`), for any clients, connections, sizes and times (`SizeAssumption`,
  `ConnsAssumption`, `TimeAssumption`). Order needs that no stamp is later than the
  clock; `SizeBounded` needs `Accounting`; completeness of a scan needs the order. From
  `PoolSound` follows `NobodyWaitsForNobody`: an empty queue means that somebody has what is missing.
* **HttpConnProofs** (`OneUser`, `ClashOnlyAtTheEnd`, `ResponsesInOrder`; and `ClashWhileOpen`:
  a second thread enters an open connection only while the first is leaving), for any
  number of workers, connections and requests, responses and send buffers of any size.
  `OneUser` needs what each worker's position says of the descriptor (`Owned`). That a clash
  comes at the end needs where the slot is (`Located`) and that a worker on its way to
  close leaves nothing for a handler to read (`Final`). The order of the responses needs
  what the members hold of the one under way, per place: which requests it answers
  (`Requested`), and that the iovecs describe exactly what is missing from the stream,
  the head having gone with the first `writev` (`Written`). `AnswersArePending` adds that a
  whole request in the slot is with a worker (`Unread`): so while no thread has the slot, no
  event is on its way and nothing is readable or writable as enabled, everything is served.
* **NetSessionProofs** (`OneSession`, `ClientIsItsSession`, `FriendsAgreed`, `LockedOut`),
  for any users, clients and bounds. `OneSession` is inductive once the types
  of the queues are known. The others depend on what is under way, in layers: a program
  that does not run has nothing to read (`Links`); of a client that waits for its answers
  there is one login request, or its answer, or a session, and all of them are in the name
  it keeps (`OneLogin`, `Own`); a friend request whose opposite is under way or granted has
  crossed it (`FriendInv`). What a layer needs of a step is said once, by `Handled` for the
  server's handlers and `Moved` for the clients, and every action is shown to be one of
  these. `LockedOut` is a step property: a stranded user stays so because a login needs
  `online = 0`, and only a socket with his name, of which there is none, sets it back.
* **NetTransferProofs** (`TransfersWhole`, `NotGarbled`), for files of every size and any number
  of operations and pushes (`SizesAssumption`). `TransferInv` says that, while the user's
  operation is alone, the system is in one of five phases: `Resting`, `Uploading`,
  `Downloading`, `DisturbedUp` (an upload that a PDU the client wrote of itself has got into)
  and `DisturbedDown` (a download that another user's PDU has got into). In each it
  speaks of `Out` and `In`, all units on their way to a side with those in the socket's
  buffer first, so it does not matter where a readyRead cuts the stream. The crux is that
  what the receiver has written and what is on its way are together the file, while less
  than the announced size has been counted. When operations overlap nothing is claimed, and
  an operation started when all is quiet begins a phase whatever came before.
* **NetFilesProofs** (`FilesKept`, `ViewIsCurrent`, `NothingMissingIsUsed`, `ActsOnWhatIsShown`), for
  any users, disk, names and number of clicks (`NamesAssumption`, `InitialFsAssumption`). None
  is inductive. `Types` adds that the disk is a tree and that a client names only what is in
  its own user's tree or nowhere, `Kept` is `FilesKept` per file; a move changes paths but
  no contents, because its destination was free. `Views`: what the panel will show when the
  answers under way have been taken is what is there, unless something will make it ask again
  (`Refreshing`); for that, a directory is entered once at a time (`EntersOnce`) and the last
  list asked for is the panel's own (`AsksHere`). `Patience` is about users who wait for their
  answers: their requests are served before anything else of theirs and mean what is there
  (`AsksOnce`, `MeansIt`, `ButtonsOff`). `Locations`: the panel's directory is there, which no
  move or deletion of a patient user can change. `PicksHold` follows what was picked to move,
  share or offer through the requests, answers and boxes of everybody. One lemma per action,
  named `...Is`, says what it does to one client; each layer is shown to be kept from these.
* **ProgramsProofs**, about the four programs of MCPrograms.
  Buffer (`IndicesInOrder`, `FifoOfBytes`), for every prepend, initial and spill
  size (`SizesAssumption`, `BytesAssumption`): lemmas state what each operator does to
  the content of a sound buffer; the invariant is soundness and FIFO together.
  Rpc (`Discoverable`, `WaitsForSomething`), for any providers, callers, starts and
  failures: a running process has a session of its own (`OwnSession`); nobody makes a node
  while there is one, and only the end of the session that made it, which sets `expired`,
  removes it (`Registered`, which speaks of a provider from the making of its node on);
  what a caller awaits is on its way or was cut (`CallInv`).
  Gobang (`WinIsSeen`), for boards of any size (`BoardsAssumption`) and any play of the person:
  a five passes through the last stone (`GameInv`), and `checkWin` sees every five that does.
  The program's choice (`AnswersFours`), which takes no induction as the board at its turn
  decides it: a five of its own that is counted scores at least 30000, the person's at least
  20000; a point where neither has one at most 5380, where only the person has one at most
  20380, and each open three adds 10000 (`ScoreAtLeast`, `ScoreAtMost`: a bound is
  carried from one direction to the next). Best points exist while a point is left
  (`ProgramFindsAPoint`). `FivesAreCompleted`: four or more of a colour counted through a point
  (rays from it, at most four long) are a five once the stone is there (windows through it), and
  the other way round; so `ProgramTakesOrBlocks`, on the board after the move.
  Bubble (`RowsAreAdded`), for any pages, rows, clicks and lost calls (`RowsAssumption`):
  the row a PUT is about to write is 0, or one somebody added, and if it was removed since
  it is in `mayReturn` (`CallOK`); and all PUTs that found no row are told so unless two
  overlapped (`ErrInv`), which is why a PUT whose First failed never reaches Save alone.
  Its page (`PageIsCurrent`): while a page is not to blame, either its only call will bring
  a new list (`Renews`), or its table and the database differ by exactly what its answers
  still on their way will tell (`Follows`): the rows of removals that were served are still
  shown, the statuses of edits that were served are still the old ones. The calls are
  pairwise about different rows and a removal is about the last row any of them is about
  (`Differ`), so each answer finds its row where it was clicked (`EditTaken`, `DeleteTaken`).
  With no call left the two lists have the same rows in the same order (`OneListing`, by
  counting: the place of a row is the number of ids up to its own).

Only model-checked:

* liveness (`QuitTakesEffect`, `StartLoopReturns`, the fair half of `ImplementsExecutor`,
  `PeerCloseReclaims`, `ShutdownCompletes`, `PoolNeverStuck`, `EveryTaskRuns`,
  `RequestAnswered`): it needs fairness and ENABLED, which
  this prover does not handle. Every invariant and every step property of the passing runs is
  stated by a theorem. So is what each liveness property rests on but fairness, namely that
  what is awaited is always either there or about to be done by somebody who is not
  waiting: `NoLostWakeup` (for `QuitTakesEffect`), `NotifyIsNotLost` (`StartLoopReturns`),
  `LoopIsExecutor` (`ImplementsExecutor`), `RemovalIsNotForgotten` (`PeerCloseReclaims`),
  `ShutdownIsNotForgotten` (`ShutdownCompletes`), `NobodyWaitsForNobody` (`PoolNeverStuck`),
  `NoIdleWithWork` (`EveryTaskRuns`) and `AnswersArePending` (`RequestAnswered`). TLC checks
  the rest, that under fairness these steps are taken and come to an end.


## 6. What is abstracted or left out

* Data: a functor, a message, a request or a user is a model value; a file is its
  number of pieces; contents, formatting, SQL text and logging are left out.
* The kernel is modelled from how the code uses it and marked external where it
  has a definition of its own: level-triggered epoll, EPOLLONESHOT, an eventfd that
  counts, TCP that delivers in order and may split a write. Read and write errors
  other than would-block close the connection as in the code.
* Static destruction at process exit (the connection pool's destructor against its
  detached threads) and undefined behaviour after a clash are not followed.
* Net disk: a PDU is assumed to arrive whole (`read()` returning less is not
  handled by the code). While a box that `recvMsg` opened is up no readyRead comes: what
  arrives waits in the buffer (`ArriveSilently` of NetSession and NetTransfer). The
  read-only queries (all online users, search) and the group chat are in no model.
  In NetFiles the first listing after the login has been made (line 126, which
  would make it, is commented out), every user is online, and a failure's box, which
  only delays its user, closes at once.
* A server is destroyed only when its base loop runs no more of its functors, as
  in every program here: a functor of `removeConnection` (`TcpServer.cpp:112`) left
  in a loop that goes on would use the freed server.
* The connection pool: `connect()` failing (`CommonConnectionPool.cpp:86`), whose result
  the code ignores, and the destructor at process exit (101), which empties the queue
  without the mutex while the detached threads run.
* Rpc: one method per provider (the others differ in their name only); the fields of
  the header; `ZkClient::Start`, whose watcher may post the semaphore before
  `zoo_set_context` or after `Start` has returned, is one step.
* Bubble: titles; a body that does not parse; errors of the database other than a row
  that is not there; the transactions of single statements are gorm's.
* Gobang: graphics, sound, the mouse's coordinates (a click is a point or outside).


## 7. Plan

Done, in this order: EventLoop and Executor, EventLoopThread, Channel and
TcpConnection, Buffer, ConnectionPool, ThreadPool, HttpConn, NetSession,
NetTransfer, NetFiles, Bubble, Rpc, Gobang, each but the first with its run (EventLoop
is checked in EventLoopThread, which extends it; Buffer, Bubble, Rpc and Gobang share
one), and the modules of proofs.

Next, most important first:

1. **Server**: EventLoopThreadPool, Acceptor and TcpServer with several connections, which
   composes EventLoopThread and TcpConnection; and the Redis servers upon it.
2. Rpc's asynchronous log queue, whose protocol is that of the thread pool.
