# Models of the programs in this repository

The repository holds the work of a course in C: data structures, Linux system
programming, and an ARM part with bare-metal programs and kernel drivers. It is
not one program but several dozen small ones, many of them copies of each other
at successive stages. This directory holds TLA+ models of those that have
state, concurrency or a protocol worth checking, the TLC configurations that
check them, and proofs about eight of the modules.

Paths in this file are below `src/code`. `U/` is short for
`02app_develop/05Network/3http_V04/src/`, `L/` for
`02app_develop/lighttpd-1.4.32/src/`.

Contents: 1. inventory - 2. modules and code - 3. runs and bounds - 4. fairness -
5. proofs - 6. disagreements found - 7. what is not modelled - 8. plan.

## 1. Inventory

### uphttpd, a threaded HTTP server (`U/`)

| part | state | operations | what is hard |
|---|---|---|---|
| thread pool, `thread_pool.c` | the list `queue_head`, its counter `cur_queue_size`, the flag `shutdown`, a mutex, a condition variable, the threads | `pool_init`, `pool_add_worker`, `pool_destroy`, `thread_routine` | the flag is written without the mutex; wakeups may be lost; the pool is freed while threads leave |
| server, `uphttpd.c` | `srv_shutdown`, `srv_destroy`, `pmaster`, the descriptors, the main thread's place | `server_init`, `server_run2`, `client_handler2`, `sig_handler`, `server_destroy` | SIGINT runs `pool_destroy` on top of whatever the main thread does; descriptors pass from thread to thread; reads block |
| CGI, `up_cgi.c` | a socket pair and a child process per request | `cgi_handler` | `wait` takes any child; children inherit each other's descriptors; the buffer between them is finite |
| configuration, log, `up_conf.c`, `up_log.c` | options, a file | read at the start, append | none |

The main thread accepts a connection and calls `pool_add_worker`; a worker takes
the job and runs `client_handler2`, which may call `cgi_handler`; SIGINT calls
`server_destroy`, which calls `pool_destroy`. Correct means: each job runs once
and in order; no thread sleeps while there is work; nothing is used after it was
freed; each descriptor is closed once, by the one that has it; a reply is
complete; the server ends when it is told to.

### http_server, a forking HTTP server (`02app_develop/http_server`)

| part | state | operations | what is hard |
|---|---|---|---|
| server, `server.c` | listening and accepted descriptors, children | `server_run`, `clean_up_child_process` | SIGCHLDs merge; the handler interrupts `accept`; zombies use up the process limit |
| request reader, `server.c` | the buffer of `handle_connection` | first read, loop of reads, `strstr` | a request in pieces; failed reads; what earlier reads left in the buffer |
| modules, `module.c` and the pages | `dlopen` handles | open, generate, close | none: each lives in one child |

The parent forks a child per connection; the child reads the request, loads a
module, writes its page and exits; SIGCHLD tells the parent. Correct means: no
child stays a zombie; the parent keeps no connection; every connection gets its
child; a complete request is answered and a broken one ends.

### 05shm, a pipe of shared memory (`02app_develop/03IPC/05shm`)

State: two named semaphores, a named shared memory with one block, and where
`writer.c` and `read.c` are. The names survive the processes. Hard: a process
that is killed leaves semaphores with the values they had; the names are removed
one by one. Correct means: the buffer is in one hand, blocks come out once and in
order, the end of the input ends both programs.

### 29doublebuff (`03arm_develop/29doublebuff/03double_buff_interrupt`)

State: the two address registers of the LCD controller, the enable and status
bits of its frame interrupt, `wait_condition`, the application's front and back
buffer. Operations: the application's drawing loop, `ldm_pandisplay`,
`pandisplay_handler`. Hard: three parties run at once, and two of them write the
enable bit and the condition without a lock. Correct means: what is displayed is
not being drawn; the interrupt is enabled only when needed; the ioctl returns.

### 03btree, a sorted binary tree (`01c_datastruct/c_code_1102/1220/03btree`)

State: the root and three links per node. Operations: build, search, delete,
reverse, and traversals with recursion, with a stack and with a queue. No
concurrency; what is hard is the exchange of links in `del_node`, and sequences
of calls nobody tried: `main.c` has its one deletion commented out. Correct
means: an ordered set.

### lighttpd 1.4.32, an event-driven HTTP server (`L/`)

Its sources are kept with the course's own programs. It is the largest program
there, and the one with the most state.

| part | state | operations | what is hard |
|---|---|---|---|
| main loop, `server.c`, `network.c`, `joblist.c` | `srv->conns`, `cur_fds`, `want_fds`, `sockets_disabled`, the job list, the queue for descriptors, three flags set by signals | one pass of the loop: timeouts, sockets on or off, `fdwaitqueue`, poll, events, job list; shutdown | `connection_del` moves connections in the array while loops run over it; two marks for listening; who runs a connection that waits for a descriptor |
| connections, `connections.c` and the readers, parsers and writers it calls | the state of a connection, its read and write queue, `is_readable`, `is_writable`, four time stamps, what it asked poll for | `connection_accept`, `connection_state_machine` with its eleven states, `connection_handle_fdevent`, `connection_close`, `connection_reset` | a run of the machine must leave something that starts the next one; pipelining; stamps that outlive their request |
| `mod_fastcgi.c` | hosts and processes with load, state, `disabled_until`, `active_procs`; per request a `handler_ctx` | choose a host and process, connect, write, read, reconnect, disable, restart, respawn | two loads and a counter kept by hand over a dozen ways to fail; retries from three places; processes that die in between |
| other plugins, configuration, buffers, event back ends | | | section 7 |

One thread runs it all. The loop calls the state machine, the machine calls the
plugins, and a plugin's socket comes back as an event of the loop or through the
queue for descriptors. Correct means: a connection is never left without anything
to wake it; every connection ends, whatever its peer does; requests are answered
once and in order; descriptors, loads and processes are counted right; a server
that stopped listening listens again; a shutdown ends.

### The rest

Earlier versions of uphttpd, UDP and TCP exercises, the chat
registration in `select_udp`, one-call demonstrations, further drivers and
bare-metal programs, and exercises in lists, hashing and sorting: section 7.

## 2. Modules and code

| module | models | built on |
|---|---|---|
| `JobPool` | what a pool of threads promises: the abstract specification | |
| `ThreadPool` | `U/thread_pool.c` | implements `JobPool` |
| `UpHttpd` | `U/uphttpd.c` around the pool | instantiates `ThreadPool` |
| `Cgi` | `U/up_cgi.c` in several workers | |
| `ForkServer` | the accept/fork loop of `http_server/server.c` | |
| `HeaderReader` | `handle_connection` in the same file | |
| `ShmPipe` | `05shm/writer.c`, `read.c` | |
| `DoubleBuffer` | `29doublebuff/.../test.c`, `fbapp.c` | |
| `Lighttpd` | `L/server.c` (the loop), `L/connections.c`, `joblist.c`, `network.c` and what they call | |
| `FastCgi` | `L/mod_fastcgi.c`, on a reduced loop | |
| `OrderedSet` | what a search tree promises: the abstract specification | |
| `BTree` | the functions of `03btree/btree.c` that change the tree, and `search` | implements `OrderedSet` |
| `BTreeWalks` | those that only read it, as recursive functions and as loops | extends `BTree` |
| `MC...` | small instances of the modules for TLC | |
| `ThreadPoolProofs`, `ShmPipeProofs`, `DoubleBufferProofs`, `BTreeProofs`, `LighttpdProofs`, `FastCgiProofs` | proofs | extend the module they are about |
| `UpHttpdProofs` | proofs about uphttpd | extends `UpHttpd` and `Cgi` |
| `HttpServerProofs` | proofs about http_server | extends `ForkServer` and `HeaderReader` |

**ThreadPool.** `wpc` and `cpc` are the program points of the workers and of the
contexts that call the pool's functions. Every access that another thread may
see is a step of its own: linking a node and counting it, the loop's test and
`pthread_cond_wait` (which releases the mutex and falls asleep in one step), the
two reads of `shutdown`, and in `pool_destroy` the flag, the broadcast, each join
and the release. Spurious wakeups are allowed. The callers are orderly: one
creates and destroys the pool, and nobody calls it once destruction has begun.

**UpHttpd.** The pool's clients are the main thread and the signal handler: while
the handler runs the main thread stands still, perhaps with `queue_lock` in its
hands. The pool's jobs are the connections. `fd` and `peer` are the two ends of
each connection; `fault` records the use of a NULL or freed structure; the model
stops there. SIGINT comes once, at one of the places `SignalAt`. The client of a `Slow`
connection may be silent; or its answer is held up, because it does not read what
does not fit into its socket (`uphttpd.c:243`) or because a CGI program runs on (190): the
worker in `SendFile` is then blocked until `Resume`, which nobody owes.

**Cgi.** `writers` is the set of processes that have a write end open, inherited
copies included; `wait` takes any zombie; amounts of data are counted in blocks
of which the buffer takes `Capacity`. Its specification is `CgiSpec`, so that a module
can extend it together with `UpHttpd`; in the same way `HeaderReader`'s is `ReaderSpec`.

**ForkServer.** `pending` and `handling` are the kernel's view of SIGCHLD, and
`merged` counts the signals that met a pending one. `accept` and `fork` may fail.

**HeaderReader.** A token stands for some bytes; "n" is CR LF. Every read takes any
part of what was sent, up to the room the code passes; the array starts with
whatever was in memory, and `strstr` reads on until it meets a NUL. `reads` is a
ghost: what the reads returned.

**ShmPipe.** A name stands for an object; unlinking it leaves the object to those
who have it open. A kill may come at any step of either program, which is then
started again. `harm` records that a process was killed while it had the buffer
or was removing the names, that a read of the input failed, or that a block was
written short: accidents the programs do not claim to survive.

**DoubleBuffer.** The controller goes from phase to phase on its own, and latches
the addresses when a transfer begins. The frame buffer framework lets one process
at a time into `ldm_pandisplay`, and the interrupt's status is set only while the
interrupt is enabled. The handler runs on another core or between two statements
of the application: both give its steps any place. `mishaps` records, for the
current call, that the next transfer began before the addresses were written
("late"), that the call met a handler in its window ("raced"), that a signal
ended the wait ("signal").

**BTree.** A step is one iteration of a loop, or what follows the loop. `InTree`
is how the code itself tells: the root, or a node with a parent. The client
deletes what is in the tree and builds in what is not; after `reverse` it passes
a `cmp` of the other sense. The refinement mapping to `OrderedSet` reads the links
alone: its set is `below[root]`, what can be reached from the root, and its order is
`Before`, which says of two nodes that the first stands left of the second.

**BTreeWalks.** The functions that call themselves (`in_order`, `pre_order`, `post_order`,
`__balance`) are recursive functions, whose value is what they give to `todo` or
return. The loops (`pre_order_norec`, `in_order_norec`, `post_order_norec`, `level_order`,
`search_min`, `search_max`) are steps like those of `BTree`, one for an iteration, over
the tree as any sequence of calls has left it: `walk` is the loop that runs, `at` its
`cur`, `stack` and `queue` what `stack.c` and `queue.c` keep, `out` what was given to
`todo`. A step of `BTree` happens only while no loop runs (`WalkSpec`).

`WalksAgree` has two parts. `RecursionAgrees`: each recursive traversal gives every
node once, in an order that is defined without recursion (`Before`; a node before what
is below it, or after), and `is_balance` compares the true heights at every node.
`LoopsAgree`: at every moment a loop with a stack has given the beginning of what the
recursive traversal gives, and all of it when it ends; `level_order` gives every
node, level by level and in one from the left to the right; `search_min` and
`search_max` end at the first and the last node in order. In post-order the loop
meets a node of the stack twice, and only `tmp` tells from which side it comes.

**Lighttpd.** `pc` is the phase of the loop, and `pc = "machine"` the inside of
`connection_state_machine` on `run.con`, from which `run.ret` returns. One round of
the machine's loop is one step; so is one index of the timeout loop, one entry of
the queue for descriptors, one event, one job. `ptr` and `used` are the array of
connections, so that closing one while the timeout loop runs has the code's
effect on the next index. Clients and backends move while the server polls,
signals arrive at the top of the loop: in between the server only computes, and
what happens to a socket meanwhile is seen as if it had happened at the next poll.
`Rough` clients may stop reading, reset, or be throttled; requests of `Dynamic`
ones may find no file, fail, or go to a backend that answers in pieces, breaks off,
or has no descriptor. Data:

- a header or a body is one token; the parser's verdict is part of the token;
- the write queue has 0 to 2 parts, an answer that is being throttled is held back
  once;
- whether an answer has a body, and whether its length is known, is chosen when its
  header is written; an answer without one (204, 205, 304) is finished although its
  backend may go on;
- a traffic limit that is reached stays when the request ends, so that the next one
  on the connection object, whoever owns it, begins held back;
- the marks for listening (9, 8 and 9 tenths in `server.c:1378-1392`) are constants, so that
  a small instance has room between them; `CapAssumption` is the cap of
  `server.c:913-923` on the number of connections;
- a time stamp is an age up to the first second that counts as expired, and one
  constant `Idle` stands for the idle, keep-alive, read, write and lingering limits;
- `MaxRetries` bounds how often a request may wait for a descriptor, and
  `MaxFcntlFailures` how often `fcntl` fails in `connection_accept`.

**FastCgi.** The loop around the plugin is `Lighttpd`'s, reduced to the phases that
call it: the trigger once a second, the queue for descriptors, events, job list.
A handler is cut where it looks at or changes what a process does, and
`fcgi_restart_dead_procs` into one step per process; between these steps a process
may die, nothing else moves. `sock` is the socket to the backend as the kernel has
it, `pid` a process as the kernel has it. `extra` is a ghost: it counts the
processes that a respawn counted in `active_procs` although they still were.
`orphan` is the set of processes whose address is a listening socket that only lighttpd
holds: `fcgi_spawn_connection` leaves it open when the child ends within 100 ms (1129),
and the next try connects to it and takes the process for a running one. A backend
answers, reads or drops a connection as it likes, or never does; a socket whose
backend does not read is "full".
A host is either spawned by lighttpd (`Spawning`) or remote; either over TCP, where
a connect may be in progress, or a unix socket, where it succeeds or fails at once.

## 3. Runs and bounds

| run | question | instance | distinct states |
|---|---|---|---|
| `pool` | all of the pool, safety, refinement, liveness | 3 workers, 3 jobs | 45 117 |
| `uphttpd` | server, pool, SIGINT anywhere in the main thread | 2 workers, 2 connections, one of them slow | 228 558 |
| `uphttpd_sigint_deadlock` | does `pool_destroy` return when called by the handler? No | 1 worker, 1 connection | to the first violation |
| `cgi` | concurrent CGI requests | 2 workers, 3 programs with 0, 1 and 1 or 2 blocks, capacity 1 | 100 385 |
| `fork` | accept/fork loop | 4 connections, 3 processes | 6 296 |
| `header` | every request and every split of it | 4 tokens of buffer, requests up to 7 tokens, whole or broken off | 179 880 |
| `shm` | the pipe with kills | 2 readers, 2 blocks, 2 kills | 150 087 |
| `dbuf` | double buffering | 2 signals | 27 786 |
| `btree` | the tree and all its functions | 6 nodes, two of one value | 268 016 |
| `lighttpd` | loop and connections: safety | 2 connections, 4 descriptors; a dynamic client in trouble that pipelines a POST and a GET, a plain one with an oversized header | 3 186 522 |
| `lighttpd_live` | the same: liveness | 2 clients, 2 connections, 5 descriptors, one `fcntl` that may fail; listening stops at 2 connections or above 2 descriptors, and begins at 0 and below 2 | 249 368 |
| `fastcgi` | requests over hosts and processes: safety, liveness | 2 requests, a spawned and a remote host of one process each, 1 descriptor, 2 reconnects, 1 death | 354 790 |

Why this is enough:

- *pool*: the races are between one context that submits or destroys and workers
  at different points. Two workers suffice for a signal that reaches the wrong
  one, a third to sleep meanwhile. Three jobs leave one in the list while
  another is linked and a third runs. The proofs below remove the bound.
- *uphttpd*: one worker may be held by the slow client while the other serves;
  every place of the main thread is met by SIGINT.
- *cgi*: two workers reap each other's children, and a third program starts while
  a worker still has an earlier descriptor open.
- *fork*: three children, one above what one pending and one handled signal can
  stand for; the fourth connection meets the limit of processes.
- *header*: a blank line may lie within, before, across or after every boundary
  between two reads and the boundary of the buffer; a request may break off anywhere.
- *shm*: two kills hit a writer and the one that replaces it, or a writer and a
  reader; the second reader competes with the first.
- *dbuf*: two signals, one in a call and one in the next; the controller goes
  round for ever.
- *btree*: with five different values there are nodes to delete whose replacement
  is their child, and whose replacement is further down and has a child itself;
  the sixth node is a duplicate, to be refused. Five nodes in the tree have every
  shape in which a loop turns to a right subtree with and without a left one, and
  comes back from it through one node or several.
- *lighttpd*: two connections are what a swap in the array, a full server and a
  queue for descriptors need; four descriptors leave one for a backend when both
  connections are open, and none under the reserve. Two requests on one
  connection are what pipelining, keep-alive and a stamp of an earlier request
  need (`MaxKeepAlive = 1` ends the third). `Idle = 0` makes a timer expire at the
  second tick; longer ones add states and no order of events. One retry is one
  more than none. The proofs below remove these bounds for safety.
- *lighttpd_live*: a client in every kind of trouble with a request for a backend or a
  bad one, and one that connects and says nothing; the same timers, and signals at
  any time. One connection and its backend stop the listening sockets by the mark for
  descriptors alone; two connections reach both marks (three would be needed to reach
  the one for connections alone). With one connection left the server is between the
  mark where it stopped and the one where it starts: it waits there without
  listening, and must not stay there. Descriptors suffice for every connection and
  one backend, as the cap on connections makes sure.
- *fastcgi*: two requests compete for one descriptor, so that one waits in the queue
  while the other's process fails; they meet on one process, or are shared out.
  Two reconnects use up the limit and leave a first attempt that may succeed.
  One death at any step kills a process before, within and after an answer, and each
  attempt to start it again may fail, with and without a socket left behind. The
  proofs remove the bounds for the two invariants.

`CHECK_DEADLOCK FALSE` is set where a program may stop or wait for ever by its own
design: `uphttpd` and its violation after the server ended, `cgi` when all requests
are done or a program that writes more than the buffer takes blocks, `header` once
the child has answered or waits for a client that says nothing, `shm` when the
input has ended and a reader waits for a writer that no longer runs, `lighttpd` and
`lighttpd_live` after the server stopped, `fastcgi` when the bounded requests are
done and nothing waits.

What the properties say is in the comment above each of them. The central ones:

- `NoWorkerSleepsOnWork`, `SubmittedJobsRun`: no signal of `pool_add_worker` is lost.
- `OneStragglerAtMost`: once `shutdown` is set at most one more job starts.
- `NoUseAfterFree`, `NoFault`: what `pool_destroy` and the handler free is not used
  any more, `NoFault` for a SIGINT at the two places where the server spends its
  time.
- `HeldDescriptorsOpen`, `LeaksExplained`: descriptors are closed by the one that
  has them; two ways to lose one exist (a failed read, a queue thrown away).
- `OneChildPerWait`, `StatusesConserved`, `NothingTruncated`: workers that reap each
  other's children still come out even. A status may go to the wrong request; it
  is never lost.
- `ZombiesAccounted`: an equation between zombies and signals. It explains the
  zombies that stay and shows that the handler's `wait` never blocks.
- `BufferExclusive`, `OutputInOrder`: hold whoever is killed, and also between the
  objects of a killed writer and those of its successor; `AllArrives` and `BothEnd`
  hold unless there was an accident.
- `FlickerFree`, `IrqOnlyWhileNeeded`, `PanReturns`: each names the accidents it
  excludes, and fails without them.
- `ImplementsOrderedSet`, `WalksAgree`, `Linked`: see `BTree` and `BTreeWalks` above.
- `SearchExplained`: the reader of requests searches a buffer that
  holds the rests of earlier reads and no NUL. It loses the end of a header only
  where a read splits the blank line, and answers without one only because of a
  longer read before.
- `RequestsServed`, `SigintEnds`: the server serves and ends, unless each worker, or one
  that is joined, is blocked for ever by a client or a CGI program; one that is
  blocked for a while only delays it.
- `DescriptorsAccounted`: the array holds every object once, those in use are the
  accepted peers, `cur_fds` and `want_fds` count what they say, through every swap,
  close, abort and retry.
- `NobodyForgotten`: when lighttpd sleeps, each connection has something that will
  wake it: an event it asked for, its backend, its place in a queue, or a timeout
  for what is throttled. It would be violated by a handler that changes a state
  and does not run the machine, which a test sees only as a request that hangs.
- `AnsweredInOrder`: a pipelined request is not answered early, twice, or instead of
  another, and a body is not taken for a request.
- `WriteTimerFresh`: `write_request_ts` is never cleared, and yet no answer is cut off
  by the stamp of an earlier one.
- `ConnectionsEnd`, `SocketsComeBack`, `GracefulEnds`: whatever the peer does, all but
  for the connections that a failed `fcntl` leaves behind; for `SocketsComeBack` only
  if these alone keep the server above a lower mark.
- `LoadsAgree`: the loads of processes and hosts are the requests assigned to them,
  after any number of failed connects, reconnects and resets.
- `ActiveProcsExplained`: `active_procs` is the number of running processes, plus
  those a respawn counted twice.
- `RequestsAnswered`: no request waits for ever on mod_fastcgi, whichever of the three
  places retries it, but for one that has been sent to a process that stays silent,
  or one that needs a descriptor when such requests have them all. An error page
  counts as an answer.

Every property is checked with a mutant: a definition of the module with a
plausible mistake, which makes the same run fail. The mutants stand in the modules
before what they change.

## 4. Fairness

- *ThreadPool*: weak fairness for each thread, its share of the mutex included:
  POSIX threads are scheduled and a mutex that is free is given to somebody. Jobs
  end. No fairness for spurious wakeups or for new submissions.
- *UpHttpd*: the same for workers and the handler; strong fairness for the main
  thread, since workers that wake spuriously take the mutex again and again, and
  the main thread would otherwise be allowed to lose every time. Clients owe
  nothing: `Slow` ones may be silent or not read, a CGI program may run for ever, and
  SIGINT need not come. The exceptions of the properties are of the form `[]Blocked`:
  a worker that is blocked and released again is none.
- *Cgi*: weak fairness of workers and of programs; a blocked one is not enabled.
- *ForkServer*: strong fairness of the parent, whose steps signals interrupt again
  and again; weak fairness of the delivery, the handler and the children. A child
  ends: it serves one request.
- *ShmPipe*: weak fairness of both programs, which includes that they are started
  again after a kill; kills are bounded by `MaxCrashes`.
- *DoubleBuffer*: weak fairness of the application, of the handler and of the
  controller, each as a whole. Signals are never owed.
- *Lighttpd*: weak fairness of the server as a whole, which is one thread and polls
  with a timeout of one second, so that the clock goes on even when nothing
  happens. Strong fairness of each backend's answer: a backend can move only while
  the server polls. Clients and signals owe nothing: `ConnectionsEnd` holds for
  clients that fall silent at any point.
- *FastCgi*: weak fairness of the server, and strong fairness of the kernel's side of a
  connect that is in progress: TCP ends it one way or the other. Processes owe
  nothing: they need not start, answer or read. Nor need seconds pass.
- *BTree*: safety only, no fairness.

## 5. Proofs

TLAPS checks about 16 500 obligations in eight modules. Nothing is assumed but the named
assumptions on the constants: `MaxThreadNumAssumption`, `OwnerAssumption` and
`DisjointAssumption` in `ThreadPool`, `PoolSizeAssumption` and `ContextsAssumption` in
`UpHttpd`, `SizesAssumption` and `NamesAssumption` in `Cgi`, `MaxProcsAssumption` in
`ForkServer`, `SizeAssumption` and
`RequestsAssumption` in `HeaderReader`, `BlocksAssumption` and `MaxCrashesAssumption`
in `ShmPipe`, `MaxSignalsAssumption` in `DoubleBuffer`, `BTreeAssumption` and `CmpAssumption` in `BTree`,
`SizesAssumption`, `CapAssumption` and `ScriptsAssumption` in `Lighttpd`, `ConfigAssumption` in
`FastCgi`. They say that numbers are numbers, sets of objects finite, the main thread
not the handler, that the difference of two values in the tree fits the int that `cmp`
returns, what a configuration must be (each process belongs to one host, a
client that connects has something to send), and, in `ScriptsAssumption`, what the
token "body" stands for: the bytes a POST announces, so that it follows one, and only
it.

**ThreadPoolProofs**, for every number of workers, clients and jobs. None of the
properties is inductive. `Inv` has four parts: `TypeInv` (types, and who has a node
in its hands), `Lifecycle` (who can be where while the pool is created, used and
destroyed: threads leave only after the flag is set, and the owner frees the pool
only when all have left), `Mutex` (`queue_lock` has one holder), `Counting` (the
counter equals the length of the list, but for the holder of the mutex between
its two steps). The lemmas show that each part is kept, with one step per action;
`NoAssertionFails` and `FreedPoolIsUnused` follow from `Counting` and `Lifecycle`,
and `Stragglers`, an action property, from `Mutex`: a worker that saw the flag
unset still holds the mutex when it takes its job.

`NoLostWakeup` (`NoWorkerSleepsOnWork`) is inductive once `Inv` is known; the proof
counts. A counted job brings the signal of its client with it, a signal makes a
sleeper awake, a worker falls asleep only after it saw the empty list with the mutex
in its hand, and one that stops being awake has taken a job out of the list.

`Refinement`: `ThreadPool` implements `JobPool`. On top of `Inv` the proof needs
`Exclusive`, proved as `OnePlacePerJob`: a job is unused, in one client's hand, at
one place of the list, in one worker's hand, done or dropped. Then `WorkerPop` is a
`Start`, `AddAppend` a `Submit`, the end of a job a `Finish`, the flag a `Close`, the
release a `Vanish`, and every other step changes nothing `JobPool` sees.

**UpHttpdProofs**, for any number of workers and connections and a SIGINT anywhere:
`DescriptorsInUse`, `Leaks`, `QuietSignal`, and `PoolKeepsPromise`, which says that the
pool inside the server still implements `JobPool`. The proofs about `ThreadPool`
cannot be used: there nobody calls the pool once its destruction has begun, here
the handler destroys it under a main thread that may be inside `pool_add_worker`.
The invariant is a new one and says nothing of the mutex. `Control` ties the places
of the main thread, the handler and the threads to each other; its part
`Interrupted` is what `QuietSignal` rests on: after a signal at the test of the loop
or in `select` the main thread has only ways out that touch nothing. `OnePlace`,
`NoneLost` and `Descriptors` follow each connection and its descriptor from hand to
hand.

About `Cgi`, for any number of workers and requests, any programs and any size of the
socket buffer: `ChildrenAreReaped`, `StatusesAreConserved`, `RepliesAreWhole`. The first
two are equations between sets that each step changes by one element: `fork` adds a
child and a worker that will wait, `wait` takes away one of each, whichever child it
was, and hands a failure on to the worker, whose status line takes it over. What makes
them inductive is where a request stands (`Owners`, `Stages`): it has one worker, whose
place in `cgi_handler` says whether there is a child and a status line yet. The third
rests on `Writers`: a running child holds its own write end, whatever others inherited,
so at the end of file it has ended and written everything. `Finite` replaces an
assumption: the counted sets are empty at first and grow by one element.

**HttpServerProofs.** About `ForkServer`, for any number of connections and processes:
`ZombiesHaveSignals` proves the equation between zombies and signals, and
`HandlerNeverBlocks` that the handler's `wait` always finds a child. The equation
alone is not inductive: a new child must not be a zombie already (`NoChildYet`),
and counting needs the zombies to be finite. About `HeaderReader`, for every size of
buffer and every request: `TypeCorrect` and `SearchIsExplained`.
The buffer is an overlay of the reads: `LoopInv` says that up to the length of the last
read it holds what that read returned, and behind it what a longer one left, up to
the NUL of the first read as long as no read was longer.

**ShmPipeProofs**, for any number of readers, blocks and kills: `Exclusion` and
`BlocksInOrder`. The first rests on `OneToken`: over all generations of the two
semaphores there is one token in the world at most, in a semaphore or in a process's
hands. A kill may destroy it; a new one is made only together with a new
`SEM_WRITE`, and the names are removed in an order that leaves no old token when
that happens. The second rests on `Ordered`: only the memory that has a name can
hold a block, and a token in `SEM_READ` stands for a block that nobody has written
out. `Made`, `Named` and `Opened` say which objects a process has in its hands.

**DoubleBufferProofs**, for any number of signals and any order of application, handler
and controller: `NoFlicker` and `IrqIsDisabledAgain`. `Addresses` says which buffer the
registers hold, `Interrupts` that an interrupt that happened is enabled or just being
cleared, so that nothing is pending when a call enables it, but what an earlier wait
left. `Wakeups` is what the driver relies on: without a mishap the condition is true in
the wait, or the interrupt pending, only outside of a transfer.

**BTreeProofs**, for every set of nodes, all values and every sequence of calls:
`TypeCorrect`, `LinksAgree` (the links agree in both directions, and a node outside of
the tree has none), `NoCycle`, `SortedTree` and `Refinement`, that the tree implements
`OrderedSet`. `Linked` is not inductive: in `del_node` the node found must not be the
deleted one, and no property of a node and its neighbours excludes that. `Grown`
does: there is a rank that grows from every parent to its child, up to a bound.
Insertion gives the new node the rank of its parent plus one, and a replacement takes
over the rank of the node it replaces. `Cursors` says what the loops know when they end.

The order is a second invariant, `OrderInv`, on top of the first. It speaks of
`below`, the nodes at and below a node: those whose parents lead to it (`Reached`), in
the root's case all that are in the tree (`Whole`), on the left of a node the smaller
ones and on the right the greater ones (`Sorted`). The loops are in it too: an equal of
the node that `build_tree` or `search` looks for is never where the loop has passed
(`Looking`), the place `build_tree` has come to is on the side of every node above it
where its node belongs (`Placing`), and what is left of the deleted node is below
the cursor of `del_node` or smaller (`Replacing`). Without the last one the exchange
in `del_node` could not be shown to keep the order.

`below` is a recursive function, so it has to be shown that its equation has a
solution and only one. The invariant says that it has one. That there is no other is
`OneSolution`: where two solutions differ there is a deepest node at which they differ
(`Deepest`, from the bounded rank and the library's proof that `<` on the naturals is
well-founded), and there they agree on the children. So a step is shown by writing
down what `below` is after it, and proving this of that function. `Deepest` also gives
`Nested` and `Apart` (two subtrees are one within the other or have nothing in common)
and `LinksOrder`: the deepest node above two nodes is where they part, so that the order
of the links is that of `cmp`. Each action has a lemma for the links and one for the
order; `TakeStep` and `TakeOrder`, the exchange in `del_node`, are the longest.

About the functions that read the tree: `WalksOnlyRead` (what runs is still `BTree`, so
that the invariants above hold), `RecursionAgreement` and `WalksAgreement`. A recursive
function is at first only a `CHOOSE`, and nothing is known of its value. `Ranks` derives
from `Grown` bounded ranks that decrease towards the leaves and towards the root, and
`Recursion` that along such a rank a function with the given equation exists: there is
one that satisfies it up to every rank, by the least one where there is none. So
`InOrderDefined` and its like hold, and `TreeInduction`, with a set of nodes in place of
a predicate, gives what they list. `LevelsBelow` and `HeightGrows` do the same for
`level` and `Height`, the measures `level_order` and `is_balance` are compared with.

The loops have an invariant of their own, `WalkInv`, which was checked with TLC on the
instance of section 3 before it was proved. `LoopsAgree` is not inductive, for it
says nothing of the stack. `WalkInv` says what is still to be given: what is at and
below the cursor, and with each node of the stack what it waits with (`PreTodo`,
`InTodo`, `PostTodo`, `LevelTodo`); that this and what has been given are the tree, and
the latter comes first (`Handed`); and how the stack lies in the tree, along left
children (`LeftPath`) or along children of either side (`Path`). Each iteration has a
lemma. In `PostVisitKeeps` the top of the stack may be given because `tmp` is its
right child or there is none; that `tmp` is not mistaken for the right child on the
way down is a part of `PostDescendKeeps`: what was given is not to be given again. In
`LevelVisitKeeps` the queue stays in order because its nodes' parents were given
before the head. `Beginning` then says that nodes given in order before all others
are the beginning of the one listing there is.

**LighttpdProofs**, for any clients, scripts, connections, limits and
timeouts: `Accounted`, `NobodyIsForgotten`, `TimersAreFresh`, all from one inductive
invariant, `Invariance`, and `AnswersInOrder` from a second one on top of it. The parts
of the first:

- `Shape`: what holds of one connection in each state. An answer that nobody goes on
  writing is finished; one with an empty queue is not; a state that has just been
  entered may write. Without it a round of the machine could stop in WRITE with
  nothing to wait for.
- `Core`: the array of connections is a permutation, those in use have different
  peers, and `cur_fds` is what they and their backends have open. The lemmas on
  a close and an accept do the counting once for the nine places that close.
- `Attended`: a connection in use rests in a state that something later ends, or is in
  the machine, or has an entry in the job list or the queue for descriptors. At
  poll the first two queues are empty or accounted for, and what is left is
  `NobodyForgotten`.
- `Fresh`: a connection in WRITE has a stamp no older than its answer.

`Turn` is the lemma on one round of the machine, with one case per state; each
phase of the loop has a lemma on top of it. TLC also checked the invariants on the
instances of section 3.

`AnswersInOrder` (`AnsweredInOrder`) needs to know what the read queue is. `Track` says
it of a connection and its peer: the queue is the end of what was read of the peer's
script; the script has as many requests before the queue as the connection counted;
between two requests what follows is a request and no body; and the answers sent are
as many as the requests counted, or one less while one is at hand. A request with a
body is where it may go wrong: a body that cannot be taken from the queue gives up
`keep_alive`, and `Served` asks for a place to go on only of a connection that is kept.
The lemmas on `Requests`, the count of requests in a prefix, replace an induction: a
step reads or takes one token. `Carries` names what a step must leave alone that has
nothing to do with the order; four kinds of steps do more, those that read, parse,
end an answer or begin the next request. `ClearedInv` carries a closed connection's
empty queue to its next accept, and `AnsweredInv` says that no event finds an answer
that is finished and not yet counted off, which rests on `NobodyForgotten`.

**FastCgiProofs**, for any requests, hosts, processes and bounds: `LoadsCount` and
`ActiveProcsCount`. `RequestInv` says where a request stands in its assignment: it has
the load of a process exactly in WRITE and READ, and that process belongs to its
host. `LoopInv` says that a handler that is to reconnect or give up has a host to
take the load from, `ConInv` that a connection that is idle or new has nothing at
the plugin, and `ProcInv` carries the count of running processes. One lemma counts:
two sets that differ in one element.

Only model-checked: all liveness (`SubmittedJobsRun`, `DestroyReturns`,
`RequestsServed`, `SigintEnds`, `CgiServed`, `ConnectionsServed`, `AllArrives`, `BothEnd`,
`PanReturns`, `ConnectionsEnd`, `SocketsComeBack`, `GracefulEnds`, `RequestsAnswered`).
Liveness under fairness is out of the prover's reach. Every other property that a
passing run checks is a theorem.

## 6. Disagreements found

Shown by a run that expects a violation: SIGINT that interrupts the main thread
inside `pool_add_worker` finds it with `queue_lock`, and the handler joins workers
that wait for it (`U/uphttpd.c:88`, against the comment at `U/thread_pool.c:124`).
`uphttpd_sigint_deadlock`.

Met on the way, without a run of their own:

- `U/thread_pool.c:119`: `pool_destroy` writes `shutdown` and broadcasts without the
  mutex. Both may fall between a worker's test and its `pthread_cond_wait`: the
  worker sleeps for ever and the join never returns, though the comments at 121 and
  124 say that all are woken and joined. `DestroyReturns` names this as the only way.
- `http_server/server.c:81`: one `wait` per SIGCHLD delivered, and signals merge:
  zombies stay until `fork` fails, against the comment at 264. `ZombiesAccounted`
  says how many.
- `http_server/server.c:226`: the comment says that the child gives up when the last read
  failed. The check comes after the loop at 224, which ends only at a blank line, and a
  failed read brings none: the child reads for ever (`Reread` and `RereadNothing` of
  `HeaderReader`; `SearchExplained` is about what was read, not about this end).
- `L/mod_fastcgi.c:1129`: `fcgi_spawn_connection` leaves its listening socket open when
  the child ends within 100 ms (`orphan` in the model). The next try to start the
  process connects to it (949), finds the address in use and marks the process running
  (1150), which the comment at 92 calls alive. Connects succeed from then on,
  requests are written into a socket that nobody reads, and nothing ends the wait:
  `RequestsAnswered` excepts it as it excepts a backend that is silent.
- `U/thread_pool.c:112`: a job may still start after `shutdown` was set, one at most.
- `http_server/server.c:225`: each read starts at the beginning of the buffer. A blank line
  split between two reads is not seen, and the rest of an earlier read may
  complete a blank line nobody sent (`SearchExplained`). At the
  end of the stream the child reads for ever, as after a failed read.
- `29doublebuff/.../test.c:231-233`: the condition is reset after the interrupt
  was enabled. A handler that comes in between is undone and has disabled the
  interrupt: the ioctl sleeps until a signal comes. Likewise a handler of an
  earlier frame that is still running may disable what was just enabled. Hence
  the exception in `PanReturns`.
- `29doublebuff/.../test.c:235`: after a signal the addresses are changed in the
  middle of a transfer, which the comment at 227 wants to avoid.
- `L/connections.c:1351`: when `fcntl` fails in `connection_accept` the connection
  has its place and its descriptor already, and is neither served nor closed: it
  stays until the process ends, and a graceful shutdown waits for it. Hence `Stuck`
  in the three liveness properties.
- `L/server.c:1410`: a graceful shutdown that begins while the sockets are disabled
  leaves the listening socket open and the pid file in place; the comment there
  says that it is closed right away.
- `L/joblist.c:9`: `in_joblist` is tested and cleared but never set, so that a
  connection may stand in the job list several times. The state machine does not
  mind: the second run finds it at rest.
- `L/connections.c:782`: `connection_reset` does not clear `traffic_limit_reached`, nor does
  anything else but `server.c:1347`: the next answer, even that of another client, may
  wait for the next second although it has used nothing of its limit.
- `L/server.c:1358`: a connection that times out may be closed there, and the loop then
  skips the one `connection_del` moved into its place, until the next second.
- `L/mod_fastcgi.c:3291-3302`: a process that dies in the middle of an answer is
  replaced although it still counts as running, and `active_procs` counts it twice,
  against the comment at 127 (`extra` in `ActiveProcsExplained`). A failed respawn
  leaves a process DIED that was counted.
- `L/mod_fastcgi.c:2863`: an entry left in the queue for descriptors runs a request
  whose connect is still in progress; `SO_ERROR` is 0 then, the connect passes for
  done, and a failure that would have been retried becomes an error page.
- `L/mod_fastcgi.c:3317`: the branch that reconnects when nothing was written is dead,
  since a request in it has always written something.
- `U/up_conf.c:63` stores the log path given by option f in `conf_file`.
- `03btree/btree.c:366`: `__depth` returns no value for an empty subtree;
  `level_order` hands NULL to `todo` when the tree is empty; `del_node` on a node
  that `build_tree` refused empties the tree.

## 7. What is not modelled

- *lighttpd, in the modelled parts*: SSL, `poll` errors without a hangup, SIGHUP and
  the cycling of logs, OPTIONS, start and end of the process, `EINTR` of a read (the
  read is tried again at the next event, as after `EAGAIN`), what a header or an
  answer contains. In mod_fastcgi: the records of the protocol, a request record
  that cannot be built, authorizers, X-Sendfile, the list `unused_procs` (which
  nothing fills), and the branches on hangup and error (3377-3415). What ends a socket
  makes it readable and writable, too, and the branches on those events come first and
  return. One case does not: when `fcgi_demux_response` returns 0 (3237) the handler goes
  on to the hangup, which on Linux would need data and a full hangup of a TCP socket
  in one poll.
- *lighttpd, other plugins*: `mod_scgi.c` is a copy of `mod_fastcgi.c` with another
  protocol, `mod_proxy.c` and `mod_cgi.c` are simpler clients of the same loop;
  rewriting, redirection, authentication, webdav and the rest are functions of a
  request.
- *lighttpd, configuration, buffers, event back ends*: a generated parser
  (`configparser.c`, `lemon.c`), containers, and one interface to `poll`, `epoll` and
  so on, of which the models use what it promises.
- *up_conf.c, up_log.c, http_server's modules*: formats and text.
- *Worker list of uphttpd* (`worker_add`, `client_handler`, `server_run`): dead code
  in this version.
- *What a response contains*: `up_sendfile`, `handle_get`, `my_send_file` are one
  step that answers.
- *3http_V01 to V03, http_old, select_tcp*: earlier stages of uphttpd.
- *select_udp*: users register and are announced; chat and list only print.
- *28fb_drv_wait, 22i2c_client_workqueue, 23ts_input_drv*: the logic is in the
  kernel's wait queues and work queues; the hazard at `ldm_remove` is listed.
- *Other drivers, bare metal*: settings of registers.
- *Fonts, pictures, vendored plugins, headers of registers*: most of the lines of the
  repository, with nothing that changes state. A map of a third of all lines is out
  of reach for that reason.
- *Hazards without a property*: SIGINT before `pool_init` (`U/uphttpd.c:105`, the
  handler destroys a pool that is not there) and a second SIGINT (441, the models
  have one); `__depth` of an empty tree (`btree.c:366`, no value is returned) and the
  deletion of a node `build_tree` refused (139, it empties the tree): the model's
  client calls neither; work scheduled by the last interrupt before remove
  (`23ts_input_drv/01ft5206_drv_single/test.c:166`); short writes in
  `05shm/read.c`, which are excepted as `harm`.
- *01c_datastruct but 03btree*: sequential exercises. Lists, stack and queue appear
  as the sequences they keep.
- *In 03btree*: `depth` (above), and the destruction, which frees nothing. `cmp` of the
  client subtracts ints (`main.c:17`); values further apart than an int is wide are
  excluded by `CmpAssumption` (those of `main.c` are 6 to 90).
- *Waiting for descriptors in lighttpd*: two connections that wait while others keep all
  descriptors could starve each other. The cap of `server.c:913-923` on connections
  (`CapAssumption`) leaves half of the descriptors to the rest of the server; the
  liveness run has room for what waits.
- *In 29doublebuff*: module init and exit, blanking, colours. `TypeOK` of
  `DoubleBuffer` documents its variables.

## 8. Plan

Order of the work, the most important first: pool and its promise; server around
it; CGI; forking server and its reader; shared memory; double buffering; the tree;
lighttpd's loop and connections; mod_fastcgi. All of these are modelled and
checked. What is left:

1. More of lighttpd: `mod_cgi` and `mod_proxy` as further backends of the same loop,
   `stat_cache` (an entry that is stale when it is used), the chunk queue with its
   temporary files.
2. `FastCgi` on top of `Lighttpd`, by a refinement that maps the plugin's states to
   `backend`.
