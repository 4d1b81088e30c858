# Verification of op_sys

Four exercises of an operating-systems course, written in C for Windows, live in this
repository (its own README says no more than "# op_sys / # hi"). This directory holds
TLA+ models of them, the TLC runs that check the models on small instances, and proofs
that TLAPS checks for every instance.

## 1. Inventory

| Component | Source | State | Operations | What is hard |
|---|---|---|---|---|
| Ex1 Father | `src/Ex1/Ex1/Father/main.c` | offset into the message, exit code of the last Son | check the arguments and the two lengths, run a Son for every 16 bytes, stop at the first that fails | a process per block, an output file that only grows, partial failure |
| Ex1 Son | `src/Ex1/Ex1/Son/main.c` | none; one block, the key | read 16 bytes at the offset, read the key, XOR, append | opens that fail, appending |
| Ex2 grades | `src/Ex2/Ex2/main.c` | pool of 10 thread handles, one record per school | start a thread per school, recycle the slot of a thread that has ended, wait for the rest, read four files in step, write the weighted grades | pool at its limit, join order, errors of threads, clean-up of half-opened files |
| Ex3 tables | `src/Ex3_314962945_315786418/main.c` | page table, frame table, frame queue, its counter, output file | place, extend, evict, queue, unqueue | two tables and a counter that must agree, reuse of a queued frame |
| Ex3 simulator | the same file | simulated clock, row index, thread queue, mutex, main semaphore, a semaphore per row | one thread per row, a tick of the main thread, wake-up of waiting threads, join, clean-up | hand-over of control between threads without holding the mutex, turning the clock back, failures half way |
| Ex4 server | `src/Ex4_314962945_315786418/server/server_main.c` | three slots for clients, of whom two play, a list of messages per slot with a semaphore and a mutex, versus flags, the game | accept, receive, answer, send, time out, leave, shut down | three threads per client and two clients that share the game, time-outs that race answers, messages in flight at a disconnect |
| Ex4 client | `src/Ex4_314962945_315786418/client/client_main.c` | connection, state of the dialogue, list of messages to send | connect, receive, ask the user, send, reconnect, leave | two threads and a main loop over one socket, hand-written clean-up |
| Ex4 transport | `src/Ex4_314962945_315786418/share/SocketSendRecvTools.c` | bytes left to send or receive | send or receive a length and then that many bytes | partial sends and receives |

The components of one exercise interact through shared memory (Ex2, Ex3, both sides of
Ex4), through processes and files (Ex1) and through a TCP connection (Ex4).

What makes each of them correct:

* Ex1: the output is the blocks of the message in order, and success means all of them.
* Ex2: main can wait for every thread that runs, no school is cut off half way, and the
  result file holds the weighted grades of the rows.
* Ex3 tables: page table, frame table, frame queue and its counter describe one state,
  no frame is lost, and the output file tells the same story.
* Ex3 simulator: threads that share everything take turns without a race or a lost
  wake-up, waiting threads are served in order, and the program ends.
* Ex4 transport and send queue: each message arrives whole, once and in order, and none
  stays behind while the connection holds.
* Ex4 server: a client that comes gets a slot of its own while there is room, no socket is closed under
  its client, each client hears first whether it is let in,
  every request is answered, and the dialogue of the players never stops.
* Ex4 client: it answers every question of the server once and in order, takes from its
  lists only what is there, and ends with all its threads when it is told to.

## 2. Plan

The order follows what is hardest to test: first the threads of Ex3, whose simulated
clock hides how they interleave, then the server of Ex4, then the thread pool and the
file reader of Ex2, and last the processes of Ex1.

| Modules | Composed of | State |
|---|---|---|
| `PageTables`, `PagingSim`, `PagingProps` | the tables of Ex3 inside its threads | done, with proofs |
| `SevenBoom`, `GameServer`, `GameServerProps` | the rule inside the dialogue of the server with its clients; a message is posted in one step, as `SendQueue` justifies | done, with proofs |
| `Mailbox`, `SendQueue` | the abstract way to a client; mutex, semaphore and list implement it | done, with proofs |
| `Transport`, `Delivery` | the threads of `SendQueue` send and a client receives over a byte stream: the composition implements `Mailbox` from end to end | done, with proofs |
| `Acceptor` | `socket_thread` and the reuse of a slot whose sender is still there | done, with proofs |
| `SchoolPool`, `GradeReader` | the pool, and what one of its threads does | done, with proofs |
| `Encryption` | Father, Sons and the output file | done, with proofs |
| `Player`, `ClientSession`, `ClientProps` | what the server expects of a client; the threads of the client, its time-outs, reconnecting and the hand-written clean-up implement it | done, with proofs |
| `PagingService` | what Ex3 does for the rows of its input, without threads; `PagingSim` implements it | done, with proofs |

Conventions of all modules: variables, constants and operators carry the names of the
code where they have one. Definitions whose names contain an underscore and end in a
capitalised word (`ReleaseHead_NotWoken`, `after_send_Whole`) are variants with a
plausible mistake in them. No specification uses them; each shows that some property
would notice the mistake. Every constant that is a bound and not a number of the code
says so where it is declared. MC modules give the constants their values.

## 3. The paging simulator (Ex3)

### What the program does

The input file has one row per request: a start time, a page and a work time. The main
thread (`run_pages`) keeps a simulated clock. When the clock reaches the start time of
the next row it starts a thread for it (`page_thread`) and waits on `g_main_semapore`
until that thread has placed its page, extended its use, or queued itself as waiting for
a frame. Once per tick main takes the mutex, puts the frames whose use ends in this tick
into the frame queue, and hands the mutex to the waiting threads one at a time
(`release_waiting_threads`). A row whose start time is one tick behind the clock, that
is a row with the start time of the row before it, turns the clock back by one.

### Modules

| Module | Models |
|---|---|
| `PageTables` | the two tables, the frame queue with its counter, the output file; one operator per function that changes them |
| `PagingSim` | the threads: every action is the code between two points where another thread can act (a wait, a release, a lock, a loop round) |
| `PagingService` | what all of that amounts to: rows that get a page at once or wait in line, frames that are promised until some time, and the clock; no threads |
| `PagingProps` | the properties, and how the state of the threads maps to `PagingService` |
| `MCPaging` | values of the constants for TLC |
| `PagingTables_proof`, `PagingRun_proof` | the proofs: hand-over, end of the program, tables and queues; the course of a run with the log and the refinement |

Variables carry the names of the globals and locals they stand for. The position of a
thread is `main_pc` or `thread_pc`:

| Position | Code |
|---|---|
| main `loop` | top of the `while` (210-225) |
| main `waitPlaced` | the wait for the new thread (229) |
| main `lock`, `scan`, `release` | the wait for the mutex (256), the scan (263-273), a round of `release_waiting_threads` |
| main `waitReleased`, `relock` | the two waits inside that round (916, 922) |
| main `join`, `findLast`, `print`, `cleanup`, `exited` | 293, the two loops of `print_remains_frames`, `free_resource`, the end |
| thread `enter`, `place`, `unlock`, `signal` | 365, 375-397, 398, 405 |
| thread `waitTurn`, `reenter`, `evict`, `resignal`, `reunlock` | 419, 426, 428-437, 438, 447 |

### The service

`PagingService` is the abstract specification. A row that starts is served at once by
the frame that holds its page or by an empty one, or starts to wait; the first row that
waits is served when its page has come meanwhile or when a frame is due; time passes only
while nobody waits or every frame is still promised. `PagingProps` maps the threads to
it: the line is the thread main has woken, if it has not changed the tables yet, followed
by the thread queue; a row is served from the change of the tables on; a frame's promise
is its `end_time`. `ImplementsService` says that every step of the threads is then a step
of the service or none. It holds for files in order (`StartGaps` of 0 and more) while no
call fails, and for work times above zero. Two weaknesses of the program are visible in the service and nowhere else in
one place: `Prolong` counts the work time of a row that waited from its call, so that it
may get less than it asked for, and `ServeFirst` may take a frame before its time once the
clock has been turned back.

### Abstractions

* The file is a sequence of rows chosen while it is read. `StartGaps` says how far the
  next start time may be from the last one; a blank line is a counted line that has no row.
* `ReleaseHead` is the semaphore release, the unlinking and the mutex release of one
  round: main holds the mutex until the last of them and the woken thread needs it, so
  nobody can act in between.
* The return of a thread follows its last signal or mutex release at once. Cleanup may in
  fact find it still on its way out; terminating it then changes nothing.
* `CallFails` stands for a failing `malloc`, write, `CreateThread` or join; `MaxFaults`
  bounds how many there are. Other failing waits and releases of valid handles are left
  out. The join always fails for more than `MaxWaitObjects` rows (64 in Windows).
* A time that would be read before it was written (`frame_number` of a page that was
  never placed) has a value that no initialised entry has; `TablesAgree` shows it is not used.
* `FirstStarts` holds natural numbers. An empty input file, page numbers outside the page
  table and negative start times are outside the model, as are work times below zero.

### Fairness

`FairSpec` asks weak fairness of main and of every thread, no more: Windows gives
runnable threads the processor, and a wait returns when its object is signalled. No
ordering is assumed between threads. `EveryRequestServed` needs nothing stronger because
a signalled semaphore has a single waiter and stays signalled until that waiter takes it.

### Runs

| Run | Instance | Shows |
|---|---|---|
| `paging_inorder` | 5 rows that may share start times, 3 pages, 2 frames, work 1-2 | the hand-over of control has no race and never over-signals; nobody is lost in the thread queue; together the threads implement `PagingService`, so that nobody is overtaken or kept waiting beside an idle frame; counter, queue and tables agree; no frame is lost; the output file alternates P and E per frame and tells what the tables hold; while all start times differ, no frame is queued twice or while in use |
| `paging_faults` | 3 rows in any order, work 0-2, one line may be blank, 2 pages, 1 frame, up to 2 faults, fair threads | tables that agree, mutual exclusion, a safe cleanup, an exit code that is right, with errors at any point; an end of the program and the service of every thread, up to a row with the work time 0 and to a thread that fails with the mutex |
| `paging_evict_busy` | as `paging_inorder`, 4 rows | violated, see the finding |

Why the bounds are enough: three pages on two frames is the least that makes threads
wait, find their page brought in by another thread, and re-use a page that is already
queued; five rows let two threads wait at once while a third request arrives. Works of 1
and 2 and gaps of 0 and 1 make uses end before, at and after the next request, and turn
the clock back. Two faults are one that starts an error path and one on that path. In `paging_faults`
a work time of 0 is among the choices; after such a row main may count ticks for ever, and
`ClockStops` ends the run at tick 9, when everyone who can be served is.
Deadlock is checked in every run but `paging_faults`, where main may wait for ever for a
thread that failed with the mutex: there `Termination` says that nothing else stops the
program. Pages are interchangeable in every property and in `Init`, so the runs without
liveness use symmetry over them.

### What the models show against the texts

`EvictsEndedFrameOnly` is violated: with two rows at one start time the clock is turned
back, the tick is scanned twice, and a frame whose use ends in it is queued twice. The
second entry outlives the placement of a new page in that frame, and a woken thread
evicts it although its use has not ended. The comment at line 425 promises otherwise.
While all start times differ the queue is exact (`QueueIsExact`).

Five more things follow from the model and are allowed for in the properties:

* a thread that waited and finds its page resident extends it by its work time from its
  call time (982): if the wait was longer, the page is given no time at all;
* a page thread that fails between its wait for the mutex and its signal (386) keeps the
  mutex and does not signal main, which waits without a time-out: `Termination` and
  `EveryRequestServed` hold up to such a failure;
* the work times are not checked, and one of 0 can make the program run for ever: with one
  frame and the rows (0, p0, 1), (1, p1, 0), (2, p2, 1) row 1 is woken in tick 1, after the scan
  of that tick, and ends its use in the same tick (982). No later scan looks for it (265),
  the frame is never queued again, row 2 sleeps and main counts ticks. `Termination` and
  `EveryRequestServed` end their claim when such a row starts (`EmptyUseStarted`), and
  `NoLostFrame` and `ImplementsService` are claimed for work times above zero;
* a line that `evicte_and_place` could not write (963) is missing from the output of a
  program that reports success: `SuccessIsComplete` and `LogMatchesTables` speak of the
  lines only while no call failed, `TablesAgree` holds all the same;
* a file with more than 64 rows always ends in an error, after all its work (293).

### Proofs

The second module builds on the first. Everything is proved for any numbers of rows,
frames and pages and any order of start times, from `TablesAssumption` and
`SimAssumption`, the conditions on the constants; three results have one more
hypothesis, named below.

**The hand-over** (first part of `PagingTables_proof`). `NoDataRace` alone is not inductive,
since it says nothing of the moments when a thread does run. `SyncInv` therefore names,
for every position of main, the only thread that may be running (`HandOver`): nobody
while main is at `loop`, `lock`, `scan`, `relock` after the mutex is free again, and so
on; exactly the row just spawned at `waitPlaced`; exactly the thread just unlinked at
`waitReleased`; and it adds how many signals of `g_main_semapore` are on their way,
that rows at or beyond `current_row_ind` have no thread, and that the thread queue has
exactly the sleepers that were not signalled. `NoDataRace`, `MutexProtectsTables`,
`ReleaseNeverFails`, `WaitersAreQueued` and `NoRowPastEnd` follow. `EndingInv` adds how
the program ends: a thread that failed leaves main at `waitPlaced` with nobody else at
work, main is past the join only with every thread done, and an error has a cause
(`ErrorReason`). `TerminatesOnlySleepers` follows.

**The tables** (its second part). `TablesInv`: the counter is
the length of the queue, end times are at least -1, the two tables point to each other,
queued frames were used, the clock is not negative, and a woken thread has a frame
counted for it. `TypeOK`, `EvictHasVictim` and `TablesAgree` follow.

**A run** (`PagingRun_proof`). These need what the clock has to do with the rows:

* `CallInv`: a row called at the present tick while its first visit lasts, and before it
  once main looks for the next row. `FreshInv`: main comes back to `loop` only with no row
  waiting or no frame queued; so a row that waits has called in this tick, or every queued
  frame ends in this tick or later. A waiting row that takes a page out of its queue thus
  sets an end time that is not before the tick.
* `ScanInv`: a frame whose use ended before this tick, or in it and behind the scan, is
  queued. A use given after the scan must end after the tick (`PlacedEndsLater`): it does
  when work times are above zero (`PositiveWork`), and this is the hypothesis of
  `NoLostFrameHolds`. The program does not look at the work times it reads. With a work time
  of 0 a row woken by the scan of a tick sets the end of its use to that tick, no later scan
  looks for it, and the frame never comes back: the hypothesis is needed.
* `ExactInv`: while the clock was never turned back each frame is queued once, with its use
  ended, and before this tick unless the scan has passed it. `QueueIsExact` follows, and
  `EvictsEndedWhileOrdered`: what the comment at line 425 says is true for such files.
* `LogInv`: while no call fails, the lines of each frame alternate between a placement and
  the eviction of the same page, a frame's last line is the placement of what it holds, and
  on the way out `frame_ind` separates the frames already written off from the others. The
  properties of the output speak of positions in it (`NextOfFrame`, `LastOfFrame`): two lines
  of one frame with none of that frame between them. `LogMatchesTables` and
  `SuccessIsComplete` follow; `SuccessIsComplete` takes the causes of an error from `EndingInv`.

**The refinement.** `ServiceImplemented`: every behaviour of the threads is one of
`PagingService`, for positive work times and while no call fails (`NoCallFails`, that
is `MaxFaults = 0`; the service has no errors). Unlike the run, the theorem is not limited to files in order: a row
that is late stops the program, and it stutters. The line of the service is the woken
row, of which there is at most one (`LineOfQueue`, `LineOfWoken`), before the thread queue; the rows
are those served and those in the line (`RowsAccounted`), which identifies the row that
starts as the next one. A step of main is a stutter but for `SpawnRow` with the clock turned
back (`SpawnRowServes`: `TurnInv` says that the row before called at the present tick, so the
service may turn back too) and for the tick (`TickServes`: `FreshInv` says that nobody waits or
no frame is queued, and then `ScanInv` that every frame is promised until later). The first
change of the tables in a thread's visit is the step of the service (`ThreadServes`):
`WaiterInv` says that a row that waits found no empty frame, and that there never is one again.

Out of the prover's reach are `Termination` and `EveryRequestServed`, which are liveness
under fairness; they are model-checked.

## 4. The game (Ex4): server, transport and client

### What the program does

`socket_thread` accepts connections. For each it takes the first free of three slots and
starts two threads: `recive_from_client_thread` reads what the client sends and answers
by putting messages into the lists of clients; `send_to_client_thread` takes messages
out of the list of its client and sends them. Two clients are players. Each asks for a
game; when both flags are set the thread that sees it starts the game, and from then on
the receiving thread of the player who moved judges the move, shows it to the other
player and passes the turn. A third client is denied. The versus flags and the game are
shared by the players' threads without a lock.

### Modules

Each part is modelled at the grain its hazards need.

| Module | Code | Grain |
|---|---|---|
| `Transport` | `SocketSendRecvTools.c` | one `send` or `recv` call, of any part of the buffer |
| `SendQueue` | `send_message_to_client`, `send_to_client_thread` | the waits for mutex and semaphore, the append, the send, the release |
| `Mailbox` | what the way to a client promises: in order, once, and a loss takes all that is left | abstract |
| `Delivery` | the sender of `SendQueue` calls `SendString` of `Transport` while it holds the mutex; the client receives; the receiving thread shuts the socket down when the client has left | steps of both |
| `Acceptor` | `socket_thread`, the start and the end of the threads of a slot | a message is an answer to a request; append and signal are one step, as are the send and the removal |
| `GameServer`, `SevenBoom` | `server_send_response`, `read_massage_from_client`, `seven_boom`, and `client_response` on the other side | posting a message is one step, justified by `SendQueue`; reading a flag, setting it, loading, storing and comparing the turn are steps of their own |
| `Player` | what the server expects of a client: the request first, each question answered once and in order | abstract |
| `ClientSession` | the client: main, its two threads, connecting, reconnecting, every path of `release_source` | the waits for mutex, semaphores, event and threads; what happens while the mutex is held is one step |
| `GameServerProps`, `ClientProps` | the properties of the dialogue and of the client | |
| `Delivery_proof`, `GameServer_proof`, `Acceptor_proof`, `Client_proof` | proofs about `SendQueue` and `Delivery`, `GameServer`, `Acceptor` and `ClientSession` | |

`InOrderOnce` (in `SendQueue`) says that the threads of the queue implement `Mailbox`, where a
message is delivered when it is handed to `send`; `ArrivesInOrder` (in `Delivery`) says it of
the whole way, where it is delivered when the client has received its last byte. The
clients inside `GameServer` are one per slot and behave like `Player`, and `IsAPlayer` (in `ClientProps`) says that
the threads of `ClientSession` implement it: so the dialogue is checked against a client
the code really is.

Correspondence of the state of `GameServer`: `recv_pc` is the place of the receiving
thread (`recv` in `ReceiveString`, `check` before line 444, `wait` 447, `load`, `store`,
`judge` 723-724, `view` after line 498, `reset` before 507); `todo` are the calls of
`send_message_to_client` it is still going to make before it goes on; `num` holds what
`seven_boom` has in registers; `send_pc` is `respond` while the sending thread waits for
the player's answer (329) and `gone` when it has returned. `client` is what a client
knows of itself: `asking`, `idle` (in the menu), `versus`, `game`, `left`.

Correspondence of the state of `ClientSession`: `pc["main"]` is the place of main: `connect`,
`create_sender`, `create_receiver` (355, 401, 415); `post`, `permit`, `respond` are the three waits
and releases of `send_message_to_server` (835, 854, 864); `await`, `flag`, `take`, `choose` follow
one round of `client_response` (670, 671, 680, 706-788); `graceful`, `join` are
`graceful_shutdown`; `release` and `reset` go through `to_release`, the list of what is still to
be released. The sender is at `wait`, `check`, `lock`, `send`, `shut` or `join`, the receiver at
`recv`, `raise` (between its alarm and its flag, 145-154), `lock`, `append`, `signal` and on its way
out. `g_socket_thread` says which thread each handle really is of: `init_threads` stores them
under each other's index.

### Abstractions

* A user is a nondeterministic choice among what the menu offers. `Visits` says who
  comes, what they may type, and who may quit or break off. A user types a value the model
  knows to be right or wrong; names, and the texts of the messages, are left out.
* `seven_boom` reads the turn counter again for its comparisons: the compiler may use the
  register or the memory, so `Judge` compares with either.
* Each slot of `GameServer` has one client. When a slot is used again (218) the thread of the old
  client's opponent may still post what belongs to the old game, and the new client reads it
  before it hears whether it is let in: `AnsweredFirst` is not claimed for a slot's second client.
* `StopWaiting` and `WaitTimesOut` may happen at any time: time-outs have no length.
* `Post` may lose the message when the sending thread of its client has gone, because the
  mutex is abandoned then: `SendQueue` and `Acceptor` have the mutex itself.
* `Acceptor` has what the environment does as constants. Without `WaitForSlot` a client may come
  whenever fewer are connected than there are slots: this is what the comment at line 178
  assumes ("we asume we dont have more then 3 clients"), and what the run `acceptor` and the
  proofs use. The comment is not enough to keep clients apart. A client that breaks off
  (205) and an `accept` that fails (143) keep their slots for ever, and one that has left keeps
  its own until its thread notices; since the test for a full server (159) can never be
  true, a client that finds no free slot is given slot 0, which is in use. With `WaitForSlot` clients
  come only while a slot is free: only `acceptor_unanswered` asks so much, and it is violated even so.
* `MayLag` is whether a new thread may be so late that socket_thread has changed the `client_ind` its
  argument points to, or the socket of the slot (172). It is on in the run `acceptor`. A thread
  that read the wrong ones is `Misled`: it receives from another's client, and gives up another's slot.
* The number of a socket that was closed is not used again. Windows may use it again, which
  would matter to a second `closesocket` of it: `ClosesOnlyItsOwn` says that there is none, unless
  a thread was late.
* A failed `accept` is an action of `Acceptor` (`AcceptFails`): the code goes on and gives the
  socket that does not exist a slot. Failing calls of `CreateThread` in the server, which end
  the program, and of most allocations are left out, and so are the logs.
* A message of the server is, to the client, one of two questions, a refusal, or `shown`;
  the server may say any of them at any time after the request, a refusal only first.
* A thread of the client that main terminates (`TerminateThread` after 15 ms) may own the
  mutex, which is then abandoned: the next thread that waits for it takes that for an
  error and keeps it. Steps that use an object after `CloseHandle` fail, and a wait for
  it returns at once.

### Fairness

`Acceptor` is fair to the whole of the server: some step that can be taken is taken. This
suffices because every behaviour is finite: whatever is enabled is taken in the end. It is
less than the fairness of the scheduler to each thread. In `Delivery` the sender, the
client's `recv` and every writer are fair one by one; the fairness of `recv` follows from
TCP, which delivers what was sent. In `ClientSession` main, receiver and sender are fair one
by one: a wait with a time-out ends, and the user answers what he is asked. Neither the
server nor the network is forced to do anything there. `GameServer` is checked for safety
only: its promise that the dialogue goes on is the invariant `NeverSilent`.

### Runs

| Run | Instance | Shows |
|---|---|---|
| `game` | two visits: 2 clients, each asks for one game, one of them may quit or break off, the move 1 is right in the first turn and wrong in the second; 3 clients who stay, up to the first request for a move | each client, the only one of its slot, hears first whether it is let in; while all stay some user is always being asked; a request for a game is never forgotten, and the wait for an opponent can only time out; the third client gets its denial and nothing else |
| `delivery` | 2 writers, 3 messages of 1, 2 and 1 bytes behind a size of 4 bytes, 2 permits, 1 failed allocation, a client that may leave, a connection that may break | one thread in the list; a permit for every message in it; list and stream each implement `Mailbox`; an orderly end loses nothing that was sent; while the client stays every message arrives |
| `acceptor` | 2 slots, 3 clients, of whom the first may leave or break off or its accept fail; two threads at a time may be late | why a client may find no free slot, and that the search finds a free one; no socket is closed under a client who is there, nor twice; clients are answered until one has ended or a thread was late |
| `acceptor_unanswered` | 1 slot, 2 clients | violated, see below |
| `client` | 1 permit per semaphore, 2 messages of the server on each of 2 connections, 1 failed attempt to connect, `CreateThread` may fail, the server may end in order or not | main takes only what is in its list, but for one window; no thread outlives its objects on a first connection; the client is a `Player`; it ends once it releases or the user quits, and after a broken connection |
| `client_reconnect` | 2 permits, 1 message per connection, nothing fails | violated, see below |

Why the bounds are enough: the players share the only game, so two clients have every
interleaving of a game, and the third every way of a client without one. Two permits and
three messages overflow the semaphore while the sender holds one; lengths of one and two
bytes let a `send` or `recv` take less than the size, the size, and parts of a message.
Three clients on two slots let the third reuse the first one's slot, at any stage of the end of
its threads, or find none; and a thread may be late by a client. The constraints
of the run are `NobodyMisled` (it goes no further than the first thread that was late, after which
only the proved part of `ClosesOnlyItsOwn` is claimed) and `TwoOnTheirWay` (at most two threads, of one
client or of two, have not read their argument and socket yet). One permit and two messages overflow the semaphores of the client in both
directions, and two connections show what the first one leaves behind. Deadlock is not
checked in these runs: all of them end, or stop when the clients have nothing more to ask.

For the rule itself `GameServerProps` defines `has_seven` over all digits of a number.
`SevenBehindFirst` proves for every number that `look_for_seven` finds every seven but one in the
first place, and `RuleOfOtherNumbers` that the rule is the one of the game for every number
that begins with another digit. An `ASSUME` in `MCGameServer` has TLC confirm it up to turn
70, where the first digit makes no difference yet, as 7 and 70 are multiples of seven, and
show the first number where it does: in turn 71 the player who says boom, as the rules want,
is judged wrong and loses (744, 725).

### What the models show against the texts

`EveryClientIsAnswered` is violated: a slot counts as free when its receiving thread has
ended, while its sending thread still waits with the old socket. The next client in the
slot then has two senders; if the old one takes the permit of its answer it fails on the
old socket and returns with the mutex of the list, which the other threads take for an
error from then on. The client waits for ever.

`ReconnectAsksAgain` is violated: the case of `release_source` for a refusal has no `break` and
falls through into the one after an orderly end (1088), which closes the mutex, the semaphores and
the event. Nothing creates them again, so that on the new connection the request cannot
even be put into the list: the user who chose to try again is thrown out.

Further behaviour that the models have and the properties allow for:

* the answer that there are no opponents may come during a game which the other player's
  thread has started between the time-out and the answer (447-471);
* a player whose opponent has left is not told and waits for ever (525; the code for
  `SERVER_OPPONENT_OUT` is commented out): `NeverSilent` is claimed while nobody leaves;
* a move that arrives while the other player's is being judged may be judged against
  either turn, and be counted once or twice (723);
* both players' threads may find the other's flag set and start the game twice (444): each
  player is then told twice, and the first one asked twice for a move;
* between the receiver's alarm (145) and its flag (154) main may wake and take the head of an
  empty list, which ends the client: `ReceivedHasPermit` counts exactly this window;
* after an orderly end of the server the client's receiver ends without waking main, which
  waits for a message for ever (670): `LeavesInTheEnd` is claimed once main is on its way out;
* the handles of the client's threads are stored under each other's index (402, 416), so that
  on the way out the sender waits for itself until the time-out.

### Proofs

`Delivery_proof` proves first, of `SendQueue` alone, that `ListInv` is inductive, for any number of writers, messages,
permits and failed allocations: who is between its wait for the mutex and its release owns
it (`Owners`), a writer on its way to the list has a message in hand, and the message the
sender is about to remove is there (`InHand`). That a thread can end with the mutex, and
another one then returns with it and never releases it, is why ownership must be stated
for `kept` as well. `OneThreadInListHolds` follows at once. `InOrderOnceHolds` is the
refinement: with `box` the list, or its tail while its head is sent and not yet removed,
every step is a `Post`, a `Lose`, a `Deliver` or no step of `Mailbox`; that an append
finds the sender outside of the list comes from `ListInv`. The assumptions are
`SendQueueAssumption` and `SenderAssumption`, that the threads have different names.

`PermitPerMessageHolds` counts: `PermitInv` says that the list is as long as the permits in the
semaphore, those lost to a full semaphore, those owed by writers that have appended
(`Signalling`, a finite set that grows and shrinks by one) and the one in the hand of the sender.
A failed allocation loses the list and with it the count; the claim ends there, as the property does.
All this holds in `Delivery` too, whose steps are steps of the queue (`DeliveryRunsQueue`).

The second half of `Delivery_proof` is about the bytes, for messages of any length and any
`SIZE_BYTES` above zero (`DeliveryAssumption`). `WireInv` says that there is a byte the sender owes next
(`Due`: the first of what `SendString` has still to send, or of the next message's size) which, put
behind the stream, `Follows`: every byte is followed by those of its buffer at their places and each
buffer by the next one, and the first of all is the one the receiver expects (`Carries`). `Follows`
compares any two places and not only neighbours, so that no induction over the stream is needed: what
`recv` takes is read off from its first byte (`TakenFollows`, `TakenBytes`), and what `send` takes
continues the owed byte (`SentFollows`). `ReceiverInv` says that the receiver holds the beginning of a
buffer and waits for exactly the rest, so a full buffer is a size that is the next message's or
that message (`BufferIsWhole`). `BehindInv` says that the receiver has a message before `SendString`
has returned only if the sender has no bytes left, and its head is still in the list; a sender that gave
up in the middle has not been overtaken. From this, and from `EndInv`, follow `OrderlyEndLosesNothing`, and
`ArrivesInOrder`: with `accepted` what was sent and what is in the list, the client has the first of it and the
rest is to come; an append is a `Post`, a list that is lost cuts off only what was not sent (`LessToCome`), a
whole message is a `Deliver`, and calls of `send`, parts of messages, and the removal of the head are no
steps of `Mailbox`.

`GameServer_proof` proves all four properties of the dialogue, for any `Visits`: whoever comes,
whatever is typed, whoever quits or breaks off, and however many games are asked for. What is on
its way to a client is one sequence, `Path` (what it has not read yet, then what is still in its
list): a post appends to it, sending leaves it alone, reading takes its head. `DialogueInv` has these
parts. `Stages`: a thread that waits, or judges a move, has nothing to post. `Complete_todo`: what a thread
still has to post is complete, so that an approval is followed by the menu, a start by a request for
a move. `NoGameYet`: only players who have been answered ask for a game, so that before both have
been, no thread posts to another's client; from this follows that the answer is what a client reads
first (`Asking`). `OneDenial` counts the third client's request, the denial to be posted and the
denial under way: they are one at most. `VersusPends` follows the request through `to_server`, the
thread, its posts and the path. `MenuFollows` and `EndFollows` are what `NeverSilent` needs: after an
approval, a refusal or an end the menu comes, or a thread is about to post it; and while nobody is to move
and no move is under way or judged (`MoveIsDue`), whoever is in a game has its end coming.
`EndFollows` holds only while nobody has left: the posts of a dead sender's client are thrown away, and
with them the request for the next move. In a quiet state each of `asking`, `idle`, `versus` and `game`
contradicts one part, which is `NeverSilent`.

`Acceptor_proof` proves `SlotInv` inductive for any number of slots and of clients, however they
end, whichever accepts fail, however late the threads are, and whether or not clients wait for a slot.
`Arrivals`: who has come has a peer, and threads from the point on where socket_thread has created them.
`Owners`: the sockets in the slots are of different clients, all of whom came before the one
that is being given a slot. `KnowsItsSlot`: a thread that has its own client's socket has the slot it is
in. `GivenBack`: a slot whose client's receiving thread is done is free, unless a thread was late,
a client broke off or an accept failed, or socket_thread has just taken the slot again (`Storing`). `CameToRoom`:
when a client came, fewer were connected than there are slots. `Search`: the search has passed
no free slot, unless somebody has left. From these `RoomForEveryoneHolds` follows by counting: where
every slot is in use and no excuse applies, each has the socket of another client who is still
connected, so that there are as many of them as slots (`FullOfOthers`), which `CameToRoom` excludes.
`Closing` says that a socket about to be closed is of a client who has left, whoever closes it,
and that a closed socket's own thread is done unless one was late: this is `ClosesOnlyItsOwnHolds`.

`Client_proof` proves the safety properties of the client and that it implements `Player`, for any
number of messages, connections and failed attempts, semaphores of any size, and whether or not
threads fail to start and connections break. `ClientInv` has these parts. `Sessions`: the objects exist
on the first connection only. `Plans`: before the objects are closed, main has the handle of each
thread that still runs, and its end is still on the list of what main has to release, in which the
objects come last (`PlanFacts` checks each list of `release_source`). `ObjectsOutliveThreads` follows from
it. `Counts`, while main has not given up: permits against messages for both lists, the mutex not
abandoned, and the flags. `ReceivedHasPermit` is its first conjunct; the second one, for the list to
send, is what keeps a sender from ending with the mutex before main gives up.

The refinement `PlayerImplemented` needs more. `at` is `out` until main has put the request into its
list, then `in`, and `gone` from the moment after which nothing said can reach the connection.
`inbox` is the message main deals with, its list, the one in the receiver's hand, and what is under way,
in this order; `outbox` is what was said and, while the client is in, what is still in its list. `Talk` says that only
messages of the server are in the former, `Dealing` that the answer main posts is one to
the message it deals with, `First` that nothing was said or heard before the request, `Last` that
when main has emptied the list to send, or never filled it, a sender that still runs finds nothing in it
(so whoever is gone says nothing more), and `Later` that a later connection ends before its request,
which is the finding `ReconnectAsksAgain` from the other side. Then each step is one of `Player` or
none: `Posts` is `Hello` or `Answer`, `TakesMessage` of a message that is only shown is `Read`, a message of the
server is `Hear`; the receiver's end, or a connection that breaks, is `Miss`; whatever makes a client
that was in say no more is `Leave`; and the appending, receiving and sending of a message are stutters.

Only model-checked: liveness.

## 5. Grades (Ex2)

`SchoolPool` models `main`: `CreateThread` while there is place in the array of handles,
`ReuseHandle` when it is full, the wait for the rest, and the closing of the handles, in
the order of the code. The threads end at any time and with either result. The run
`schools` (six schools, three handles, one `CreateThread` that may fail) shows that main
has a handle of every running thread and never more than the array holds
(`RunningHasHandle`), that every school comes to its end unless there was no thread for
one, and that a failure among the threads of the last wait is reported
(`EverySchoolEnds`). An error of a thread whose handle was reused is printed
and forgotten (194): no property claims it is reported. Ten handles are scaled to three,
the least at which the handle that is reused can be the first, the last, and between.
`Schools_proof` proves both properties for any number of schools and handles: `PoolInv` says that
the handles are of different schools, that a school already passed has a handle or has
ended, and that main closes handles only after all their threads have ended.

`GradeReader` models `read_and_write_schools` for one school: its buffer of six bytes,
byte by byte, because what is wrong there would be wrong by bytes. `ReadRow`,
`ReadLastRow` and `ReadFails` are the three ways a read ends, told apart as in the code
by the bytes it got and by what is left of the file. `GradesAreRight` compares the result
file with the rows: it holds the right grades, all of them on success, and a failure has
a cause. The run `grades` checks it for two files of one to three rows whose grades have
one, two and three digits, of different lengths, missing, or followed by a failing write
(`results` holds whole rows: what a failing write may leave of one is not modelled).
Two preconditions are constants: the last row ends with a line end (`LastRowEnds`;
without it the stale bytes of the buffer can be read as further digits), and a file has
a row (`MinStudents`; the first read of an empty file takes the bytes of another one).
Without the first one `GradesAreRight` is false in the same instance: after the row 40 of the
first file, the last row 7 of the second is read as 70.

`Schools_proof` proves `GradesAreRight` for any number of files, weights and rows, with
grades from 0 to 100 and under the same two preconditions, which are the hypotheses of the theorem.
The inductive invariant is `ReaderInv`. Its core, `InStep`, says where each file stands:
files already read for this student are at his next row, the others at his own, where
"at row n" (`at_row`) means that what is left of the text from the offset on is the text of
the rows from n, and that the offset is behind the text when there is no row n. From it
`RowRead` and `LastRowRead` follow what one turn of the loop does to the bytes: the line end is
found, `atoi` gives the grade whatever stale bytes lie behind it, and the new offset is the start of the next
row. `NotDelivered` and `EndOfFirstFile` give the other direction: a read fails, and the loop
ends, only when there is no such row. `Graded` keeps the sum so far and the grades
written. The text of a file, `value` in `atoi`, and `total` are recursive functions; what
they compute is proved without an induction theorem, from a least number that refutes the claim
(`LeastNatural`, by the well-foundedness of the naturals): first that a function
satisfying the equation exists (`SumExists`, `TextExists`), then that its values have the
right type (`TextType`).

## 6. Encryption (Ex1)

`Encryption` models both programs: Father checks the lengths, starts a Son for each
offset, waits for it and stops at the first error; a Son reads, encodes and appends its
block, and any of its steps may fail. `output` is the list of the appended blocks, with a
mark for a block that was written in part. The run `encrypt` takes all lengths up to 13
blocks of 16 bytes, right and wrong keys. It shows that the output is the blocks in order
and only the last may be cut short (`BlocksInOrder`), and that success means the whole
message and that no Son is left at work (`SuccessIsWhole`). The room for the digits of
the offset is computed from the last digit of the length (58): for many lengths the
program is ended by `sprintf_s` in the middle (`CommandTooLong`). Up to 13 blocks cover
all last digits a multiple of 16 can have and offsets of one, two and three digits.

`Encryption_proof` proves both properties for messages of any length and any `KEY_LEN` above 1 (16 in
the code; a block of one byte could not be cut short). `EncryptionInv` says for each place of Father what the output is: at
`loop` exactly the whole blocks before `offset`, while a Son works the same and nobody else at
work, after an error possibly one block more, or one cut short, at the end.

## 7. What is proved, checked, and left out

* Proved for every instance, of the same specifications TLC runs and from the assumptions
  on the constants that those modules state: in Ex1 `BlocksInOrder` and `SuccessIsWhole`; in Ex2
  `RunningHasHandle`, `EverySchoolEnds` and, for files with rows that end with a line end, `GradesAreRight`; in Ex3 all the safety properties, `NoLostFrame`
  for positive work times, and the refinement `ImplementsService` for positive work times and
  no failing call; in Ex4 `OneThreadInList`, `InOrderOnce` and `PermitPerMessage` of the send queue,
  `OrderlyEndLosesNothing` and the refinement `ArrivesInOrder` of the whole way to a client,
  `NeverSilent`, `AnsweredFirst`, `VersusIsPending` and `ThirdIsDenied` of the dialogue with one client
  per slot, `RoomForEveryone` and `ClosesOnlyItsOwn` of the slots; and of the client `ReceivedHasPermit`, `ObjectsOutliveThreads` and the
  refinement `IsAPlayer`.
* Checked by TLC only: liveness. Liveness under fairness
  (`Termination`, `EveryRequestServed`, `EveryMessageArrives`, `FirstClientsAreAnswered`,
  `LeavesInTheEnd`, `BrokenConnectionEnds`) is out of the prover's reach. Everything
  else that a passing run checks is a theorem, with the hypotheses named in the sections above.
* Not modelled: the server's shut-down (its functions are never called), start-up and
  argument parsing, the XOR of a block, file helpers, the formatting and parsing of texts,
  and the logs. The server's log has a hazard of its own: its mutex is released between the
  mark of a line and its text (1008-1019), so that lines of two threads may mix; nothing
  reads the log back and no text promises its lines. In every module failing Windows calls
  on valid objects are left out, except where a section above says otherwise.
