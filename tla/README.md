# A verification of the EltexSchool programs

The repository collects the programs of a C course: single-file exercises
(`lab1` to `lab9`), processes, pipes and signals (`lab10`, `lab12`, `lab15`),
threads (`lab11`), message queues and shared memory (`lab13`, `lab14`), socket
servers (`lab16`), and two final projects (`finalTask1`, `finalTask2`). It has
no tests and no documentation beyond short comments; the programs are the
reference, and every definition here is translated from them.

Two thirds of the code run concurrently: processes over pipes, queues, shared memory
and sockets, and threads over mutexes. This directory models all of that in TLA+,
together with the sequential programs that keep state, checks the models with TLC,
and proves the safety of all but one of them with TLAPS.

    tlc -workers 2 -config MCTaxi.cfg MCTaxi      # any run: <cfg> <module>
    tlapm TaxiProofs.tla                          # any proof module

`PROJECT.json` holds the machine-readable index: components, runs, mutants, the
source lines of every definition, findings, hazards and theorems.

## 1. Inventory

### Modelled

**Taxi** (`finalTask2/taxi.c`, module `Taxi`). The dispatcher, one process,
keeps `drivers[]` (pid, two pipe ends, `busy`, `end_time`) and serves
`create_driver`, `send_task`, `get_status`, `get_drivers`. A driver, one process
each, keeps its own `busy` and `end_time`, answers each command with a line, and
announces "Available" on its own when its task is over. They talk over two
pipes; drivers inherit the dispatcher's ends of older pipes through fork. Hard:
answers and announcements share a pipe; two `fd_set`s and an index grow stale
while the dispatcher waits; drivers die at any time; nobody is told to stop, the
end of file has to cascade. Correct when: no living driver is lost from the
table, the dispatcher reads only what is there, commands are answered, the table
agrees with the drivers, everything ends with the dispatcher.

**Time server with a queue** (`lab16/task2/time_server_queue.c`, modules
`RequestQueue` and `ClientFifo`). Main accepts and puts descriptors into a ring;
a pool of workers takes them out, reads, answers, closes. One mutex, two
conditions, one signal per request. Hard: lost and spurious wake-ups, the full
ring, the wrap, a failed `accept` that is queued as -1, a silent client that
blocks a worker. Correct when it is a FIFO that gives every connection to one
worker and leaves no free worker idle.

**Time server with a thread pool** (`lab16/task2/time_server_thread_pool.c`,
module `ThreadPool`). Main puts the connection into the first worker record that
is not occupied and signals its condition. A worker keeps its record's mutex
while it serves. Hard: a record is filled while its worker is on its way to
sleep; main stands behind a worker that stands behind its client; when all
records are taken the connection is forgotten. Correct when no connection is
served twice, overwritten, or lost anywhere else.

**Chat in shared memory** (`lab14/chat_client.c`, `lab14/chat_server.c`, module
`ShmChat`). One segment with the table of clients, a ring of messages and a list
of names, under one named semaphore. Each client has a main thread that
registers, a thread that polls the ring, and one that reads the keyboard and, at
ESC, takes everything down under the other. Hard: the other thread's memory is
unmapped; death with the semaphore taken; a registration before the server has
initialised the segment; the ring that fills up once and for all; counts copied
out of a section and used in the next. Correct when everyone sees one log and
the table is the membership.

**Chat over message queues** (`lab13/chat_client.c`, `lab13/chat_server.c`,
module `MqChat`). Clients write REG, MSG and QUIT into the server's queue; one
handler thread writes to the clients' queues. Every queue holds ten messages and
every send blocks. Hard: one member that does not read stops all; the
registration timeout races the answer; ESC stops the reading and then needs room
in the server's queue; Ctrl+C of the server works beside the handler, and closes
descriptors whose numbers are given out again while slots still hold them. Correct
when members get everything due to them in order, nobody gets what is not for it,
and ids lead to their owners.

**Stalls and buyers** (`lab11/task.c`, modules `StallMarket` and `Market`). Five
stalls with a mutex each, three buyers that take the first one they can have
without waiting and buy piece by piece, a loader that adds to a stall at random
until a counter under its own mutex says that every buyer has finished. Hard:
increments and decrements of shared memory; buyers crowd at the lowest stall,
empty or not; a count that is wrong by one leaves a thread behind. Correct when a
visit is one purchase, the loader leaves last and everybody is satisfied.

**UDP echo over raw sockets** (`finalTask1`, module `RawEcho`). The server keeps a
table of ports with a counter each and answers every line with the line and the
count; SHUTDOWN removes the entry. Clients choose a port at random and wait for
the answer without a timeout. Hard: every socket sees every datagram of the host,
and any of them may be lost; ports are shared, used again, or the server's own; the
table fills up; Ctrl+C between the flag and the sending of SHUTDOWN; a server started
again counts from one for a client that goes on. Correct when
no reply is taken for another line's and no entry is left without a known reason.

The smaller programs keep less state, but each has its hazard:

**Phonebook as a linked list** (`lab6/task.c`, module `ListBook`). A doubly linked
list with removal by index. Hard: both ends, freed nodes that come back. Correct
when both directions of pointers are the book and no loop leaves it.

**Phonebook as an array** (`lab4/task.c`, `lab5/task.c`, module `ArrayBook`). Slots
and a count of those in use. Hard: the results of `scanf` are not looked at, so
after the end of the input the menu goes on with the last choice and fills slots
with nothing. Correct when the count covers the book.

**Pipeline shell** (`lab12/task3.c`, module `Pipeline`). The shell forks a stage per
command; the descriptors of the pipes are copied at every fork and must all be
closed. Hard: one copy too many keeps a reader waiting or a writer alive; a failed
`pipe` or `fork` ends the shell with some stages running. Correct when a line whose
commands would end comes to its end and leaves nothing behind.

**Handshakes** (`lab12/task2_*`, `lab13` and `lab14` without the chats, module
`Handshakes`). Five pairs of programs that say "Hi!" and "Hello!" over a FIFO,
POSIX and System V queues, and POSIX and System V shared memory. Objects outlive
their processes. Hard: crashes leave texts behind, a second client takes the one
text there is, a client reads before the server has written. Correct when the
server prints the answer of a client that heard it, and nobody waits in vain.

**One answer per connection** (`lab16/task1` stream pairs, `lab16/task2`
thread-per-client and multi-protocol servers with `time_client.c`, module
`StreamServers`). Hard: silent clients, clients that are killed, the argument
handed to a thread while main accepts the next connection, `select` and the two
sockets. Correct when each is answered once, and waits only behind a silent one.

**One datagram each way** (`lab16/task1` datagram pairs, module `DgramServers`).
Hard: all local clients share one name in the file system. Correct when a client
that meets no other is served.

**Broadcast and multicast** (`lab16/task3`, module `GroupAck`). Hard: lost and late
acknowledgements, several servers, an address that the answer overwrites. Correct
when every answer printed was given to something that was asked.

**Raw-socket UDP clients** (`lab16/task4`, modules `RawUdp` and `Checksum`). Clients
that build headers themselves from UDP, IP or Ethernet on, and the server that
changes a character. Hard: what the kernel lets through, a packet socket that sees
everything, the carry of the checksum. Correct when no question is taken for an
answer, and every receiver accepts the checksum.

**File manager** (`lab9/task2.c`, module `FileManager`). Two panels over directories
that change underneath. Hard: the path is edited as text, and "." and ".." are cases
of their own. Correct when the text leads to where the user has walked.

### Not modelled

| Part | Why |
|---|---|
| `lab12/task1.c`, `lab9/task1.c` | one line through a pipe from a parent to its child; a file written and read back: no second actor, and no state after one call |
| `lab10`, `lab15` | single calls of fork, exec, kill and the signal functions; what is printed is the only effect |
| `lab7`, `lab8` | four arithmetic functions without state, linked in two ways |
| `lab1` to `lab3`, `lab5/program.c` | functions on bits, numbers and strings; a password compared |
| `lab17` to `lab20` | PDF reports |

## 2. Modules

| Module | Models | Remarks |
|---|---|---|
| `Taxi` | dispatcher, drivers, pipes | one action per command; the two scanning loops read one line per step |
| `TaxiProofs` | | two inductive invariants and four theorems |
| `ClientFifo` | what the request queue promises | abstract: waiting, serving, seen |
| `RequestQueue` | main, workers, ring, mutex, conditions | refines `ClientFifo` |
| `RequestQueueProofs` | | four theorems, the refinement among them |
| `ThreadPool` | main, workers, records | |
| `ThreadPoolProofs` | | two theorems |
| `ShmChat` | server, clients, segment, semaphore | |
| `ShmChatProofs` | | five theorems |
| `MqChat` | server, its descriptors, clients, queues | one `mq_` call per step |
| `MqChatProofs` | | two theorems |
| `Market` | what the stalls promise | abstract: stocks and needs, a visit in one step |
| `StallMarket` | buyers, loader, mutexes | refines `Market` |
| `RawEcho` | server, clients, raw sockets | |
| `RawEchoProofs` | | three theorems |
| `ListBook` | list, nodes, loops | one step per turn of a loop |
| `ArrayBook` | slots, count, input | one step per menu operation |
| `Pipeline` | shell, stages, holders of the pipes' ends | |
| `Handshakes` | five pairs of programs over kernel objects | a program is a sequence of calls |
| `StreamServers` | four servers and their clients over connections | |
| `DgramServers` | two servers and their clients over datagrams | |
| `GroupAck` | broadcast and multicast, network | |
| `RawUdp` | three raw clients, the modifying server, the interface | |
| `Checksum` | `calculate_checksum` | one step per word |
| `FileManager` | panels, directories | |
| `LabProgramsProofs` | | thirteen theorems: four on `StallMarket`, the refinement among them, nine on the small programs |
| `HandshakesProofs` | | four theorems on `ListBook` and `Handshakes` |
| `MCLabPrograms` | the ten modules from `ListBook` on but the proofs, one in each behaviour | one state space, the variable `which` says whose |
| `MCTimeServers` | `RequestQueue` and `ThreadPool`, one in each behaviour | `which` says whose |
| `MC...` | TLC instances | model values, symmetry, bounds in the `.cfg` files |

Operators named `Mut_X` are the mutants: `X` with a plausible mistake. No
specification uses them; putting one in the place of `X` makes TLC find the
property that `PROJECT.json` lists with it violated, which shows that the
property depends on that piece of code.

### Taxi

`pc` is the dispatcher's place: `select` (233), `command` (240), `wait` and
`waitscan` (84-139), `scan` (341-365), `exited`, or `killed` by SIGPIPE. `ready`
and `wready` are the two fd_sets. `SelectStdin` and `SelectDrivers` are the
return of the main select; `CreateDriver`, `SendTask`, `GetStatus`, `GetDrivers`,
`OtherCommand` and `EndOfInput` are the commands up to their first wait;
`WaitSelect`, `SkipDriver`, `ReapDriver`, `HearDriver`, `TakeAnswer` and `ScanEnd`
are the reading loops, and `TakeAnswer` includes what the command does with the
answer, at the `idx` found before the wait. `DriverTop`, `DriverTimeout`,
`DriverCommand` and `DriverEof` are `driver_loop`. A read that finds a pipe empty
and its writer alive is enabled by nothing: the dispatcher is stuck there, as in
the code. `heirs` records which drivers inherited whose pipe ends. The field
`notice` of a line, and the variables `drained` and `misled`, are history: no
guard reads them.

### RequestQueue and ThreadPool

A step is what a thread does between two pthread calls. `pthread_cond_wait`
releases the mutex and joins the waiting set in one step, and the woken thread
goes back to `lock` and looks at its condition again. `SpuriousWakeup` is bounded.
`Serve` is read, answer and close; it happens when the client speaks, so it is
fair only for the descriptor -1, whose read fails at once. `ClientFifo` is
reached by mapping the ring to the sequence of its `count` entries from `front`
(`Content`), a worker to the connection it took out and has not closed
(`InHand`), and `accepted`, less what main has not put in yet, to `seen`.
In `ThreadPool` the mutex `server_mutex` is taken by main alone and left out. Its names
differ from those of `RequestQueue` (`Callers`, `PoolSize`, `workerPc`, `PoolNext`, ...),
so that `MCTimeServers` can extend both: one of the two servers runs in each behaviour,
`which` says which, and the fairness of each holds while it is the one that runs.

### ShmChat

`main`, `recv` and `send` are the threads of each client; a name ending in
`Wait` is before a `sem_wait`, the same name without it is inside the section.
A body is one step with its `sem_post`; what can happen between `sem_wait` and
the body is death (`Kill`) and the loss of the mapping (`Crash`). `Unmap` and
`Close` are the two parts of `cleanup` that pull the ground away; `Finish` is the
end every ESC has, since main calls `cleanup` again on the closed semaphore. The
tests of `running` at the loops' heads are made with the preceding section: only
the same client's ESC changes what they read, and moving ESC before the section
gives the same state. Messages are records of what and who; the text of lines,
windows, and the semaphore `msg_count`, which wakes a thread that does nothing,
are left out.

### MqChat

The handler takes a request (`TakeSlot`, `HandleMsg`, `HandleQuit`) and makes the
sends it implies in the loops of the code, one slot a step, each waiting for room:
`handler` is where it is (`receive`; `open`, in the `mq_open` of a registration; `ok`, the
answer to it; `all`, `send_to_all`; `list`, `broadcast_user_list`; `off`), `at` the slot
the loop is at, `job` the locals of the request: whom it came from, what is said, and
whether the list of users follows. A registration takes its slot in one step, which makes
it active, and its queue in the next (`OpenQueue`, or `OpenFails` if the queue's name is
gone): cleanup may come between. `SendOk` and `SendNext` are one `mq_send`, `EndLoop` the
end of a loop, which begins the next one or goes back to `mq_receive`.

`numbers` is the server's table of open descriptors: the queue each number leads to. A
slot keeps its number after `mq_close`, and `LowestFree` is what the next `mq_open`
returns, so a send through a slot (`Reaches`) may fail, or come to the queue of another
client. A thread that had entered `mq_send` before the close still gets through (`held`).
Ctrl+C is `Interrupt`; cleanup then goes along the slots with `TestSlot`, `SendDown`,
`CloseSlot` and `UnlinkSlot`, each a call beside the running handler, and
`CloseServer`. `HandlerEnds` is the receive that fails on the closed queue, `LastCleanup`
the second call of cleanup, after main has joined the handler.

In a client, `TimeOut` is the test after the fifty rounds of 0.1 s, at any moment, and
`Fail` the test in the client's cleanup behind it: an answer that comes between the two
makes a client that reports a failure send QUIT. `said`, `due` (what a member should hear)
and `heard` (what it took) are history.

"In order and once" (`NothingMissed`) has three exceptions, all after Ctrl+C: a member that
has got the shutdown, one whose number no longer leads to its queue, and one whose number
another active slot holds as well. The last one is the newcomer that got a number cleanup
had just closed: it hears its own join, and the list once more, through the old
member's slot. The second half of `NothingMissed` (`OnlyItsOwn`) says how far that goes:
whoever it is, nobody hears anything else that was not meant for it.

### StallMarket

A buyer's `at` is `i`, and `stall_index` once the mutex is its own: `TryLock` is one
`trylock`, so stalls can change hands while a buyer walks along them. `goods--` and
`goods += 200` are a load (`Look`, `LoadGoods`) and a store (`Take`, `AddGoods`).
`Market` sees a visit as one purchase at the moment of leaving: the refinement adds
back what a buyer inside has taken so far (`StockBefore`, `NeedBefore`). `Close` is
main after all its joins.

### RawEcho

What a socket receives is reduced to what the reader's filter lets through
(`Hearers`), and a loss is the copy of one socket. A datagram carries its ports and
its data: a line, known by who typed it and when, with the counter of the answer,
or SHUTDOWN. The ports of the model contain the server's own, as the code's range
1024..65534 contains 8888: such a client hears its own requests and the server hears
its own answers, in circles that the bound `MaxCount` ends. `silent` and `abandoned`
are history. A failed `sendto` changes nothing and is left out. `ServerStops` empties the
socket and the table, and after `ServerStarts` the counters begin at one while clients go on:
`lines` counts what a client has sent to the server of its last line, `fresh` holds the
clients that have sent nothing since the last stop. There is one server at a time.

### ListBook and ArrayBook

In `ListBook`, `order` is the history of the book: the nodes in the order in which they
should be found. `Enter` is an operation up to the first turn of its loop; `Walk`, `Look`
and `FreeNode` are turns. The listing before a removal only prints and is left out.
In `ArrayBook` an entry is the number of its fields that are filled, since "empty" is
all the code asks. `input` says what `scanf` meets: text, a word where a number should
be, or the end; `choice` keeps its value when nothing is read, as in the code.

### Pipeline

`readers[k]` and `writers[k]` are the processes that hold an end of pipe k, 0 being the
shell; `ForkStage` copies what the shell holds, `ParentCloses` and `ChildSetup` close.
A command is one of five programs that stand for all: one that copies, one that reads a
line, one that writes a line, one that writes for ever, one that is not there. A pipe has
room for one line, so writers meet a full pipe.

### Handshakes

`PosixQueueServer`, `SysvShmClient` and so on are the programs, call by call, as
sequences; each kind of call is one action for all programs. A name leads to an instance
(`bound`), a process keeps the instance it opened (`handle`), and unlinking a name leaves
the instance to those who have it, while removing a System V object takes it from them.
`strcpy` is `Begin` and `Copy`: between them others see a part of the text.

### StreamServers and DgramServers

`work` is where the main loop or a thread is: `Accept`, `ReadRequest`, `WriteAnswer` and
`CloseConnection` are shared by all servers, `AcceptForThread` and `StartThread` are the
server with threads, `Select`, `SkipStream` and `AnswerDatagram` the one with `select`,
whose loop looks at TCP and then at UDP. `thread_arg` is the cell malloc'ed for each
thread. `watched` is the set the code fills before each `select`. In `DgramServers` the
two names in the file system are variables (`clientPath`, `serverPath`) that every
client binds and removes; `Destination` is where an answer goes. A name that is bound
while its server is not there leads nowhere. `company` and `unheard` are history.

### GroupAck, RawUdp and Checksum

A message of `GroupAck` is known by its number and an acknowledgement by its sender and
the message it repeats; delivery is to those servers that are up when it is sent. `peer`
is `broadcast_addr`, which `ReceiveAnswer` overwrites as `recvfrom` does. In `RawUdp` a
socket of the client that builds Ethernet frames sees all packets from the moment it is
made (`tap`); the other two never receive anything, since their sockets cannot, and the
first one's packet is dropped because it has no IP header. `Checksum` adds a word a step;
`total` is the history of the true sum.

### FileManager

A path is absolute or not and its names; `Parent` is the code's cutting at the last
slash, with the two cases of "." and "/". The order of `readdir` is any. `where` is the
history of the user's walk, which the code does not keep.

## 3. Runs

| Run | Bounds | Shows |
|---|---|---|
| `taxi` | 3 drivers, created in the order of their pids, 4 commands, tasks of 0 or 1, clock 0..2, 1 kill | `NoLiveDriverLost`, `ScanBlocksOnlyOnDrained`, `TableAgrees`, `AnswerArrives`, `ShutdownCascades` |
| `taxi_available` | 1 driver, no kill | finding: a busy driver listed as Available |
| `time_servers` | one of two servers in each behaviour, 3 clients and -1; the queue: 2 workers, ring of 2; the pool: 2 records; 1 spurious wake-up | `NoLostWakeup`, `ImplementsFifo`, `ImplementsFairFifo`; `NothingLost`, `DropsOnlyBehindUnserved`, `FilledIsServed`, `MainMovesOn` |
| `shm_chat` | 2 clients, 2 names, 2 slots, ring of 3, 1 kill or stop, symmetry | `SemaphoreConserved`, `LostOnlyOnTheWayOut`, `Membership`, `ViewIsPrefix`, `ReaderNeverSpins` |
| `shm_chat_esc` | as above | finding: ESC can take the semaphore along |
| `mq_chat` | 2 clients, 2 slots, queues of 2, 1 line, 1 kill, 1 Ctrl+C, symmetry | `NothingMissed`, `IdsIdentify` |
| `mq_chat_lines` | as above without Ctrl+C, with fairness | `LinesGetThrough` |
| `mq_chat_failed` | no fault | finding: "failed to register", and yet a member |
| `stall_market` | 2 buyers that need 3 or 4, 2 stalls with 1 each, loads of 2, at most 4 in a stall | `LoaderLeavesLast`, `ImplementsMarket`, `MarketCloses` |
| `raw_echo` | 2 clients, 3 ports with the server's, table of 1, 2 lines, 1 loss, 2 kills or stops of the server with restarts, symmetry | `AnswersInStep`, `EntryHasOwner`, `WaitsForSomething` |
| `lab_programs` | ten programs, one in each behaviour; bounds below | `ListShape`, `LoopsFollowTheBook`, `CountCoversTheBook`, `PathFollowsTheWalk`, `HeardTheAnswer`, `NobodyWaitsInVain`, `NothingLeftOver`, `LineEnds`, `EachAnsweredOnce`, `WaitsForASilentClient`, `UndisturbedIsServed`, `AnswersAreAccountedFor`, `FirstAnswerIsTaken`, `ReceiverAccepts` |
| `broadcast` | 2 servers, 2 messages, no fault | finding: only the first line is broadcast |

`TypeOK` of `Taxi`, `RequestQueue` and `StallMarket` and `PoolTypeOK` are proved (section 5).

*Why these bounds are enough to be interesting.* Three drivers let an entry be
removed before, at and behind the index of a loop and of a waiting command; four
commands allow creation of all three and one with its answer in flight, or two on two
drivers; two seconds let a task end and another begin, and a task of length zero
ends at once. Pids enter in their order, which the program does not look at. A ring of two with three connections
wraps and is full while others arrive, and two workers compete for one request.
Two records are the least for which main has to go past one. In `shm_chat` a ring
of three has two usable places: two joins fill it, so every later message meets
the full ring; two clients with two names meet the taken name and the left-behind
slot. A table with no free slot is not reached with these sizes. In `mq_chat`
the three or more sends of a registration exceed a queue of two, so the handler
blocks in every broadcast, as it does with ten places when a reader is slow; one member
that cleanup has passed and one that registers then are enough to share a number.
In `stall_market` the stalls hold less than the buyers need, as in the program, and
the loader fills the stalls the buyers do not go to as well. A table of one in
`raw_echo` is full as soon as two clients write, and is shared, left behind or empty
depending on their ports; two lines are the least for an answer to be out of step, and for
a client that has spoken with one server to speak with the next.

In `lab_programs`: three nodes give a list with two ends and a middle, and freed nodes
that come back; three slots of the array are full, half full and empty; directories three
deep let a walk go below, above and beside the starting directory, and two entries cut a
longer list off; two servers and two clients of a handshake, with one kill, let a client
meet the leftovers of a dead pair and two clients meet one server; three stages are a
first, a middle and a last one; three stream clients are one that is served, one that
waits behind it, and one over UDP; three datagram clients are one that is killed, one that
meets its name, and one that meets both; two servers and three messages let an answer be
a message late from either; two raw clients with all nine pairs of header kinds overhear
each other; six bytes of 0, 1 and 255 reach both foldings and the odd byte.
All numbers of the code (QUEUE_SIZE, THREAD_POOL_SIZE, MAX_CLIENTS, MAX_MESSAGES,
mq_maxmsg, NUM_STALLS, LOADER_ADD) are constants of the modules.

*Deadlock.* The queue and the pool are checked for it. The other programs
may stop for good: the dispatcher exits, is killed or freezes, everyone leaves, main
returns, or a
semaphore or a queue stays blocked; those runs switch the check off and say so.

*Fairness.* Processes and threads that can take a step eventually take one (weak
fairness); a thread that asks for a pthread mutex or waits for room in a queue
again and again gets it in the end (strong fairness), which the futex and the
message-queue implementations of the kernel give. Nothing is assumed of users,
clients, timers and kills: no fairness on typing, connecting, speaking, time-outs.
In `stall_market` the loader gets the stall's mutex it waits for in the end, since
buyers sleep for two seconds between visits, and `rand()` leaves no stall out for
ever.
In `LineEnds` every stage is scheduled, and who types at the terminal ends the input of
the first stage some day; the programs on the line are the ones that end by themselves
or behind which somebody stops reading.
In `LinesGetThrough` the assumption that no member stays behind without reading is
written into the property itself, because the code does not ensure it.

## 4. Findings

1. **taxi_available.** `wait_for_response` takes the first line of the expected
   driver for the answer (taxi.c:114-126). If the driver's end-of-task
   "Available" (153) is already in the pipe, `send_task` takes it; the true "OK"
   is read by main's last loop, which knows only "Available" and "Busy", and
   `get_drivers` lists a busy driver as "Available" (333). `TableAgrees` shows
   that this and the stale `idx` are the only ways the table goes wrong.
2. **shm_chat_esc.** Between the end of cleanup's critical section
   (chat_client.c:153) and `munmap` (157) the receiving thread can take the
   semaphore; it dies on the unmapped segment and nobody can ever register, speak
   or leave again. `LostOnlyOnTheWayOut` shows that this is the only way, kills
   aside.
3. **mq_chat_failed.** A client that reports "Error: failed to register with
   server" (chat_client.c:282) may be registered all the same. It leaves without
   QUIT, so the server goes on writing to its queue and stops for good at the
   first text that does not fit.

4. **broadcast.** `recvfrom` writes the address of the answering server into
   `broadcast_addr` (broadcast_client.c:66), so from the second line on "Enter message
   to broadcast" (37) sends to that server alone, and "Broadcast sent" (54) is not so.

Seen while modelling and not stated as properties: every ESC in the shared-memory
chat ends in a second `cleanup` on a closed semaphore (chat_client.c:437, 132);
the message-queue client waits for texts that begin with "USER_LIST|"
(chat_client.c:123), which the server never sends (chat_server.c:63);
local_stream_server.c ends in a stray `s` and does not compile as committed; a local
stream client that leaves early ends the server by SIGPIPE (local_stream_server.c:43);
a directory that cannot be read leaves a panel of the file manager without even ".."
(lab9/task2.c:33), so that the panel cannot be left again; a client that shares a name
with another waits for ever (local_dgram_client.c:18).

## 5. Proofs

The theorems hold for every value of the constants that the named assumptions
admit; TLC evaluates these assumptions in every run.

**TaxiProofs.** `Invariance`: `Spec => []IInv`. `IInv` joins `TypeOK`, the table
(`drivers` has no repetition and holds every living driver while the dispatcher
runs) and readiness: a pid in `ready` has a line or a dead writer unless
`wait_for_response` drained it in this round or the loop is past it. Removal at any
index, of a sequence without repetition, is a lemma of its own; readiness is what
`ScanBlocksOnlyOnDrained` needs. From it:
`TypeCorrectness`, `TableKeepsDrivers` (`NoLiveDriverLost`), `ScanTheorem`
(`ScanBlocksOnlyOnDrained`). `TableTheorem` (`TableAgrees`) needs more, since `IInv`
says nothing of what the lines mean: `ExchangeInv` follows the lines between the
dispatcher and a driver. While it is waited for, either the command is on its way and
only announcements come back, or the answer is among the lines and fits what the driver
will be when it is read; at other times only announcements are there. Drivers in
`misled` are left out: that is the exception the property states. Assumptions:
`TimersAssumption`, `BoundsAssumption`.

**RequestQueueProofs.** `IInv` joins `TypeOK`, ownership (a thread is inside the
section exactly when it owns the mutex; sleepers are those in the waiting sets),
the ring (`rear` is `front + count` modulo the size, `put` implies room, `get`
implies a request) and what each thread holds (a descriptor it accepted or took).
From it: `TypeCorrectness`, `MutexTheorem` and `Refinement` (`Spec =>
ImplementsFifo`), where each step maps to an `Enqueue`, `Take`, `Close` or a
stutter through lemmas on the ring as a sequence. `WakeupTheorem` (`NoLostWakeup`)
needs a count on top of `IInv`: while a worker sleeps, there are at least as many
workers on their way to the ring as requests in it, one less while main is about
to signal (`SleepersInv`); while main sleeps, the ring is full or a worker is about
to signal (`MainSleepInv`). Assumptions: `SizeAssumption`, `ThreadsAssumption`,
`FdsAssumption`.

**ThreadPoolProofs.** `HandOverTheorem` (`NothingLost`) and `DropTheorem`
(`DropsOnlyBehindUnserved`, an action property). `PoolInv` adds to `PoolTypeOK` and
the account that main and a worker are inside a record's section only with its mutex
(`MutexHeld`), and that what each has found in `is_occupied` therefore still stands when
it acts on it (`TestStands`): also when main goes past the last record. Assumption:
`PoolAssumption`.

**ShmChatProofs.** `IInv` joins five parts. `PlacesInv`: a client's threads exist while
it is in the chat. `LeavingInv`: one who leaves has cleared `running`, and only the
receiver of one who closes can be lost without a kill (`WayOutTheorem`,
`LostOnlyOnTheWayOut`). `HolderInv`: the semaphore is 1 and nobody is inside, or 0 and
the server or exactly one thread is (or died there): every step makes a thread enter,
go out or keep what it has, and `HoldersCounted` turns that into the sum of
`SemaphoreTheorem` (`SemaphoreConserved`). `RingInv`: the tail equals the count, since
the head never moves; so the log only grows (`LogGrows`) until the server sets the
segment up. `WindowInv`: a window shows the first messages of the log, and a snapshot's
tail is its count, which the log has reached; this is what `ViewTheorem`
(`ViewIsPrefix`) and `SpinTheorem` (`ReaderNeverSpins`) need, because the reader works
with a snapshot that others have overtaken. `MInv` adds the table for
`MembershipTheorem` (`Membership`): ids count upwards from what the server wrote, so a
newcomer's is new, and the slot that `Leave` frees is the only one with its id. The
first free slot is a minimum, whose existence is `SmallestSlot`. Assumption:
`SizesAssumption`.

**MqChatProofs.** `IdTheorem` (`IdsIdentify`): an id is at most in the hands of one
client, wherever it is: in the table, with the client, in the answer in its queue, in the
request it sent, in the handler's job (`Holds`, `IdInv`); all of them are below `next_id`.
A client that has not been registered is known to nobody and has one REG at most
(`FreshInv`), so that no two slots belong to one client (`TableInv`). `JobInv` says what
the handler's locals still mean after other steps, `NumbersInv` what its numbers do: a
queue has one number at most, until Ctrl+C every slot leads home, and while the handler
waits for a request a slot's number leads home or nowhere. `MissedTheorem` (`NothingMissed`)
compares sequences: each action appends to one of `due`, `heard`, the queue and what the
handler has still to send, or moves a text from one to the next, and the lemmas
`Missed...` show for each that the equation survives. It is kept for the slots that are
`Sure`, whose number leads home and is in no other slot and whose client has not been
told of the shutdown (`MissedInv`); before Ctrl+C that is every slot, and a slot that
ceases to be sure stays so. The other half, that nobody gets what is another's, holds of
every client at any time and rests on `ForeignInv`: a number that is open leads to the
client of a slot that holds it (`ReachedInv`), what the handler sends is due to every
member but the one it is about (`DueInv`), and only a registration makes two slots share
a number, so that a line or a leave cannot come back to its sender (`OwnInv`, `KindInv`). `MAX_CLIENTS` and the capacity
of a queue are any; nothing is assumed of them.

**RawEchoProofs.** `IInv` joins the types, `ProcessInv` (a port from the start on, a
socket only while running), `AddressInv` (whose line a datagram carries and where it
comes from), `TableInv` (one row per port), `ShutdownInv` (behind what a client has sent
comes its SHUTDOWN) and `StepInv`, the counting: with a client alone on its port there is
at most one datagram of its, in the server's socket or its own, and the row's counter is
the number of its last line to this server, or of the one before while that is in the
server's socket. A client that has sent nothing since the server stopped has no row and no
datagram at the server, so its next line is counted one by both.
From it `StepTheorem` (`AnswersInStep`), `OwnerTheorem` (`EntryHasOwner`) and
`WaitTheorem` (`WaitsForSomething`). `remove_client` moves the
rows behind the hole up; `RemoveAtFacts` says what is in the table then.

**LabProgramsProofs** holds the stalls and the small programs; the parts share only lemmas
on sequences.
- `StallMarket`: `IInv` joins `TypeOK`, ownership (a thread is in a stall exactly when
  the stall's mutex is its own), what was loaded (it is still what the stall holds; this
  is what the mutex is for), the needs along a buyer's way (above zero in the loop, zero
  behind it), and the count of finished buyers. From it: `TypeCorrectness`,
  `LoaderTheorem` (`LoaderLeavesLast`) and `Refinement` (`Spec => ImplementsMarket`):
  `Leave` is a `Buy`, `AddGoods` a `Deliver`, `Start` an `Arrive`, and every other step
  a stutter, `Take` because what the stall loses the visit gains.
- `ArrayBook`: `CountTheorem` (`CountCoversTheBook`), from the types and the cardinality
  of the used slots.
- `FileManager`: `WalkTheorem` (`PathFollowsTheWalk`). `ParentLeadsUp` is the cutting of
  a path at its last slash against the walk, in the cases the code tells apart;
  `LoadedFacts` is what the reading of a directory gives.
- `Pipeline`: `NothingLeftTheorem` (`NothingLeftOver`). `StartedInv` says which stages
  have been forked and that as many are left to wait for; `HeldInv` that only living
  neighbours hold an end, and the shell only those of the stage it is at.
- `StreamServers`: `EachAnsweredTheorem` (`EachAnsweredOnce`). A connection is in one
  place: in the backlog (`WaitingInv`), in the argument of a thread that starts or with
  one worker (`ServingInv`), or closed (`AnsweredInv`).
  `WaitsForASilentClientTheorem` (`WaitsForASilentClient`) needs the converse: nobody is
  forgotten. `PlacesInv`: who may still want an answer is in a socket, with a worker, or
  with a thread that begins or was never made, and when the loop behind `select` finds the
  listening socket ready a connection is there, so that its `accept` does not block.
- `DgramServers`: `UndisturbedTheorem` (`UndisturbedIsServed`). `NameInv`: a client that
  has met nobody owns the clients' name.
- `GroupAck`: `AnswersTheorem` (`AnswersAreAccountedFor`). A pair of host and message is
  on its way, answered or printed, one at a time (`TravelInv`, `OnceInv`); as long as
  there was no timeout and one server only, answers come in turn (`InTurn`); without a
  fault the answer of somebody is there (`WaitedForInv`).
- `RawUdp`: `FirstAnswerTheorem` (`FirstAnswerIsTaken`). `TapInv`: what the packet socket
  keeps from its making on are the packets that passed, in order, so its first answer is
  the first given since then.
- `Checksum`: `ReceiverAlwaysAccepts` (`ReceiverAccepts`). `SumInv` bounds the sum by the
  words taken so far, so that it fits an `int`; `FoldedSum` is arithmetic: two additions
  fold every such sum, and folding keeps the residue modulo 65535.

**HandshakesProofs** holds the two that are left, which need the same lemmas on sequences.
- `ListBook`: `ShapeTheorem` (`ListShape`) and `LoopsTheorem` (`LoopsFollowTheBook`) from
  `ListInv`: `Linked` says that the pointers are those of a sequence of nodes;
  `LinkedAppend` and `LinkedRemove` are `add_abonent` and the four cases of
  `delete_abonent` on such a sequence, and `Found` is what a search has printed so far.
- `Handshakes`: `HeardTheorem` (`HeardTheAnswer`). `CommonInv` (types; one server at a
  time; what is over stays over) holds for all pairs, and `Keeps` bounds what one call
  can change, so that a section has to look only at the calls of its programs.
  `SysvShmInv`: behind the server's `strcpy` nobody writes its words again. `QueueInv`
  gives what is in the queues a sender; `OwnQueueInv` is for POSIX queues after kills:
  having unlinked the names first, the server finds them free and makes its own queue,
  into which nobody has written that was over when it started. `CalmInv` is for the time
  without kills: one "Hi!" for each server, and who has taken it is the one whose answer
  comes; a client that opened queues of two servers finds the first one's "Hi!" taken.
  `MemoryInv` is for POSIX shared memory: the semaphore is above zero only when a client
  is done (`Answered`), and unless the clients disturbed each other its text is then in
  the memory (`UndisturbedClient`, `AnswerInMemory`), because whoever read "Hi!" came
  behind the server's `strcpy`.
  `NobodyWaitsInVainTheorem` (`NobodyWaitsInVain`) asks who is left when nothing moves, and
  `WaitsInv` answers pair by pair. Memory: a client that has printed a server's text found
  it where the server works and writes over it (`TextInv`), so the loop of the System V
  server ends (`PollInv`); over POSIX memory the client has the very semaphore the server
  waits at, because both names lead to what one server has made and the server makes the
  memory first (`NamesInv`), and its post is there (`SemInv`). Queues: the same of two
  names, the reason why a client that opens them in the server's order has both of one
  server (`PipesInv`); a "Hi!" is in the queue its server opened or a client has it, and
  that client's answer does not fail while the server waits (`GreetInv`). FIFO: two ends
  that are open at the same time have met (`EndsInv`), and without kills a text in it has
  somebody who reads it (`EndsCalm`). Starting, killing and stuttering are treated once
  (`Rests`), since they move no text and no name.

Assumptions of these two: `MarketAssumption`; `ArrayAssumption`; `FileAssumption`
(directories list finitely many names, `MAX_ENTRIES` is above zero: `task2.c:9` has
1000); `MaxStagesAssumption` (a line has a first command); `MainAssumption` and
`NoSocketAssumption` (the main thread is no client's, no name is no client's name);
`ProcsAssumption` (servers and clients of `Handshakes` are different, and nobody is
named like another content of the memory); `ChecksumAssumption` (bytes, and packets of
at most 65534 of them).

Only model-checked: liveness (`AnswerArrives`, `ShutdownCascades`, `ImplementsFairFifo`,
`FilledIsServed`, `MainMovesOn`, `LinesGetThrough`, `MarketCloses`, `LineEnds`), which is
out of the prover's reach. `ENABLED` is as well: `NobodyWaitsInVain` and
`WaitsForASilentClient`, which speak of steps that cannot be taken, therefore name the
guards of the waiting calls themselves (`Blocked`; `MainCanGoOn` and `WorkerCanGoOn`).
All other properties of the passing runs are proved. `EscReleases`, which a finding
refutes, is of course not proved: `LostOnlyOnTheWayOut` is the exact statement of what
remains true.

## 6. What the models leave out

Failure of allocation, of `sem_open` after start, of `mq_open` but for the one a cleanup
causes, exhaustion of file descriptors (failed `pipe` and `fork` are the path of `OtherCommand`, their leak is
not counted), overflow of `time_t`, text longer than its buffer, the layout of
windows. A write to a connection that its client has already reset would end the servers of
`RequestQueue` (time_server_queue.c:52) and `ThreadPool` (time_server_thread_pool.c:43) by
SIGPIPE; their clients do not reset, and the models have no such write. `waitpid` is not called by the taxi (SIGCHLD is ignored), so pids could be
reused by the kernel; in the model each pid is used once.

Of the small programs: the layout of headers in `lab16/task4`, the text of a command line
in `lab12/task3.c`, the drawing of `lab9/task2.c` and its limits on the length of names.

Of `MqChat`: lines typed in the last 0.1 s of a client that has failed, and a Ctrl+C inside
the cleanup that main makes at its end. Of `RawEcho`: two servers at once.

## 7. What could follow

1. Liveness of `ShmChat` with a smaller instance: every message reaches every
   window unless somebody died at the semaphore.
2. `RawEcho` with three clients and a table of two, for removal in the middle of the
   table.
