-------------------------------- MODULE Taxi --------------------------------
(***************************************************************************)
(* finalTask2/taxi.c: a dispatcher that serves an operator's command line  *)
(* and forks one driver process per `create_driver`.  The dispatcher and a *)
(* driver talk over two pipes.  A driver answers every command with one    *)
(* line and, besides, announces "Available" on its own when its task is    *)
(* over; the dispatcher reads both kinds of line from the same pipe.       *)
(*                                                                         *)
(* The dispatcher is one thread: its location is `pc`.  Its two scanning   *)
(* loops (wait_for_response and the end of main's loop) read one line per  *)
(* step, because a driver may write, time out or die between two reads.    *)
(***************************************************************************)
EXTENDS Integers, Sequences, SequencesExt

CONSTANTS
    Pids,         \* the pids that fork() hands out, each used once
    Timers,       \* the timers an operator gives with send_task
    MaxCommands,  \* bound: commands an operator types before end of input
    MaxTime,      \* bound: the last second of the clock
    MaxKills      \* bound: drivers killed from outside

ASSUME TimersAssumption == Timers \subseteq Int
ASSUME BoundsAssumption ==
    /\ MaxCommands \in Nat
    /\ MaxTime \in Nat
    /\ MaxKills \in Nat

VARIABLES
    pc,        \* where the dispatcher is
    drivers,   \* drivers[0..num_drivers-1], as the sequence of their pids
    view,      \* the fields busy and end_time of the entry of each pid
    ready,     \* fd_set of main's select (line 233)
    wready,    \* fd_set of wait_for_response's select (line 93)
    i,         \* index of the scanning loop that runs
    req,       \* the command being answered: verb, expected_pid, idx, timer
    proc,      \* where each driver process is
    own,       \* the locals busy and end_time of each driver process
    cmdPipe,   \* lines on their way to each driver
    respPipe,  \* lines on their way from each driver
    heirs,     \* later drivers that inherited the dispatcher's ends of a pipe
    now,       \* time(NULL)
    cmds,      \* commands typed so far
    kills,     \* drivers killed so far
    drained,   \* history: pids wait_for_response read since main's select
    misled     \* history: pids whose entry was set from another line or index

dispatcherVars == <<pc, drivers, view, ready, wready, i, req, drained, misled>>
vars == <<dispatcherVars, proc, own, cmdPipe, respPipe, heirs, now, cmds, kills>>

Statuses == [busy : BOOLEAN, end_time : Int]
Free == [busy |-> FALSE, end_time |-> 0]
BusyUntil(t) == [busy |-> TRUE, end_time |-> t]

\* "task <timer>" and "status", as the dispatcher writes them.
Commands == [verb : {"task", "status"}, timer : Int]

\* The lines of a driver.  `notice` is a mark of the model: it tells the line
\* of an expired task (line 153) from the same text sent as an answer.
Lines == [word : {"OK", "Busy", "Available"}, rem : Int, notice : BOOLEAN]
Answer(word, rem) == [word |-> word, rem |-> rem, notice |-> FALSE]
Notice == [word |-> "Available", rem |-> 0, notice |-> TRUE]

Requests == [verb : {"task", "status"}, pid : Pids, idx : Nat \ {0}, timer : Int]
NoRequest == [verb |-> "none"]

Running == pc \notin {"exited", "killed"}
Stopped == ~Running
Alive(d) == proc[d] \in {"top", "select"}
Table == Range(drivers)

TypeOK ==
    /\ pc \in {"select", "command", "wait", "waitscan", "scan", "exited", "killed"}
    /\ drivers \in Seq(Pids)
    /\ view \in [Pids -> Statuses]
    /\ ready \subseteq Pids /\ wready \subseteq Pids
    /\ i \in 1 .. Len(drivers) + 1
    /\ req \in Requests \cup {NoRequest}
    /\ pc \in {"wait", "waitscan"} => req \in Requests
    /\ proc \in [Pids -> {"unborn", "top", "select", "dead"}]
    /\ own \in [Pids -> Statuses]
    /\ cmdPipe \in [Pids -> Seq(Commands)]
    /\ respPipe \in [Pids -> Seq(Lines)]
    /\ heirs \in [Pids -> SUBSET Pids]
    /\ now \in 0 .. MaxTime
    /\ cmds \in 0 .. MaxCommands
    /\ kills \in 0 .. MaxKills
    /\ drained \subseteq Pids /\ misled \subseteq Pids

Init ==
    /\ pc = "select" /\ drivers = <<>> /\ view = [d \in Pids |-> Free]
    /\ ready = {} /\ wready = {} /\ i = 1 /\ req = NoRequest
    /\ proc = [d \in Pids |-> "unborn"] /\ own = [d \in Pids |-> Free]
    /\ cmdPipe = [d \in Pids |-> <<>>] /\ respPipe = [d \in Pids |-> <<>>]
    /\ heirs = [d \in Pids |-> {}]
    /\ now = 0 /\ cmds = 0 /\ kills = 0
    /\ drained = {} /\ misled = {}

-----------------------------------------------------------------------------
(* Pipes.  The dispatcher's two ends of a driver's pipes are also open in   *)
(* every driver forked later, which inherited them.  Only when all of those *)
(* are gone does the driver read end of file, and get SIGPIPE on a write.   *)

Mut_HeldOpen(d) ==
    \/ Running /\ d \in Table
    \/ \E e \in heirs[d] \cup {d} : Alive(e)

HeldOpen(d) ==
    \/ Running /\ d \in Table
    \/ \E e \in heirs[d] : Alive(e)

\* What select reports readable: a line is there, or the writer is gone.
Mut_Readable == Table

Readable == {d \in Table : respPipe[d] # <<>> \/ proc[d] = "dead"}

-----------------------------------------------------------------------------
(* The driver process: driver_loop.                                         *)

\* d writes line m and goes on at location loc; SIGPIPE ends it when nobody
\* holds the reading end.
Say(d, m, loc) ==
    IF HeldOpen(d)
    THEN /\ respPipe' = [respPipe EXCEPT ![d] = Append(@, m)]
         /\ proc' = [proc EXCEPT ![d] = loc]
    ELSE /\ proc' = [proc EXCEPT ![d] = "dead"]
         /\ UNCHANGED respPipe

Overdue(d) == own[d].busy /\ now >= own[d].end_time

Remaining(d) == IF own[d].end_time < now THEN 0 ELSE own[d].end_time - now

\* The top of the loop: a task that is over is announced, then select waits.
DriverTop(d) ==
    /\ proc[d] = "top"
    /\ IF Overdue(d)
       THEN /\ own' = [own EXCEPT ![d].busy = FALSE]
            /\ Say(d, Notice, "select")
       ELSE /\ proc' = [proc EXCEPT ![d] = "select"]
            /\ UNCHANGED <<own, respPipe>>
    /\ UNCHANGED <<dispatcherVars, cmdPipe, heirs, now, cmds, kills>>

\* select gives up after the rest of the task.
DriverTimeout(d) ==
    /\ proc[d] = "select"
    /\ cmdPipe[d] = <<>> /\ HeldOpen(d)
    /\ Overdue(d)
    /\ proc' = [proc EXCEPT ![d] = "top"]
    /\ UNCHANGED <<dispatcherVars, own, cmdPipe, respPipe, heirs, now, cmds, kills>>

\* The answer to command c, and what the driver does on the way.
AnswerTo(d, c) ==
    IF own[d].busy
    THEN Answer("Busy", Remaining(d))
    ELSE Answer(IF c.verb = "task" THEN "OK" ELSE "Available", 0)

Mut_DriverCommand(d) ==
    /\ proc[d] = "select"
    /\ cmdPipe[d] # <<>>
    /\ LET c == Head(cmdPipe[d])
       IN /\ own' = [own EXCEPT ![d] = IF c.verb = "task" /\ ~@.busy
                                       THEN BusyUntil(now + c.timer) ELSE @]
          /\ IF c.verb = "task" /\ own[d].busy
             THEN proc' = [proc EXCEPT ![d] = "top"] /\ UNCHANGED respPipe
             ELSE Say(d, AnswerTo(d, c), "top")
    /\ cmdPipe' = [cmdPipe EXCEPT ![d] = Tail(@)]
    /\ UNCHANGED <<dispatcherVars, heirs, now, cmds, kills>>

DriverCommand(d) ==
    /\ proc[d] = "select"
    /\ cmdPipe[d] # <<>>
    /\ LET c == Head(cmdPipe[d])
       IN /\ own' = [own EXCEPT ![d] = IF c.verb = "task" /\ ~@.busy
                                       THEN BusyUntil(now + c.timer) ELSE @]
          /\ Say(d, AnswerTo(d, c), "top")
    /\ cmdPipe' = [cmdPipe EXCEPT ![d] = Tail(@)]
    /\ UNCHANGED <<dispatcherVars, heirs, now, cmds, kills>>

\* End of file on the command pipe: the driver closes its ends and exits.
DriverEof(d) ==
    /\ proc[d] = "select"
    /\ cmdPipe[d] = <<>> /\ ~HeldOpen(d)
    /\ proc' = [proc EXCEPT ![d] = "dead"]
    /\ UNCHANGED <<dispatcherVars, own, cmdPipe, respPipe, heirs, now, cmds, kills>>

Driver(d) == DriverTop(d) \/ DriverTimeout(d) \/ DriverCommand(d) \/ DriverEof(d)

-----------------------------------------------------------------------------
(* The dispatcher: main's loop and its commands.                            *)

\* An entry after the line m of its driver was read at time t.
Mut_Heard(entry, m, t) ==
    CASE m.word = "Busy" -> BusyUntil(t + m.rem)
      [] OTHER -> entry

Heard(entry, m, t) ==
    CASE m.word = "Available" -> [entry EXCEPT !.busy = FALSE]
      [] m.word = "Busy" -> BusyUntil(t + m.rem)
      [] OTHER -> entry

\* main's select returns because the operator typed, or closed the input.
SelectStdin ==
    /\ pc = "select"
    /\ ready' = Readable
    /\ pc' = "command"
    /\ drained' = {}
    /\ UNCHANGED <<drivers, view, wready, i, req, misled, proc, own, cmdPipe, respPipe,
                   heirs, now, cmds, kills>>

\* main's select returns because drivers wrote or died.
SelectDrivers ==
    /\ pc = "select"
    /\ Readable # {}
    /\ ready' = Readable
    /\ pc' = "scan" /\ i' = 1
    /\ drained' = {}
    /\ UNCHANGED <<drivers, view, wready, req, misled, proc, own, cmdPipe, respPipe,
                   heirs, now, cmds, kills>>

\* A command line is read; bound: at most MaxCommands of them.
Typed == pc = "command" /\ cmds < MaxCommands /\ cmds' = cmds + 1

CreateDriver(d) ==
    /\ Typed
    /\ proc[d] = "unborn"
    /\ proc' = [proc EXCEPT ![d] = "top"]
    /\ drivers' = Append(drivers, d)
    /\ view' = [view EXCEPT ![d] = Free]
    /\ heirs' = [e \in Pids |-> IF e \in Table THEN heirs[e] \cup {d} ELSE heirs[e]]
    /\ pc' = "scan" /\ i' = 1
    /\ UNCHANGED <<ready, wready, req, drained, misled, own, cmdPipe, respPipe, now, kills>>

\* Write a command to driver d and wait for its answer; the write to a dead
\* driver, whose death was not read yet, raises SIGPIPE.
SendCommand(d, verb, timer) ==
    /\ Typed
    /\ d \in Table
    /\ IF proc[d] = "dead"
       THEN pc' = "killed" /\ UNCHANGED <<cmdPipe, req>>
       ELSE /\ cmdPipe' = [cmdPipe EXCEPT ![d] = Append(@, [verb |-> verb, timer |-> timer])]
            /\ req' = [verb |-> verb, pid |-> d, timer |-> timer,
                       idx |-> CHOOSE k \in DOMAIN drivers : drivers[k] = d]
            /\ pc' = "wait"
    /\ UNCHANGED <<drivers, view, ready, wready, i, drained, misled, proc, own, respPipe,
                   heirs, now, kills>>

SendTask(d, timer) == SendCommand(d, "task", timer)

GetStatus(d) == SendCommand(d, "status", 0)

\* get_drivers also ends, in the table, the tasks whose time is over.
GetDrivers ==
    /\ Typed
    /\ view' = [d \in Pids |-> IF d \in Table /\ view[d].busy /\ now >= view[d].end_time
                               THEN [view[d] EXCEPT !.busy = FALSE] ELSE view[d]]
    /\ pc' = "scan" /\ i' = 1
    /\ UNCHANGED <<drivers, ready, wready, req, drained, misled, proc, own, cmdPipe,
                   respPipe, heirs, now, kills>>

\* An unknown pid or word goes on to the scan; an empty line, missing
\* arguments or a failed pipe() or fork() go back to select.
OtherCommand ==
    /\ Typed
    /\ \/ pc' = "scan" /\ i' = 1
       \/ pc' = "select" /\ UNCHANGED i
    /\ UNCHANGED <<drivers, view, ready, wready, req, drained, misled, proc, own, cmdPipe,
                   respPipe, heirs, now, kills>>

\* End of input: the dispatcher closes its ends of every pipe and returns.
EndOfInput ==
    /\ pc = "command"
    /\ pc' = "exited"
    /\ UNCHANGED <<drivers, view, ready, wready, i, req, drained, misled, proc, own,
                   cmdPipe, respPipe, heirs, now, cmds, kills>>

-----------------------------------------------------------------------------
(* Reading the drivers: the loop of wait_for_response ("waitscan") and the  *)
(* one at the end of main ("scan").  The latter uses the fd_set of a select *)
(* that ran before the command, so it may read a pipe emptied since.        *)

WaitSelect ==
    /\ pc = "wait"
    /\ Readable # {}
    /\ wready' = Readable
    /\ pc' = "waitscan" /\ i' = 1
    /\ UNCHANGED <<drivers, view, ready, req, drained, misled, proc, own, cmdPipe, respPipe,
                   heirs, now, cmds, kills>>

Scanning == pc \in {"waitscan", "scan"}
FdSet == IF pc = "waitscan" THEN wready ELSE ready
AtDriver(d) == Scanning /\ i \in DOMAIN drivers /\ drivers[i] = d
Expected(d) == pc = "waitscan" /\ d = req.pid

SkipDriver(d) ==
    /\ AtDriver(d)
    /\ d \notin FdSet
    /\ i' = i + 1
    /\ UNCHANGED <<pc, drivers, view, ready, wready, req, drained, misled, proc, own,
                   cmdPipe, respPipe, heirs, now, cmds, kills>>

\* remove_driver: the entries after position k move down by one.
Mut_Removed(table, k) == RemoveAt(table, IF k < Len(table) THEN k + 1 ELSE k)

Removed(table, k) == RemoveAt(table, k)

\* End of file: the driver leaves the table and i stays (i--, then i++).
ReapDriver(d) ==
    /\ AtDriver(d)
    /\ d \in FdSet
    /\ respPipe[d] = <<>> /\ proc[d] = "dead"
    /\ drivers' = Removed(drivers, i)
    /\ UNCHANGED <<pc, i, view, ready, wready, req, drained, misled, proc, own, cmdPipe,
                   respPipe, heirs, now, cmds, kills>>

\* A line of a driver whose answer nobody waits for.
HearDriver(d) ==
    /\ AtDriver(d)
    /\ d \in FdSet /\ ~Expected(d)
    /\ respPipe[d] # <<>>
    /\ view' = [view EXCEPT ![d] = Heard(@, Head(respPipe[d]), now)]
    /\ respPipe' = [respPipe EXCEPT ![d] = Tail(@)]
    /\ i' = i + 1
    /\ drained' = IF pc = "waitscan" THEN drained \cup {d} ELSE drained
    /\ UNCHANGED <<pc, drivers, ready, wready, req, misled, proc, own, cmdPipe, heirs,
                   now, cmds, kills>>

\* The first line of the expected driver is taken for the answer.  The command
\* then writes to drivers[idx], with the idx found before the wait: removals
\* may have put another driver there, or nothing (a dead slot, no effect).
TakeAnswer(d) ==
    /\ AtDriver(d)
    /\ d \in FdSet /\ Expected(d)
    /\ respPipe[d] # <<>>
    /\ LET m == Head(respPipe[d])
           heard == [view EXCEPT ![d] = Heard(@, m, now)]
           entry == IF req.idx \in DOMAIN drivers THEN {drivers[req.idx]} ELSE {}
       IN /\ view' = [e \in Pids |->
                        CASE e \in entry /\ req.verb = "status" -> Heard(heard[e], m, now)
                          [] e \in entry /\ req.verb = "task" /\ m.word = "OK" ->
                                BusyUntil(now + req.timer)
                          [] OTHER -> heard[e]]
          /\ misled' = misled \cup (IF m.notice THEN {d} ELSE {})
                              \cup (IF entry = {d} THEN {} ELSE {d} \cup entry)
    /\ respPipe' = [respPipe EXCEPT ![d] = Tail(@)]
    /\ drained' = drained \cup {d}
    /\ pc' = "scan" /\ i' = 1
    /\ req' = NoRequest /\ wready' = {}
    /\ UNCHANGED <<drivers, ready, proc, own, cmdPipe, heirs, now, cmds, kills>>

\* The loop is over and its locals with it.
ScanEnd ==
    /\ Scanning
    /\ i > Len(drivers)
    /\ pc' = IF pc = "waitscan" THEN "wait" ELSE "select"
    /\ i' = 1 /\ wready' = {}
    /\ ready' = IF pc = "waitscan" THEN ready ELSE {}
    /\ UNCHANGED <<drivers, view, req, drained, misled, proc, own, cmdPipe, respPipe,
                   heirs, now, cmds, kills>>

-----------------------------------------------------------------------------
(* The environment.                                                         *)

\* A driver is killed from outside (kill -9); what it wrote stays readable.
Kill(d) ==
    /\ Alive(d)
    /\ kills < MaxKills
    /\ kills' = kills + 1
    /\ proc' = [proc EXCEPT ![d] = "dead"]
    /\ UNCHANGED <<dispatcherVars, own, cmdPipe, respPipe, heirs, now, cmds>>

Tick ==
    /\ now < MaxTime
    /\ now' = now + 1
    /\ UNCHANGED <<dispatcherVars, proc, own, cmdPipe, respPipe, heirs, cmds, kills>>

HandleCommand ==
    \/ \E d \in Pids : CreateDriver(d)
    \/ \E d \in Pids, t \in Timers : SendTask(d, t)
    \/ \E d \in Pids : GetStatus(d)
    \/ GetDrivers
    \/ OtherCommand
    \/ EndOfInput

ReadDrivers ==
    \/ WaitSelect
    \/ \E d \in Pids : SkipDriver(d) \/ ReapDriver(d) \/ HearDriver(d) \/ TakeAnswer(d)
    \/ ScanEnd

Dispatcher == SelectDrivers \/ HandleCommand \/ ReadDrivers

Next ==
    \/ SelectStdin \/ Dispatcher
    \/ \E d \in Pids : Driver(d) \/ Kill(d)
    \/ Tick

\* The scheduler runs every process that can go on; the operator (SelectStdin),
\* the clock and kill promise nothing.
Fairness == WF_vars(Dispatcher) /\ \A d \in Pids : WF_vars(Driver(d))

Spec == Init /\ [][Next]_vars
FairSpec == Spec /\ Fairness

-----------------------------------------------------------------------------
(* Properties.                                                              *)

\* As long as the dispatcher runs, remove_driver (34-42) and the index games of
\* the scanning loops lose no living driver and list no driver twice.
NoLiveDriverLost ==
    Running => /\ IsInjective(drivers)
               /\ \A d \in Pids : Alive(d) => d \in Table

\* The last loop of main (341-364) reads a pipe for which select reported data
\* before the command ran.  It can only find it empty, and block, if the
\* wait_for_response of this very iteration read that driver's line.
Blocked(d) == pc = "scan" /\ AtDriver(d) /\ d \in ready /\ respPipe[d] = <<>> /\ Alive(d)
ScanBlocksOnlyOnDrained == \A d \in Pids : Blocked(d) => d \in drained

\* What get_drivers prints for d (322-335).
Listed(d) == IF view[d].busy /\ now < view[d].end_time THEN "Busy" ELSE "Available"

Settled(d) ==
    /\ pc = "select" /\ d \in Table /\ Alive(d)
    /\ cmdPipe[d] = <<>> /\ respPipe[d] = <<>>

\* With nothing in transit, the table agrees with the driver: it never shows a
\* free driver as busy, shows a busy one as available only when its time is up,
\* and never ends a task early.  The only way out is an announcement taken for
\* an answer (114-126), or an idx that removals made stale (283-287, 307-316).
TableAgrees ==
    \A d \in Pids \ misled : Settled(d) =>
        /\ view[d].busy => own[d].busy
        /\ own[d].busy /\ Listed(d) = "Available" => own[d].end_time <= now
        /\ view[d].busy => view[d].end_time >= own[d].end_time

\* "PID: %d, Status: Available" (333) is printed of a driver that has no task.
AvailableIsFree ==
    \A d \in Pids : Settled(d) /\ Listed(d) = "Available" =>
        ~own[d].busy \/ own[d].end_time <= now

\* wait_for_response (78-143) returns unless the driver it waits for dies: no
\* other driver's lines or death, and no command, leaves it without an answer.
Awaiting(d) == pc \in {"wait", "waitscan"} /\ req.pid = d
AnswerArrives == \A d \in Pids : Awaiting(d) ~> (~Awaiting(d) \/ proc[d] = "dead")

\* When the dispatcher is gone every driver exits, although each holds open
\* ends of the pipes of those created before it: the last one goes first.
ShutdownCascades == Stopped ~> (\A d \in Pids : ~Alive(d))

=============================================================================
