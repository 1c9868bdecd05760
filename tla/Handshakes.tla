----------------------------- MODULE Handshakes -----------------------------
(***************************************************************************)
(* The pairs of lab12 (FIFO), lab13 (POSIX and System V queues) and lab14     *)
(* (POSIX and System V shared memory): a server says "Hi!", a client answers  *)
(* "Hello!".  A program is the sequence of its calls on kernel objects, a     *)
(* step is one call.  Objects have names and outlive the process that made    *)
(* them: a name leads to one instance, an instance is known by its creator,   *)
(* and who opened an unlinked instance goes on with it.  A text is known by   *)
(* the process that wrote it.                                                 *)
(***************************************************************************)
EXTENDS Integers, Sequences

CONSTANTS
    Servers,      \* the servers a user starts, one after the other
    Clients,      \* the clients a user starts, at any time
    MaxCrashes    \* bound: processes killed from outside

Nobody == "nobody"

\* No process is named like something else that is printed or read.
ASSUME ProcsAssumption ==
    /\ Servers \cap Clients = {}
    /\ {Nobody, "part", "mixed", "blank", "noroom"} \cap (Servers \cup Clients) = {}

Procs == Servers \cup Clients
Objects == {"fifo", "toClient", "toServer", "shm", "sem"}

VARIABLES
    pair,     \* which programs are run
    status,   \* of each process
    at,       \* the call it makes next
    bound,    \* the instance a name leads to
    handle,   \* the instance a process has opened
    content,  \* of each instance: a queue, a text in memory, or a semaphore
    removed,  \* instances of System V objects that are no more
    met,      \* processes whose open() of the FIFO has found the other side
    heard,    \* whose text a process printed
    early,    \* history: clients that were over when the server started
    crashes   \* processes killed so far

handshakeVars == <<pair, status, at, bound, handle, content, removed, met, heard,
                   early, crashes>>

-----------------------------------------------------------------------------
(* The programs.                                                            *)

FifoServer ==
    << <<"unlink", "fifo">>, <<"mkfifo", "fifo">>, <<"openEnd", "fifo">>,
       <<"meet", "fifo">>, <<"send", "fifo">>, <<"close", "fifo">>, <<"unlink", "fifo">> >>

FifoClient == << <<"openEnd", "fifo">>, <<"meet", "fifo">>, <<"read", "fifo">> >>

\* The leftovers of a server that was killed are not removed first.
Mut_PosixQueueServer ==
    << <<"creat", "toClient">>, <<"creat", "toServer">>, <<"send", "toClient">>,
       <<"receive", "toServer">>, <<"unlink", "toClient">>, <<"unlink", "toServer">> >>

PosixQueueServer ==
    << <<"unlink", "toClient">>, <<"unlink", "toServer">>,
       <<"creat", "toClient">>, <<"creat", "toServer">>,
       <<"send", "toClient">>, <<"receive", "toServer">>,
       <<"unlink", "toClient">>, <<"unlink", "toServer">> >>

\* The queues are opened in the other order.
Mut_PosixQueueClient ==
    << <<"open", "toServer">>, <<"open", "toClient">>,
       <<"receive", "toClient">>, <<"send", "toServer">> >>

PosixQueueClient ==
    << <<"open", "toClient">>, <<"open", "toServer">>,
       <<"receive", "toClient">>, <<"send", "toServer">> >>

SysvQueueServer ==
    << <<"creat", "toClient">>, <<"creat", "toServer">>,
       <<"send", "toClient">>, <<"receive", "toServer">>,
       <<"remove", "toClient">>, <<"remove", "toServer">> >>

SysvQueueClient ==
    << <<"open", "toClient">>, <<"open", "toServer">>,
       <<"receive", "toClient">>, <<"send", "toServer">> >>

PosixShmServer ==
    << <<"creat", "shm">>, <<"ftruncate", "shm">>, <<"creat", "sem">>,
       <<"begin", "shm">>, <<"copy", "shm">>, <<"wait", "sem">>, <<"print", "shm">>,
       <<"unlink", "shm">>, <<"unlink", "sem">> >>

PosixShmClient ==
    << <<"open", "shm">>, <<"open", "sem">>, <<"print", "shm">>,
       <<"begin", "shm">>, <<"copy", "shm">>, <<"post", "sem">> >>

SysvShmServer ==
    << <<"creat", "shm">>, <<"attach", "shm">>, <<"begin", "shm">>, <<"copy", "shm">>,
       <<"poll", "shm">>, <<"print", "shm">>, <<"detach", "shm">>, <<"remove", "shm">> >>

SysvShmClient ==
    << <<"open", "shm">>, <<"attach", "shm">>, <<"print", "shm">>,
       <<"begin", "shm">>, <<"copy", "shm">>, <<"detach", "shm">> >>

Pairs == {"fifo", "posixQueue", "sysvQueue", "posixShm", "sysvShm"}

Program(p) ==
    CASE pair = "fifo" -> IF p \in Servers THEN FifoServer ELSE FifoClient
      [] pair = "posixQueue" -> IF p \in Servers THEN PosixQueueServer ELSE PosixQueueClient
      [] pair = "sysvQueue" -> IF p \in Servers THEN SysvQueueServer ELSE SysvQueueClient
      [] pair = "posixShm" -> IF p \in Servers THEN PosixShmServer ELSE PosixShmClient
      [] pair = "sysvShm" -> IF p \in Servers THEN SysvShmServer ELSE SysvShmClient

-----------------------------------------------------------------------------

\* What memory holds: the text of a process, a part of it and of what was there
\* before, parts of two texts, zeros, or nothing (a memory object of size zero).
Text(p) == <<p>>
Part(p) == <<p, "part">>
Mixed == <<"mixed">>
Blank == <<"blank">>
NoRoom == <<"noroom">>
Printed(text) == IF Len(text) = 1 THEN text[1] ELSE "mixed"

HandshakesInit ==
    /\ pair \in Pairs
    /\ status = [p \in Procs |-> "unborn"]
    /\ at = [p \in Procs |-> 1]
    /\ bound = [o \in Objects |-> Nobody]
    /\ handle = [p \in Procs |-> [o \in Objects |-> Nobody]]
    /\ content = [o \in Objects |-> [s \in Servers |-> << >>]]
    /\ removed = {} /\ met = {}
    /\ heard = [p \in Procs |-> Nobody]
    /\ early = [s \in Servers |-> {}]
    /\ crashes = 0

Running(p) == status[p] = "running"
Over(p) == status[p] \in {"done", "failed", "dead"}

Name(p) == Program(p)[at[p]][2]
Calls(p, what) == Running(p) /\ Program(p)[at[p]][1] = what

\* The instance p works on, and what is in it.
Instance(p) == handle[p][Name(p)]
Content(p) == content[Name(p)][Instance(p)]
Put(p, value) == content' = [content EXCEPT ![Name(p)][Instance(p)] = value]
IsRemoved(p) == <<Name(p), Instance(p)>> \in removed

\* The call returns; after the last one the program ends.
Return(p) ==
    /\ at' = [at EXCEPT ![p] = IF @ < Len(Program(p)) THEN @ + 1 ELSE @]
    /\ status' = [status EXCEPT ![p] = IF at[p] < Len(Program(p)) THEN @ ELSE "done"]

\* It returns -1 and the program calls exit(1), or a signal ends the process.
Fail(p, how) == status' = [status EXCEPT ![p] = how] /\ UNCHANGED at

\* The other processes that have p's end of the FIFO's other side.
Partners(p, instance) ==
    {q \in (IF p \in Servers THEN Clients ELSE Servers) :
        Running(q) /\ handle[q]["fifo"] = instance}

\* A user starts p; a server is started when the one before it is over.
Start(p) ==
    /\ status[p] = "unborn"
    /\ p \in Servers => \A s \in Servers : ~Running(s)
    /\ status' = [status EXCEPT ![p] = "running"]
    /\ early' = IF p \in Servers THEN [early EXCEPT ![p] = {c \in Clients : Over(c)}] ELSE early
    /\ UNCHANGED <<pair, at, bound, handle, content, removed, met, heard, crashes>>

\* unlink, mq_unlink, shm_unlink, sem_unlink; their failure is ignored.
UnlinkName(p) ==
    /\ Calls(p, "unlink")
    /\ bound' = [bound EXCEPT ![Name(p)] = Nobody]
    /\ Return(p)
    /\ UNCHANGED <<pair, handle, content, removed, met, heard, early, crashes>>

\* IPC_RMID: who waits for or uses the instance gets an error from now on.
RemoveObject(p) ==
    /\ Calls(p, "remove")
    /\ bound' = [bound EXCEPT ![Name(p)] = Nobody]
    /\ removed' = removed \cup {<<Name(p), Instance(p)>>}
    /\ Return(p)
    /\ UNCHANGED <<pair, handle, content, met, heard, early, crashes>>

Fresh(p) ==
    CASE Name(p) = "sem" -> 0
      [] Name(p) = "shm" -> IF pair = "posixShm" THEN NoRoom ELSE Blank
      [] OTHER -> << >>

\* Open with O_CREAT or IPC_CREAT: an object that exists is taken as it is.
Creat(p) ==
    /\ Calls(p, "creat")
    /\ IF bound[Name(p)] = Nobody
       THEN /\ bound' = [bound EXCEPT ![Name(p)] = p]
            /\ handle' = [handle EXCEPT ![p][Name(p)] = p]
            /\ content' = [content EXCEPT ![Name(p)][p] = Fresh(p)]
       ELSE /\ handle' = [handle EXCEPT ![p][Name(p)] = bound[Name(p)]]
            /\ UNCHANGED <<bound, content>>
    /\ Return(p)
    /\ UNCHANGED <<pair, removed, met, heard, early, crashes>>

Mkfifo(p) ==
    /\ Calls(p, "mkfifo")
    /\ IF bound[Name(p)] = Nobody
       THEN bound' = [bound EXCEPT ![Name(p)] = p] /\ Return(p)
       ELSE Fail(p, "failed") /\ UNCHANGED bound
    /\ UNCHANGED <<pair, handle, content, removed, met, heard, early, crashes>>

Open(p) ==
    /\ Calls(p, "open")
    /\ IF bound[Name(p)] = Nobody
       THEN Fail(p, "failed") /\ UNCHANGED handle
       ELSE handle' = [handle EXCEPT ![p][Name(p)] = bound[Name(p)]] /\ Return(p)
    /\ UNCHANGED <<pair, bound, content, removed, met, heard, early, crashes>>

\* open() of the FIFO: the process has its end now, and the two sides that
\* find each other go on (`meet`), whatever becomes of the other.
OpenEnd(p) ==
    /\ Calls(p, "openEnd")
    /\ IF bound["fifo"] = Nobody
       THEN Fail(p, "failed") /\ UNCHANGED <<handle, met>>
       ELSE LET others == Partners(p, bound["fifo"])
            IN /\ handle' = [handle EXCEPT ![p]["fifo"] = bound["fifo"]]
               /\ met' = met \cup others \cup (IF others = {} THEN {} ELSE {p})
               /\ Return(p)
    /\ UNCHANGED <<pair, bound, content, removed, heard, early, crashes>>

Meet(p) ==
    /\ Calls(p, "meet")
    /\ p \in met
    /\ Return(p)
    /\ UNCHANGED <<pair, bound, handle, content, removed, met, heard, early, crashes>>

\* A text goes into a queue, or into the FIFO, where SIGPIPE ends a writer
\* that nobody reads.
Send(p) ==
    /\ Calls(p, "send")
    /\ IF IsRemoved(p) THEN Fail(p, "failed") /\ UNCHANGED content
       ELSE IF Name(p) = "fifo" /\ Partners(p, Instance(p)) = {}
            THEN Fail(p, "dead") /\ UNCHANGED content
            ELSE Put(p, Append(Content(p), p)) /\ Return(p)
    /\ UNCHANGED <<pair, bound, handle, removed, met, heard, early, crashes>>

Receive(p) ==
    /\ Calls(p, "receive")
    /\ \/ /\ IsRemoved(p)
          /\ Fail(p, "failed")
          /\ UNCHANGED <<content, heard>>
       \/ /\ ~IsRemoved(p) /\ Content(p) # << >>
          /\ heard' = [heard EXCEPT ![p] = Head(Content(p))]
          /\ Put(p, Tail(Content(p)))
          /\ Return(p)
    /\ UNCHANGED <<pair, bound, handle, removed, met, early, crashes>>

\* read() of the FIFO; at its end the buffer is printed all the same.
Read(p) ==
    /\ Calls(p, "read")
    /\ \/ /\ Content(p) # << >>
          /\ heard' = [heard EXCEPT ![p] = Head(Content(p))]
          /\ Put(p, Tail(Content(p)))
       \/ /\ Content(p) = << >> /\ Partners(p, Instance(p)) = {}
          /\ heard' = [heard EXCEPT ![p] = "mixed"]
          /\ UNCHANGED content
    /\ Return(p)
    /\ UNCHANGED <<pair, bound, handle, removed, met, early, crashes>>

Close(p) ==
    /\ Calls(p, "close")
    /\ handle' = [handle EXCEPT ![p][Name(p)] = Nobody]
    /\ Return(p)
    /\ UNCHANGED <<pair, bound, content, removed, met, heard, early, crashes>>

Ftruncate(p) ==
    /\ Calls(p, "ftruncate")
    /\ Put(p, IF Content(p) = NoRoom THEN Blank ELSE Content(p))
    /\ Return(p)
    /\ UNCHANGED <<pair, bound, handle, removed, met, heard, early, crashes>>

\* shmat: a removed segment is there as long as somebody is attached to it.
Passed(q, what) == \E k \in 1 .. at[q] - 1 : Program(q)[k][1] = what

Attached(q, instance) ==
    /\ Running(q) /\ handle[q]["shm"] = instance
    /\ Passed(q, "attach") /\ ~Passed(q, "detach")

Attach(p) ==
    /\ Calls(p, "attach")
    /\ IF IsRemoved(p) /\ \A q \in Procs : ~Attached(q, Instance(p))
       THEN Fail(p, "failed") ELSE Return(p)
    /\ UNCHANGED <<pair, bound, handle, content, removed, met, heard, early, crashes>>

Detach(p) ==
    /\ Calls(p, "detach")
    /\ Return(p)
    /\ UNCHANGED <<pair, bound, handle, content, removed, met, heard, early, crashes>>

\* strcpy into the memory takes time: others see parts of the text, and two
\* that write at once leave the one, the other or a mixture.  Memory of size
\* zero cannot be touched (SIGBUS).
Begin(p) ==
    /\ Calls(p, "begin")
    /\ IF Content(p) = NoRoom THEN Fail(p, "dead") /\ UNCHANGED content
                              ELSE Put(p, Part(p)) /\ Return(p)
    /\ UNCHANGED <<pair, bound, handle, removed, met, heard, early, crashes>>

Copy(p) ==
    /\ Calls(p, "copy")
    /\ \/ Put(p, Text(p))
       \/ Content(p) # Part(p) /\ Put(p, Mixed)
    /\ Return(p)
    /\ UNCHANGED <<pair, bound, handle, removed, met, heard, early, crashes>>

PrintText(p) ==
    /\ Calls(p, "print")
    /\ IF Content(p) = NoRoom
       THEN Fail(p, "dead") /\ UNCHANGED heard
       ELSE /\ heard' = [heard EXCEPT ![p] = Printed(Content(p))]
            /\ Return(p)
    /\ UNCHANGED <<pair, bound, handle, content, removed, met, early, crashes>>

\* The loop that sleeps as long as the memory holds "Hi!".
Poll(p) ==
    /\ Calls(p, "poll")
    /\ Content(p) \notin {Text(s) : s \in Servers}
    /\ Return(p)
    /\ UNCHANGED <<pair, bound, handle, content, removed, met, heard, early, crashes>>

Wait(p) ==
    /\ Calls(p, "wait")
    /\ Content(p) > 0
    /\ Put(p, Content(p) - 1)
    /\ Return(p)
    /\ UNCHANGED <<pair, bound, handle, removed, met, heard, early, crashes>>

Post(p) ==
    /\ Calls(p, "post")
    /\ Put(p, Content(p) + 1)
    /\ Return(p)
    /\ UNCHANGED <<pair, bound, handle, removed, met, heard, early, crashes>>

\* kill -9; the objects stay.
Crash(p) ==
    /\ Running(p)
    /\ crashes < MaxCrashes
    /\ crashes' = crashes + 1
    /\ status' = [status EXCEPT ![p] = "dead"]
    /\ UNCHANGED <<pair, at, bound, handle, content, removed, met, heard, early>>

Step(p) ==
    \/ UnlinkName(p) \/ RemoveObject(p) \/ Creat(p) \/ Mkfifo(p) \/ Open(p) \/ Close(p)
    \/ OpenEnd(p) \/ Meet(p) \/ Send(p) \/ Receive(p) \/ Read(p)
    \/ Ftruncate(p) \/ Attach(p) \/ Detach(p) \/ Begin(p) \/ Copy(p)
    \/ PrintText(p) \/ Poll(p) \/ Wait(p) \/ Post(p)

HandshakesNext == \E p \in Procs : Start(p) \/ Step(p) \/ Crash(p)

HandshakesSpec == HandshakesInit /\ [][HandshakesNext]_handshakeVars

-----------------------------------------------------------------------------
(* Properties.                                                              *)

Spoke(c) == c \in Clients /\ (Passed(c, "begin") \/ status[c] = "done")

\* A client that looked before the server had said "Hi!" (between the opening of
\* the objects and the strcpy), or two clients at once.
Disturbed == \/ \E c \in Clients : heard[c] \in {"blank", "mixed"}
             \/ \E c, d \in Clients : c # d /\ Spoke(c) /\ Spoke(d)

\* What a server that ends by itself has printed.  Over queues it is the answer of
\* a client that heard this very server; after a crash the POSIX queues, which the
\* server removes first, give it no answer left over from before it started, while
\* the System V queues may.  The semaphore makes the shared memory as good, but for
\* a client that comes too early or a second one; without it the server at least
\* never takes its own words for the answer.
HeardTheAnswer ==
    \A s \in Servers : status[s] = "done" =>
        /\ pair \in {"posixQueue", "sysvQueue"} =>
             heard[s] \in Clients /\ (crashes = 0 => heard[heard[s]] = s)
        /\ pair = "posixQueue" => heard[s] \notin early[s]
        /\ pair = "posixShm" /\ crashes = 0 => heard[s] \in Clients \/ Disturbed
        /\ pair = "sysvShm" => heard[s] # s

\* The calls that wait: open() of a FIFO for the other side, a receiver and read() for
\* a text, the loop that polls the memory for another text, sem_wait() for a post.
Blocked(p) ==
    \/ Calls(p, "meet") /\ p \notin met
    \/ Calls(p, "receive") /\ ~IsRemoved(p) /\ Content(p) = << >>
    \/ Calls(p, "read") /\ Content(p) = << >> /\ Partners(p, Instance(p)) # {}
    \/ Calls(p, "poll") /\ Content(p) \in {Text(s) : s \in Servers}
    \/ Calls(p, "wait") /\ Content(p) = 0

Quiet == \A p \in Procs : Running(p) => Blocked(p)
WaitsOnObjectOf(c, s) == Running(c) /\ handle[s][Name(c)] = Instance(c)

\* When nothing moves any more: a server that still waits has been heard by no
\* client that has done its part, and no client waits for it in turn, unless the
\* one that heard it was killed; a client that waits has lost the one "Hi!" of its
\* server to another client, or a process was killed.
NobodyWaitsInVain ==
    Quiet =>
        /\ \A s \in Servers, c \in Clients : Running(s) =>
             /\ ~(heard[c] = s /\ status[c] = "done")
             /\ WaitsOnObjectOf(c, s) =>
                    \E d \in Clients : heard[d] = s /\ status[d] = "dead"
        /\ crashes = 0 => \A c \in Clients : Running(c) =>
             /\ status[Instance(c)] = "done"
             /\ \E d \in Clients \ {c} : heard[d] = Instance(c)
             /\ pair # "sysvQueue"

=============================================================================
