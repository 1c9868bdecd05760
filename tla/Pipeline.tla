------------------------------ MODULE Pipeline ------------------------------
(***************************************************************************)
(* lab12/task3.c: a shell that runs the commands of a line in a pipeline.     *)
(* Pipe k leads from stage k to stage k + 1; who holds its two ends is a set  *)
(* of processes, since fork() copies descriptors and a pipe ends for its      *)
(* reader, or breaks for its writer, only when the last copy is closed.  The  *)
(* commands themselves are programs outside of this repository.               *)
(***************************************************************************)
EXTENDS Integers, Sequences, SequencesExt

CONSTANT MaxStages   \* bound: commands on a line (MAX_ARGS = 64 in the code)
ASSUME MaxStagesAssumption == MaxStages \in Nat \ {0}

Stages == 1 .. MaxStages
Pipes == 1 .. MaxStages - 1
Shell == 0

\* cat copies its input, head reads one line, echo writes one, yes writes for
\* ever, and there is no program of the last name.
Commands == {"cat", "head", "echo", "yes", "missing"}

VARIABLES
    commands,    \* the line that is run
    shell,       \* where the shell is
    stage,       \* the loop's index i, and the number of commands after it
    prev_pipe,   \* the pipe whose read end the shell keeps for the next stage
    waited,      \* how many times wait() has returned
    does,        \* what a stage does next
    readers, writers,   \* who holds the ends of a pipe
    buffer       \* lines in a pipe, which has room for one

pipelineVars == <<commands, shell, stage, prev_pipe, waited, does, readers, writers, buffer>>
pipeVars == <<readers, writers, buffer>>

PipelineInit ==
    /\ commands = << >>
    /\ shell = "prompt"
    /\ stage = 1 /\ prev_pipe = 0 /\ waited = 0
    /\ does = [k \in Stages |-> "none"]
    /\ readers = [k \in Pipes |-> {}] /\ writers = [k \in Pipes |-> {}]
    /\ buffer = [k \in Pipes |-> 0]

Count == Len(commands)
Alive(k) == does[k] \notin {"none", "zombie"}
CloseEnds(held, p) == [k \in Pipes |-> held[k] \ {p}]

\* exit() or the default action of SIGPIPE: every descriptor is closed.
Ends(k) ==
    /\ does' = [does EXCEPT ![k] = "zombie"]
    /\ readers' = CloseEnds(readers, k) /\ writers' = CloseEnds(writers, k)

-----------------------------------------------------------------------------
(* The shell.                                                               *)

ReadCommand ==
    /\ shell = "prompt"
    /\ commands' \in SeqOf(Commands, MaxStages) \ {<< >>}
    /\ shell' = IF Len(commands') = 1 THEN "fork" ELSE "pipe"
    /\ stage' = 1 /\ prev_pipe' = 0 /\ waited' = 0
    /\ UNCHANGED <<does, pipeVars>>

ExitCommand ==
    /\ shell = "prompt"
    /\ shell' = "exit"
    /\ UNCHANGED <<commands, stage, prev_pipe, waited, does, pipeVars>>

\* perror() and exit(): the stages already started go on without their shell.
Abort ==
    /\ shell' = "exit"
    /\ readers' = CloseEnds(readers, Shell) /\ writers' = CloseEnds(writers, Shell)
    /\ UNCHANGED <<commands, stage, prev_pipe, waited, does, buffer>>

\* pipe() for every stage but the last one.
MakePipe ==
    /\ shell = "pipe"
    /\ \/ /\ stage < Count
          /\ readers' = [readers EXCEPT ![stage] = {Shell}]
          /\ writers' = [writers EXCEPT ![stage] = {Shell}]
          /\ buffer' = [buffer EXCEPT ![stage] = 0]
       \/ /\ stage = Count
          /\ UNCHANGED pipeVars
    /\ shell' = "fork"
    /\ UNCHANGED <<commands, stage, prev_pipe, waited, does>>

MakePipeFails ==
    /\ shell = "pipe"
    /\ stage < Count
    /\ Abort

Inherit(held, k) == [j \in Pipes |-> IF Shell \in held[j] THEN held[j] \cup {k} ELSE held[j]]

ForkStage ==
    /\ shell = "fork"
    /\ does' = [does EXCEPT ![stage] = "setup"]
    /\ readers' = Inherit(readers, stage) /\ writers' = Inherit(writers, stage)
    /\ shell' = IF Count = 1 THEN "wait" ELSE "close"
    /\ UNCHANGED <<commands, stage, prev_pipe, waited, buffer>>

\* A single command's failure leads back to the prompt, a pipeline's to exit().
ForkFails ==
    /\ shell = "fork"
    /\ \/ /\ Count > 1
          /\ Abort
       \/ /\ Count = 1
          /\ shell' = "prompt" /\ commands' = << >>
          /\ UNCHANGED <<stage, prev_pipe, waited, does, pipeVars>>

\* The read end kept for this stage stays open in the shell.
Mut_ParentCloses ==
    /\ shell = "close"
    /\ readers' = readers
    /\ writers' = CloseEnds(writers, Shell)
    /\ prev_pipe' = IF stage < Count THEN stage ELSE prev_pipe
    /\ stage' = stage + 1
    /\ shell' = IF stage < Count THEN "pipe" ELSE "wait"
    /\ UNCHANGED <<commands, waited, does, buffer>>

\* The parent closes prev_pipe and pipes[1], and keeps pipes[0] in prev_pipe.
ParentCloses ==
    /\ shell = "close"
    /\ readers' = [k \in Pipes |-> IF k = prev_pipe THEN readers[k] \ {Shell} ELSE readers[k]]
    /\ writers' = CloseEnds(writers, Shell)
    /\ prev_pipe' = IF stage < Count THEN stage ELSE prev_pipe
    /\ stage' = stage + 1
    /\ shell' = IF stage < Count THEN "pipe" ELSE "wait"
    /\ UNCHANGED <<commands, waited, does, buffer>>

\* wait(NULL) returns for any child that is over; as many calls as commands.
WaitReturns(k) ==
    /\ shell = "wait"
    /\ does[k] = "zombie"
    /\ does' = [does EXCEPT ![k] = "none"]
    /\ waited' = waited + 1
    /\ IF waited + 1 = Count
       THEN shell' = "prompt" /\ commands' = << >>
       ELSE UNCHANGED <<shell, commands>>
    /\ UNCHANGED <<stage, prev_pipe, pipeVars>>

ShellStep ==
    \/ MakePipe \/ MakePipeFails \/ ForkStage \/ ForkFails \/ ParentCloses
    \/ \E k \in Stages : WaitReturns(k)

-----------------------------------------------------------------------------
(* A stage: first the child's part of execute_pipeline, then the command.   *)

FirstStep(command) ==
    CASE command \in {"cat", "head"} -> "read"
      [] command = "yes" -> "write"
      [] command = "echo" -> "lastWrite"

\* The child does not close pipes[0]: it can read what it writes itself.
Mut_ChildSetup(k) ==
    /\ does[k] = "setup"
    /\ commands[k] # "missing"
    /\ does' = [does EXCEPT ![k] = FirstStep(commands[k])]
    /\ UNCHANGED <<commands, shell, stage, prev_pipe, waited, pipeVars>>

\* dup2() puts the ends of its own in the place of stdin and stdout; of pipe k,
\* which it writes to, the child closes the read end.
ChildSetup(k) ==
    /\ does[k] = "setup"
    /\ commands[k] # "missing"
    /\ does' = [does EXCEPT ![k] = FirstStep(commands[k])]
    /\ readers' = [j \in Pipes |-> IF j = k THEN readers[j] \ {k} ELSE readers[j]]
    /\ UNCHANGED <<commands, shell, stage, prev_pipe, waited, writers, buffer>>

\* execvp() returns only when it fails.
ExecFails(k) ==
    /\ does[k] = "setup"
    /\ commands[k] = "missing"
    /\ Ends(k)
    /\ UNCHANGED <<commands, shell, stage, prev_pipe, waited, buffer>>

\* A line came in.
GotLine(k) == does' = [does EXCEPT ![k] = IF commands[k] = "cat" THEN "write" ELSE "lastWrite"]

StageReads(k) ==
    /\ does[k] = "read"
    /\ \/ /\ k = 1                       \* stdin of the shell
          /\ GotLine(k)
          /\ UNCHANGED pipeVars
       \/ /\ k > 1 /\ buffer[k - 1] > 0
          /\ GotLine(k)
          /\ buffer' = [buffer EXCEPT ![k - 1] = @ - 1]
          /\ UNCHANGED <<readers, writers>>
       \/ /\ k > 1 /\ buffer[k - 1] = 0 /\ writers[k - 1] = {}
          /\ Ends(k)
          /\ UNCHANGED buffer
    /\ UNCHANGED <<commands, shell, stage, prev_pipe, waited>>

\* The user ends the input of the first stage.
EndOfInput ==
    /\ does[1] = "read"
    /\ Ends(1)
    /\ UNCHANGED <<commands, shell, stage, prev_pipe, waited, buffer>>

Wrote(k) ==
    IF does[k] = "lastWrite" THEN Ends(k)
    ELSE /\ does' = [does EXCEPT ![k] = IF commands[k] = "cat" THEN "read" ELSE "write"]
         /\ UNCHANGED <<readers, writers>>

\* Nobody reads: SIGPIPE.  The pipe is full: write() waits.
StageWrites(k) ==
    /\ does[k] \in {"write", "lastWrite"}
    /\ \/ /\ k = Count
          /\ Wrote(k) /\ UNCHANGED buffer
       \/ /\ k < Count /\ readers[k] # {} /\ buffer[k] = 0
          /\ Wrote(k)
          /\ buffer' = [buffer EXCEPT ![k] = @ + 1]
       \/ /\ k < Count /\ readers[k] = {}
          /\ Ends(k) /\ UNCHANGED buffer
    /\ UNCHANGED <<commands, shell, stage, prev_pipe, waited>>

StageStep(k) == ChildSetup(k) \/ ExecFails(k) \/ StageReads(k) \/ StageWrites(k)

PipelineNext ==
    \/ ReadCommand \/ ExitCommand
    \/ ShellStep
    \/ \E k \in Stages : StageStep(k)
    \/ EndOfInput

\* Every process is scheduled; who types at the terminal ends the input some day.
PipelineFairness ==
    /\ WF_pipelineVars(ShellStep)
    /\ \A k \in Stages : WF_pipelineVars(StageStep(k))
    /\ SF_pipelineVars(EndOfInput)

PipelineSpec == PipelineInit /\ [][PipelineNext]_pipelineVars /\ PipelineFairness

-----------------------------------------------------------------------------
(* Properties.                                                              *)

\* Between two lines no child and no zombie is left, and the shell holds no end of
\* a pipe: in a session of many lines neither processes nor descriptors run out
\* (task3.c:82-95, 137-145).  While it waits, nobody but the two neighbours of a
\* pipe, and children on their way to exec, holds an end of it.
NothingLeftOver ==
    /\ shell = "prompt" =>
         /\ \A k \in Stages : does[k] = "none"
         /\ \A k \in Pipes : readers[k] = {} /\ writers[k] = {}
    /\ shell = "wait" =>
         \A k \in Pipes : writers[k] \subseteq {k} /\ readers[k] \subseteq {k, k + 1}

\* yes is stopped only by a command behind it that does not read to the end.
EndsByItself ==
    \A k \in DOMAIN commands : commands[k] = "yes" =>
        \E j \in DOMAIN commands : j > k /\ commands[j] \in {"head", "echo", "missing"}

\* A pipeline whose commands would end gives the prompt back, whatever the order of
\* its stages: the readers see the end of the file, the writers SIGPIPE.  A failed
\* pipe() or fork() ends the shell in the middle of the line (task3.c:51-54,
\* 59-62): even then each stage already started comes to its end.
LineEnds ==
    (shell # "prompt" /\ (shell = "exit" \/ EndsByItself))
        ~> (shell \in {"prompt", "exit"} /\ \A k \in Stages : ~ Alive(k))
=============================================================================
