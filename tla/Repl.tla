-------------------------------- MODULE Repl --------------------------------
(***************************************************************************)
(* The interactive loop of main.c with what it waits for: the status pipe  *)
(* of a builtin's thread, foreground children, the stages of a pipeline    *)
(* and their pipes, the helper of an @ line; and Ctrl-C at any point.      *)
(* Background jobs, once started, are the business of JobControl.          *)
(***************************************************************************)
EXTENDS Naturals, Sequences, FiniteSets, FiniteSetsExt

CONSTANTS
  Pids,        \* process ids for children, numbers; only compared, so the least is used first
  Shell,       \* the shell's own process
  Pipes,       \* the pipes the kernel can hand out, numbers; the least free one is next
  NoPipe,      \* no pipe: standard input and output are left alone
  MaxStages,   \* MAX_PIPE_CMDS
  Capacity,    \* what a pipe holds before a writer has to wait
  Kinds,       \* the kinds of lines that are typed
  Failing,     \* calls that may fail: pipe, fork, thread, open (redirections)
  OneShot,     \* SIGINT goes back to its default once caught (see README)
  MaxLines,    \* bound: lines read
  MaxSigints   \* bound: Ctrl-C pressed

ASSUME ReplAssumption ==
  /\ Pids \subseteq Nat /\ Pipes \subseteq Nat
  /\ Shell \notin Pids
  /\ NoPipe \notin Pipes
  /\ MaxStages \in Nat \ {0} /\ Capacity \in Nat \ {0}
  /\ Kinds \subseteq {"builtin", "exit", "external", "pipeline", "background", "ai"}
  /\ Failing \subseteq {"pipe", "fork", "thread", "open"}
  /\ OneShot \in BOOLEAN
  /\ MaxLines \in Nat /\ MaxSigints \in Nat

VARIABLES
  pc,        \* where the main thread is
  line,      \* the line it executes
  pids,      \* pids[]: the children it has forked for the line, in order
  next,      \* i: the stage that is forked, or waited for
  inFd,      \* in_fd: the pipe the next stage reads from
  cur,       \* pipefd, status_pipe or pipe_fd: the pipe just created
  worker,    \* the thread of a builtin
  ends,      \* who holds the read and the write end of each pipe
  content,   \* how much each pipe holds
  child,     \* the children
  gSigint,   \* g_sigint
  caught,    \* the disposition of SIGINT is signal_handler, not the default
  over,      \* how the shell has ended, if it has
  left,      \* bound: lines still to be typed
  sigints,   \* bound and history: how often Ctrl-C was pressed
  torn,      \* history: the status read was interrupted
  faults     \* history: a pipe or a fork has failed

mainVars == <<pc, line, pids, next, inFd, cur>>
pipeVars == <<ends, content>>
signalVars == <<gSigint, caught, sigints>>
historyVars == <<torn, faults>>
vars == <<mainVars, worker, pipeVars, child, signalVars, over, left, historyVars>>

Procs == Pids \cup {Shell}

Labels == {"start", "prompt", "read", "thread", "status", "join", "pipe", "fork",
           "parent", "register", "wait", "aiRead", "aiWait", "confirm", "gone"}

Children == [st : {"none", "forked", "running", "zombie"},
             in : Pipes \cup {NoPipe}, out : Pipes \cup {NoPipe}, eof : BOOLEAN,
             job : BOOLEAN]

NoLine == [kind |-> "none", n |-> 0, endless |-> FALSE]
NoChild == [st |-> "none", in |-> NoPipe, out |-> NoPipe, eof |-> FALSE, job |-> FALSE]

Init ==
  /\ pc = "start" /\ line = NoLine /\ pids = <<>> /\ next = 1
  /\ inFd = NoPipe /\ cur = NoPipe
  /\ worker = "none"
  /\ ends = [q \in Pipes |-> [r |-> {}, w |-> {}]]
  /\ content = [q \in Pipes |-> 0]
  /\ child = [p \in Pids |-> NoChild]
  /\ gSigint = FALSE /\ caught = TRUE /\ sigints = 0
  /\ over = "no"
  /\ left = MaxLines
  /\ torn = FALSE /\ faults = FALSE

-----------------------------------------------------------------------------
(* Descriptors.                                                            *)

FreePipes == {q \in Pipes : ends[q].r = {} /\ ends[q].w = {}}
FreePids == {p \in Pids : child[p].st = "none"}

\* close(2) of one end in one process; of no pipe at all it does nothing.
Close(e, p, q, end) ==
  IF q = NoPipe THEN e
  ELSE IF end = "r" THEN [e EXCEPT ![q].r = @ \ {p}] ELSE [e EXCEPT ![q].w = @ \ {p}]

\* A process that ends closes what it holds.
CloseAll(e, ps) == [q \in Pipes |-> [r |-> e[q].r \ ps, w |-> e[q].w \ ps]]

\* fork(2) duplicates every descriptor of the shell.
Inherit(e, p) ==
  [q \in Pipes |-> [r |-> IF Shell \in e[q].r THEN e[q].r \cup {p} ELSE e[q].r,
                    w |-> IF Shell \in e[q].w THEN e[q].w \cup {p} ELSE e[q].w]]

Alive(p) == child[p].st \in {"forked", "running"}
End(ps) == /\ child' = [p \in Pids |-> IF p \in ps THEN [child[p] EXCEPT !.st = "zombie"]
                                                   ELSE child[p]]
           /\ ends' = CloseAll(ends, ps)

-----------------------------------------------------------------------------
(* The loop.                                                               *)

Running == over = "no"

\* Start of a line; the main thread keeps no descriptor and no pid of an
\* earlier one. Kinds are told apart by the scanners of module ShellLine.
Execute(l, label) ==
  /\ line' = l /\ pids' = <<>> /\ next' = 1 /\ inFd' = NoPipe /\ cur' = NoPipe
  /\ pc' = label

FirstLabel(kind) == IF kind = "external" THEN "fork" ELSE "pipe"

\* endless: the first stage writes until it is killed, as "yes" does.
Lines ==
  {[kind |-> k, n |-> 1, endless |-> FALSE] : k \in Kinds \ {"pipeline", "background"}}
    \cup [kind : Kinds \cap {"background"}, n : 1..MaxStages, endless : {FALSE}]
    \cup [kind : Kinds \cap {"pipeline"}, n : 2..MaxStages, endless : BOOLEAN]

\* Back to the top of the loop, or out of main when one command was asked for.
Return ==
  /\ line' = NoLine /\ pids' = <<>> /\ next' = 1 /\ inFd' = NoPipe /\ cur' = NoPipe
  /\ pc' = "prompt"

\* Mode 3 of main.
StartRepl ==
  /\ Running /\ pc = "start"
  /\ Return
  /\ UNCHANGED <<worker, pipeVars, child, signalVars, over, left, historyVars>>

\* Modes 1 and 2: one command from the command line, then the shell ends.
StartOnce ==
  /\ Running /\ pc = "start"
  /\ \E l \in Lines : /\ l.kind \in {"builtin", "exit", "external", "ai"}
                      /\ Execute(l, FirstLabel(l.kind))
  /\ left' = 0
  /\ UNCHANGED <<worker, pipeVars, child, signalVars, over, historyVars>>

\* The top of the loop clears g_sigint, then prompts.
Prompt ==
  /\ Running /\ pc = "prompt"
  /\ pc' = "read"
  /\ gSigint' = FALSE
  /\ UNCHANGED <<line, pids, next, inFd, cur, worker, pipeVars, child, caught, sigints,
                 over, left, historyVars>>

ReadLine ==
  /\ Running /\ pc = "read" /\ left > 0
  /\ left' = left - 1
  /\ \/ \E l \in Lines : Execute(l, FirstLabel(l.kind))
     \/ Return       \* a blank line, or one that does not parse
  /\ UNCHANGED <<worker, pipeVars, child, signalVars, over, historyVars>>

\* read_input at end of file; also the return of main in modes 1 and 2.
EndOfInput ==
  /\ Running /\ pc = "read"
  /\ over' = "exit" /\ pc' = "gone"
  /\ ends' = CloseAll(ends, {Shell})
  /\ UNCHANGED <<line, pids, next, inFd, cur, worker, content, child, signalVars, left,
                 historyVars>>

-----------------------------------------------------------------------------
(* pipe(2) and fork(2), for the three places that call them.               *)

NeedsPipe == line.kind \in {"builtin", "exit", "ai"} \/ next < line.n

\* pipe(2), when the command needs one. The last stage of a pipeline does not.
MakePipe ==
  /\ Running /\ pc = "pipe"
  /\ pc' = IF line.kind \in {"builtin", "exit"} THEN "thread" ELSE "fork"
  /\ \/ /\ NeedsPipe
        /\ FreePipes # {}
        /\ LET q == Min(FreePipes) IN
             /\ ends' = [ends EXCEPT ![q] = [r |-> {Shell}, w |-> {Shell}]]
             /\ content' = [content EXCEPT ![q] = 0]
             /\ cur' = q
     \/ /\ ~NeedsPipe
        /\ UNCHANGED <<ends, content, cur>>
  /\ UNCHANGED <<line, pids, next, inFd, worker, child, signalVars, over, left, historyVars>>

\* Mutant: in_fd is forgotten.
KeepsInFd(e) == e

\* in_fd is closed; the children forked so far are left to themselves.
AfterPipeFails(e) == Close(e, Shell, inFd, "r")

PipeFails ==
  /\ Running /\ pc = "pipe" /\ NeedsPipe
  /\ "pipe" \in Failing \/ FreePipes = {}
  /\ ends' = AfterPipeFails(ends)
  /\ faults' = TRUE
  /\ Return
  /\ UNCHANGED <<content, worker, child, signalVars, over, left, torn>>

Fork ==
  /\ Running /\ pc = "fork"
  /\ FreePids # {}
  /\ LET p == Min(FreePids) IN
       /\ child' = [child EXCEPT ![p] = [NoChild EXCEPT !.st = "forked", !.in = inFd,
                                                        !.out = cur]]
       /\ ends' = Inherit(ends, p)
       /\ pids' = Append(pids, p)
  /\ pc' = "parent"
  /\ UNCHANGED <<line, next, inFd, cur, worker, content, signalVars, over, left, historyVars>>

\* Both ends of the new pipe and in_fd are closed again.
AfterForkFails(e) ==
  Close(Close(Close(e, Shell, cur, "r"), Shell, cur, "w"), Shell, inFd, "r")

ForkFails ==
  /\ Running /\ pc = "fork"
  /\ "fork" \in Failing \/ FreePids = {}
  /\ ends' = AfterForkFails(ends)
  /\ faults' = TRUE
  /\ Return
  /\ UNCHANGED <<content, worker, child, signalVars, over, left, torn>>

\* Mutant: the write end is forgotten.
KeepsWriteEnd(e) == Close(e, Shell, inFd, "r")

\* The parent's side after fork: it keeps the read end for the next stage.
ParentCloses(e) == Close(Close(e, Shell, inFd, "r"), Shell, cur, "w")

AfterFork ==
  /\ Running /\ pc = "parent"
  /\ ends' = ParentCloses(ends)
  /\ IF next < line.n
       THEN /\ next' = next + 1 /\ inFd' = cur /\ cur' = NoPipe /\ pc' = "pipe"
            /\ UNCHANGED <<line, pids>>
       ELSE /\ next' = 1 /\ inFd' = NoPipe
            /\ pc' = CASE line.kind = "background" -> "register"
                       [] line.kind = "ai"         -> "aiRead"
                       [] OTHER                    -> "wait"
            /\ UNCHANGED <<line, pids, cur>>
  /\ UNCHANGED <<content, worker, child, signalVars, over, left, historyVars>>

\* job_add for every stage: from here JobControl tracks and reaps them.
Register ==
  /\ Running /\ pc = "register"
  /\ child' = [p \in Pids |-> [child[p] EXCEPT !.job = @ \/ \E k \in 1..Len(pids) : pids[k] = p]]
  /\ Return
  /\ UNCHANGED <<worker, pipeVars, signalVars, over, left, historyVars>>

\* Mutant: the wait for the last stage is thought to be enough.
WaitsOnce(k) == FALSE

MoreToWaitFor(k) == k < line.n

\* waitpid for stage after stage, or for an external command.
WaitStage ==
  /\ Running /\ pc = "wait"
  /\ child[pids[next]].st = "zombie"
  /\ child' = [child EXCEPT ![pids[next]] = NoChild]
  /\ IF MoreToWaitFor(next)
       THEN next' = next + 1 /\ UNCHANGED <<pc, line, pids, inFd, cur>>
       ELSE Return
  /\ UNCHANGED <<worker, pipeVars, signalVars, over, left, historyVars>>

-----------------------------------------------------------------------------
(* dispatch_builtin and builtin_thread_main. Both threads belong to the    *)
(* shell: a descriptor that one closes is closed for the other.            *)

CloseStatusPipe(e) == Close(Close(e, Shell, cur, "r"), Shell, cur, "w")

CreateThread ==
  /\ Running /\ pc = "thread"
  /\ \/ /\ worker' = "running" /\ pc' = "status"
        /\ UNCHANGED <<ends, line, pids, next, inFd, cur>>
     \/ /\ "thread" \in Failing
        /\ ends' = CloseStatusPipe(ends)
        /\ Return /\ UNCHANGED worker
  /\ UNCHANGED <<content, child, signalVars, over, left, historyVars>>

\* spec->run returns.
BuiltinReturns ==
  /\ Running /\ worker = "running" /\ line.kind = "builtin"
  /\ worker' = "writing"
  /\ UNCHANGED <<mainVars, pipeVars, child, signalVars, over, left, historyVars>>

\* The exit builtin ends the process from its thread.
BuiltinExits ==
  /\ Running /\ worker = "running" /\ line.kind = "exit"
  /\ over' = "exit" /\ pc' = "gone" /\ worker' = "none"
  /\ ends' = CloseAll(ends, {Shell})
  /\ UNCHANGED <<line, pids, next, inFd, cur, content, child, signalVars, left, historyVars>>

\* write(status_fd): without a reader it raises SIGPIPE, which nobody handles.
WriteStatus ==
  /\ Running /\ worker = "writing"
  /\ IF ends[cur].r = {}
       THEN /\ over' = "SIGPIPE" /\ pc' = "gone" /\ worker' = "none"
            /\ ends' = CloseAll(ends, {Shell})
            /\ UNCHANGED content
       ELSE /\ content' = [content EXCEPT ![cur] = 1]
            /\ ends' = Close(ends, Shell, cur, "w")
            /\ worker' = "done"
            /\ UNCHANGED <<over, pc>>
  /\ UNCHANGED <<line, pids, next, inFd, cur, child, signalVars, left, historyVars>>

\* Mutant: the pipe is closed without waiting for the status.
DoesNotWait(q) == TRUE

\* read(2) returns with data, or with end of file once there is no writer.
Readable(q) == content[q] > 0 \/ ends[q].w = {}

\* read(status_pipe[0]) and its close.
ReadStatus ==
  /\ Running /\ pc = "status"
  /\ Readable(cur)
  /\ ends' = Close(ends, Shell, cur, "r")
  /\ content' = [content EXCEPT ![cur] = 0]
  /\ pc' = "join"
  /\ UNCHANGED <<line, pids, next, inFd, cur, worker, child, signalVars, over, left, historyVars>>

\* pthread_join, and a close of the write end that the thread has closed.
JoinThread ==
  /\ Running /\ pc = "join" /\ worker = "done"
  /\ worker' = "none"
  /\ ends' = Close(ends, Shell, cur, "w")
  /\ Return
  /\ UNCHANGED <<content, child, signalVars, over, left, historyVars>>

-----------------------------------------------------------------------------
(* handle_llm_line.                                                        *)

\* read(pipe_fd[0]) and its close: a suggestion, or end of file.
ReadSuggestion ==
  /\ Running /\ pc = "aiRead"
  /\ Readable(cur)
  /\ line' = [line EXCEPT !.kind = IF content[cur] > 0 THEN "suggested" ELSE "ai"]
  /\ ends' = Close(ends, Shell, cur, "r")
  /\ content' = [content EXCEPT ![cur] = 0]
  /\ pc' = "aiWait"
  /\ UNCHANGED <<pids, next, inFd, cur, worker, child, signalVars, over, left, historyVars>>

AfterHelper == IF line.kind = "suggested" THEN pc' = "confirm" /\ UNCHANGED <<line, pids, next, inFd, cur>>
                                          ELSE Return

\* waitpid for the helper.
WaitHelper ==
  /\ Running /\ pc = "aiWait"
  /\ child[pids[1]].st = "zombie"
  /\ child' = [child EXCEPT ![pids[1]] = NoChild]
  /\ AfterHelper
  /\ UNCHANGED <<worker, pipeVars, signalVars, over, left, historyVars>>

\* The answer, and validate_suggested_command (see ShellLine).
Confirm ==
  /\ Running /\ pc = "confirm"
  /\ \/ Return
     \/ \E k \in Kinds \cap {"builtin", "exit", "external"} :
          Execute([kind |-> k, n |-> 1, endless |-> FALSE], FirstLabel(k))
  /\ UNCHANGED <<worker, pipeVars, child, signalVars, over, left, historyVars>>

-----------------------------------------------------------------------------
(* The children. Whatever program a child runs, the kernel lets it do this. *)

\* Mutant: the child keeps the read end of the pipe it writes to.
KeepsReadEnd(p) == ends

\* dup2 onto standard input and output, then in_fd and both ends of pipefd are
\* closed; what else the shell held when it forked stays open.
ChildCloses(p) == Close(ends, p, child[p].out, "r")

ChildSetup(p) ==
  /\ child[p].st = "forked"
  /\ \/ /\ child' = [child EXCEPT ![p].st = "running"]
        /\ ends' = ChildCloses(p)
     \/ /\ "open" \in Failing
        /\ End({p})
  /\ UNCHANGED <<mainVars, worker, content, signalVars, over, left, historyVars>>

\* read(2): data, or end of file once nobody can write any more.
ChildReads(p) ==
  /\ child[p].st = "running" /\ child[p].in # NoPipe /\ ~child[p].eof
  /\ LET q == child[p].in IN
       \/ /\ content[q] > 0
          /\ content' = [content EXCEPT ![q] = @ - 1]
          /\ UNCHANGED child
       \/ /\ content[q] = 0 /\ ends[q].w = {}
          /\ child' = [child EXCEPT ![p].eof = TRUE]
          /\ UNCHANGED content
  /\ UNCHANGED <<mainVars, worker, ends, signalVars, over, left, historyVars>>

\* write(2): waits while the pipe is full, kills the writer when nobody reads.
ChildWrites(p) ==
  /\ child[p].st = "running" /\ child[p].out # NoPipe
  /\ LET q == child[p].out IN
       \/ /\ ends[q].r = {}
          /\ End({p})
          /\ UNCHANGED content
       \/ /\ ends[q].r # {} /\ content[q] < Capacity
          /\ content' = [content EXCEPT ![q] = @ + 1]
          /\ UNCHANGED <<child, ends>>
  /\ UNCHANGED <<mainVars, worker, signalVars, over, left, historyVars>>

\* An endless writer only ends by a signal.
Endless(p) == line.endless /\ Len(pids) > 0 /\ pids[1] = p

ChildEnds(p) ==
  /\ child[p].st = "running" /\ ~Endless(p)
  /\ End({p})
  /\ UNCHANGED <<mainVars, worker, content, signalVars, over, left, historyVars>>

\* sigchld_handler, once a background child has been registered.
ReapBackground(p) ==
  /\ child[p].st = "zombie" /\ child[p].job
  /\ child' = [child EXCEPT ![p] = NoChild]
  /\ UNCHANGED <<mainVars, worker, pipeVars, signalVars, over, left, historyVars>>

-----------------------------------------------------------------------------
(* Ctrl-C. The terminal sends SIGINT to every process of the group. A call *)
(* that blocks the thread it is delivered to returns with EINTR.           *)

Blocked == pc \in {"read", "status", "wait", "aiRead", "aiWait", "confirm"}

\* What the main thread does with EINTR.
Interrupted ==
  CASE pc = "read" ->
         \* read_input returns NULL: prompt again
         /\ pc' = "prompt"
         /\ UNCHANGED <<line, pids, next, inFd, cur, torn>>
    [] pc = "status" ->
         \* the read end is closed, the status is still to be written
         /\ pc' = "join" /\ torn' = TRUE
         /\ UNCHANGED <<line, pids, next, inFd, cur>>
    [] pc = "wait" ->
         \* perror("waitpid"), and on to the next stage
         /\ IF MoreToWaitFor(next)
              THEN next' = next + 1 /\ UNCHANGED <<pc, line, pids, inFd, cur>>
              ELSE Return
         /\ UNCHANGED torn
    [] pc = "aiRead" ->
         /\ pc' = "aiWait"
         /\ UNCHANGED <<line, pids, next, inFd, cur, torn>>
    [] pc = "aiWait" ->
         \* the result of waitpid is not looked at
         /\ AfterHelper
         /\ UNCHANGED torn
    [] pc = "confirm" ->
         /\ Return
         /\ UNCHANGED torn

\* The ends the main thread closes on its way out of an interrupted read.
InterruptedEnds(e) == IF pc \in {"status", "aiRead"} THEN Close(e, Shell, cur, "r") ELSE e

CtrlC ==
  /\ Running /\ pc # "start" /\ sigints < MaxSigints
  /\ sigints' = sigints + 1
  /\ \E killed \in SUBSET {p \in Pids : Alive(p)} :
       /\ child' = [p \in Pids |-> IF p \in killed THEN [child[p] EXCEPT !.st = "zombie"]
                                                   ELSE child[p]]
       /\ LET e == CloseAll(ends, killed) IN
          \/ /\ ~caught
             /\ over' = "SIGINT" /\ pc' = "gone" /\ worker' = "none"
             /\ ends' = CloseAll(e, {Shell})
             /\ UNCHANGED <<gSigint, caught, line, pids, next, inFd, cur, historyVars>>
          \/ /\ caught
             /\ gSigint' = TRUE /\ caught' = ~OneShot
             /\ \/ /\ Blocked
                   /\ Interrupted
                   /\ ends' = InterruptedEnds(e)
                   /\ UNCHANGED faults
                \* not (yet) in a call that blocks, or taken by the builtin's thread
                \/ /\ ends' = e
                   /\ UNCHANGED <<mainVars, historyVars>>
             /\ UNCHANGED <<over, worker>>
  /\ UNCHANGED <<content, left>>

\* The shell has ended, and so have all its children: nothing more happens.
AllOver ==
  /\ ~Running /\ \A p \in Pids : ~Alive(p)
  /\ UNCHANGED vars

-----------------------------------------------------------------------------
\* What the main thread does without being waited for by a user.
MainStep ==
  \/ StartRepl \/ StartOnce \/ Prompt
  \/ MakePipe \/ PipeFails \/ Fork \/ ForkFails \/ AfterFork \/ Register \/ WaitStage
  \/ CreateThread \/ ReadStatus \/ JoinThread
  \/ ReadSuggestion \/ WaitHelper

User == ReadLine \/ EndOfInput \/ Confirm

Worker == BuiltinReturns \/ BuiltinExits \/ WriteStatus

Child(p) == ChildSetup(p) \/ ChildReads(p) \/ ChildWrites(p) \/ ChildEnds(p)

Next ==
  \/ MainStep \/ User \/ Worker \/ CtrlC \/ AllOver
  \/ \E p \in Pids : Child(p) \/ ReapBackground(p)

Spec == Init /\ [][Next]_vars

\* A program that reads its input to the end stops then; the last stage may
\* stop earlier, as "head" does.
StopsByItself(p) ==
  /\ child[p].in = NoPipe \/ child[p].eof \/ (pids # <<>> /\ p = pids[Len(pids)])
  /\ ChildEnds(p)

\* The scheduler runs both threads and every child; builtins return; programs
\* read, write and stop as StopsByItself says. The user owes nothing.
Fairness ==
  /\ WF_vars(MainStep) /\ WF_vars(Worker)
  /\ \A p \in Pids : /\ WF_vars(ChildSetup(p)) /\ WF_vars(ChildReads(p))
                     /\ WF_vars(ChildWrites(p)) /\ WF_vars(StopsByItself(p))

FairSpec == Spec /\ Fairness

-----------------------------------------------------------------------------
(* Properties.                                                             *)

\* The variables have their types.
TypeOK ==
  /\ pc \in Labels
  /\ line \in [kind : Kinds \cup {"none", "suggested"}, n : 0..MaxStages, endless : BOOLEAN]
  /\ pids \in Seq(Pids) /\ next \in 1..MaxStages
  /\ {inFd, cur} \subseteq Pipes \cup {NoPipe}
  /\ worker \in {"none", "running", "writing", "done"}
  /\ ends \in [Pipes -> [r : SUBSET Procs, w : SUBSET Procs]]
  /\ content \in [Pipes -> 0..Capacity]
  /\ child \in [Pids -> Children]
  /\ {gSigint, caught, torn, faults} \subseteq BOOLEAN
  /\ over \in {"no", "exit", "SIGINT", "SIGPIPE"}
  /\ left \in 0..MaxLines /\ sigints \in 0..MaxSigints

AtPrompt == pc \in {"prompt", "read"}

\* However the last line ended (a pipe, fork or thread that failed, a Ctrl-C in
\* any wait), the shell is back at its prompt without a pipe end left open:
\* main runs forever and would run out of descriptors.
PromptHoldsNoPipe ==
  AtPrompt => \A q \in Pipes : Shell \notin ends[q].r \cup ends[q].w

\* A stage, set up, holds the read end of its input and the write end of its
\* output and no other end: a stray write end keeps a later stage from seeing
\* the end of its input, a stray read end keeps an earlier one writing.
StageHoldsOwnEnds ==
  \A p \in Pids : child[p].st = "running" =>
    \A q \in Pipes : /\ p \in ends[q].r => q = child[p].in
                     /\ p \in ends[q].w => q = child[p].out

\* At the prompt every child that is not a background job has been waited for,
\* unless a Ctrl-C broke a wait off or a pipe or fork failed half way.
NoForgottenChild ==
  AtPrompt /\ sigints = 0 /\ ~faults =>
    \A p \in Pids : child[p].st = "none" \/ child[p].job

\* What Ctrl-C can do to the shell at worst: it dies of SIGINT on a second
\* Ctrl-C at the earliest, and of SIGPIPE only when a Ctrl-C broke off the read
\* of a builtin's status. That it does either is not what the README and the
\* comment on signal_handler say: see the next property.
DeathHasCause ==
  /\ over = "SIGINT" => sigints > 1
  /\ over = "SIGPIPE" => torn

\* "does NOT exit the shell" (signal_handler), "sets a flag and re-displays the
\* prompt; does not exit" (README): no Ctrl-C ends the shell. The code does not
\* keep this: signal() has put the default back after the first Ctrl-C, and the
\* status of a builtin is written to a pipe that Ctrl-C has closed.
SigintDoesNotExit == over \notin {"SIGINT", "SIGPIPE"}

Listening == pc \in {"read", "confirm", "gone"}

\* Every line ends: the shell listens to its user again, whatever the line
\* started, with stages of any speed, full pipes, failures and Ctrl-C.
ListensAgain == []<>Listening

=============================================================================
