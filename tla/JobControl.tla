----------------------------- MODULE JobControl -----------------------------
(***************************************************************************)
(* Job control of the interactive shell (main.c, cmd_jobs.c, cmd_kill.c).  *)
(*                                                                         *)
(* Three kinds of control flow meet in one process:                        *)
(*   - the main thread: the REPL loop, execute_pipeline, notify_done_jobs; *)
(*   - a worker thread, alive while a builtin runs (dispatch_builtin);     *)
(*   - sigchld_handler, which interrupts EITHER thread and can therefore   *)
(*     run twice at once, once on each.                                    *)
(* They share the job table s_jobs and the flag g_sigchld without a lock;  *)
(* the kernel (child processes, zombies, SIGCHLD) is the environment.      *)
(***************************************************************************)
EXTENDS Naturals, FiniteSets

CONSTANTS
  Pids,         \* the process ids the kernel hands out; reused once reaped
  NoPid,        \* the 0 in a free slot, and waitpid's "nothing has changed"
  MaxJobs,      \* MAX_JOBS, the slots of s_jobs
  MaxStages,    \* MAX_PIPE_CMDS, the stages of a pipeline
  MaxTargets,   \* KILL_MAX_TARGETS, the targets of one kill command
  MaxJobId,     \* bound: job ids are handed out up to this one
  MaxStrangers, \* bound: other processes that hold pids at one time
  Builtins,     \* the builtins the user may type: jobs, kill, exit
  ForkMayFail,  \* may pipe() or fork() return -1?
  PidReload,    \* does the build load j->pid again for the waitpid call?
  PromptSignals \* is a SIGCHLD taken before the interrupted thread goes on,
                \* as on Linux, or may it be late, as POSIX allows?

ASSUME JobControlAssumption ==
  /\ NoPid \notin Pids
  /\ MaxJobs \in Nat \ {0}
  /\ MaxStages \in Nat \ {0}
  /\ MaxTargets \in Nat \ {0}
  /\ MaxJobId \in Nat
  /\ MaxStrangers \in Nat
  /\ Builtins \subseteq {"jobs", "kill", "exit"}
  /\ ForkMayFail \in BOOLEAN
  /\ PidReload \in BOOLEAN
  /\ PromptSignals \in BOOLEAN

VARIABLES
  proc,      \* the kernel's view of each pid as a child of the shell
  pending,   \* a SIGCHLD is pending for the process
  strangers, \* the pids of processes that are not children of the shell
  jobs,      \* s_jobs
  jobCount,  \* s_job_count
  nextId,    \* s_next_job_id
  gSigchld,  \* g_sigchld
  shown,     \* history: the status last printed for the job in each slot
  pc,        \* where the main thread is
  idx,       \* the main thread's loop index (a slot or a stage)
  pipeline,  \* the locals of execute_pipeline
  blocked,   \* SIGCHLD is in the main thread's signal mask
  worker,    \* the builtin thread
  handler    \* per thread, the activation of sigchld_handler on it

kernelVars == <<proc, pending, strangers>>
tableVars  == <<jobs, jobCount, nextId, gSigchld, shown>>
mainVars   == <<pc, idx, pipeline, blocked>>
vars == <<kernelVars, tableVars, mainVars, worker, handler>>

-----------------------------------------------------------------------------
(* The data the threads share.                                             *)

Slots     == 1..MaxJobs
Threads   == {"main", "worker"}
JobStates == {"running", "done", "signaled"}
Zombies   == {"exited", "killed"}

Job == [pid : Pids \cup {NoPid}, id : Nat, state : JobStates]

\* The locals of execute_pipeline, of the builtin thread and of an activation
\* of sigchld_handler.
PipelineLocals == [count : 0..MaxStages, background : BOOLEAN,
                   oldMask : BOOLEAN,
                   pids : [1..MaxStages -> Pids \cup {NoPid}]]
WorkerLocals   == [pc : {"none", "print", "consume", "lookup", "send", "exit",
                         "finished"},
                   i : Nat, target : Pids \cup {NoPid}, id : Nat]
HandlerLocals  == [pc : {"idle", "test", "wait", "record"}, i : Nat,
                   pid : Pids \cup {NoPid}, rc : Pids \cup {NoPid},
                   status : Zombies]

Occupied(s)  == jobs[s].pid # NoPid
Completed(s) == Occupied(s) /\ jobs[s].state # "running"
Running(s)   == Occupied(s) /\ jobs[s].state = "running"

\* Mutant: every end is classified as an exit.
StateAlwaysDone(zombie) == "done"

\* The job_state_t that a wait status is recorded as.
StateOf(zombie) == IF zombie = "exited" THEN "done" ELSE "signaled"

Stages(n, bg, mask) == [count |-> n, background |-> bg, oldMask |-> mask,
                        pids |-> [k \in 1..MaxStages |-> NoPid]]
Builtin(label, i)    == [pc |-> label, i |-> i, target |-> NoPid, id |-> 0]
Activation(label, i) == [pc |-> label, i |-> i, pid |-> NoPid, rc |-> NoPid,
                         status |-> "exited"]

NoPipeline == Stages(0, FALSE, FALSE)
NoWorker   == Builtin("none", 0)
NoHandler  == Activation("idle", 0)

Init ==
  /\ proc = [p \in Pids |-> "absent"]
  /\ pending = FALSE
  /\ strangers = {}
  /\ jobs = [s \in Slots |-> [pid |-> NoPid, id |-> 0, state |-> "running"]]
  /\ jobCount = 0
  /\ nextId = 1
  /\ gSigchld = FALSE
  /\ shown = [s \in Slots |-> "none"]
  /\ pc = "top"
  /\ idx = 1
  /\ pipeline = NoPipeline
  /\ blocked = FALSE
  /\ worker = NoWorker
  /\ handler = [t \in Threads |-> NoHandler]

Alive == pc # "exited"

\* The worker inherits the main thread's mask, and SIGCHLD is blocked in a
\* thread while its handler runs there.
Takes(t) ==
  /\ Alive
  /\ ~blocked
  /\ handler[t].pc = "idle"
  /\ t = "worker" => worker.pc # "none"

\* A thread's own code runs only while no handler interrupts it.
Undisturbed(t) ==
  /\ handler[t].pc = "idle"
  /\ PromptSignals => ~(pending /\ Takes(t))

MainAt(label)   == pc = label /\ Undisturbed("main")
WorkerAt(label) == Alive /\ worker.pc = label /\ Undisturbed("worker")

-----------------------------------------------------------------------------
(* Main thread: the REPL loop and notify_done_jobs.                        *)

TopOfLoop ==
  /\ MainAt("top")
  /\ pc' = IF gSigchld THEN "notify" ELSE "input"
  /\ gSigchld' = FALSE
  /\ idx' = 1
  /\ UNCHANGED <<kernelVars, jobs, jobCount, nextId, shown, pipeline, blocked,
                 worker, handler>>

\* Mutant: the loops leave the last slot out.
PastOneEarly(s) == s >= jobCount

\* The loops over the table stop at s_job_count.
PastLast(s) == s > jobCount

\* Mutant: the completion is printed but the slot is not freed.
NotifyKeepsSlot ==
  /\ MainAt("notify")
  /\ ~PastLast(idx)
  /\ shown' = IF Completed(idx) THEN [shown EXCEPT ![idx] = "completed"]
                                ELSE shown
  /\ idx' = idx + 1
  /\ UNCHANGED <<kernelVars, jobs, jobCount, nextId, gSigchld, pc, pipeline,
                 blocked, worker, handler>>

NotifySlot ==
  /\ MainAt("notify")
  /\ ~PastLast(idx)
  /\ IF Completed(idx)
       THEN /\ jobs' = [jobs EXCEPT ![idx].pid = NoPid]
            /\ shown' = [shown EXCEPT ![idx] = "completed"]
       ELSE UNCHANGED <<jobs, shown>>
  /\ idx' = idx + 1
  /\ UNCHANGED <<kernelVars, jobCount, nextId, gSigchld, pc, pipeline, blocked,
                 worker, handler>>

\* Mutant: the flag is cleared after the scan as well as before it.
NotifyReturnClears ==
  /\ MainAt("notify")
  /\ PastLast(idx)
  /\ pc' = "input"
  /\ idx' = 1
  /\ gSigchld' = FALSE
  /\ UNCHANGED <<kernelVars, jobs, jobCount, nextId, shown, pipeline, blocked,
                 worker, handler>>

NotifyReturn ==
  /\ MainAt("notify")
  /\ PastLast(idx)
  /\ pc' = "input"
  /\ idx' = 1
  /\ UNCHANGED <<kernelVars, tableVars, pipeline, blocked, worker, handler>>

-----------------------------------------------------------------------------
(* Main thread: what the user's next line makes it do.                     *)

\* A blank line, a syntax error, a builtin that leaves the table alone, or
\* one whose status pipe or thread could not be created.
OtherLine ==
  /\ MainAt("input")
  /\ pc' = "top"
  /\ UNCHANGED <<kernelVars, tableVars, idx, pipeline, blocked, worker,
                 handler>>

EndOfInput ==
  /\ MainAt("input")
  /\ pc' = "exited"
  /\ UNCHANGED <<kernelVars, tableVars, idx, pipeline, blocked, worker,
                 handler>>

\* The pids the kernel may give to the next process, whoever forks it.
FreePids == {p \in Pids : proc[p] = "absent"} \ strangers

\* Mutant: SIGCHLD is left open around fork and job_add.
MaskUnchanged(bg) == blocked

\* Only the background path blocks SIGCHLD.
MaskFor(bg) == bg \/ blocked

\* execute_pipeline up to its fork loop; also dispatch_external and the
\* helper of an '@' line, which fork and wait for one foreground child.
RunPipeline(n, bg) ==
  /\ MainAt("input")
  /\ bg => nextId + n <= MaxJobId + 1
  /\ ForkMayFail \/ Cardinality(FreePids) >= n
  /\ pipeline' = Stages(n, bg, blocked)
  /\ blocked' = MaskFor(bg)
  /\ pc' = "fork"
  /\ idx' = 1
  /\ UNCHANGED <<kernelVars, tableVars, worker, handler>>

ForkStage ==
  /\ MainAt("fork")
  /\ \E p \in FreePids :
       /\ proc' = [proc EXCEPT ![p] = "running"]
       /\ pipeline' = [pipeline EXCEPT !.pids[idx] = p]
  /\ IF idx < pipeline.count
       THEN idx' = idx + 1 /\ UNCHANGED pc
       ELSE /\ idx' = 1
            /\ pc' = IF pipeline.background THEN "register" ELSE "wait"
  /\ UNCHANGED <<pending, strangers, tableVars, blocked, worker, handler>>

\* The error returns of the fork loop: the stages forked so far are dropped
\* and old_mask is not restored.
ForkFails ==
  /\ ForkMayFail
  /\ MainAt("fork")
  /\ pc' = "top"
  /\ idx' = 1
  /\ pipeline' = NoPipeline
  /\ UNCHANGED <<kernelVars, tableVars, blocked, worker, handler>>

\* Mutant: if (i > s_job_count) instead of >=.
CountOffByOne(s) == IF s > jobCount + 1 THEN s ELSE jobCount

\* s_job_count once slot s is in use.
CountWith(s) == IF s > jobCount THEN s ELSE jobCount

FirstFree(s) == ~Occupied(s) /\ \A r \in Slots : r < s => Occupied(r)

JobAdd(p) ==
  \/ \E s \in Slots :
       /\ FirstFree(s)
       /\ jobs' = [jobs EXCEPT ![s] = [pid |-> p, id |-> nextId,
                                       state |-> "running"]]
       /\ nextId' = nextId + 1
       /\ jobCount' = CountWith(s)
       /\ shown' = [shown EXCEPT ![s] = "none"]
  \/ /\ \A s \in Slots : Occupied(s)
     /\ UNCHANGED <<jobs, nextId, jobCount, shown>>

\* One turn of the job_add loop; the last one also restores the mask.
RegisterStage ==
  /\ MainAt("register")
  /\ JobAdd(pipeline.pids[idx])
  /\ IF idx < pipeline.count
       THEN idx' = idx + 1 /\ UNCHANGED <<pc, pipeline, blocked>>
       ELSE /\ idx' = 1
            /\ pc' = "top"
            /\ blocked' = pipeline.oldMask
            /\ pipeline' = NoPipeline
  /\ UNCHANGED <<kernelVars, gSigchld, worker, handler>>

\* waitpid(pids[i], &status, 0): blocks while the child runs, then reaps it;
\* if it has been reaped already the call fails and the loop goes on. The
\* child's SIGCHLD may still be pending when waitpid has it.
WaitStage ==
  /\ pc = "wait" /\ handler["main"].pc = "idle"
  /\ proc[pipeline.pids[idx]] # "running"
  /\ proc' = [proc EXCEPT ![pipeline.pids[idx]] = "absent"]
  /\ IF idx < pipeline.count
       THEN idx' = idx + 1 /\ UNCHANGED <<pc, pipeline>>
       ELSE idx' = 1 /\ pc' = "top" /\ pipeline' = NoPipeline
  /\ UNCHANGED <<pending, strangers, tableVars, blocked, worker, handler>>

-----------------------------------------------------------------------------
(* The worker thread of dispatch_builtin, and the builtins that use the    *)
(* job table.                                                              *)

FirstLabel(builtin) == CASE builtin = "jobs" -> "print"
                         [] builtin = "kill" -> "lookup"
                         [] builtin = "exit" -> "exit"

\* worker.i is jobs_run's slot index, or the targets kill_run has left.
RunBuiltin(builtin, targets) ==
  /\ MainAt("input")
  /\ worker' = Builtin(FirstLabel(builtin),
                        IF builtin = "kill" THEN targets ELSE 1)
  /\ pc' = "join"
  /\ UNCHANGED <<kernelVars, tableVars, idx, pipeline, blocked, handler>>

JoinWorker ==
  /\ MainAt("join")
  /\ WorkerAt("finished")
  /\ worker' = NoWorker
  /\ pc' = "top"
  /\ UNCHANGED <<kernelVars, tableVars, idx, pipeline, blocked, handler>>

\* jobs_run, first half of an iteration: skip a free slot or print its line.
JobsPrint ==
  /\ WorkerAt("print")
  /\ IF PastLast(worker.i)
       THEN /\ worker' = Builtin("finished", 0)
            /\ UNCHANGED shown
       ELSE IF Occupied(worker.i)
       THEN /\ shown' = [shown EXCEPT ![worker.i] =
                           IF Running(worker.i) THEN "running"
                                                ELSE "completed"]
            /\ worker' = [worker EXCEPT !.pc = "consume"]
       ELSE /\ worker' = [worker EXCEPT !.i = @ + 1]
            /\ UNCHANGED shown
  /\ UNCHANGED <<kernelVars, jobs, jobCount, nextId, gSigchld, mainVars,
                 handler>>

\* jobs_run, second half: it reads the state again, and frees the slot.
JobsConsume ==
  /\ WorkerAt("consume")
  /\ jobs' = IF jobs[worker.i].state # "running"
               THEN [jobs EXCEPT ![worker.i].pid = NoPid]
               ELSE jobs
  /\ worker' = Builtin("print", worker.i + 1)
  /\ UNCHANGED <<kernelVars, jobCount, nextId, gSigchld, shown, mainVars,
                 handler>>

\* The worker's state once it is done with the current kill target.
NextTarget ==
  IF worker.i > 1
    THEN Builtin("lookup", worker.i - 1)
    ELSE Builtin("finished", 0)

\* kill_run on a %id target: job_by_id, and the pid it leads to.
KillLookup(id) ==
  /\ WorkerAt("lookup")
  /\ \/ \E s \in Slots :
          /\ ~PastLast(s)
          /\ Occupied(s)
          /\ jobs[s].id = id
          /\ worker' = [pc |-> "send", i |-> worker.i, id |-> id,
                        target |-> jobs[s].pid]
     \/ /\ \A s \in Slots : ~PastLast(s) /\ Occupied(s) => jobs[s].id # id
        /\ worker' = NextTarget
  /\ UNCHANGED <<kernelVars, tableVars, mainVars, handler>>

\* kill(target_pid, signum): a process that runs may die of it or survive it,
\* the shell's child or not; a zombie ignores it, and for a free pid the call
\* fails.
KillSend ==
  /\ WorkerAt("send")
  /\ \/ /\ proc[worker.target] = "running"
        /\ proc' = [proc EXCEPT ![worker.target] = "killed"]
        /\ pending' = TRUE
        /\ UNCHANGED strangers
     \/ /\ strangers' = strangers \ {worker.target}
        /\ UNCHANGED <<proc, pending>>
     \/ UNCHANGED kernelVars
  /\ worker' = NextTarget
  /\ UNCHANGED <<tableVars, mainVars, handler>>

\* exit_run calls exit(0) from the worker.
ExitBuiltin ==
  /\ WorkerAt("exit")
  /\ pc' = "exited"
  /\ UNCHANGED <<kernelVars, tableVars, idx, pipeline, blocked, worker,
                 handler>>

-----------------------------------------------------------------------------
(* The kernel: children end, SIGCHLD is delivered to a thread that takes   *)
(* it, and pending SIGCHLDs merge into one. A pid that is free again may   *)
(* go to a process that is none of the shell's children.                   *)

ChildEnds(p, how) ==
  /\ Alive
  /\ proc[p] = "running"
  /\ proc' = [proc EXCEPT ![p] = how]
  /\ pending' = TRUE
  /\ UNCHANGED <<strangers, tableVars, mainVars, worker, handler>>

\* The pids the fork loop under way still needs.
StagesToFork == IF pc = "fork" THEN pipeline.count - idx + 1 ELSE 0

\* Another process of the system is given pid p; unless fork may fail, it
\* leaves the shell the pids its fork loop still needs.
StrangerTakes(p) ==
  /\ Alive
  /\ p \in FreePids
  /\ Cardinality(strangers) < MaxStrangers
  /\ ForkMayFail \/ Cardinality(FreePids) > StagesToFork
  /\ strangers' = strangers \cup {p}
  /\ UNCHANGED <<proc, pending, tableVars, mainVars, worker, handler>>

StrangerEnds(p) ==
  /\ Alive
  /\ p \in strangers
  /\ strangers' = strangers \ {p}
  /\ UNCHANGED <<proc, pending, tableVars, mainVars, worker, handler>>

DeliverSigchld(t) ==
  /\ pending
  /\ Takes(t)
  /\ pending' = FALSE
  /\ handler' = [handler EXCEPT ![t] = Activation("test", 1)]
  /\ UNCHANGED <<proc, strangers, tableVars, mainVars, worker>>

-----------------------------------------------------------------------------
(* sigchld_handler on thread t. Every access to the table is a step of its *)
(* own, because the other thread runs meanwhile.                           *)

HandlerAt(t, label) == Alive /\ handler[t].pc = label

NextSlot(t) == Activation("test", handler[t].i + 1)

HandlerTest(t) ==
  /\ HandlerAt(t, "test")
  /\ handler' = [handler EXCEPT ![t] =
       IF PastLast(handler[t].i) THEN NoHandler
       ELSE IF Running(handler[t].i)
       THEN [@ EXCEPT !.pc = "wait", !.pid = jobs[handler[t].i].pid]
       ELSE NextSlot(t)]
  /\ UNCHANGED <<kernelVars, tableVars, mainVars, worker>>

\* The argument of waitpid: j->pid as tested, or loaded again.
WaitTarget(t) ==
  IF PidReload THEN jobs[handler[t].i].pid ELSE handler[t].pid

\* Mutant: waitpid(-1, ...), as the documentation has it.
WaitableAny(pid) == Pids

\* The children waitpid(pid, ..., WNOHANG) may choose from: 0 stands for
\* every child of the process group, and no child leaves that group.
Waitable(pid) == {p \in Pids : p = pid \/ pid = NoPid}

HandlerWait(t) ==
  /\ HandlerAt(t, "wait")
  /\ LET candidates == Waitable(WaitTarget(t))
         children   == {p \in candidates : proc[p] # "absent"}
         zombies    == {p \in children : proc[p] \in Zombies}
     IN \/ \E p \in zombies :
             /\ proc' = [proc EXCEPT ![p] = "absent"]
             /\ handler' = [handler EXCEPT ![t] =
                  [@ EXCEPT !.pc = "record", !.rc = p, !.status = proc[p]]]
        \/ /\ zombies = {} /\ children # {}
           /\ handler' = [handler EXCEPT ![t] =
                [@ EXCEPT !.pc = "record", !.rc = NoPid]]
           /\ UNCHANGED proc
        \/ /\ children = {}
           /\ handler' = [handler EXCEPT ![t] = NextSlot(t)]
           /\ UNCHANGED proc
  /\ UNCHANGED <<pending, strangers, tableVars, mainVars, worker>>

\* if (rc == j->pid): with rc = 0 the status was never written, so any
\* branch of the classification may be taken.
HandlerRecord(t) ==
  /\ HandlerAt(t, "record")
  /\ LET s == handler[t].i IN
       IF handler[t].rc = jobs[s].pid
         THEN /\ \E st \in IF handler[t].rc = NoPid
                             THEN {"done", "signaled", jobs[s].state}
                             ELSE {StateOf(handler[t].status)} :
                   jobs' = [jobs EXCEPT ![s].state = st]
              /\ gSigchld' = TRUE
         ELSE UNCHANGED <<jobs, gSigchld>>
  /\ handler' = [handler EXCEPT ![t] = NextSlot(t)]
  /\ UNCHANGED <<kernelVars, jobCount, nextId, shown, mainVars, worker>>

-----------------------------------------------------------------------------

MainStep ==
  \/ TopOfLoop \/ NotifySlot \/ NotifyReturn
  \/ ForkStage \/ ForkFails \/ RegisterStage \/ WaitStage \/ JoinWorker

UserLine ==
  \/ OtherLine
  \/ EndOfInput
  \/ \E n \in 1..MaxStages, bg \in BOOLEAN : RunPipeline(n, bg)
  \/ \E builtin \in Builtins, n \in 1..MaxTargets : RunBuiltin(builtin, n)

WorkerStep ==
  \/ JobsPrint \/ JobsConsume
  \/ \E id \in 1..MaxJobId : KillLookup(id)
  \/ KillSend \/ ExitBuiltin

HandlerStep(t) == HandlerTest(t) \/ HandlerWait(t) \/ HandlerRecord(t)

Kernel ==
  \/ \E p \in Pids, how \in Zombies : ChildEnds(p, how)
  \/ \E t \in Threads : DeliverSigchld(t)
  \/ \E p \in Pids : StrangerTakes(p) \/ StrangerEnds(p)

\* After exit() nothing of the shell is left to run.
Exited == pc = "exited" /\ UNCHANGED vars

Next == \/ MainStep
        \/ UserLine
        \/ WorkerStep
        \/ \E t \in Threads : HandlerStep(t)
        \/ Kernel
        \/ Exited

Spec == Init /\ [][Next]_vars

(***************************************************************************)
(* Fairness: a runnable thread is eventually scheduled, whether it runs    *)
(* its own code or a handler, and a deliverable signal is delivered. The   *)
(* user owes the shell nothing and a child need not end.                   *)
(***************************************************************************)
Fairness ==
  /\ WF_vars(MainStep)
  /\ WF_vars(WorkerStep)
  /\ \A t \in Threads : WF_vars(HandlerStep(t))
  /\ WF_vars(\E t \in Threads : DeliverSigchld(t))

FairSpec == Spec /\ Fairness

-----------------------------------------------------------------------------
(* Properties.                                                             *)

\* Every variable has its type.
TypeOK ==
  /\ proc \in [Pids -> {"absent", "running"} \cup Zombies]
  /\ pending \in BOOLEAN
  /\ strangers \in SUBSET Pids
  /\ jobs \in [Slots -> Job]
  /\ jobCount \in 0..MaxJobs
  /\ nextId \in Nat \ {0}
  /\ gSigchld \in BOOLEAN
  /\ shown \in [Slots -> {"none", "running", "completed"}]
  /\ pc \in {"top", "notify", "input", "fork", "register", "wait", "join",
             "exited"}
  /\ idx \in Nat \ {0}
  /\ pipeline \in PipelineLocals
  /\ blocked \in BOOLEAN
  /\ worker \in WorkerLocals
  /\ handler \in [Threads -> HandlerLocals]

\* The scans of the table stop at s_job_count, so no job may live in a slot
\* beyond it, and no two jobs in the table may answer to the same %id.
TableWellFormed ==
  /\ \A s \in Slots : Occupied(s) => s <= jobCount /\ jobs[s].id < nextId
  /\ \A r, s \in Slots :
       r # s /\ Occupied(r) /\ Occupied(s) => jobs[r].id # jobs[s].id

\* The REPL notifies only when g_sigchld is set, and clears it first: a
\* completed job in the table is always one that a set flag, or the rest of
\* the scan in progress, will lead notify_done_jobs to.
NoLostNotification ==
  \A s \in Slots : Completed(s) => gSigchld \/ (pc = "notify" /\ idx <= s)

\* Thread t has reaped the child of the job in slot s and will record it.
AboutToRecord(t, s) ==
  handler[t].pc = "record" /\ handler[t].i = s /\ handler[t].rc = jobs[s].pid

\* A job shown as Running has a child the kernel still knows, or one whose
\* status a handler holds: nobody else reaps it, so no job is stuck Running.
RunningJobHasChild ==
  \A s \in Slots :
    Running(s) => \/ proc[jobs[s].pid] # "absent"
                  \/ \E t \in Threads : AboutToRecord(t, s)

\* "Foreground children are waited by their caller paths [...] so they must
\* not be consumed here" (sigchld_handler): each child the main thread still
\* has to wait for is there to be waited for.
ForegroundNotConsumed ==
  pc = "wait" => \A k \in idx..pipeline.count :
                   proc[pipeline.pids[k]] # "absent"

KillReachesOwnChild ==
  worker.pc = "send" /\ proc[worker.target] = "running" =>
    \E s \in Slots : /\ Running(s)
                     /\ jobs[s].id = worker.id
                     /\ jobs[s].pid = worker.target

StrangerOnlyAfterReaping ==
  worker.pc = "send" /\ worker.target \in strangers =>
    \A s \in Slots :
      Running(s) /\ jobs[s].id = worker.id => proc[jobs[s].pid] = "absent"

\* kill_run signals a pid it has copied out of the table. Whatever happens in
\* between, a live child it signals is the named job's own, and it signals a
\* process that is not the shell's only once the named job's child has been
\* reaped: a job still alive, or a zombie, keeps its pid from everybody else.
KillHitsNamedJob == KillReachesOwnChild /\ StrangerOnlyAfterReaping

\* kill %id signals nobody but the shell's own children: the last lookup and
\* the signal are two steps, and the pid may have changed hands between them.
KillSparesStrangers == worker.pc = "send" => worker.target \notin strangers

\* SIGCHLD is open whenever the shell waits for the user: the mask that
\* execute_pipeline sets is undone on every path back to the prompt.
SigchldOpenAtPrompt == pc = "input" => ~blocked

\* A slot is freed only once the user has been shown the job's completion.
CompletionShown ==
  [][\A s \in Slots : Occupied(s) /\ jobs'[s].pid = NoPid
                        => shown'[s] = "completed"]_vars

\* Only the first stage of a background pipeline takes a job id and a slot.
PipelineIsOneJob == [][pc = "register" /\ idx > 1 => nextId' = nextId]_vars

\* The end of a tracked child reaches the table without help from the user.
EndedJobIsRecorded ==
  \A s \in Slots :
    (Running(s) /\ proc[jobs[s].pid] \in Zombies)
      ~> (~Running(s) \/ ~Alive)

\* If the shell keeps coming back to its prompt, every completed job is
\* reported there or by jobs, and its slot is free again.
CompletedJobIsCleared ==
  []<>(pc = "top") => \A s \in Slots : Completed(s) ~> ~Completed(s)

\* The main thread is waiting, or will wait, for p in the foreground.
Awaited(p) == /\ pc = "wait"
              /\ \E k \in idx..pipeline.count : pipeline.pids[k] = p

\* A child that ends is eventually reaped, unless a foreground wait is still
\* to come to it.
EveryEndedChildIsReaped ==
  \A p \in Pids :
    proc[p] \in Zombies ~> (proc[p] \notin Zombies \/ Awaited(p) \/ ~Alive)

-----------------------------------------------------------------------------
(* The inductive invariant behind the safety properties.                   *)

\* The loop indices of the three control flows are within their bounds.
IndicesInBounds ==
  /\ pc \in {"fork", "register", "wait"} => idx \in 1..pipeline.count
  /\ worker.pc = "print" => worker.i # 0
  /\ worker.pc = "consume" => worker.i \in 1..jobCount
  /\ \A t \in Threads :
       /\ handler[t].pc = "test" => handler[t].i # 0
       /\ handler[t].pc \in {"wait", "record"} => handler[t].i \in 1..jobCount

\* The worker lives while the main thread waits to join it, and a handler
\* runs on the worker only while that lives.
ThreadsInStep ==
  /\ pc = "join" => worker.pc # "none"
  /\ worker.pc # "none" => pc \in {"join", "exited"}
  /\ worker.pc = "none" => handler["worker"].pc = "idle"
  /\ worker.pc \in {"print", "consume"} => "jobs" \in Builtins

\* What a handler about to call waitpid learnt of its slot still holds, or
\* the other handler has been there first and the child is gone.
WaiterUpToDate(t) ==
  handler[t].pc = "wait" =>
    /\ handler[t].pid \in Pids
    /\ \/ Running(handler[t].i) /\ jobs[handler[t].i].pid = handler[t].pid
       \/ proc[handler[t].pid] = "absent"
    /\ "jobs" \notin Builtins => jobs[handler[t].i].pid = handler[t].pid

HoldsStatus(t) == handler[t].pc = "record" /\ handler[t].rc # NoPid

\* The child whose status a handler holds belongs to its slot, still.
HolderUpToDate(t) ==
  HoldsStatus(t) => /\ Running(handler[t].i)
                    /\ jobs[handler[t].i].pid = handler[t].rc
                    /\ proc[handler[t].rc] = "absent"

HoldersDiffer ==
  \A t, u \in Threads : t # u /\ HoldsStatus(t) /\ HoldsStatus(u)
                          => handler[t].rc # handler[u].rc

HandlersUpToDate ==
  /\ \A t \in Threads : WaiterUpToDate(t) /\ HolderUpToDate(t)
  /\ HoldersDiffer

\* The stages whose child execute_pipeline has yet to register or wait for.
HeldStages == CASE pc = "fork" -> 1..(idx - 1)
                [] pc \in {"register", "wait"} -> idx..pipeline.count
                [] OTHER -> {}

\* Those children are unreaped and nobody else's.
StagesHeld ==
  /\ \A k \in HeldStages :
       /\ pipeline.pids[k] \in Pids
       /\ proc[pipeline.pids[k]] # "absent"
       /\ \A s \in Slots : Running(s) => jobs[s].pid # pipeline.pids[k]
  /\ \A j, k \in HeldStages : j # k => pipeline.pids[j] # pipeline.pids[k]

RunningPidsDiffer ==
  \A r, s \in Slots :
    r # s /\ Running(r) /\ Running(s) => jobs[r].pid # jobs[s].pid

\* The pid of a completed job may be in use again only until the next scan
\* of notify_done_jobs, which clears the job before another command runs.
CompletedPidUnused ==
  \A s \in Slots :
    Completed(s) => \/ proc[jobs[s].pid] = "absent"
                    \/ pc \in {"fork", "register", "wait", "top"}
                    \/ (pc = "notify" /\ idx <= s)

KillTargetIsPid == worker.pc = "send" => worker.target \in Pids

\* No child of the shell is a stranger: its pid is its own until it is reaped.
StrangersApart == \A p \in strangers : proc[p] = "absent"

\* A job still in the table under the id that kill_run looked up is the one
\* whose pid it copied.
KillTargetNamed ==
  worker.pc = "send" =>
    \A s \in Slots :
      Occupied(s) /\ jobs[s].id = worker.id => jobs[s].pid = worker.target

\* The invariant below holds of every build in which the argument of waitpid
\* is the pid that was tested, or no builtin thread ever frees a slot.
SafeBuild == PidReload => "jobs" \notin Builtins

Ownership ==
  /\ ThreadsInStep
  /\ HandlersUpToDate
  /\ StagesHeld
  /\ RunningPidsDiffer
  /\ RunningJobHasChild
  /\ CompletedPidUnused
  /\ KillTargetIsPid
  /\ KillReachesOwnChild

-----------------------------------------------------------------------------
(* What the table, the kernel and the handlers together say of job id.     *)

StatusHeld(s) ==
  CHOOSE z \in Zombies :
    \E t \in Threads : AboutToRecord(t, s) /\ handler[t].status = z

PhaseInSlot(s) ==
  IF ~Running(s) THEN jobs[s].state
  ELSE IF proc[jobs[s].pid] # "absent" THEN proc[jobs[s].pid]
  ELSE StatusHeld(s)

PhaseOf(id) ==
  IF ~Alive THEN "lost"
  ELSE IF id >= nextId THEN "unborn"
  ELSE IF \E s \in Slots : Occupied(s) /\ jobs[s].id = id
  THEN PhaseInSlot(CHOOSE s \in Slots : Occupied(s) /\ jobs[s].id = id)
  ELSE "retired"

Lifecycle == INSTANCE JobLifecycle
               WITH phase <- [id \in 1..MaxJobId |-> PhaseOf(id)]

\* Job control implements the life cycle of jobs.
ImplementsLifecycle == Lifecycle!Spec

=============================================================================
