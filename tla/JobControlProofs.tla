-------------------------- MODULE JobControlProofs --------------------------
(***************************************************************************)
(* Theorems about JobControl, for every number of slots, stages and pids.  *)
(***************************************************************************)
EXTENDS JobControl, TLAPS

-----------------------------------------------------------------------------
(* Types and loop bounds.                                                  *)

TypeInv == TypeOK /\ IndicesInBounds

\* The locals that the actions start from are well typed.
LEMMA FreshLocals ==
  /\ \A n \in 0..MaxStages, bg, mask \in BOOLEAN :
       Stages(n, bg, mask) \in PipelineLocals /\ Stages(n, bg, mask).count = n
  /\ \A i \in Nat :
       /\ \A label \in {"none", "print", "lookup", "exit", "finished"} :
            /\ Builtin(label, i) \in WorkerLocals
            /\ Builtin(label, i).pc = label /\ Builtin(label, i).i = i
       /\ \A label \in {"idle", "test"} :
            /\ Activation(label, i) \in HandlerLocals
            /\ Activation(label, i).pc = label /\ Activation(label, i).i = i
BY DEF Stages, Builtin, Activation, PipelineLocals, WorkerLocals,
       HandlerLocals, Zombies

LEMMA InitialLocals ==
  /\ NoPipeline \in PipelineLocals
  /\ NoWorker \in WorkerLocals
  /\ NoHandler \in HandlerLocals
<1>1. 0 \in 0..MaxStages /\ FALSE \in BOOLEAN
  BY JobControlAssumption
<1>2. NoPipeline \in PipelineLocals
  BY <1>1, FreshLocals, Zenon DEF NoPipeline
<1>3. QED
  BY <1>2, FreshLocals DEF NoWorker, NoHandler

LEMMA InitTypes == Init => TypeInv
<1> SUFFICES ASSUME Init PROVE TypeInv
  OBVIOUS
<1>1. jobs \in [Slots -> Job]
  BY DEF Init, Job, JobStates
<1>2. handler \in [Threads -> HandlerLocals]
  BY InitialLocals DEF Init
<1>3. TypeOK
  <2>1. /\ pending \in BOOLEAN /\ gSigchld \in BOOLEAN
        /\ blocked \in BOOLEAN /\ strangers \in SUBSET Pids
    BY DEF Init
  <2>2. /\ proc \in [Pids -> {"absent", "running"} \cup Zombies]
        /\ shown \in [Slots -> {"none", "running", "completed"}]
        /\ pc \in {"top", "notify", "input", "fork", "register", "wait",
                   "join", "exited"}
    BY DEF Init
  <2>3. /\ jobCount \in 0..MaxJobs
        /\ nextId \in Nat \ {0}
        /\ idx \in Nat \ {0}
    BY JobControlAssumption DEF Init
  <2>4. pipeline \in PipelineLocals /\ worker \in WorkerLocals
    BY InitialLocals DEF Init
  <2>5. QED
    BY <1>1, <1>2, <2>1, <2>2, <2>3, <2>4 DEF TypeOK
<1>4. IndicesInBounds
  BY DEF Init, IndicesInBounds, NoWorker, NoHandler, Builtin, Activation
<1>5. QED
  BY <1>3, <1>4 DEF TypeInv

LEMMA NextTypes == TypeInv /\ [Next]_vars => TypeInv'
<1> SUFFICES ASSUME TypeInv, [Next]_vars PROVE TypeInv'
  OBVIOUS
<1> USE JobControlAssumption
<1>1. CASE TopOfLoop
  <2>1. pc' \in {"notify", "input"} /\ gSigchld' \in BOOLEAN
    BY <1>1 DEF TopOfLoop
  <2>2. UNCHANGED <<proc, pending, strangers, jobs, jobCount, nextId, shown,
                    pipeline, blocked, worker, handler>> /\ idx' = 1
    BY <1>1 DEF TopOfLoop, kernelVars
  <2>3. QED
    BY <2>1, <2>2 DEF TypeInv, TypeOK, IndicesInBounds
<1>2. CASE NotifySlot
  <2>1. idx \in Slots
    BY <1>2 DEF TypeInv, TypeOK, NotifySlot, PastLast, Slots
  <2>2. jobs' \in [Slots -> Job]
    BY <1>2, <2>1 DEF TypeInv, TypeOK, NotifySlot, Job
  <2>3. shown' \in [Slots -> {"none", "running", "completed"}]
    BY <1>2, <2>1 DEF TypeInv, TypeOK, NotifySlot
  <2>4. QED
    BY <1>2, <2>2, <2>3
       DEF TypeInv, TypeOK, IndicesInBounds, NotifySlot, MainAt, kernelVars
<1>3. CASE NotifyReturn
  BY <1>3
     DEF TypeInv, TypeOK, IndicesInBounds, NotifyReturn, kernelVars, tableVars
<1>4. CASE OtherLine
  BY <1>4
     DEF TypeInv, TypeOK, IndicesInBounds, OtherLine, kernelVars, tableVars
<1>5. CASE EndOfInput
  BY <1>5
     DEF TypeInv, TypeOK, IndicesInBounds, EndOfInput, kernelVars, tableVars
<1>6. ASSUME NEW n \in 1..MaxStages, NEW bg \in BOOLEAN, RunPipeline(n, bg)
      PROVE TypeInv'
  <2>1. pipeline' \in PipelineLocals /\ pipeline'.count = n
    BY <1>6, FreshLocals DEF TypeInv, TypeOK, RunPipeline, Stages
  <2>2. blocked' \in BOOLEAN
    BY <1>6 DEF TypeInv, TypeOK, RunPipeline, MaskFor
  <2>3. QED
    BY <1>6, <2>1, <2>2
       DEF TypeInv, TypeOK, IndicesInBounds, RunPipeline, kernelVars, tableVars
<1>7. CASE ForkStage
  <2>1. PICK p \in FreePids :
          /\ proc' = [proc EXCEPT ![p] = "running"]
          /\ pipeline' = [pipeline EXCEPT !.pids[idx] = p]
    BY <1>7 DEF ForkStage
  <2>2. idx \in 1..pipeline.count /\ pipeline.count \in 0..MaxStages
    BY <1>7
       DEF TypeInv, TypeOK, IndicesInBounds, ForkStage, MainAt, PipelineLocals
  <2>3. pipeline' \in PipelineLocals /\ pipeline'.count = pipeline.count
    BY <2>1, <2>2 DEF TypeInv, TypeOK, FreePids, PipelineLocals
  <2>4. proc' \in [Pids -> {"absent", "running"} \cup Zombies]
    BY <2>1 DEF TypeInv, TypeOK, FreePids
  <2>5. /\ pc' \in {"fork", "register", "wait"}
        /\ idx' \in 1..pipeline.count
    BY <1>7, <2>2 DEF ForkStage, MainAt
  <2>6. QED
    BY <1>7, <2>3, <2>4, <2>5
       DEF TypeInv, TypeOK, IndicesInBounds, ForkStage, tableVars
<1>8. CASE ForkFails
  BY <1>8, InitialLocals
     DEF TypeInv, TypeOK, IndicesInBounds, ForkFails, kernelVars, tableVars
<1>9. CASE RegisterStage
  <2> DEFINE p == pipeline.pids[idx]
  <2>1. idx \in 1..pipeline.count /\ pipeline.count \in 0..MaxStages
    BY <1>9
       DEF TypeInv, TypeOK, IndicesInBounds, RegisterStage, MainAt,
           PipelineLocals
  <2>2. p \in Pids \cup {NoPid} /\ pipeline.oldMask \in BOOLEAN
    BY <2>1 DEF TypeInv, TypeOK, PipelineLocals
  <2>3. /\ jobs' \in [Slots -> Job]
        /\ jobCount' \in jobCount..MaxJobs
        /\ nextId' \in Nat \ {0}
        /\ shown' \in [Slots -> {"none", "running", "completed"}]
    <3>1. ASSUME NEW s \in Slots,
                 jobs' = [jobs EXCEPT ![s] = [pid |-> p, id |-> nextId,
                                              state |-> "running"]],
                 nextId' = nextId + 1, jobCount' = CountWith(s),
                 shown' = [shown EXCEPT ![s] = "none"]
          PROVE  /\ jobs' \in [Slots -> Job]
                 /\ jobCount' \in jobCount..MaxJobs
                 /\ nextId' \in Nat \ {0}
                 /\ shown' \in [Slots -> {"none", "running", "completed"}]
      <4>1. [pid |-> p, id |-> nextId, state |-> "running"] \in Job
        BY <2>2 DEF TypeInv, TypeOK, Job, JobStates
      <4>2. jobCount' \in jobCount..MaxJobs
        BY <3>1 DEF TypeInv, TypeOK, CountWith, Slots
      <4>3. QED
        BY <3>1, <4>1, <4>2 DEF TypeInv, TypeOK
    <3>2. CASE UNCHANGED <<jobs, nextId, jobCount, shown>>
      BY <3>2 DEF TypeInv, TypeOK
    <3>3. QED
      BY <1>9, <3>1, <3>2 DEF RegisterStage, JobAdd
  <2>4. /\ pipeline' \in PipelineLocals
        /\ blocked' \in BOOLEAN
        /\ idx' \in Nat \ {0}
        /\ pc' \in {"register", "top"}
        /\ pc' = "register" => idx' \in 1..pipeline'.count
    BY <1>9, <2>1, <2>2, InitialLocals
       DEF TypeInv, TypeOK, RegisterStage, MainAt
  <2>5. UNCHANGED <<proc, pending, strangers, gSigchld, worker, handler>>
    BY <1>9 DEF RegisterStage, kernelVars
  <2>6. QED
    BY <2>3, <2>4, <2>5 DEF TypeInv, TypeOK, IndicesInBounds
<1>10. CASE WaitStage
  <2>1. idx \in 1..pipeline.count
    BY <1>10 DEF TypeInv, IndicesInBounds, WaitStage
  <2>2. proc' \in [Pids -> {"absent", "running"} \cup Zombies]
    BY <1>10 DEF TypeInv, TypeOK, WaitStage
  <2>3. /\ pipeline' \in PipelineLocals
        /\ idx' \in Nat \ {0}
        /\ pc' \in {"wait", "top"}
        /\ pc' = "wait" => idx' \in 1..pipeline'.count
    <3>1. pipeline.count \in Nat
      BY DEF TypeInv, TypeOK, PipelineLocals
    <3>2. QED
      BY <1>10, <2>1, <3>1, InitialLocals DEF TypeInv, TypeOK, WaitStage
  <2>4. QED
    BY <1>10, <2>2, <2>3
       DEF TypeInv, TypeOK, IndicesInBounds, WaitStage, tableVars
<1>11. ASSUME NEW builtin \in Builtins, NEW n \in 1..MaxTargets,
              RunBuiltin(builtin, n)
       PROVE TypeInv'
  <2>1. /\ FirstLabel(builtin) \in {"print", "lookup", "exit"}
        /\ FirstLabel(builtin) # "consume"
    BY DEF FirstLabel
  <2>2. /\ worker' \in WorkerLocals
        /\ worker'.pc = FirstLabel(builtin)
        /\ worker'.i # 0
    BY <1>11, <2>1, FreshLocals DEF RunBuiltin
  <2>3. QED
    BY <1>11, <2>1, <2>2
       DEF TypeInv, TypeOK, IndicesInBounds, RunBuiltin, kernelVars, tableVars
<1>12. CASE JoinWorker
  BY <1>12, InitialLocals
     DEF TypeInv, TypeOK, IndicesInBounds, JoinWorker, NoWorker, Builtin,
         kernelVars, tableVars
<1>13. CASE JobsPrint
  <2>1. worker.i \in Nat \ {0}
    BY <1>13
       DEF TypeInv, TypeOK, IndicesInBounds, JobsPrint, WorkerAt, WorkerLocals
  <2>2. ~PastLast(worker.i) => worker.i \in 1..jobCount /\ worker.i \in Slots
    BY <2>1 DEF TypeInv, TypeOK, PastLast, Slots
  <2>3. shown' \in [Slots -> {"none", "running", "completed"}]
    BY <1>13, <2>2 DEF TypeInv, TypeOK, JobsPrint
  <2>4. /\ worker' \in WorkerLocals
        /\ worker'.pc = "print" => worker'.i # 0
        /\ worker'.pc = "consume" => worker'.i \in 1..jobCount
    BY <1>13, <2>1, <2>2, FreshLocals
       DEF TypeInv, TypeOK, JobsPrint, Builtin, WorkerLocals, WorkerAt
  <2>5. QED
    BY <1>13, <2>3, <2>4
       DEF TypeInv, TypeOK, IndicesInBounds, JobsPrint, kernelVars, mainVars
<1>14. CASE JobsConsume
  <2>1. worker.i \in Slots
    BY <1>14
       DEF TypeInv, TypeOK, IndicesInBounds, JobsConsume, WorkerAt, Slots
  <2>2. jobs' \in [Slots -> Job]
    BY <1>14, <2>1 DEF TypeInv, TypeOK, JobsConsume, Job
  <2>3. worker' \in WorkerLocals /\ worker'.pc = "print" /\ worker'.i # 0
    BY <1>14, <2>1, FreshLocals DEF JobsConsume, Slots
  <2>4. QED
    BY <1>14, <2>2, <2>3
       DEF TypeInv, TypeOK, IndicesInBounds, JobsConsume, kernelVars, mainVars
<1>15. /\ NextTarget \in WorkerLocals
       /\ NextTarget.pc \in {"lookup", "finished"}
  BY FreshLocals DEF TypeInv, TypeOK, NextTarget, Builtin, WorkerLocals
<1>16. ASSUME NEW id \in 1..MaxJobId, KillLookup(id) PROVE TypeInv'
  <2>1. /\ worker' \in WorkerLocals
        /\ worker'.pc \in {"lookup", "send", "finished"}
    <3>1. ASSUME NEW s \in Slots,
                 worker' = [pc |-> "send", i |-> worker.i, id |-> id,
                            target |-> jobs[s].pid]
          PROVE  worker' \in WorkerLocals /\ worker'.pc = "send"
      <4>1. jobs[s].pid \in Pids \cup {NoPid}
        BY DEF TypeInv, TypeOK, Job
      <4>2. QED
        BY <3>1, <4>1 DEF TypeInv, TypeOK, WorkerLocals
    <3>2. QED
      BY <1>15, <1>16, <3>1 DEF KillLookup
  <2>2. QED
    BY <1>16, <2>1
       DEF TypeInv, TypeOK, IndicesInBounds, KillLookup, kernelVars,
           tableVars, mainVars
<1>17. CASE KillSend
  <2>1. /\ proc' \in [Pids -> {"absent", "running"} \cup Zombies]
        /\ pending' \in BOOLEAN
        /\ strangers' \in SUBSET Pids
    BY <1>17 DEF TypeInv, TypeOK, KillSend, kernelVars, Zombies
  <2>2. QED
    BY <1>15, <1>17, <2>1
       DEF TypeInv, TypeOK, IndicesInBounds, KillSend, tableVars, mainVars
<1>18. CASE ExitBuiltin
  BY <1>18
     DEF TypeInv, TypeOK, IndicesInBounds, ExitBuiltin, kernelVars, tableVars
<1>19. ASSUME NEW p \in Pids, NEW how \in Zombies, ChildEnds(p, how)
       PROVE TypeInv'
  BY <1>19
     DEF TypeInv, TypeOK, IndicesInBounds, ChildEnds, tableVars, mainVars
<1>20. ASSUME NEW t \in Threads, NEW h \in HandlerLocals,
              handler' = [handler EXCEPT ![t] = h],
              \/ h.pc = "idle"
              \/ h.pc = "test" /\ h.i # 0
              \/ h.pc \in {"wait", "record"} /\ h.i \in 1..jobCount,
              jobCount' = jobCount
       PROVE  /\ handler' \in [Threads -> HandlerLocals]
              /\ \A u \in Threads :
                   /\ handler'[u].pc = "test" => handler'[u].i # 0
                   /\ handler'[u].pc \in {"wait", "record"} =>
                        handler'[u].i \in 1..jobCount'
  BY <1>20 DEF TypeInv, TypeOK, IndicesInBounds
<1>21. ASSUME NEW t \in Threads, handler[t].pc # "idle"
       PROVE  /\ NextSlot(t) \in HandlerLocals
              /\ NextSlot(t).pc = "test"
              /\ NextSlot(t).i # 0
  BY FreshLocals DEF TypeInv, TypeOK, NextSlot, Activation, HandlerLocals
<1>22. ASSUME NEW t \in Threads, DeliverSigchld(t) PROVE TypeInv'
  <2> DEFINE h == Activation("test", 1)
  <2>1. h \in HandlerLocals /\ h.pc = "test" /\ h.i # 0
    BY FreshLocals
  <2>2. handler' = [handler EXCEPT ![t] = h] /\ jobCount' = jobCount
    BY <1>22 DEF DeliverSigchld, tableVars
  <2> HIDE DEF h
  <2>3. QED
    BY <1>20, <1>22, <2>1, <2>2
       DEF TypeInv, TypeOK, IndicesInBounds, DeliverSigchld, tableVars,
           mainVars
<1>23. ASSUME NEW t \in Threads, HandlerTest(t) PROVE TypeInv'
  <2> DEFINE h == handler'[t]
  <2>1. /\ handler[t] \in HandlerLocals
        /\ handler[t].pc = "test"
        /\ handler[t].i \in Nat \ {0}
    BY <1>23
       DEF TypeInv, TypeOK, IndicesInBounds, HandlerTest, HandlerAt,
           HandlerLocals
  <2>2. ~PastLast(handler[t].i) =>
          /\ handler[t].i \in 1..jobCount
          /\ jobs[handler[t].i].pid \in Pids \cup {NoPid}
    BY <2>1 DEF TypeInv, TypeOK, PastLast, Slots, Job
  <2>3. h = IF PastLast(handler[t].i) THEN NoHandler
            ELSE IF Running(handler[t].i)
            THEN [handler[t] EXCEPT !.pc = "wait",
                                    !.pid = jobs[handler[t].i].pid]
            ELSE NextSlot(t)
    BY <1>23 DEF TypeInv, TypeOK, HandlerTest
  <2>4. /\ h \in HandlerLocals
        /\ \/ h.pc = "idle"
           \/ h.pc = "test" /\ h.i # 0
           \/ h.pc \in {"wait", "record"} /\ h.i \in 1..jobCount
    <3>1. CASE PastLast(handler[t].i)
      BY <2>3, <3>1, InitialLocals DEF NoHandler, Activation
    <3>2. CASE ~PastLast(handler[t].i) /\ Running(handler[t].i)
      BY <2>1, <2>2, <2>3, <3>2 DEF HandlerLocals
    <3>3. CASE ~PastLast(handler[t].i) /\ ~Running(handler[t].i)
      BY <1>21, <2>1, <2>3, <3>3
    <3>4. QED
      BY <3>1, <3>2, <3>3
  <2>5. handler' = [handler EXCEPT ![t] = h] /\ jobCount' = jobCount
    BY <1>23 DEF TypeInv, TypeOK, HandlerTest, tableVars
  <2> HIDE DEF h
  <2>6. QED
    BY <1>20, <1>23, <2>4, <2>5
       DEF TypeInv, TypeOK, IndicesInBounds, HandlerTest, kernelVars,
           tableVars, mainVars
<1>24. ASSUME NEW t \in Threads, HandlerWait(t) PROVE TypeInv'
  <2> DEFINE h == handler'[t]
  <2>1. /\ handler[t] \in HandlerLocals
        /\ handler[t].pc = "wait"
        /\ handler[t].i \in 1..jobCount
    BY <1>24
       DEF TypeInv, TypeOK, IndicesInBounds, HandlerWait, HandlerAt
  <2>2. CASE \E p \in Waitable(WaitTarget(t)) :
               /\ proc[p] \in Zombies
               /\ proc' = [proc EXCEPT ![p] = "absent"]
               /\ handler' = [handler EXCEPT ![t] =
                    [@ EXCEPT !.pc = "record", !.rc = p, !.status = proc[p]]]
    <3>1. PICK p \in Pids :
               /\ proc[p] \in Zombies
               /\ proc' = [proc EXCEPT ![p] = "absent"]
               /\ handler' = [handler EXCEPT ![t] =
                    [@ EXCEPT !.pc = "record", !.rc = p, !.status = proc[p]]]
      BY <2>2 DEF Waitable
    <3> DEFINE r == [handler[t] EXCEPT !.pc = "record", !.rc = p,
                                       !.status = proc[p]]
    <3>2. r \in HandlerLocals /\ r.pc = "record" /\ r.i \in 1..jobCount
      BY <2>1, <3>1 DEF HandlerLocals
    <3>3. handler' = [handler EXCEPT ![t] = r] /\ jobCount' = jobCount
      BY <1>24, <3>1 DEF HandlerWait, tableVars
    <3>4. proc' \in [Pids -> {"absent", "running"} \cup Zombies]
      BY <3>1 DEF TypeInv, TypeOK
    <3> HIDE DEF r
    <3>5. QED
      BY <1>20, <1>24, <3>2, <3>3, <3>4
         DEF TypeInv, TypeOK, IndicesInBounds, HandlerWait, tableVars, mainVars
  <2>3. CASE /\ handler' = [handler EXCEPT ![t] =
                              [@ EXCEPT !.pc = "record", !.rc = NoPid]]
             /\ UNCHANGED proc
    <3> DEFINE r == [handler[t] EXCEPT !.pc = "record", !.rc = NoPid]
    <3>1. r \in HandlerLocals /\ r.pc = "record" /\ r.i \in 1..jobCount
      BY <2>1 DEF HandlerLocals
    <3>2. handler' = [handler EXCEPT ![t] = r] /\ jobCount' = jobCount
      BY <1>24, <2>3 DEF HandlerWait, tableVars
    <3> HIDE DEF r
    <3>3. QED
      BY <1>20, <1>24, <2>3, <3>1, <3>2
         DEF TypeInv, TypeOK, IndicesInBounds, HandlerWait, tableVars, mainVars
  <2>4. CASE handler' = [handler EXCEPT ![t] = NextSlot(t)] /\ UNCHANGED proc
    BY <1>20, <1>21, <1>24, <2>1, <2>4
       DEF TypeInv, TypeOK, IndicesInBounds, HandlerWait, tableVars, mainVars
  <2>5. QED
    BY <1>24, <2>2, <2>3, <2>4 DEF HandlerWait
<1>25. ASSUME NEW t \in Threads, HandlerRecord(t) PROVE TypeInv'
  <2>1. handler[t].pc = "record" /\ handler[t].i \in Slots
    BY <1>25
       DEF TypeInv, TypeOK, IndicesInBounds, HandlerRecord, HandlerAt, Slots
  <2>2. jobs' \in [Slots -> Job] /\ gSigchld' \in BOOLEAN
    <3>1. ASSUME NEW st \in JobStates,
                 jobs' = [jobs EXCEPT ![handler[t].i].state = st]
          PROVE  jobs' \in [Slots -> Job]
      BY <2>1, <3>1 DEF TypeInv, TypeOK, Job
    <3>2. /\ StateOf(handler[t].status) \in JobStates
          /\ {"done", "signaled", jobs[handler[t].i].state} \subseteq JobStates
      BY <2>1 DEF StateOf, JobStates, TypeInv, TypeOK, Job
    <3>3. QED
      BY <1>25, <3>1, <3>2 DEF TypeInv, TypeOK, HandlerRecord
  <2>3. handler' = [handler EXCEPT ![t] = NextSlot(t)] /\ jobCount' = jobCount
    BY <1>25 DEF HandlerRecord
  <2>4. QED
    BY <1>20, <1>21, <1>25, <2>1, <2>2, <2>3
       DEF TypeInv, TypeOK, IndicesInBounds, HandlerRecord, kernelVars,
           mainVars
<1>26. ASSUME NEW p \in Pids, StrangerTakes(p) \/ StrangerEnds(p)
       PROVE TypeInv'
  <2>1. strangers' \in SUBSET Pids
    BY <1>26 DEF TypeInv, TypeOK, StrangerTakes, StrangerEnds
  <2>2. UNCHANGED <<proc, pending, tableVars, mainVars, worker, handler>>
    BY <1>26 DEF StrangerTakes, StrangerEnds
  <2>3. QED
    BY <2>1, <2>2 DEF TypeInv, TypeOK, IndicesInBounds, tableVars, mainVars
<1>27. CASE UNCHANGED vars
  BY <1>27
     DEF TypeInv, TypeOK, IndicesInBounds, vars, kernelVars, tableVars,
         mainVars
<1>28. QED
  BY <1>1, <1>2, <1>3, <1>4, <1>5, <1>6, <1>7, <1>8, <1>9, <1>10, <1>11,
     <1>12, <1>13, <1>14, <1>16, <1>17, <1>18, <1>19, <1>22, <1>23, <1>24,
     <1>25, <1>26, <1>27
     DEF Next, MainStep, UserLine, WorkerStep, HandlerStep, Kernel, Exited

\* Type correctness: every variable keeps its type, and every loop over the
\* table, the stages or the slots keeps its index within bounds.
THEOREM TypeCorrect == Spec => [](TypeOK /\ IndicesInBounds)
BY InitTypes, NextTypes, PTL DEF Spec, TypeInv

-----------------------------------------------------------------------------
(* The worker lives exactly while the main thread waits for it.            *)

LEMMA InitThreads == Init => ThreadsInStep
BY DEF Init, ThreadsInStep, NoWorker, NoHandler, Builtin, Activation, Threads

LEMMA NextThreads == TypeInv /\ ThreadsInStep /\ [Next]_vars => ThreadsInStep'
<1> SUFFICES ASSUME TypeInv, ThreadsInStep, [Next]_vars
             PROVE  ThreadsInStep'
  OBVIOUS
<1>1. /\ pc \in {"top", "notify", "input", "fork", "register", "wait", "join",
                "exited"}
      /\ worker \in WorkerLocals
      /\ handler \in [Threads -> HandlerLocals]
  BY DEF TypeInv, TypeOK
<1>2. CASE TopOfLoop \/ NotifySlot \/ NotifyReturn \/ OtherLine \/ EndOfInput
  BY <1>2
     DEF ThreadsInStep, TopOfLoop, NotifySlot, NotifyReturn, OtherLine,
         EndOfInput, MainAt
<1>3. CASE ForkStage \/ ForkFails \/ RegisterStage \/ WaitStage
  BY <1>3
     DEF ThreadsInStep, ForkStage, ForkFails, RegisterStage, WaitStage, MainAt
<1>4. ASSUME NEW n \in 1..MaxStages, NEW bg \in BOOLEAN, RunPipeline(n, bg)
      PROVE ThreadsInStep'
  BY <1>4 DEF ThreadsInStep, RunPipeline, MainAt
<1>5. ASSUME NEW builtin \in Builtins, NEW n \in 1..MaxTargets,
             RunBuiltin(builtin, n)
      PROVE ThreadsInStep'
  <2>1. worker'.pc = FirstLabel(builtin)
    BY <1>5 DEF RunBuiltin, Builtin
  <2>2. /\ FirstLabel(builtin) \in {"print", "lookup", "exit"}
        /\ FirstLabel(builtin) = "print" => builtin = "jobs"
    BY JobControlAssumption DEF FirstLabel
  <2>3. handler' = handler /\ pc' = "join" /\ worker.pc = "none"
    BY <1>1, <1>5 DEF RunBuiltin, MainAt, ThreadsInStep
  <2>4. QED
    BY <2>1, <2>2, <2>3 DEF ThreadsInStep
<1>6. CASE JoinWorker
  BY <1>6, FreshLocals
     DEF ThreadsInStep, JoinWorker, MainAt, WorkerAt, Undisturbed, NoWorker
<1>7. CASE JobsPrint \/ JobsConsume
  <2>1. /\ worker.pc \in {"print", "consume"}
        /\ worker'.pc \in {"print", "consume", "finished"}
    BY <1>1, <1>7
       DEF JobsPrint, JobsConsume, WorkerAt, Builtin, WorkerLocals
  <2>2. UNCHANGED <<pc, handler>>
    BY <1>7 DEF JobsPrint, JobsConsume, mainVars
  <2>3. QED
    BY <2>1, <2>2 DEF ThreadsInStep
<1>8. ASSUME NEW id \in 1..MaxJobId, KillLookup(id) PROVE ThreadsInStep'
  BY <1>8
     DEF ThreadsInStep, KillLookup, WorkerAt, NextTarget, Builtin, mainVars
<1>9. CASE KillSend
  BY <1>9 DEF ThreadsInStep, KillSend, WorkerAt, NextTarget, Builtin, mainVars
<1>10. CASE ExitBuiltin
  BY <1>10 DEF ThreadsInStep, ExitBuiltin, WorkerAt
<1>11. ASSUME NEW p \in Pids, NEW how \in Zombies, ChildEnds(p, how)
       PROVE ThreadsInStep'
  BY <1>11 DEF ThreadsInStep, ChildEnds, mainVars
<1>12. ASSUME NEW t \in Threads, DeliverSigchld(t) PROVE ThreadsInStep'
  BY <1>1, <1>12 DEF ThreadsInStep, DeliverSigchld, Takes, Threads, mainVars
<1>13. ASSUME NEW t \in Threads, HandlerStep(t) PROVE ThreadsInStep'
  <2>1. handler[t].pc # "idle"
    BY <1>13
       DEF HandlerStep, HandlerTest, HandlerWait, HandlerRecord, HandlerAt
  <2>2. /\ UNCHANGED <<pc, worker>>
        /\ \A u \in Threads : u # t => handler'[u] = handler[u]
    BY <1>1, <1>13
       DEF HandlerStep, HandlerTest, HandlerWait, HandlerRecord, mainVars
  <2>3. QED
    BY <2>1, <2>2 DEF ThreadsInStep, Threads
<1>14. ASSUME NEW p \in Pids, StrangerTakes(p) \/ StrangerEnds(p)
       PROVE ThreadsInStep'
  BY <1>14 DEF ThreadsInStep, StrangerTakes, StrangerEnds, mainVars
<1>15. CASE UNCHANGED vars
  BY <1>15 DEF ThreadsInStep, vars, mainVars
<1>16. QED
  BY <1>2, <1>3, <1>4, <1>5, <1>6, <1>7, <1>8, <1>9, <1>10, <1>11, <1>12,
     <1>13, <1>14, <1>15
     DEF Next, MainStep, UserLine, WorkerStep, Kernel, Exited

-----------------------------------------------------------------------------
(* The table.                                                              *)

\* Four actions write the job table; every other one leaves it as it is.
LEMMA TableWriters ==
  [Next]_vars =>
    \/ UNCHANGED <<jobs, jobCount, nextId>>
    \/ NotifySlot \/ RegisterStage \/ JobsConsume
    \/ \E t \in Threads : HandlerRecord(t)
BY DEF Next, MainStep, UserLine, WorkerStep, HandlerStep, Kernel, Exited,
       TopOfLoop, NotifyReturn, OtherLine, EndOfInput, RunPipeline, ForkStage,
       ForkFails, WaitStage, RunBuiltin, JoinWorker, JobsPrint, KillLookup,
       KillSend, ExitBuiltin, ChildEnds, DeliverSigchld, StrangerTakes,
       StrangerEnds, HandlerTest, HandlerWait, vars, tableVars

\* The stage the main thread is at while it forks, registers or waits.
LEMMA StageTypes ==
  ASSUME TypeInv, pc \in {"fork", "register", "wait"}
  PROVE  /\ pipeline.count \in 1..MaxStages
         /\ idx \in 1..pipeline.count
         /\ \A k \in 1..pipeline.count :
              pipeline.pids[k] \in Pids \cup {NoPid}
<1>1. /\ pipeline.count \in 0..MaxStages
      /\ pipeline.pids \in [1..MaxStages -> Pids \cup {NoPid}]
  BY DEF TypeInv, TypeOK, PipelineLocals
<1>2. idx \in 1..pipeline.count
  BY DEF TypeInv, IndicesInBounds
<1>3. QED
  BY <1>1, <1>2, JobControlAssumption

\* sigchld_handler writes the state of the slot it is at, and nothing else in
\* the table.
LEMMA RecordEffect ==
  ASSUME TypeInv, NEW t \in Threads, HandlerRecord(t)
  PROVE  /\ handler[t].i \in Slots
         /\ jobs' \in [Slots -> Job]
         /\ \A s \in Slots : /\ jobs'[s].id = jobs[s].id
                              /\ jobs'[s].pid = jobs[s].pid
         /\ \A s \in Slots : s # handler[t].i => jobs'[s] = jobs[s]
         /\ \/ UNCHANGED <<jobs, gSigchld>>
               /\ handler[t].rc # jobs[handler[t].i].pid
            \/ /\ handler[t].rc = jobs[handler[t].i].pid
               /\ gSigchld'
               /\ handler[t].rc # NoPid =>
                    jobs'[handler[t].i].state # "running"
<1>1. handler[t].i \in Slots /\ handler[t].status \in Zombies
  <2>1. handler[t] \in HandlerLocals /\ jobCount \in 0..MaxJobs
    BY DEF TypeInv, TypeOK
  <2>2. handler[t].i \in 1..jobCount
    BY DEF TypeInv, IndicesInBounds, HandlerRecord, HandlerAt
  <2>3. QED
    BY <2>1, <2>2, JobControlAssumption DEF HandlerLocals, Slots
<1>2. jobs \in [Slots -> Job]
  BY DEF TypeInv, TypeOK
<1>3. CASE handler[t].rc = jobs[handler[t].i].pid
  <2>1. PICK st \in IF handler[t].rc = NoPid
                      THEN {"done", "signaled", jobs[handler[t].i].state}
                      ELSE {StateOf(handler[t].status)} :
               jobs' = [jobs EXCEPT ![handler[t].i].state = st]
    BY <1>3 DEF HandlerRecord
  <2>2. /\ st \in JobStates
        /\ handler[t].rc # NoPid => st # "running"
    BY <1>1, <1>2, <2>1 DEF Job, JobStates, StateOf
  <2>3. gSigchld'
    BY <1>3 DEF HandlerRecord
  <2>4. QED
    BY <1>1, <1>2, <1>3, <2>1, <2>2, <2>3 DEF Job
<1>4. CASE handler[t].rc # jobs[handler[t].i].pid
  BY <1>1, <1>2, <1>4 DEF HandlerRecord
<1>5. QED
  BY <1>3, <1>4

LEMMA InitTable == Init => TableWellFormed
BY DEF Init, TableWellFormed, Occupied

LEMMA NextTable ==
  TypeInv /\ TableWellFormed /\ [Next]_vars => TableWellFormed'
<1> SUFFICES ASSUME TypeInv, TableWellFormed, [Next]_vars
             PROVE  TableWellFormed'
  OBVIOUS
<1>1. /\ jobs \in [Slots -> Job]
      /\ jobCount \in 0..MaxJobs
      /\ nextId \in Nat \ {0}
  BY DEF TypeInv, TypeOK
<1>2. ASSUME UNCHANGED <<jobCount, nextId>>,
             \A s \in Slots : /\ jobs'[s].id = jobs[s].id
                              /\ jobs'[s].pid \in {jobs[s].pid, NoPid}
      PROVE  TableWellFormed'
  BY <1>2 DEF TableWellFormed, Occupied
<1>3. CASE UNCHANGED <<jobs, jobCount, nextId>>
  BY <1>2, <1>3
<1>4. CASE NotifySlot
  BY <1>1, <1>2, <1>4 DEF NotifySlot, Job
<1>5. CASE RegisterStage
  <2>1. ASSUME NEW s \in Slots, NEW p \in Pids \cup {NoPid}, FirstFree(s),
               jobs' = [jobs EXCEPT ![s] = [pid |-> p, id |-> nextId,
                                            state |-> "running"]],
               nextId' = nextId + 1, jobCount' = CountWith(s)
        PROVE  TableWellFormed'
    <3>1. s \in Nat /\ s <= jobCount' /\ jobCount <= jobCount'
      BY <1>1, <2>1, JobControlAssumption DEF CountWith, Slots
    <3>2. /\ jobs'[s].id = nextId
          /\ \A r \in Slots : r # s => jobs'[r] = jobs[r]
      BY <1>1, <2>1
    <3>3. \A r \in Slots : r \in Nat /\ jobs[r].id \in Nat
      BY <1>1, JobControlAssumption DEF Slots, Job
    <3>4. jobCount' \in Nat
      BY <1>1, <2>1, JobControlAssumption DEF CountWith, Slots
    <3>5. ASSUME NEW r \in Slots, Occupied(r)'
          PROVE  r <= jobCount' /\ jobs'[r].id < nextId'
      <4>1. CASE r = s
        BY <1>1, <2>1, <3>1, <3>2, <4>1
      <4>2. CASE r # s
        BY <1>1, <2>1, <3>1, <3>2, <3>3, <3>4, <3>5, <4>2
           DEF TableWellFormed, Occupied
      <4>3. QED
        BY <4>1, <4>2
    <3>6. ASSUME NEW q \in Slots, NEW r \in Slots, q # r, Occupied(q)',
                 Occupied(r)'
          PROVE  jobs'[q].id # jobs'[r].id
      BY <1>1, <3>2, <3>3, <3>6 DEF TableWellFormed, Occupied
    <3>7. QED
      BY <3>5, <3>6 DEF TableWellFormed
  <2>2. pipeline.pids[idx] \in Pids \cup {NoPid}
    BY <1>5, StageTypes DEF RegisterStage, MainAt
  <2>3. QED
    BY <1>3, <1>5, <2>1, <2>2 DEF RegisterStage, JobAdd
<1>6. CASE JobsConsume
  BY <1>1, <1>2, <1>6 DEF JobsConsume, Job
<1>7. ASSUME NEW t \in Threads, HandlerRecord(t) PROVE TableWellFormed'
  BY <1>2, <1>7, RecordEffect DEF HandlerRecord
<1>8. QED
  BY <1>3, <1>4, <1>5, <1>6, <1>7, TableWriters

\* No job hides beyond s_job_count from the scans of the table, and no two
\* jobs in the table share an id.
THEOREM TableCorrect == Spec => []TableWellFormed
<1>1. Init => TypeInv /\ TableWellFormed
  BY InitTypes, InitTable
<1>2. TypeInv /\ TableWellFormed /\ [Next]_vars
        => (TypeInv /\ TableWellFormed)'
  BY NextTypes, NextTable
<1>3. QED
  BY <1>1, <1>2, PTL DEF Spec

-----------------------------------------------------------------------------
(* Notification.                                                           *)

LEMMA InitNotification == Init => NoLostNotification
BY DEF Init, NoLostNotification, Completed, Occupied

LEMMA NextNotification ==
  /\ TypeInv /\ ThreadsInStep /\ TableWellFormed /\ NoLostNotification
  /\ [Next]_vars
  => NoLostNotification'
<1> SUFFICES ASSUME TypeInv, ThreadsInStep, TableWellFormed,
                    NoLostNotification, [Next]_vars
             PROVE  NoLostNotification'
  OBVIOUS
<1>1. /\ jobs \in [Slots -> Job]
      /\ jobCount \in 0..MaxJobs
      /\ idx \in Nat \ {0}
      /\ gSigchld \in BOOLEAN
      /\ \A s \in Slots : s \in Nat \ {0}
  BY JobControlAssumption DEF TypeInv, TypeOK, Slots
<1>2. ASSUME UNCHANGED gSigchld,
             pc = "notify" => UNCHANGED <<pc, idx>>,
             \A s \in Slots : Completed(s)' => Completed(s)
      PROVE  NoLostNotification'
  BY <1>2 DEF NoLostNotification
<1>3. ASSUME UNCHANGED jobs PROVE \A s \in Slots : Completed(s)' => Completed(s)
  BY <1>3 DEF Completed, Occupied
<1>4. CASE TopOfLoop
  <2>1. /\ gSigchld => pc' = "notify" /\ idx' = 1
        /\ \A s \in Slots : Completed(s)' => Completed(s)
        /\ pc = "top"
    BY <1>3, <1>4 DEF TopOfLoop, MainAt
  <2>2. QED
    BY <1>1, <2>1 DEF NoLostNotification
<1>5. CASE NotifySlot
  <2>1. /\ pc' = "notify" /\ idx' = idx + 1 /\ UNCHANGED gSigchld
        /\ \A s \in Slots : Completed(s)' => Completed(s) /\ s # idx
    BY <1>1, <1>5 DEF NotifySlot, MainAt, Completed, Occupied, Job
  <2>2. QED
    BY <1>1, <2>1 DEF NoLostNotification
<1>6. CASE NotifyReturn
  <2>1. /\ UNCHANGED gSigchld
        /\ idx > jobCount
        /\ \A s \in Slots : Completed(s)' => Completed(s) /\ s <= jobCount
    BY <1>3, <1>6
       DEF NotifyReturn, PastLast, TableWellFormed, Completed, tableVars
  <2>2. QED
    BY <1>1, <2>1 DEF NoLostNotification
<1>7. CASE OtherLine \/ EndOfInput \/ ForkStage \/ ForkFails \/ WaitStage
  BY <1>2, <1>3, <1>7
     DEF OtherLine, EndOfInput, ForkStage, ForkFails, WaitStage, MainAt,
         tableVars
<1>8. ASSUME NEW n \in 1..MaxStages, NEW bg \in BOOLEAN, RunPipeline(n, bg)
      PROVE NoLostNotification'
  BY <1>2, <1>3, <1>8 DEF RunPipeline, MainAt, tableVars
<1>9. CASE RegisterStage
  <2>1. \A s \in Slots : Completed(s)' => Completed(s)
    BY <1>1, <1>3, <1>9 DEF RegisterStage, JobAdd, Completed, Occupied
  <2>2. QED
    BY <1>2, <1>9, <2>1 DEF RegisterStage, MainAt
<1>10. ASSUME NEW builtin \in Builtins, NEW n \in 1..MaxTargets,
              RunBuiltin(builtin, n)
       PROVE NoLostNotification'
  BY <1>2, <1>3, <1>10 DEF RunBuiltin, MainAt, tableVars
<1>11. CASE JoinWorker
  BY <1>2, <1>3, <1>11 DEF JoinWorker, MainAt, tableVars
<1>12. CASE JobsPrint \/ KillSend
  BY <1>2, <1>3, <1>12 DEF JobsPrint, KillSend, tableVars, mainVars
<1>13. CASE JobsConsume
  <2>1. \A s \in Slots : Completed(s)' => Completed(s)
    BY <1>1, <1>3, <1>13 DEF JobsConsume, Completed, Occupied, Job
  <2>2. QED
    BY <1>2, <1>13, <2>1 DEF JobsConsume, mainVars
<1>14. ASSUME NEW id \in 1..MaxJobId, KillLookup(id)
       PROVE NoLostNotification'
  BY <1>2, <1>3, <1>14 DEF KillLookup, tableVars, mainVars
<1>15. CASE ExitBuiltin
  <2>1. pc # "notify"
    BY <1>15 DEF ExitBuiltin, WorkerAt, ThreadsInStep
  <2>2. QED
    BY <1>2, <1>3, <1>15, <2>1 DEF ExitBuiltin, tableVars
<1>16. ASSUME NEW p \in Pids, NEW how \in Zombies, ChildEnds(p, how)
       PROVE NoLostNotification'
  BY <1>2, <1>3, <1>16 DEF ChildEnds, tableVars, mainVars
<1>17. ASSUME NEW t \in Threads,
              DeliverSigchld(t) \/ HandlerTest(t) \/ HandlerWait(t)
       PROVE NoLostNotification'
  BY <1>2, <1>3, <1>17
     DEF DeliverSigchld, HandlerTest, HandlerWait, tableVars, mainVars
<1>18. ASSUME NEW t \in Threads, HandlerRecord(t) PROVE NoLostNotification'
  <2>1. CASE UNCHANGED <<jobs, gSigchld>>
    BY <1>2, <1>3, <1>18, <2>1 DEF HandlerRecord, mainVars
  <2>2. CASE gSigchld'
    BY <2>2 DEF NoLostNotification
  <2>3. QED
    BY <1>18, <2>1, <2>2, RecordEffect
<1>19. ASSUME NEW p \in Pids, StrangerTakes(p) \/ StrangerEnds(p)
       PROVE NoLostNotification'
  BY <1>2, <1>3, <1>19 DEF StrangerTakes, StrangerEnds, tableVars, mainVars
<1>20. CASE UNCHANGED vars
  BY <1>2, <1>3, <1>20 DEF vars, tableVars, mainVars
<1>21. QED
  BY <1>4, <1>5, <1>6, <1>7, <1>8, <1>9, <1>10, <1>11, <1>12, <1>13, <1>14,
     <1>15, <1>16, <1>17, <1>18, <1>19, <1>20
     DEF Next, MainStep, UserLine, WorkerStep, HandlerStep, Kernel, Exited

ReplInv == TypeInv /\ ThreadsInStep /\ TableWellFormed /\ NoLostNotification

LEMMA ReplInvariant == Spec => []ReplInv
<1>1. Init => ReplInv
  BY InitTypes, InitThreads, InitTable, InitNotification DEF ReplInv
<1>2. ReplInv /\ [Next]_vars => ReplInv'
  BY NextTypes, NextThreads, NextTable, NextNotification DEF ReplInv
<1>3. QED
  BY <1>1, <1>2, PTL DEF Spec

\* No completion is lost: the flag is set, or the scan in progress is still
\* to reach the job, whatever the signals interrupt.
THEOREM NotificationKept == Spec => []NoLostNotification
<1>1. ReplInv => NoLostNotification
  BY DEF ReplInv
<1>2. QED
  BY <1>1, ReplInvariant, PTL

-----------------------------------------------------------------------------
(* Who owns which child, in a build that is safe.                          *)

OwnInv == ReplInv /\ Ownership

\* While the main thread runs its own code with no builtin to join, no
\* handler is active anywhere.
LEMMA NoHandlerActive ==
  ASSUME TypeInv, ThreadsInStep, handler["main"].pc = "idle",
         pc \notin {"join", "exited"}
  PROVE  worker.pc = "none" /\ \A t \in Threads : handler[t].pc = "idle"
BY DEF ThreadsInStep, Threads

\* In a safe build waitpid is called with the pid that was tested, so it can
\* only reap that child.
LEMMA WaitEffect ==
  ASSUME SafeBuild, TypeInv, HandlersUpToDate, NEW t \in Threads,
         HandlerWait(t)
  PROVE  /\ handler[t].pid \in Pids
         /\ \/ /\ proc[handler[t].pid] \in Zombies
               /\ proc' = [proc EXCEPT ![handler[t].pid] = "absent"]
               /\ handler'[t].pc = "record"
               /\ handler'[t].i = handler[t].i
               /\ handler'[t].rc = handler[t].pid
            \/ /\ UNCHANGED proc
               /\ handler'[t].pc = "record" /\ handler'[t].rc = NoPid
            \/ UNCHANGED proc /\ handler'[t].pc = "test"
         /\ \A u \in Threads : u # t => handler'[u] = handler[u]
<1> DEFINE p == handler[t].pid
<1>1. /\ handler \in [Threads -> HandlerLocals]
      /\ handler[t].pc = "wait"
  BY DEF TypeInv, TypeOK, HandlerWait, HandlerAt
<1>2. /\ p \in Pids
      /\ "jobs" \notin Builtins => jobs[handler[t].i].pid = p
  BY <1>1 DEF HandlersUpToDate, WaiterUpToDate
<1>3. WaitTarget(t) = p
  BY <1>2 DEF SafeBuild, WaitTarget
<1>4. Waitable(WaitTarget(t)) = {p}
  BY <1>2, <1>3, JobControlAssumption DEF Waitable
<1>5. CASE \E q \in {p} :
             /\ proc[q] \in Zombies
             /\ proc' = [proc EXCEPT ![q] = "absent"]
             /\ handler' = [handler EXCEPT ![t] =
                  [@ EXCEPT !.pc = "record", !.rc = q, !.status = proc[q]]]
  BY <1>1, <1>2, <1>5 DEF HandlerLocals
<1>6. CASE /\ handler' = [handler EXCEPT ![t] =
                            [@ EXCEPT !.pc = "record", !.rc = NoPid]]
           /\ UNCHANGED proc
  BY <1>1, <1>2, <1>6 DEF HandlerLocals
<1>7. CASE handler' = [handler EXCEPT ![t] = NextSlot(t)] /\ UNCHANGED proc
  BY <1>1, <1>2, <1>7 DEF NextSlot, Activation
<1>8. QED
  BY <1>4, <1>5, <1>6, <1>7 DEF HandlerWait

LEMMA InitOwnership == Init => Ownership
<1> SUFFICES ASSUME Init PROVE Ownership
  OBVIOUS
<1>1. /\ \A s \in Slots : ~Occupied(s)
      /\ \A t \in Threads : handler[t].pc = "idle"
      /\ worker.pc = "none"
      /\ pc = "top"
  BY DEF Init, Occupied, NoHandler, NoWorker, Builtin, Activation
<1>2. HeldStages = {}
  BY <1>1 DEF HeldStages
<1>3. QED
  BY <1>1, <1>2, InitThreads
     DEF Ownership, HandlersUpToDate, WaiterUpToDate, HolderUpToDate,
         HoldersDiffer, HoldsStatus, StagesHeld, RunningPidsDiffer,
         RunningJobHasChild, CompletedPidUnused, KillTargetIsPid,
         KillReachesOwnChild, Running, Completed

\* The parts of Ownership besides ThreadsInStep.
ChildrenOwned ==
  /\ HandlersUpToDate
  /\ StagesHeld
  /\ RunningPidsDiffer
  /\ RunningJobHasChild
  /\ CompletedPidUnused
  /\ KillTargetIsPid
  /\ KillReachesOwnChild

LEMMA NextOwnership ==
  SafeBuild /\ OwnInv /\ [Next]_vars => ChildrenOwned'
<1> SUFFICES ASSUME SafeBuild, OwnInv, [Next]_vars PROVE ChildrenOwned'
  OBVIOUS
<1>1. /\ TypeInv /\ ThreadsInStep /\ TableWellFormed /\ NoLostNotification
      /\ HandlersUpToDate /\ StagesHeld /\ RunningPidsDiffer
      /\ RunningJobHasChild /\ CompletedPidUnused /\ KillTargetIsPid
      /\ KillReachesOwnChild
  BY DEF OwnInv, ReplInv, Ownership
<1>2. /\ proc \in [Pids -> {"absent", "running"} \cup Zombies]
      /\ jobs \in [Slots -> Job]
      /\ jobCount \in 0..MaxJobs
      /\ idx \in Nat \ {0}
      /\ pc \in {"top", "notify", "input", "fork", "register", "wait", "join",
                "exited"}
      /\ handler \in [Threads -> HandlerLocals]
      /\ worker \in WorkerLocals
      /\ \A s \in Slots : s \in Nat \ {0}
      /\ \A s \in Slots : Occupied(s) => jobs[s].pid \in Pids
      /\ NoPid \notin Pids
  <2>1. \A s \in Slots : jobs[s].pid \in Pids \cup {NoPid}
    BY <1>1 DEF TypeInv, TypeOK, Job
  <2>2. QED
    BY <1>1, <2>1, JobControlAssumption DEF TypeInv, TypeOK, Slots, Occupied
\* What a step that leaves some of the variables alone cannot disturb.
<1>3. ASSUME UNCHANGED <<proc, jobs, handler>>
      PROVE  /\ HandlersUpToDate' /\ RunningPidsDiffer' /\ RunningJobHasChild'
  BY <1>1, <1>3
     DEF HandlersUpToDate, WaiterUpToDate, HolderUpToDate, HoldersDiffer,
         HoldsStatus, RunningPidsDiffer, RunningJobHasChild, AboutToRecord,
         Running, Occupied
<1>4. ASSUME UNCHANGED <<proc, jobs, pc, idx, pipeline>>
      PROVE  StagesHeld' /\ CompletedPidUnused'
  BY <1>1, <1>4
     DEF StagesHeld, HeldStages, CompletedPidUnused, Running, Completed,
         Occupied
<1>5. ASSUME HeldStages' = {} PROVE StagesHeld'
  BY <1>5 DEF StagesHeld
<1>6. ASSUME worker'.pc # "send" PROVE KillTargetIsPid' /\ KillReachesOwnChild'
  BY <1>6 DEF KillTargetIsPid, KillReachesOwnChild
<1>7. ASSUME UNCHANGED <<jobs, worker>>,
             \A p \in Pids : proc'[p] = "running" => proc[p] = "running"
      PROVE  KillTargetIsPid' /\ KillReachesOwnChild'
  BY <1>1, <1>7 DEF KillTargetIsPid, KillReachesOwnChild, Running, Occupied
<1>8. ASSUME \A t \in Threads : handler'[t].pc = "idle"
      PROVE  HandlersUpToDate'
  BY <1>8
     DEF HandlersUpToDate, WaiterUpToDate, HolderUpToDate, HoldersDiffer,
         HoldsStatus
<1>9. \A t \in Threads :
         /\ handler[t].pc \in {"wait", "record"} => handler[t].i \in Slots
         /\ handler[t].pid \in Pids \cup {NoPid}
         /\ handler[t].rc \in Pids \cup {NoPid}
  <2>1. ASSUME NEW t \in Threads, handler[t].pc \in {"wait", "record"}
        PROVE  handler[t].i \in 1..jobCount
    BY <1>1, <2>1 DEF TypeInv, IndicesInBounds
  <2>2. jobCount \in 0..MaxJobs /\ handler \in [Threads -> HandlerLocals]
    BY <1>2
  <2>3. QED
    BY <2>1, <2>2, JobControlAssumption DEF Slots, HandlerLocals
<1>10. ASSUME UNCHANGED <<jobs, handler>>,
              \A p \in Pids : (proc'[p] = "absent") <=> (proc[p] = "absent")
       PROVE  HandlersUpToDate'
  <2>1. ASSUME NEW t \in Threads PROVE WaiterUpToDate(t)'
    <3>1. WaiterUpToDate(t)
      BY <1>1 DEF HandlersUpToDate
    <3>2. QED
      BY <1>10, <3>1 DEF WaiterUpToDate, Running, Occupied
  <2>2. ASSUME NEW t \in Threads PROVE HolderUpToDate(t)'
    <3>1. HolderUpToDate(t) /\ handler[t].rc \in Pids \cup {NoPid}
      BY <1>1, <1>9 DEF HandlersUpToDate
    <3>2. QED
      BY <1>10, <3>1 DEF HolderUpToDate, HoldsStatus, Running, Occupied
  <2>3. HoldersDiffer'
    BY <1>1, <1>10 DEF HandlersUpToDate, HoldersDiffer, HoldsStatus
  <2>4. QED
    BY <2>1, <2>2, <2>3 DEF HandlersUpToDate
<1>11. ASSUME UNCHANGED <<proc, pc, idx, pipeline>>,
              \A s \in Slots : Running(s)' => /\ Running(s)
                                              /\ jobs'[s].pid = jobs[s].pid
       PROVE  StagesHeld'
  <2>1. HeldStages' = HeldStages
    BY <1>11 DEF HeldStages
  <2>2. QED
    BY <1>1, <1>11, <2>1 DEF StagesHeld
<1>12. ASSUME UNCHANGED <<jobs, handler, pc, idx, pipeline, worker>>,
             \A p \in Pids :
               /\ (proc'[p] = "absent") <=> (proc[p] = "absent")
               /\ proc'[p] = "running" => proc[p] = "running"
      PROVE  ChildrenOwned'
  <2>1. HandlersUpToDate'
    BY <1>12, <1>10
  <2>2. StagesHeld'
    BY <1>1, <1>12 DEF StagesHeld, HeldStages, Running, Occupied
  <2>3. RunningPidsDiffer'
    BY <1>1, <1>12 DEF RunningPidsDiffer, Running, Occupied
  <2>4. RunningJobHasChild'
    BY <1>1, <1>2, <1>12
       DEF RunningJobHasChild, AboutToRecord, Running, Occupied
  <2>5. CompletedPidUnused'
    BY <1>1, <1>2, <1>12 DEF CompletedPidUnused, Completed, Occupied
  <2>6. QED
    BY <1>7, <1>12, <2>1, <2>2, <2>3, <2>4, <2>5 DEF ChildrenOwned
<1>13. CASE TopOfLoop
  <2>1. /\ UNCHANGED <<proc, jobs, handler, worker>>
        /\ pc = "top" /\ pc' \in {"notify", "input"} /\ idx' = 1
        /\ pc' = "input" => ~gSigchld
    BY <1>13 DEF TopOfLoop, MainAt, kernelVars
  <2>2. HeldStages' = {}
    BY <2>1 DEF HeldStages
  <2>3. CompletedPidUnused'
    BY <1>1, <1>2, <2>1
       DEF CompletedPidUnused, NoLostNotification, Completed, Occupied
  <2>4. QED
    BY <1>3, <1>5, <1>7, <2>1, <2>2, <2>3 DEF ChildrenOwned
<1>14. CASE NotifySlot
  <2>1. /\ UNCHANGED <<proc, handler, worker>>
        /\ pc = "notify" /\ pc' = "notify" /\ idx' = idx + 1
        /\ handler["main"].pc = "idle"
        /\ jobs' = IF Completed(idx) THEN [jobs EXCEPT ![idx].pid = NoPid]
                                     ELSE jobs
    BY <1>14 DEF NotifySlot, MainAt, Undisturbed, kernelVars
  <2>2. /\ \A s \in Slots : Running(s)' => Running(s) /\ jobs'[s] = jobs[s]
        /\ \A s \in Slots : Completed(s)' => /\ Completed(s)
                                             /\ s # idx
                                             /\ jobs'[s] = jobs[s]
    BY <1>2, <2>1 DEF Running, Completed, Occupied
  <2>3. /\ worker.pc = "none"
        /\ \A t \in Threads : handler[t].pc = "idle"
    BY <1>1, <2>1, NoHandlerActive
  <2>4. HeldStages' = {}
    BY <2>1 DEF HeldStages
  <2>5. CompletedPidUnused'
    <3>1. ASSUME NEW s \in Slots, Completed(s)'
          PROVE  \/ proc'[jobs'[s].pid] = "absent"
                 \/ pc' = "notify" /\ idx' <= s
      <4>1. Completed(s) /\ s # idx /\ jobs'[s] = jobs[s]
        BY <2>2, <3>1
      <4>2. proc[jobs[s].pid] = "absent" \/ idx <= s
        BY <1>1, <2>1, <4>1 DEF CompletedPidUnused
      <4>3. idx \in Nat /\ s \in Nat
        BY <1>2
      <4>4. QED
        BY <2>1, <4>1, <4>2, <4>3
    <3>2. QED
      BY <3>1 DEF CompletedPidUnused, Completed, Occupied
  <2>6. RunningPidsDiffer' /\ RunningJobHasChild'
    <3>1. \A s \in Slots : Running(s) => proc[jobs[s].pid] # "absent"
      BY <1>1, <2>3 DEF RunningJobHasChild, AboutToRecord
    <3>2. RunningPidsDiffer'
      BY <1>1, <2>2 DEF RunningPidsDiffer
    <3>3. RunningJobHasChild'
      BY <2>1, <2>2, <3>1 DEF RunningJobHasChild
    <3>4. QED
      BY <3>2, <3>3
  <2>7. QED
    BY <1>5, <1>6, <1>8, <2>1, <2>3, <2>4, <2>5, <2>6 DEF ChildrenOwned
<1>15. CASE NotifyReturn
  <2>1. /\ UNCHANGED <<proc, jobs, handler, worker>>
        /\ pc = "notify" /\ pc' = "input" /\ idx > jobCount
    BY <1>15 DEF NotifyReturn, MainAt, PastLast, kernelVars, tableVars
  <2>2. HeldStages' = {}
    BY <2>1 DEF HeldStages
  <2>3. CompletedPidUnused'
    BY <1>1, <1>2, <2>1
       DEF CompletedPidUnused, TableWellFormed, Completed, Occupied
  <2>4. QED
    BY <1>3, <1>5, <1>7, <2>1, <2>2, <2>3 DEF ChildrenOwned
<1>16. CASE OtherLine \/ EndOfInput
  <2>1. /\ UNCHANGED <<proc, jobs, handler, worker>>
        /\ pc = "input" /\ pc' \in {"top", "exited"}
    BY <1>16 DEF OtherLine, EndOfInput, MainAt, kernelVars, tableVars
  <2>2. HeldStages' = {}
    BY <2>1 DEF HeldStages
  <2>3. CompletedPidUnused'
    BY <1>1, <2>1 DEF CompletedPidUnused, Completed, Occupied
  <2>4. QED
    BY <1>3, <1>5, <1>7, <2>1, <2>2, <2>3 DEF ChildrenOwned
<1>17. ASSUME NEW n \in 1..MaxStages, NEW bg \in BOOLEAN, RunPipeline(n, bg)
       PROVE ChildrenOwned'
  <2>1. /\ UNCHANGED <<proc, jobs, handler, worker>>
        /\ pc' = "fork" /\ idx' = 1
    BY <1>17 DEF RunPipeline, kernelVars, tableVars
  <2>2. HeldStages' = {}
    BY <2>1 DEF HeldStages
  <2>3. CompletedPidUnused'
    BY <2>1 DEF CompletedPidUnused
  <2>4. QED
    BY <1>3, <1>5, <1>7, <2>1, <2>2, <2>3 DEF ChildrenOwned
<1>18. CASE ForkStage
  <2>1. PICK p \in Pids :
          /\ proc[p] = "absent"
          /\ proc' = [proc EXCEPT ![p] = "running"]
          /\ pipeline' = [pipeline EXCEPT !.pids[idx] = p]
    BY <1>18 DEF ForkStage, FreePids
  <2>2. /\ UNCHANGED <<jobs, handler, worker>>
        /\ pc = "fork" /\ pc' \in {"fork", "register", "wait"}
        /\ handler["main"].pc = "idle"
        /\ \/ idx < pipeline.count /\ pc' = "fork" /\ idx' = idx + 1
           \/ ~(idx < pipeline.count) /\ pc' # "fork" /\ idx' = 1
    BY <1>18 DEF ForkStage, MainAt, Undisturbed, tableVars
  <2>3. /\ worker.pc = "none"
        /\ \A t \in Threads : handler[t].pc = "idle"
    BY <1>1, <2>2, NoHandlerActive
  <2>4. /\ pipeline.count \in 1..MaxStages
        /\ idx \in 1..pipeline.count
    BY <1>1, <2>2, StageTypes
  <2>5. /\ pipeline'.count = pipeline.count
        /\ \A k \in 1..pipeline.count :
             pipeline'.pids[k] = IF k = idx THEN p ELSE pipeline.pids[k]
    <3>1. pipeline \in PipelineLocals
      BY <1>1 DEF TypeInv, TypeOK
    <3>2. QED
      BY <2>1, <2>4, <3>1, JobControlAssumption DEF PipelineLocals
  <2>6. HeldStages = 1..(idx - 1) /\ HeldStages' = 1..idx
    BY <2>2, <2>4, <2>5, JobControlAssumption DEF HeldStages
  <2>7. \A s \in Slots : Running(s) => proc[jobs[s].pid] # "absent"
    BY <1>1, <2>3 DEF RunningJobHasChild, AboutToRecord
  <2>8. StagesHeld'
    <3>1. \A k \in 1..idx :
            /\ pipeline'.pids[k] = IF k = idx THEN p ELSE pipeline.pids[k]
            /\ k # idx => k \in HeldStages
      BY <2>4, <2>5, <2>6, JobControlAssumption
    <3>2. \A s \in Slots : Running(s)' => Running(s) /\ jobs'[s] = jobs[s]
      BY <2>2 DEF Running, Occupied
    <3>3. QED
      BY <1>1, <1>2, <2>1, <2>6, <2>7, <3>1, <3>2 DEF StagesHeld
  <2>9. RunningPidsDiffer' /\ RunningJobHasChild'
    BY <1>1, <1>2, <2>1, <2>2, <2>7
       DEF RunningPidsDiffer, RunningJobHasChild, Running, Occupied
  <2>10. CompletedPidUnused'
    BY <2>2 DEF CompletedPidUnused
  <2>11. QED
    BY <1>6, <1>8, <2>2, <2>3, <2>8, <2>9, <2>10 DEF ChildrenOwned
<1>19. CASE ForkFails
  <2>1. /\ UNCHANGED <<proc, jobs, handler, worker>>
        /\ pc' = "top"
    BY <1>19 DEF ForkFails, kernelVars, tableVars
  <2>2. HeldStages' = {}
    BY <2>1 DEF HeldStages
  <2>3. CompletedPidUnused'
    BY <2>1 DEF CompletedPidUnused
  <2>4. QED
    BY <1>3, <1>5, <1>7, <2>1, <2>2, <2>3 DEF ChildrenOwned
<1>20. CASE RegisterStage
  <2> DEFINE p == pipeline.pids[idx]
  <2>1. /\ UNCHANGED <<proc, handler, worker>>
        /\ pc = "register"
        /\ handler["main"].pc = "idle"
        /\ JobAdd(p)
        /\ \/ /\ idx < pipeline.count /\ idx' = idx + 1
              /\ pc' = "register" /\ UNCHANGED pipeline
           \/ pc' = "top"
    BY <1>20 DEF RegisterStage, MainAt, Undisturbed, kernelVars
  <2>2. /\ worker.pc = "none"
        /\ \A t \in Threads : handler[t].pc = "idle"
    BY <1>1, <2>1, NoHandlerActive
  <2>3. /\ pipeline.count \in 1..MaxStages
        /\ idx \in 1..pipeline.count
    BY <1>1, <2>1, StageTypes
  <2>4. /\ HeldStages = idx..pipeline.count
        /\ pc' = "register" => HeldStages' = (idx + 1)..pipeline.count
        /\ pc' = "top" => HeldStages' = {}
    BY <2>1 DEF HeldStages
  <2>5. /\ idx \in HeldStages
        /\ \A k \in HeldStages' : k \in HeldStages /\ k # idx
        /\ \A k \in HeldStages' : pipeline'.pids[k] = pipeline.pids[k]
    BY <2>1, <2>3, <2>4, JobControlAssumption
  <2>6. /\ p \in Pids /\ proc[p] # "absent"
        /\ \A s \in Slots : Running(s) => jobs[s].pid # p
    BY <1>1, <2>5 DEF StagesHeld
  <2>7. \A s \in Slots : Running(s)' => \/ jobs'[s].pid = p
                                        \/ Running(s) /\ jobs'[s] = jobs[s]
    BY <1>2, <2>1 DEF JobAdd, Running, Occupied
  <2>8. \A r, s \in Slots :
          Running(r)' /\ Running(s)' /\ jobs'[r].pid = p /\ jobs'[s].pid = p
            => r = s
    <3>1. ASSUME NEW q \in Slots,
                 jobs' = [jobs EXCEPT ![q] = [pid |-> p, id |-> nextId,
                                              state |-> "running"]]
          PROVE  \A r \in Slots : Running(r)' /\ jobs'[r].pid = p => r = q
      BY <1>2, <2>6, <3>1 DEF Running, Occupied
    <3>2. CASE UNCHANGED jobs
      BY <2>6, <3>2 DEF Running, Occupied
    <3>3. QED
      BY <2>1, <3>1, <3>2 DEF JobAdd
  <2>9. \A s \in Slots : Running(s) => proc[jobs[s].pid] # "absent"
    BY <1>1, <2>2 DEF RunningJobHasChild, AboutToRecord
  <2> HIDE DEF p
  <2>10. StagesHeld'
    <3>1. \A k \in HeldStages' : pipeline.pids[k] # p
      BY <1>1, <2>5 DEF StagesHeld, p
    <3>2. QED
      BY <1>1, <2>1, <2>5, <2>7, <3>1 DEF StagesHeld
  <2>11. RunningPidsDiffer'
    BY <1>1, <2>6, <2>7, <2>8 DEF RunningPidsDiffer
  <2>12. RunningJobHasChild'
    BY <2>1, <2>6, <2>7, <2>9 DEF RunningJobHasChild
  <2>13. CompletedPidUnused'
    BY <2>1 DEF CompletedPidUnused
  <2>14. QED
    BY <1>6, <1>8, <2>1, <2>2, <2>10, <2>11, <2>12, <2>13 DEF ChildrenOwned
<1>21. CASE WaitStage
  <2> DEFINE p == pipeline.pids[idx]
  <2>1. /\ UNCHANGED <<jobs, handler, worker>>
        /\ pc = "wait"
        /\ handler["main"].pc = "idle"
        /\ proc' = [proc EXCEPT ![p] = "absent"]
        /\ \/ /\ idx < pipeline.count /\ idx' = idx + 1
              /\ pc' = "wait" /\ UNCHANGED pipeline
           \/ pc' = "top"
    BY <1>21 DEF WaitStage, tableVars
  <2>2. /\ worker.pc = "none"
        /\ \A t \in Threads : handler[t].pc = "idle"
    BY <1>1, <2>1, NoHandlerActive
  <2>3. /\ pipeline.count \in 1..MaxStages
        /\ idx \in 1..pipeline.count
    BY <1>1, <2>1, StageTypes
  <2>4. /\ HeldStages = idx..pipeline.count
        /\ pc' = "wait" => HeldStages' = (idx + 1)..pipeline.count
        /\ pc' = "top" => HeldStages' = {}
    BY <2>1 DEF HeldStages
  <2>5. /\ idx \in HeldStages
        /\ \A k \in HeldStages' : k \in HeldStages /\ k # idx
        /\ \A k \in HeldStages' : pipeline'.pids[k] = pipeline.pids[k]
    BY <2>1, <2>3, <2>4, JobControlAssumption
  <2>6. /\ p \in Pids
        /\ \A k \in HeldStages' : pipeline.pids[k] \in Pids \ {p}
        /\ \A s \in Slots : Running(s) => jobs[s].pid \in Pids \ {p}
    BY <1>1, <1>2, <2>5 DEF StagesHeld, Running
  <2>7. \A s \in Slots : Running(s) => proc[jobs[s].pid] # "absent"
    BY <1>1, <2>2 DEF RunningJobHasChild, AboutToRecord
  <2>8. \A s \in Slots : Running(s)' => Running(s) /\ jobs'[s] = jobs[s]
    BY <2>1 DEF Running, Occupied
  <2> HIDE DEF p
  <2>9. StagesHeld'
    BY <1>1, <1>2, <2>1, <2>5, <2>6, <2>8 DEF StagesHeld
  <2>10. RunningPidsDiffer' /\ RunningJobHasChild'
    BY <1>1, <1>2, <2>1, <2>6, <2>7, <2>8
       DEF RunningPidsDiffer, RunningJobHasChild
  <2>11. CompletedPidUnused'
    BY <2>1 DEF CompletedPidUnused
  <2>12. QED
    BY <1>6, <1>8, <2>1, <2>2, <2>9, <2>10, <2>11 DEF ChildrenOwned
<1>22. ASSUME NEW builtin \in Builtins, NEW n \in 1..MaxTargets,
              RunBuiltin(builtin, n)
       PROVE ChildrenOwned'
  <2>1. /\ UNCHANGED <<proc, jobs, handler>>
        /\ pc = "input" /\ pc' = "join"
        /\ worker'.pc \in {"print", "lookup", "exit"}
    BY <1>22, JobControlAssumption
       DEF RunBuiltin, MainAt, Builtin, FirstLabel, kernelVars, tableVars
  <2>2. HeldStages' = {}
    BY <2>1 DEF HeldStages
  <2>3. CompletedPidUnused'
    BY <1>1, <2>1 DEF CompletedPidUnused, Completed, Occupied
  <2>4. QED
    BY <1>3, <1>5, <1>6, <2>1, <2>2, <2>3 DEF ChildrenOwned
<1>23. CASE JoinWorker
  <2>1. /\ UNCHANGED <<proc, jobs, handler>>
        /\ pc' = "top"
        /\ worker'.pc = "none"
    BY <1>23 DEF JoinWorker, NoWorker, Builtin, kernelVars, tableVars
  <2>2. HeldStages' = {}
    BY <2>1 DEF HeldStages
  <2>3. CompletedPidUnused'
    BY <2>1 DEF CompletedPidUnused
  <2>4. QED
    BY <1>3, <1>5, <1>6, <2>1, <2>2, <2>3 DEF ChildrenOwned
<1>24. CASE JobsPrint
  <2>1. /\ UNCHANGED <<proc, jobs, handler, pc, idx, pipeline>>
        /\ worker'.pc # "send"
    BY <1>2, <1>24
       DEF JobsPrint, WorkerAt, Builtin, WorkerLocals, kernelVars, mainVars
  <2>2. QED
    BY <1>3, <1>4, <1>6, <2>1 DEF ChildrenOwned
<1>25. CASE JobsConsume
  <2>1. /\ UNCHANGED <<proc, handler, pc, idx, pipeline>>
        /\ worker.pc = "consume" /\ worker'.pc = "print"
        /\ jobs' = IF jobs[worker.i].state # "running"
                     THEN [jobs EXCEPT ![worker.i].pid = NoPid] ELSE jobs
    BY <1>25 DEF JobsConsume, WorkerAt, Builtin, kernelVars, mainVars
  <2>2. "jobs" \in Builtins
    BY <1>1, <2>1 DEF ThreadsInStep
  <2>3. /\ \A s \in Slots : Running(s)' <=> Running(s)
        /\ \A s \in Slots : Running(s) => jobs'[s] = jobs[s]
        /\ \A s \in Slots : Completed(s)' => Completed(s) /\ jobs'[s] = jobs[s]
    BY <1>2, <2>1 DEF Running, Completed, Occupied, Job
  <2>4. HandlersUpToDate'
    <3>1. ASSUME NEW t \in Threads PROVE WaiterUpToDate(t)'
      <4>1. /\ WaiterUpToDate(t)
            /\ handler[t].pc = "wait" => handler[t].i \in Slots
        BY <1>1, <1>9 DEF HandlersUpToDate
      <4>2. QED
        BY <2>1, <2>2, <2>3, <4>1 DEF WaiterUpToDate
    <3>2. ASSUME NEW t \in Threads PROVE HolderUpToDate(t)'
      <4>1. /\ HolderUpToDate(t)
            /\ handler[t].pc = "record" => handler[t].i \in Slots
        BY <1>1, <1>9 DEF HandlersUpToDate
      <4>2. QED
        BY <2>1, <2>3, <4>1 DEF HolderUpToDate, HoldsStatus
    <3>3. HoldersDiffer'
      BY <1>1, <2>1 DEF HandlersUpToDate, HoldersDiffer, HoldsStatus
    <3>4. QED
      BY <3>1, <3>2, <3>3 DEF HandlersUpToDate
  <2>5. StagesHeld'
    BY <1>11, <2>1, <2>3
  <2>6. RunningPidsDiffer' /\ RunningJobHasChild'
    <3>1. RunningPidsDiffer'
      BY <1>1, <2>3 DEF RunningPidsDiffer
    <3>2. ASSUME NEW s \in Slots, Running(s)'
          PROVE  \/ proc'[jobs'[s].pid] # "absent"
                 \/ \E t \in Threads : AboutToRecord(t, s)'
      <4>1. Running(s) /\ jobs'[s] = jobs[s]
        BY <2>3, <3>2
      <4>2. \A t \in Threads : AboutToRecord(t, s) => AboutToRecord(t, s)'
        BY <2>1, <4>1 DEF AboutToRecord
      <4>3. QED
        BY <1>1, <2>1, <4>1, <4>2 DEF RunningJobHasChild
    <3>3. QED
      BY <3>1, <3>2 DEF RunningJobHasChild
  <2>7. CompletedPidUnused'
    BY <1>1, <2>1, <2>3 DEF CompletedPidUnused
  <2>8. QED
    BY <1>6, <2>1, <2>4, <2>5, <2>6, <2>7 DEF ChildrenOwned
<1>26. ASSUME NEW id \in 1..MaxJobId, KillLookup(id) PROVE ChildrenOwned'
  <2>1. /\ UNCHANGED <<proc, jobs, handler, pc, idx, pipeline>>
        /\ worker.pc = "lookup" /\ pc # "exited"
    BY <1>26 DEF KillLookup, WorkerAt, Alive, kernelVars, tableVars, mainVars
  <2>2. pc = "join"
    BY <1>1, <2>1 DEF ThreadsInStep
  <2>3. KillTargetIsPid' /\ KillReachesOwnChild'
    <3>1. ASSUME NEW s \in Slots, Occupied(s), jobs[s].id = id,
                 worker' = [pc |-> "send", i |-> worker.i, id |-> id,
                            target |-> jobs[s].pid]
          PROVE  KillTargetIsPid' /\ KillReachesOwnChild'
      <4>1. /\ worker'.target = jobs[s].pid /\ worker'.id = id
            /\ jobs[s].pid \in Pids
        BY <1>2, <3>1
      <4>2. proc[jobs[s].pid] = "running" => Running(s)
        BY <1>1, <2>2, <3>1 DEF CompletedPidUnused, Completed, Running
      <4>3. QED
        BY <2>1, <3>1, <4>1, <4>2
           DEF KillTargetIsPid, KillReachesOwnChild, Running, Occupied
    <3>2. CASE worker' = NextTarget
      BY <1>6, <3>2 DEF NextTarget, Builtin
    <3>3. QED
      BY <1>26, <3>1, <3>2 DEF KillLookup
  <2>4. QED
    BY <1>3, <1>4, <2>1, <2>3 DEF ChildrenOwned
<1>27. CASE KillSend
  <2>1. /\ UNCHANGED <<jobs, handler, pc, idx, pipeline>>
        /\ worker.pc = "send" /\ worker'.pc # "send"
    BY <1>27
       DEF KillSend, WorkerAt, NextTarget, Builtin, tableVars, mainVars
  <2>2. \A p \in Pids : (proc'[p] = "absent") <=> (proc[p] = "absent")
    BY <1>2, <1>27 DEF KillSend, kernelVars
  <2>3. HandlersUpToDate'
    BY <1>10, <2>1, <2>2
  <2>4. StagesHeld'
    BY <1>1, <2>1, <2>2 DEF StagesHeld, HeldStages, Running, Occupied
  <2>5. RunningPidsDiffer' /\ RunningJobHasChild' /\ CompletedPidUnused'
    BY <1>1, <1>2, <2>1, <2>2
       DEF RunningPidsDiffer, RunningJobHasChild, CompletedPidUnused,
           AboutToRecord, Running, Completed, Occupied
  <2>6. QED
    BY <1>6, <2>1, <2>3, <2>4, <2>5 DEF ChildrenOwned
<1>28. CASE ExitBuiltin
  <2>1. /\ UNCHANGED <<proc, jobs, handler, worker>>
        /\ worker.pc = "exit" /\ pc # "exited" /\ pc' = "exited"
    BY <1>28 DEF ExitBuiltin, WorkerAt, Alive, kernelVars, tableVars
  <2>2. pc = "join"
    BY <1>1, <2>1 DEF ThreadsInStep
  <2>3. HeldStages' = {}
    BY <2>1 DEF HeldStages
  <2>4. CompletedPidUnused'
    BY <1>1, <2>1, <2>2 DEF CompletedPidUnused, Completed, Occupied
  <2>5. QED
    BY <1>3, <1>5, <1>7, <2>1, <2>3, <2>4 DEF ChildrenOwned
<1>29. ASSUME NEW p \in Pids, NEW how \in Zombies, ChildEnds(p, how)
       PROVE ChildrenOwned'
  <2>1. /\ UNCHANGED <<jobs, handler, pc, idx, pipeline, worker>>
        /\ proc[p] = "running" /\ how \in {"exited", "killed"}
        /\ proc' = [proc EXCEPT ![p] = how]
    BY <1>29 DEF ChildEnds, Zombies, tableVars, mainVars
  <2>2. \A q \in Pids : /\ (proc'[q] = "absent") <=> (proc[q] = "absent")
                        /\ proc'[q] = "running" => proc[q] = "running"
    BY <1>2, <2>1
  <2>3. QED
    BY <1>12, <2>1, <2>2
<1>30. ASSUME NEW t \in Threads, DeliverSigchld(t) \/ HandlerTest(t)
       PROVE ChildrenOwned'
  <2>1. /\ UNCHANGED <<proc, jobs, worker, pc, idx, pipeline>>
        /\ handler[t].pc \in {"idle", "test"}
        /\ \A u \in Threads : u # t => handler'[u] = handler[u]
    BY <1>2, <1>30
       DEF DeliverSigchld, Takes, HandlerTest, HandlerAt, tableVars, mainVars,
           kernelVars
  <2>2. /\ handler'[t].pc # "record"
        /\ handler'[t].pc = "wait" =>
             /\ handler'[t].i \in Slots
             /\ Running(handler'[t].i)
             /\ handler'[t].pid = jobs[handler'[t].i].pid
    <3>1. CASE DeliverSigchld(t)
      BY <1>2, <3>1 DEF DeliverSigchld, Activation
    <3>2. CASE HandlerTest(t)
      <4>1. handler[t] \in HandlerLocals
        BY <1>2
      <4>2. ~PastLast(handler[t].i) => handler[t].i \in Slots
        <5>1. handler[t].i \in Nat \ {0}
          BY <1>1, <3>2, <4>1
             DEF TypeInv, IndicesInBounds, HandlerTest, HandlerAt, HandlerLocals
        <5>2. QED
          BY <1>2, <5>1, JobControlAssumption DEF PastLast, Slots
      <4>3. handler'[t] =
              IF PastLast(handler[t].i) THEN NoHandler
              ELSE IF Running(handler[t].i)
              THEN [handler[t] EXCEPT !.pc = "wait",
                                      !.pid = jobs[handler[t].i].pid]
              ELSE NextSlot(t)
        BY <1>2, <3>2 DEF HandlerTest
      <4>4. QED
        BY <4>1, <4>2, <4>3
           DEF NoHandler, NextSlot, Activation, HandlerLocals
    <3>3. QED
      BY <1>30, <3>1, <3>2
  <2>3. HandlersUpToDate'
    <3>1. ASSUME NEW u \in Threads PROVE WaiterUpToDate(u)'
      BY <1>1, <1>2, <2>1, <2>2
         DEF HandlersUpToDate, WaiterUpToDate, Running, Occupied
    <3>2. ASSUME NEW u \in Threads PROVE HolderUpToDate(u)'
      BY <1>1, <2>1, <2>2
         DEF HandlersUpToDate, HolderUpToDate, HoldsStatus, Running, Occupied
    <3>3. HoldersDiffer'
      BY <1>1, <2>1, <2>2 DEF HandlersUpToDate, HoldersDiffer, HoldsStatus
    <3>4. QED
      BY <3>1, <3>2, <3>3 DEF HandlersUpToDate
  <2>4. RunningPidsDiffer' /\ RunningJobHasChild'
    <3>1. \A s \in Slots : ~AboutToRecord(t, s)
      BY <2>1 DEF AboutToRecord
    <3>2. \A s \in Slots, u \in Threads :
            AboutToRecord(u, s) => AboutToRecord(u, s)'
      BY <2>1, <3>1 DEF AboutToRecord
    <3>3. QED
      BY <1>1, <2>1, <3>2
         DEF RunningPidsDiffer, RunningJobHasChild, Running, Occupied
  <2>5. QED
    BY <1>4, <1>7, <2>1, <2>3, <2>4 DEF ChildrenOwned
<1>31. ASSUME NEW t \in Threads, HandlerWait(t) PROVE ChildrenOwned'
  <2> DEFINE p == handler[t].pid
  <2>1. /\ UNCHANGED <<jobs, worker, pc, idx, pipeline>>
        /\ handler[t].pc = "wait"
    BY <1>31 DEF HandlerWait, HandlerAt, tableVars, mainVars
  <2>2. /\ p \in Pids
        /\ \A u \in Threads : u # t => handler'[u] = handler[u]
    BY <1>1, <1>31, WaitEffect
  <2>3. \A s \in Slots, u \in Threads : u # t /\ AboutToRecord(u, s)
                                          => AboutToRecord(u, s)'
    BY <2>1, <2>2 DEF AboutToRecord
  <2>4. \A s \in Slots : ~AboutToRecord(t, s)
    BY <2>1 DEF AboutToRecord
  <2>5. CASE /\ proc[p] \in Zombies
             /\ proc' = [proc EXCEPT ![p] = "absent"]
             /\ handler'[t].pc = "record"
             /\ handler'[t].i = handler[t].i
             /\ handler'[t].rc = p
    <3> DEFINE s == handler[t].i
    <3>1. proc[p] # "absent" /\ proc[p] # "running"
      BY <2>5 DEF Zombies
    <3>2. s \in Slots
      BY <1>1, <1>2, <2>1, JobControlAssumption
         DEF TypeInv, IndicesInBounds, Slots
    <3>3. Running(s) /\ jobs[s].pid = p
      BY <1>1, <2>1, <3>1 DEF HandlersUpToDate, WaiterUpToDate
    <3>4. \A r \in Slots : Running(r) /\ jobs[r].pid = p => r = s
      BY <1>1, <3>2, <3>3 DEF RunningPidsDiffer
    <3>5. /\ proc'[p] = "absent"
          /\ \A q \in Pids : q # p => proc'[q] = proc[q]
      BY <1>2, <2>2, <2>5
    <3>6. /\ \A r \in Slots : Running(r)' <=> Running(r)
          /\ \A r \in Slots : Completed(r)' <=> Completed(r)
      BY <2>1 DEF Running, Completed, Occupied
    <3> HIDE DEF p, s
    <3>7. HandlersUpToDate'
      <4>1. ASSUME NEW u \in Threads PROVE WaiterUpToDate(u)'
        <5>1. CASE u = t
          BY <2>5, <5>1 DEF WaiterUpToDate
        <5>2. CASE u # t
          <6>1. /\ handler'[u] = handler[u]
                /\ WaiterUpToDate(u)
                /\ handler[u].pc = "wait" => handler[u].i \in Slots
            BY <1>1, <1>9, <2>2, <5>2 DEF HandlersUpToDate
          <6>2. QED
            BY <2>1, <3>5, <3>6, <6>1 DEF WaiterUpToDate
        <5>3. QED
          BY <5>1, <5>2
      <4>2. ASSUME NEW u \in Threads PROVE HolderUpToDate(u)'
        <5>1. CASE u = t
          <6>1. handler'[u].i = s /\ handler'[u].rc = p
            BY <2>5, <5>1 DEF p, s
          <6>2. QED
            BY <2>1, <3>2, <3>3, <3>5, <3>6, <6>1 DEF HolderUpToDate
        <5>2. CASE u # t
          <6>1. /\ handler'[u] = handler[u]
                /\ HolderUpToDate(u)
                /\ handler[u].pc = "record" => handler[u].i \in Slots
                /\ handler[u].rc \in Pids \cup {NoPid}
            BY <1>1, <1>9, <2>2, <5>2 DEF HandlersUpToDate
          <6>2. QED
            BY <2>1, <3>5, <3>6, <6>1 DEF HolderUpToDate, HoldsStatus
        <5>3. QED
          BY <5>1, <5>2
      <4>3. HoldersDiffer'
        <5>1. ASSUME NEW w \in Threads, w # t, HoldsStatus(w)'
              PROVE  HoldsStatus(w) /\ handler'[w].rc = handler[w].rc
                     /\ handler[w].rc # p
          <6>1. handler'[w] = handler[w] /\ HoldsStatus(w)
            BY <2>2, <5>1 DEF HoldsStatus
          <6>2. proc[handler[w].rc] = "absent"
            BY <1>1, <6>1 DEF HandlersUpToDate, HolderUpToDate
          <6>3. QED
            BY <3>1, <6>1, <6>2
        <5>2. handler'[t].rc = p
          BY <2>5 DEF p
        <5>3. HoldersDiffer
          BY <1>1 DEF HandlersUpToDate
        <5>4. QED
          BY <5>1, <5>2, <5>3 DEF HoldersDiffer
      <4>4. QED
        BY <4>1, <4>2, <4>3 DEF HandlersUpToDate
    <3>8. StagesHeld'
      <4>1. HeldStages' = HeldStages
        BY <2>1 DEF HeldStages
      <4>2. \A k \in HeldStages : pipeline.pids[k] # p
        BY <1>1, <3>2, <3>3 DEF StagesHeld
      <4>3. QED
        BY <1>1, <2>1, <3>5, <3>6, <4>1, <4>2 DEF StagesHeld
    <3>9. RunningPidsDiffer' /\ CompletedPidUnused'
      BY <1>1, <1>2, <2>1, <3>5, <3>6
         DEF RunningPidsDiffer, CompletedPidUnused, Completed
    <3>10. RunningJobHasChild'
      <4>1. ASSUME NEW r \in Slots, Running(r), r # s
            PROVE  \/ proc'[jobs[r].pid] # "absent"
                   \/ \E u \in Threads : AboutToRecord(u, r)'
        <5>1. jobs[r].pid # p /\ jobs[r].pid \in Pids
          BY <1>2, <3>4, <4>1 DEF Running
        <5>2. \/ proc[jobs[r].pid] # "absent"
              \/ \E u \in Threads : u # t /\ AboutToRecord(u, r)
          BY <1>1, <2>4, <4>1 DEF RunningJobHasChild
        <5>3. QED
          BY <2>3, <3>5, <5>1, <5>2
      <4>2. ASSUME NEW r \in Slots, Running(r)'
            PROVE  \/ proc'[jobs'[r].pid] # "absent"
                   \/ \E u \in Threads : AboutToRecord(u, r)'
        <5>1. Running(r) /\ jobs' = jobs
          BY <2>1, <3>6, <4>2
        <5>2. CASE r = s
          BY <2>1, <2>5, <3>3, <5>2 DEF AboutToRecord, p, s
        <5>3. CASE r # s
          BY <4>1, <5>1, <5>3
        <5>4. QED
          BY <5>2, <5>3
      <4>3. QED
        BY <4>2 DEF RunningJobHasChild
    <3>11. KillTargetIsPid' /\ KillReachesOwnChild'
      BY <1>7, <2>1, <3>5
    <3>12. QED
      BY <3>7, <3>8, <3>9, <3>10, <3>11 DEF ChildrenOwned
  <2>6. CASE /\ UNCHANGED proc
             /\ \/ handler'[t].pc = "record" /\ handler'[t].rc = NoPid
                \/ handler'[t].pc = "test"
    <3>1. HandlersUpToDate'
      <4>1. ASSUME NEW u \in Threads PROVE WaiterUpToDate(u)'
        BY <1>1, <2>1, <2>2, <2>6
           DEF HandlersUpToDate, WaiterUpToDate, Running, Occupied
      <4>2. ASSUME NEW u \in Threads PROVE HolderUpToDate(u)'
        BY <1>1, <2>1, <2>2, <2>6
           DEF HandlersUpToDate, HolderUpToDate, HoldsStatus, Running,
               Occupied
      <4>3. HoldersDiffer'
        BY <1>1, <2>2, <2>6 DEF HandlersUpToDate, HoldersDiffer, HoldsStatus
      <4>4. QED
        BY <4>1, <4>2, <4>3 DEF HandlersUpToDate
    <3>2. RunningPidsDiffer' /\ RunningJobHasChild'
      BY <1>1, <2>1, <2>3, <2>4, <2>6
         DEF RunningPidsDiffer, RunningJobHasChild, Running, Occupied
    <3>3. QED
      BY <1>4, <1>7, <2>1, <2>6, <3>1, <3>2 DEF ChildrenOwned
  <2>7. QED
    BY <1>1, <1>31, <2>5, <2>6, WaitEffect
<1>32. ASSUME NEW t \in Threads, HandlerRecord(t) PROVE ChildrenOwned'
  <2> DEFINE s == handler[t].i
  <2>1. /\ UNCHANGED <<proc, worker, pc, idx, pipeline>>
        /\ handler[t].pc = "record" /\ handler'[t].pc = "test"
        /\ \A u \in Threads : u # t => handler'[u] = handler[u]
    BY <1>2, <1>32
       DEF HandlerRecord, HandlerAt, NextSlot, Activation, kernelVars, mainVars
  <2>2. /\ s \in Slots
        /\ \A r \in Slots : /\ jobs'[r].id = jobs[r].id
                            /\ jobs'[r].pid = jobs[r].pid
        /\ \A r \in Slots : r # s => jobs'[r] = jobs[r]
    BY <1>1, <1>32, RecordEffect
  <2>3. \A r \in Slots, u \in Threads :
          u # t => (AboutToRecord(u, r)' <=> AboutToRecord(u, r))
    BY <2>1, <2>2 DEF AboutToRecord
  <2>4. \A u \in Threads :
          handler[u].pc \in {"wait", "record"} => handler[u].i \in Slots
    BY <1>9
  <2>5. CASE handler[t].rc # NoPid
    <3> DEFINE p == handler[t].rc
    <3>1. /\ p \in Pids /\ Running(s) /\ jobs[s].pid = p
          /\ proc[p] = "absent"
      <4>1. HolderUpToDate(t) /\ HoldsStatus(t)
        BY <1>1, <2>1, <2>5 DEF HandlersUpToDate, HoldsStatus
      <4>2. QED
        BY <1>2, <2>2, <4>1 DEF HolderUpToDate, Running
    <3>2. jobs'[s].state # "running"
      BY <1>1, <1>32, <2>5, <3>1, RecordEffect
    <3> HIDE DEF p
    <3>3. /\ \A r \in Slots : Running(r)' <=> Running(r) /\ r # s
          /\ \A r \in Slots : Completed(r)' => Completed(r) \/ r = s
      BY <2>2, <3>1, <3>2 DEF Running, Completed, Occupied
    <3> HIDE DEF s
    <3>4. HandlersUpToDate'
      <4>1. ASSUME NEW u \in Threads PROVE WaiterUpToDate(u)'
        <5>1. CASE u = t
          BY <2>1, <5>1 DEF WaiterUpToDate
        <5>2. CASE u # t
          <6>1. /\ handler'[u] = handler[u]
                /\ WaiterUpToDate(u)
                /\ handler[u].pc = "wait" => handler[u].i \in Slots
            BY <1>1, <2>1, <2>4, <5>2 DEF HandlersUpToDate
          <6>2. QED
            BY <2>1, <2>2, <3>1, <3>3, <6>1 DEF WaiterUpToDate
        <5>3. QED
          BY <5>1, <5>2
      <4>2. ASSUME NEW u \in Threads, HoldsStatus(u)'
            PROVE  /\ u # t /\ HoldsStatus(u)
                   /\ handler'[u] = handler[u]
                   /\ handler[u].i \in Slots
                   /\ handler[u].rc # p
        <5>1. u # t /\ handler'[u] = handler[u] /\ HoldsStatus(u)
          BY <2>1, <4>2 DEF HoldsStatus
        <5>2. HoldsStatus(t) /\ HoldersDiffer
          BY <1>1, <2>1, <2>5 DEF HandlersUpToDate, HoldsStatus
        <5>3. handler[u].rc # p
          BY <5>1, <5>2 DEF HoldersDiffer, p
        <5>4. QED
          BY <2>4, <5>1, <5>3 DEF HoldsStatus
      <4>3. ASSUME NEW u \in Threads PROVE HolderUpToDate(u)'
        <5>1. SUFFICES ASSUME HoldsStatus(u)' PROVE HolderUpToDate(u)'
          BY DEF HolderUpToDate
        <5>2. HolderUpToDate(u)
          BY <1>1 DEF HandlersUpToDate
        <5>3. QED
          BY <2>1, <2>2, <3>1, <3>3, <4>2, <5>1, <5>2 DEF HolderUpToDate
      <4>4. HoldersDiffer'
        BY <1>1, <4>2 DEF HandlersUpToDate, HoldersDiffer
      <4>5. QED
        BY <4>1, <4>3, <4>4 DEF HandlersUpToDate
    <3>5. StagesHeld'
      BY <1>11, <2>1, <2>2, <3>3
    <3>6. RunningPidsDiffer'
      BY <1>1, <2>2, <3>3 DEF RunningPidsDiffer
    <3>7. RunningJobHasChild'
      BY <1>1, <2>1, <2>2, <2>3, <3>3
         DEF RunningJobHasChild, AboutToRecord, s
    <3>8. CompletedPidUnused'
      BY <1>1, <2>1, <2>2, <3>1, <3>3 DEF CompletedPidUnused
    <3>9. KillTargetIsPid' /\ KillReachesOwnChild'
      BY <1>1, <2>1, <2>2, <3>1, <3>3 DEF KillTargetIsPid, KillReachesOwnChild
    <3>10. QED
      BY <3>4, <3>5, <3>6, <3>7, <3>8, <3>9 DEF ChildrenOwned
  <2>6. CASE handler[t].rc = NoPid
    <3>1. \A r \in Slots : /\ Running(r)' <=> Running(r)
                           /\ Completed(r)' <=> Completed(r)
      <4>1. ~Occupied(s) \/ UNCHANGED jobs
        BY <1>1, <1>32, <2>6, RecordEffect DEF Occupied
      <4>2. QED
        BY <2>2, <4>1 DEF Running, Completed, Occupied
    <3>2. \A r \in Slots : Running(r) => ~AboutToRecord(t, r)
      BY <2>6 DEF AboutToRecord, Running, Occupied
    <3> HIDE DEF s
    <3>3. HandlersUpToDate'
      <4>1. ASSUME NEW u \in Threads PROVE WaiterUpToDate(u)'
        BY <1>1, <2>1, <2>2, <2>4, <3>1 DEF HandlersUpToDate, WaiterUpToDate
      <4>2. ASSUME NEW u \in Threads PROVE HolderUpToDate(u)'
        BY <1>1, <2>1, <2>2, <2>4, <3>1
           DEF HandlersUpToDate, HolderUpToDate, HoldsStatus
      <4>3. HoldersDiffer'
        BY <1>1, <2>1 DEF HandlersUpToDate, HoldersDiffer, HoldsStatus
      <4>4. QED
        BY <4>1, <4>2, <4>3 DEF HandlersUpToDate
    <3>4. StagesHeld'
      BY <1>11, <2>1, <2>2, <3>1
    <3>5. RunningPidsDiffer' /\ CompletedPidUnused'
      BY <1>1, <2>1, <2>2, <3>1 DEF RunningPidsDiffer, CompletedPidUnused
    <3>6. RunningJobHasChild'
      BY <1>1, <2>1, <2>2, <2>3, <3>1, <3>2 DEF RunningJobHasChild
    <3>7. KillTargetIsPid' /\ KillReachesOwnChild'
      BY <1>1, <2>1, <2>2, <3>1 DEF KillTargetIsPid, KillReachesOwnChild
    <3>8. QED
      BY <3>3, <3>4, <3>5, <3>6, <3>7 DEF ChildrenOwned
  <2>7. QED
    BY <2>5, <2>6
<1>33. ASSUME NEW p \in Pids, StrangerTakes(p) \/ StrangerEnds(p)
       PROVE ChildrenOwned'
  <2>1. UNCHANGED <<proc, jobs, handler, pc, idx, pipeline, worker>>
    BY <1>33 DEF StrangerTakes, StrangerEnds, tableVars, mainVars
  <2>2. QED
    BY <1>3, <1>4, <1>7, <2>1 DEF ChildrenOwned
<1>34. CASE UNCHANGED vars
  BY <1>3, <1>4, <1>7, <1>34
     DEF ChildrenOwned, vars, kernelVars, tableVars, mainVars
<1>35. QED
  BY <1>13, <1>14, <1>15, <1>16, <1>17, <1>18, <1>19, <1>20, <1>21, <1>22,
     <1>23, <1>24, <1>25, <1>26, <1>27, <1>28, <1>29, <1>30, <1>31, <1>32,
     <1>33, <1>34
     DEF Next, MainStep, UserLine, WorkerStep, HandlerStep, Kernel, Exited

LEMMA OwnershipInvariant == ASSUME SafeBuild PROVE Spec => []OwnInv
<1>1. Init => OwnInv
  BY InitTypes, InitThreads, InitTable, InitNotification, InitOwnership
     DEF OwnInv, ReplInv
<1>2. OwnInv /\ [Next]_vars => OwnInv'
  BY NextTypes, NextThreads, NextTable, NextNotification, NextOwnership
     DEF OwnInv, ReplInv, Ownership, ChildrenOwned
<1>3. QED
  BY <1>1, <1>2, PTL DEF Spec

\* In a safe build a Running job never loses its child to another reaper: it
\* can always still be recorded as ended.
THEOREM ChildNeverLost == ASSUME SafeBuild PROVE Spec => []RunningJobHasChild
<1>1. OwnInv => RunningJobHasChild
  BY DEF OwnInv, Ownership
<1>2. QED
  BY <1>1, OwnershipInvariant, PTL

\* In a safe build the handler leaves every child that the main thread waits
\* for in the foreground to that wait.
THEOREM ForegroundLeftAlone ==
  ASSUME SafeBuild PROVE Spec => []ForegroundNotConsumed
<1>1. OwnInv => ForegroundNotConsumed
  BY DEF OwnInv, Ownership, StagesHeld, HeldStages, ForegroundNotConsumed
<1>2. QED
  BY <1>1, OwnershipInvariant, PTL

\* The pids that have gone to processes which are not the shell's children, and
\* the pid that kill_run holds.
StrangerInv == StrangersApart /\ KillTargetNamed

LEMMA NextStrangers ==
  ReplInv /\ StrangerInv /\ [Next]_vars => StrangerInv'
<1> SUFFICES ASSUME ReplInv, StrangerInv, [Next]_vars PROVE StrangerInv'
  OBVIOUS
<1>1. /\ TypeInv /\ ThreadsInStep /\ TableWellFormed
      /\ StrangersApart /\ KillTargetNamed
  BY DEF ReplInv, StrangerInv
<1>2. /\ proc \in [Pids -> {"absent", "running"} \cup Zombies]
      /\ strangers \in SUBSET Pids
      /\ jobs \in [Slots -> Job]
      /\ worker \in WorkerLocals
  BY <1>1 DEF TypeInv, TypeOK
\* A child is forked under a free pid, and no pid that is in use is given away.
<1>3. StrangersApart'
  <2>1. ASSUME UNCHANGED <<proc, strangers>> PROVE StrangersApart'
    BY <1>1, <2>1 DEF StrangersApart
  <2>2. ASSUME UNCHANGED strangers,
               \A p \in Pids : proc[p] = "absent" => proc'[p] = "absent"
        PROVE  StrangersApart'
    BY <1>1, <1>2, <2>2 DEF StrangersApart
  <2>3. CASE ForkStage
    BY <1>1, <1>2, <2>3 DEF ForkStage, FreePids, StrangersApart
  <2>4. CASE WaitStage
    BY <1>2, <2>2, <2>4 DEF WaitStage
  <2>5. CASE KillSend
    <3>1. /\ strangers' \in SUBSET strangers
          /\ \A p \in Pids : proc[p] = "absent" => proc'[p] = "absent"
      BY <1>2, <2>5 DEF KillSend, kernelVars
    <3>2. QED
      BY <1>1, <1>2, <3>1 DEF StrangersApart
  <2>6. ASSUME NEW p \in Pids, NEW how \in Zombies, ChildEnds(p, how)
        PROVE  StrangersApart'
    BY <1>2, <2>2, <2>6 DEF ChildEnds
  <2>7. ASSUME NEW p \in Pids, StrangerTakes(p) \/ StrangerEnds(p)
        PROVE  StrangersApart'
    BY <1>1, <1>2, <2>7 DEF StrangerTakes, StrangerEnds, FreePids, StrangersApart
  <2>8. ASSUME NEW t \in Threads, HandlerWait(t) PROVE StrangersApart'
    BY <1>2, <2>2, <2>8 DEF HandlerWait
  <2>9. CASE TopOfLoop \/ NotifySlot \/ NotifyReturn \/ ForkFails
               \/ RegisterStage \/ JoinWorker
    BY <2>1, <2>9
       DEF TopOfLoop, NotifySlot, NotifyReturn, ForkFails, RegisterStage,
           JoinWorker, kernelVars
  <2>10. CASE UserLine
    BY <2>1, <2>10
       DEF UserLine, OtherLine, EndOfInput, RunPipeline, RunBuiltin, kernelVars
  <2>11. CASE JobsPrint \/ JobsConsume \/ ExitBuiltin
                \/ \E id \in 1..MaxJobId : KillLookup(id)
    BY <2>1, <2>11
       DEF JobsPrint, JobsConsume, ExitBuiltin, KillLookup, kernelVars
  <2>12. ASSUME NEW t \in Threads,
                DeliverSigchld(t) \/ HandlerTest(t) \/ HandlerRecord(t)
         PROVE  StrangersApart'
    BY <2>1, <2>12
       DEF DeliverSigchld, HandlerTest, HandlerRecord, kernelVars
  <2>13. CASE UNCHANGED vars
    BY <2>1, <2>13 DEF vars, kernelVars
  <2>14. QED
    BY <2>3, <2>4, <2>5, <2>6, <2>7, <2>8, <2>9, <2>10, <2>11, <2>12, <2>13
       DEF Next, MainStep, WorkerStep, HandlerStep, Kernel, Exited
\* No two jobs share an id, and no job is added while a builtin runs.
<1>4. KillTargetNamed'
  <2>1. ASSUME worker'.pc # "send" PROVE KillTargetNamed'
    BY <2>1 DEF KillTargetNamed
  <2>2. ASSUME UNCHANGED worker,
               \A s \in Slots : Occupied(s)' => /\ Occupied(s)
                                                /\ jobs'[s].id = jobs[s].id
                                                /\ jobs'[s].pid = jobs[s].pid
        PROVE  KillTargetNamed'
    BY <1>1, <2>2 DEF KillTargetNamed
  <2>3. ASSUME UNCHANGED <<jobs, worker>> PROVE KillTargetNamed'
    BY <2>2, <2>3 DEF Occupied
  <2>4. CASE NotifySlot
    BY <1>2, <2>2, <2>4 DEF NotifySlot, Occupied, Job
  <2>5. CASE RegisterStage
    <3>1. worker.pc = "none" /\ UNCHANGED worker
      BY <1>1, <2>5, NoHandlerActive DEF RegisterStage, MainAt, Undisturbed
    <3>2. QED
      BY <2>1, <3>1
  <2>6. CASE JobsPrint \/ JobsConsume \/ KillSend \/ JoinWorker
    BY <1>2, <2>1, <2>6
       DEF JobsPrint, JobsConsume, KillSend, JoinWorker, WorkerAt, Builtin,
           NextTarget, NoWorker, WorkerLocals
  <2>7. ASSUME NEW id \in 1..MaxJobId, KillLookup(id) PROVE KillTargetNamed'
    <3>1. ASSUME NEW s \in Slots, Occupied(s), jobs[s].id = id,
                 worker' = [pc |-> "send", i |-> worker.i, id |-> id,
                            target |-> jobs[s].pid],
                 UNCHANGED jobs
          PROVE  KillTargetNamed'
      BY <1>1, <3>1 DEF KillTargetNamed, TableWellFormed, Occupied
    <3>2. CASE worker' = NextTarget
      BY <2>1, <3>2 DEF NextTarget, Builtin
    <3>3. QED
      BY <2>7, <3>1, <3>2 DEF KillLookup, tableVars
  <2>8. ASSUME NEW builtin \in Builtins, NEW n \in 1..MaxTargets,
               RunBuiltin(builtin, n)
        PROVE  KillTargetNamed'
    BY <2>1, <2>8, JobControlAssumption DEF RunBuiltin, Builtin, FirstLabel
  <2>9. ASSUME NEW t \in Threads, HandlerRecord(t) PROVE KillTargetNamed'
    BY <1>1, <2>2, <2>9, RecordEffect DEF HandlerRecord, Occupied
  <2>10. ASSUME NEW n \in 1..MaxStages, NEW bg \in BOOLEAN, RunPipeline(n, bg)
         PROVE  KillTargetNamed'
    BY <2>3, <2>10 DEF RunPipeline, tableVars
  <2>11. CASE TopOfLoop \/ NotifyReturn \/ ForkStage \/ ForkFails \/ WaitStage
                \/ OtherLine \/ EndOfInput \/ ExitBuiltin
    BY <2>3, <2>11
       DEF TopOfLoop, NotifyReturn, ForkStage, ForkFails, WaitStage, OtherLine,
           EndOfInput, ExitBuiltin, tableVars
  <2>12. ASSUME NEW t \in Threads,
                DeliverSigchld(t) \/ HandlerTest(t) \/ HandlerWait(t)
         PROVE  KillTargetNamed'
    BY <2>3, <2>12 DEF DeliverSigchld, HandlerTest, HandlerWait, tableVars
  <2>13. CASE Kernel
    BY <2>3, <2>12, <2>13
       DEF Kernel, ChildEnds, StrangerTakes, StrangerEnds, tableVars
  <2>14. CASE UNCHANGED vars
    BY <2>3, <2>14 DEF vars, tableVars
  <2>15. QED
    BY <2>4, <2>5, <2>6, <2>7, <2>8, <2>9, <2>10, <2>11, <2>12, <2>13, <2>14
       DEF Next, MainStep, UserLine, WorkerStep, HandlerStep, Exited
<1>5. QED
  BY <1>3, <1>4 DEF StrangerInv

\* In a safe build the pid that kill_run has copied leads to no live child but
\* the named job's, and to a process that is not the shell's only after the
\* named job's child has been reaped.
THEOREM KillHitsItsJob == ASSUME SafeBuild PROVE Spec => []KillHitsNamedJob
<1>1. Init => StrangerInv
  BY DEF Init, StrangerInv, StrangersApart, KillTargetNamed, NoWorker, Builtin
<1>2. Spec => []StrangerInv
  BY <1>1, NextStrangers, ReplInvariant, PTL DEF Spec
<1>3. ReplInv /\ StrangerInv => StrangerOnlyAfterReaping
  BY DEF StrangerInv, StrangersApart, KillTargetNamed, StrangerOnlyAfterReaping,
         Running
<1>4. OwnInv => KillReachesOwnChild
  BY DEF OwnInv, Ownership
<1>5. KillReachesOwnChild /\ StrangerOnlyAfterReaping => KillHitsNamedJob
  BY DEF KillHitsNamedJob
<1>6. QED
  BY <1>2, <1>3, <1>4, <1>5, ReplInvariant, OwnershipInvariant, PTL

-----------------------------------------------------------------------------
(***************************************************************************)
(* Every step of JobControl is a step of JobLifecycle, or leaves the       *)
(* phases of all jobs alone: the safety part of the refinement, for every  *)
(* number of slots, stages, targets, pids and jobs, in a safe build.       *)
(***************************************************************************)

\* The refinement mapping, and the slots that hold no job with this id.
Phase == [id \in 1..MaxJobId |-> PhaseOf(id)]
Holds(s, id) == Occupied(s) /\ jobs[s].id = id

\* The phases one by one, without the CHOOSE of their definition.
PhasesKnown ==
  /\ \A s \in Slots, t \in Threads :
       Occupied(s) /\ AboutToRecord(t, s) => StatusHeld(s) = handler[t].status
  /\ \A s \in Slots :
       Occupied(s) => PhaseInSlot(s) \in {"running", "exited", "killed", "done", "signaled"}
  /\ ~Alive => \A id \in 1..MaxJobId : PhaseOf(id) = "lost"
  /\ Alive => \A id \in 1..MaxJobId :
       /\ id >= nextId => PhaseOf(id) = "unborn"
       /\ \A s \in Slots : Holds(s, id) => PhaseOf(id) = PhaseInSlot(s)
       /\ id < nextId /\ (\A s \in Slots : ~Holds(s, id)) => PhaseOf(id) = "retired"

LEMMA KnownPhases == ASSUME OwnInv PROVE PhasesKnown
<1>1. /\ TypeInv /\ TableWellFormed /\ HandlersUpToDate /\ RunningJobHasChild
  BY DEF OwnInv, ReplInv, Ownership
<1>2. /\ proc \in [Pids -> {"absent", "running"} \cup Zombies]
      /\ jobs \in [Slots -> Job] /\ nextId \in Nat
      /\ handler \in [Threads -> HandlerLocals]
  BY <1>1 DEF TypeInv, TypeOK
<1>3. ASSUME NEW s \in Slots, NEW t \in Threads, Occupied(s), AboutToRecord(t, s)
      PROVE  StatusHeld(s) = handler[t].status
  <2>1. HoldsStatus(t) /\ handler[t].rc = jobs[s].pid
    BY <1>3 DEF AboutToRecord, HoldsStatus, Occupied
  <2>2. ASSUME NEW u \in Threads, AboutToRecord(u, s) PROVE u = t
    BY <1>1, <1>3, <2>1, <2>2 DEF HandlersUpToDate, HoldersDiffer, AboutToRecord, HoldsStatus, Occupied
  <2>3. handler[t].status \in Zombies
    BY <1>2 DEF HandlerLocals
  <2> QED BY <1>3, <2>2, <2>3 DEF StatusHeld
<1>4. ASSUME NEW s \in Slots, Occupied(s)
      PROVE  PhaseInSlot(s) \in {"running", "exited", "killed", "done", "signaled"}
  <2>1. jobs[s].state \in JobStates /\ jobs[s].pid \in Pids
    BY <1>2, <1>4 DEF Job, Occupied
  <2>2. CASE ~Running(s)
    BY <1>4, <2>1, <2>2 DEF PhaseInSlot, Running, JobStates
  <2>3. CASE Running(s) /\ proc[jobs[s].pid] # "absent"
    BY <1>2, <2>1, <2>3 DEF PhaseInSlot, Zombies
  <2>4. CASE Running(s) /\ proc[jobs[s].pid] = "absent"
    <3>1. PICK t \in Threads : AboutToRecord(t, s)
      BY <1>1, <2>4 DEF RunningJobHasChild
    <3>2. StatusHeld(s) \in Zombies
      BY <1>2, <1>3, <1>4, <3>1 DEF HandlerLocals
    <3> QED BY <2>4, <3>2 DEF PhaseInSlot, Zombies
  <2> QED BY <2>2, <2>3, <2>4
<1>5. ASSUME Alive, NEW id \in 1..MaxJobId, NEW s \in Slots, Holds(s, id)
      PROVE  PhaseOf(id) = PhaseInSlot(s)
  <2>1. id < nextId /\ ~(id >= nextId)
    BY <1>1, <1>2, <1>5 DEF TableWellFormed, Holds
  <2>2. \A r \in Slots : Occupied(r) /\ jobs[r].id = id => r = s
    BY <1>1, <1>5 DEF TableWellFormed, Holds
  <2>3. (CHOOSE r \in Slots : Occupied(r) /\ jobs[r].id = id) = s
    BY <1>5, <2>2 DEF Holds
  <2> QED BY <1>5, <2>1, <2>3 DEF PhaseOf, Holds
<1>6. ASSUME Alive, NEW id \in 1..MaxJobId, id < nextId, \A s \in Slots : ~Holds(s, id)
      PROVE  PhaseOf(id) = "retired"
  <2>1. ~(id >= nextId)
    BY <1>2, <1>6, JobControlAssumption
  <2> QED BY <1>6, <2>1 DEF PhaseOf, Holds
<1>7. Alive => \A id \in 1..MaxJobId : id >= nextId => PhaseOf(id) = "unborn"
  BY DEF PhaseOf
<1>8. ~Alive => \A id \in 1..MaxJobId : PhaseOf(id) = "lost"
  BY DEF PhaseOf
<1> QED BY <1>3, <1>4, <1>5, <1>6, <1>7, <1>8 DEF PhasesKnown

-----------------------------------------------------------------------------
(* What each step of the life cycle asks of the mapping.                   *)

LEMMA OnePhase ==
  ASSUME NEW id \in 1..MaxJobId, NEW p, PhaseOf(id)' = p,
         \A j \in 1..MaxJobId : j # id => PhaseOf(j)' = PhaseOf(j)
  PROVE  Phase' = [Phase EXCEPT ![id] = p]
BY DEF Phase

LEMMA LifecycleSteps ==
  ASSUME NEW id \in 1..MaxJobId
  PROVE  /\ /\ PhaseOf(id) = "unborn"
            /\ \A j \in 1..MaxJobId : j < id => PhaseOf(j) # "unborn"
            /\ \E p \in {"running", "exited", "killed"} : Phase' = [Phase EXCEPT ![id] = p]
            => Lifecycle!Next
         /\ /\ PhaseOf(id) = "running"
            /\ \E p \in {"exited", "killed"} : Phase' = [Phase EXCEPT ![id] = p]
            => Lifecycle!Next
         /\ /\ PhaseOf(id) \in {"exited", "killed"}
            /\ Phase' = [Phase EXCEPT ![id] = StateOf(PhaseOf(id))]
            => Lifecycle!Next
         /\ /\ PhaseOf(id) \in {"done", "signaled"}
            /\ Phase' = [Phase EXCEPT ![id] = "retired"]
            => Lifecycle!Next
<1>1. Phase[id] = PhaseOf(id) /\ \A j \in 1..MaxJobId : Phase[j] = PhaseOf(j)
  BY DEF Phase
<1>2. Lifecycle!Start(id) \/ Lifecycle!End(id) \/ Lifecycle!Learn(id) \/ Lifecycle!Retire(id)
        => Lifecycle!Next
  BY DEF Lifecycle!Next, Lifecycle!Ids
<1>3. /\ PhaseOf(id) = "unborn"
      /\ \A j \in 1..MaxJobId : j < id => PhaseOf(j) # "unborn"
      /\ \E p \in {"running", "exited", "killed"} : Phase' = [Phase EXCEPT ![id] = p]
      => Lifecycle!Start(id)
  BY <1>1 DEF Lifecycle!Start, Lifecycle!Ids, Phase
<1>4. /\ PhaseOf(id) = "running"
      /\ \E p \in {"exited", "killed"} : Phase' = [Phase EXCEPT ![id] = p]
      => Lifecycle!End(id)
  BY <1>1 DEF Lifecycle!End, Phase
<1>5. /\ PhaseOf(id) \in {"exited", "killed"}
      /\ Phase' = [Phase EXCEPT ![id] = StateOf(PhaseOf(id))]
      => Lifecycle!Learn(id)
  BY <1>1 DEF Lifecycle!Learn, Lifecycle!Recorded, StateOf, Phase
<1>6. /\ PhaseOf(id) \in {"done", "signaled"}
      /\ Phase' = [Phase EXCEPT ![id] = "retired"]
      => Lifecycle!Retire(id)
  BY <1>1 DEF Lifecycle!Retire, Phase
<1> QED BY <1>2, <1>3, <1>4, <1>5, <1>6

-----------------------------------------------------------------------------
(* What a step leaves alone.                                               *)

\* The phase in a slot depends on the slot, its child, and the handlers that
\* hold the child's status.
LEMMA SameSlot ==
  ASSUME OwnInv, PhasesKnown, PhasesKnown', NEW s \in Slots, Occupied(s), jobs'[s] = jobs[s],
         proc'[jobs[s].pid] = proc[jobs[s].pid] \/ ~Running(s),
         \A t \in Threads : AboutToRecord(t, s) =>
            AboutToRecord(t, s)' /\ handler'[t].status = handler[t].status
  PROVE  Occupied(s)' /\ PhaseInSlot(s)' = PhaseInSlot(s)
<1>1. Occupied(s)' /\ (Running(s)' <=> Running(s))
  BY DEF Occupied, Running
<1>2. CASE ~Running(s)
  BY <1>1, <1>2 DEF PhaseInSlot
<1>3. CASE Running(s) /\ proc[jobs[s].pid] # "absent"
  BY <1>1, <1>3 DEF PhaseInSlot
<1>4. CASE Running(s) /\ proc[jobs[s].pid] = "absent"
  <2>1. PICK t \in Threads : AboutToRecord(t, s)
    BY <1>4 DEF OwnInv, Ownership, RunningJobHasChild
  <2>2. StatusHeld(s) = handler[t].status
    BY <2>1 DEF PhasesKnown
  <2>3. StatusHeld(s)' = handler'[t].status
    BY <1>1, <2>1 DEF PhasesKnown
  <2>4. StatusHeld(s)' = StatusHeld(s)
    BY <2>1, <2>2, <2>3
  <2> QED BY <1>1, <1>4, <2>4 DEF PhaseInSlot
<1> QED BY <1>1, <1>2, <1>3, <1>4

\* A job keeps its phase if every slot that holds it, before or after, holds
\* it with the same phase.
LEMMA SameJob ==
  ASSUME OwnInv, PhasesKnown, PhasesKnown', Alive, Alive', NEW id \in 1..MaxJobId,
         nextId' \in Nat, id < nextId' <=> id < nextId,
         \A s \in Slots : Holds(s, id)' <=> Holds(s, id),
         \A s \in Slots : Holds(s, id) => PhaseInSlot(s)' = PhaseInSlot(s)
  PROVE  PhaseOf(id)' = PhaseOf(id)
<1>1. nextId \in Nat /\ id \in Nat
  BY JobControlAssumption DEF OwnInv, ReplInv, TypeInv, TypeOK
<1>2. CASE id >= nextId
  BY <1>1, <1>2 DEF PhasesKnown
<1>3. CASE id < nextId /\ \A s \in Slots : ~Holds(s, id)
  BY <1>3 DEF PhasesKnown
<1>4. ASSUME NEW s \in Slots, Holds(s, id) PROVE PhaseOf(id)' = PhaseOf(id)
  <2>1. PhaseOf(id) = PhaseInSlot(s)
    BY <1>4 DEF PhasesKnown
  <2>2. PhaseOf(id)' = PhaseInSlot(s)'
    BY <1>4 DEF PhasesKnown
  <2> QED BY <1>4, <2>1, <2>2
<1> QED BY <1>1, <1>2, <1>3, <1>4

\* Only the job in slot x changes its phase, if any does.
LEMMA OtherJobs ==
  ASSUME OwnInv, PhasesKnown, PhasesKnown', Alive, Alive', nextId' = nextId, NEW x \in Slots,
         jobs'[x].id = jobs[x].id, TableWellFormed',
         \A s \in Slots \ {x} :
            /\ jobs'[s] = jobs[s]
            /\ Occupied(s) => PhaseInSlot(s)' = PhaseInSlot(s),
         NEW id \in 1..MaxJobId, id # jobs[x].id
  PROVE  PhaseOf(id)' = PhaseOf(id)
<1>1. nextId \in Nat
  BY DEF OwnInv, ReplInv, TypeInv, TypeOK
<1>2. \A s \in Slots : Holds(s, id)' <=> Holds(s, id)
  BY DEF Holds, Occupied
<1>3. \A s \in Slots : Holds(s, id) => PhaseInSlot(s)' = PhaseInSlot(s)
  BY DEF Holds
<1> QED BY <1>1, <1>2, <1>3, SameJob

\* A step that leaves every occupied slot and its phase alone.
LEMMA NoPhase ==
  ASSUME OwnInv, PhasesKnown, PhasesKnown', Alive, Alive', nextId' = nextId,
         \A s \in Slots : /\ jobs'[s].id = jobs[s].id
                          /\ Occupied(s)' <=> Occupied(s)
                          /\ Occupied(s) => PhaseInSlot(s)' = PhaseInSlot(s)
  PROVE  UNCHANGED Phase
<1>1. nextId \in Nat
  BY DEF OwnInv, ReplInv, TypeInv, TypeOK
<1>2. ASSUME NEW id \in 1..MaxJobId PROVE PhaseOf(id)' = PhaseOf(id)
  <2>1. \A s \in Slots : /\ Holds(s, id)' <=> Holds(s, id)
                         /\ Holds(s, id) => PhaseInSlot(s)' = PhaseInSlot(s)
    BY DEF Holds
  <2> QED BY <1>1, <2>1, SameJob
<1> QED BY <1>2 DEF Phase

\* Slot x changes its phase, and that is a step of its job if that is within
\* the bound on job ids.
LEMMA SlotStep ==
  ASSUME OwnInv, PhasesKnown, PhasesKnown', TableWellFormed', Alive, Alive', nextId' = nextId,
         NEW x \in Slots, Occupied(x), jobs'[x].id = jobs[x].id,
         \A s \in Slots \ {x} :
            /\ jobs'[s] = jobs[s]
            /\ Occupied(s) => PhaseInSlot(s)' = PhaseInSlot(s),
         \/ /\ Occupied(x)' /\ PhaseInSlot(x) = "running"
            /\ PhaseInSlot(x)' \in {"exited", "killed"}
         \/ /\ Occupied(x)' /\ PhaseInSlot(x) \in {"exited", "killed"}
            /\ PhaseInSlot(x)' = StateOf(PhaseInSlot(x))
         \/ ~Occupied(x)' /\ PhaseInSlot(x) \in {"done", "signaled"}
  PROVE  Lifecycle!Next \/ UNCHANGED Phase
<1>1. nextId \in Nat /\ jobs[x].id \in Nat /\ jobs[x].id < nextId
  BY DEF OwnInv, ReplInv, TypeInv, TypeOK, Job, TableWellFormed
<1>2. CASE jobs[x].id \notin 1..MaxJobId
  <2>1. ASSUME NEW j \in 1..MaxJobId PROVE PhaseOf(j)' = PhaseOf(j)
    BY <1>2, OtherJobs
  <2> QED BY <2>1 DEF Phase
<1>3. ASSUME NEW id \in 1..MaxJobId, id = jobs[x].id
      PROVE  Lifecycle!Next
  <2>1. \A j \in 1..MaxJobId : j # id => PhaseOf(j)' = PhaseOf(j)
    BY <1>3, OtherJobs
  <2>2. PhaseOf(id) = PhaseInSlot(x)
    BY <1>3 DEF PhasesKnown, Holds
  <2>3. ASSUME Occupied(x)' PROVE PhaseOf(id)' = PhaseInSlot(x)'
    BY <1>3, <2>3 DEF PhasesKnown, Holds
  <2>4. ASSUME ~Occupied(x)' PROVE PhaseOf(id)' = "retired"
    <3>1. \A s \in Slots : ~Holds(s, id)'
      BY <1>3, <2>4 DEF Holds, Occupied, OwnInv, ReplInv, TableWellFormed
    <3>2. id < nextId'
      BY <1>1, <1>3
    <3> QED BY <1>3, <3>1, <3>2 DEF PhasesKnown
  <2>5. ASSUME NEW p, PhaseOf(id)' = p PROVE Phase' = [Phase EXCEPT ![id] = p]
    BY <1>3, <2>1, <2>5, OnePhase
  <2>6. CASE Occupied(x)' /\ PhaseInSlot(x) = "running" /\ PhaseInSlot(x)' \in {"exited", "killed"}
    <3>1. PhaseOf(id)' \in {"exited", "killed"} /\ PhaseOf(id) = "running"
      BY <2>2, <2>3, <2>6
    <3>2. \E p \in {"exited", "killed"} : Phase' = [Phase EXCEPT ![id] = p]
      BY <3>1, <2>5
    <3> QED BY <1>3, <3>1, <3>2, LifecycleSteps
  <2>7. CASE /\ Occupied(x)' /\ PhaseInSlot(x) \in {"exited", "killed"}
             /\ PhaseInSlot(x)' = StateOf(PhaseInSlot(x))
    <3>1. PhaseOf(id)' = StateOf(PhaseOf(id)) /\ PhaseOf(id) \in {"exited", "killed"}
      BY <2>2, <2>3, <2>7
    <3>2. Phase' = [Phase EXCEPT ![id] = StateOf(PhaseOf(id))]
      BY <3>1, <2>5
    <3> QED BY <1>3, <3>1, <3>2, LifecycleSteps
  <2>8. CASE ~Occupied(x)' /\ PhaseInSlot(x) \in {"done", "signaled"}
    <3>1. PhaseOf(id)' = "retired" /\ PhaseOf(id) \in {"done", "signaled"}
      BY <2>2, <2>4, <2>8
    <3>2. Phase' = [Phase EXCEPT ![id] = "retired"]
      BY <3>1, <2>5
    <3> QED BY <1>3, <3>1, <3>2, LifecycleSteps
  <2> QED BY <2>6, <2>7, <2>8
<1> QED BY <1>2, <1>3

-----------------------------------------------------------------------------
(* The steps.                                                              *)

\* Before and after a step of a shell that goes on.
GoesOn == /\ OwnInv /\ PhasesKnown /\ Alive
          /\ OwnInv' /\ PhasesKnown' /\ Alive'

LEMMA StepTypes ==
  ASSUME OwnInv
  PROVE  /\ proc \in [Pids -> {"absent", "running"} \cup Zombies]
         /\ jobs \in [Slots -> Job] /\ nextId \in Nat \ {0}
         /\ handler \in [Threads -> HandlerLocals]
         /\ \A s \in Slots : Occupied(s) => jobs[s].pid \in Pids
         /\ TypeInv /\ TableWellFormed /\ ThreadsInStep
<1>1. TypeInv /\ TableWellFormed /\ ThreadsInStep
  BY DEF OwnInv, ReplInv
<1>2. jobs \in [Slots -> Job]
  BY <1>1 DEF TypeInv, TypeOK
<1>3. \A s \in Slots : Occupied(s) => jobs[s].pid \in Pids
  BY <1>2 DEF Occupied, Job
<1> QED BY <1>1, <1>2, <1>3 DEF TypeInv, TypeOK

\* Steps of the main thread and of builtins that write neither the table nor
\* the kernel's view, and of handlers that hold no status.
LEMMA QuietPhases ==
  ASSUME GoesOn, UNCHANGED <<proc, jobs, nextId>>,
         \A t \in Threads : handler[t].pc = "record" => handler'[t] = handler[t]
  PROVE  UNCHANGED Phase
<1>1. ASSUME NEW s \in Slots, Occupied(s) PROVE PhaseInSlot(s)' = PhaseInSlot(s)
  <2>1. \A t \in Threads : AboutToRecord(t, s) =>
           AboutToRecord(t, s)' /\ handler'[t].status = handler[t].status
    BY DEF AboutToRecord
  <2> QED BY <1>1, <2>1, SameSlot DEF GoesOn
<1> QED BY <1>1, NoPhase DEF GoesOn, Occupied

\* A child that no job in the table stands for.
LEMMA StrangerPhases ==
  ASSUME GoesOn, UNCHANGED <<jobs, nextId, handler>>, NEW p \in Pids, NEW v,
         proc' = [proc EXCEPT ![p] = v], \A s \in Slots : Running(s) => jobs[s].pid # p
  PROVE  UNCHANGED Phase
<1>1. ASSUME NEW s \in Slots, Occupied(s) PROVE PhaseInSlot(s)' = PhaseInSlot(s)
  <2>1. \A t \in Threads : AboutToRecord(t, s) =>
           AboutToRecord(t, s)' /\ handler'[t].status = handler[t].status
    BY DEF AboutToRecord
  <2>2. jobs[s].pid \in Pids /\ proc \in [Pids -> {"absent", "running"} \cup Zombies]
    BY <1>1, StepTypes DEF GoesOn
  <2>3. proc'[jobs[s].pid] = proc[jobs[s].pid] \/ ~Running(s)
    BY <2>2
  <2> QED BY <1>1, <2>1, <2>3, SameSlot DEF GoesOn
<1> QED BY <1>1, NoPhase DEF GoesOn, Occupied

\* A child that runs ends, by itself or by a signal: End, if it is a job's.
LEMMA EndPhases ==
  ASSUME GoesOn, UNCHANGED <<jobs, nextId, handler>>, NEW p \in Pids, NEW how \in Zombies,
         proc[p] = "running", proc' = [proc EXCEPT ![p] = how]
  PROVE  Lifecycle!Next \/ UNCHANGED Phase
<1>1. CASE \A s \in Slots : Running(s) => jobs[s].pid # p
  BY <1>1, StrangerPhases
<1>2. ASSUME NEW x \in Slots, Running(x), jobs[x].pid = p
      PROVE  Lifecycle!Next \/ UNCHANGED Phase
  <2>1. proc \in [Pids -> {"absent", "running"} \cup Zombies]
    BY StepTypes DEF GoesOn
  <2>2. ASSUME NEW s \in Slots \ {x}, Occupied(s) PROVE PhaseInSlot(s)' = PhaseInSlot(s)
    <3>1. \A t \in Threads : AboutToRecord(t, s) =>
             AboutToRecord(t, s)' /\ handler'[t].status = handler[t].status
      BY DEF AboutToRecord
    <3>2. Running(s) => jobs[s].pid # p
      BY <1>2, <2>2 DEF GoesOn, OwnInv, Ownership, RunningPidsDiffer
    <3>3. jobs[s].pid \in Pids
      BY <2>2, StepTypes DEF GoesOn
    <3>4. proc'[jobs[s].pid] = proc[jobs[s].pid] \/ ~Running(s)
      BY <2>1, <3>2, <3>3
    <3> QED BY <2>2, <3>1, <3>4, SameSlot DEF GoesOn
  <2>3. Occupied(x) /\ Occupied(x)' /\ Running(x)'
    BY <1>2 DEF Running, Occupied
  <2>4. PhaseInSlot(x) = "running" /\ PhaseInSlot(x)' = how
    BY <1>2, <2>1, <2>3 DEF PhaseInSlot, Zombies
  <2>5. TableWellFormed'
    BY DEF GoesOn, OwnInv, ReplInv
  <2> QED BY <2>2, <2>3, <2>4, <2>5, SlotStep DEF GoesOn, Zombies
<1> QED BY <1>1, <1>2

\* A completed job leaves the table: Retire.
LEMMA RetirePhases ==
  ASSUME GoesOn, UNCHANGED <<proc, nextId, handler>>, NEW x \in Slots, Completed(x),
         jobs' = [jobs EXCEPT ![x].pid = NoPid]
  PROVE  Lifecycle!Next \/ UNCHANGED Phase
<1>1. jobs \in [Slots -> Job] /\ TableWellFormed'
  BY StepTypes DEF GoesOn, OwnInv, ReplInv
<1>2. Occupied(x) /\ ~Occupied(x)' /\ jobs'[x].id = jobs[x].id
  BY <1>1 DEF Completed, Occupied, Job
<1>3. \A s \in Slots \ {x} : jobs'[s] = jobs[s]
  BY <1>1
<1>4. ASSUME NEW s \in Slots \ {x}, Occupied(s) PROVE PhaseInSlot(s)' = PhaseInSlot(s)
  <2>1. \A t \in Threads : AboutToRecord(t, s) =>
           AboutToRecord(t, s)' /\ handler'[t].status = handler[t].status
    BY <1>3 DEF AboutToRecord
  <2> QED BY <1>3, <1>4, <2>1, SameSlot DEF GoesOn
<1>5. PhaseInSlot(x) \in {"done", "signaled"}
  BY <1>1 DEF PhaseInSlot, Completed, Running, Job, JobStates
<1> QED BY <1>1, <1>2, <1>3, <1>4, <1>5, SlotStep DEF GoesOn

\* job_add: a new job starts, or the table is full.
LEMMA RegisterPhases ==
  ASSUME GoesOn, RegisterStage
  PROVE  Lifecycle!Next \/ UNCHANGED Phase
<1> DEFINE p == pipeline.pids[idx]
<1>1. /\ UNCHANGED <<proc, handler>> /\ JobAdd(p)
  BY DEF RegisterStage, kernelVars
<1>2. \A t \in Threads : handler[t].pc = "idle"
  BY NoHandlerActive, StepTypes DEF GoesOn, RegisterStage, MainAt, Undisturbed
<1>3. p \in Pids /\ proc[p] # "absent"
  <2>1. idx \in HeldStages
    BY StageTypes, StepTypes DEF GoesOn, RegisterStage, MainAt, HeldStages
  <2> QED BY <2>1 DEF GoesOn, OwnInv, Ownership, StagesHeld
<1>4. CASE UNCHANGED <<jobs, nextId>>
  BY <1>1, <1>4, QuietPhases
<1>5. ASSUME NEW x \in Slots, FirstFree(x), nextId' = nextId + 1,
             jobs' = [jobs EXCEPT ![x] = [pid |-> p, id |-> nextId, state |-> "running"]]
      PROVE  Lifecycle!Next \/ UNCHANGED Phase
  <2> HIDE DEF p
  <2>1. /\ jobs \in [Slots -> Job] /\ nextId \in Nat \ {0} /\ nextId' \in Nat
        /\ proc \in [Pids -> {"absent", "running"} \cup Zombies]
    BY <1>5, StepTypes DEF GoesOn
  <2>2. ~Occupied(x) /\ \A s \in Slots \ {x} : jobs'[s] = jobs[s]
    BY <1>5, <2>1 DEF FirstFree
  <2>3. jobs'[x] = [pid |-> p, id |-> nextId, state |-> "running"]
    BY <1>5, <2>1
  <2>4. ASSUME NEW s \in Slots, Occupied(s) PROVE PhaseInSlot(s)' = PhaseInSlot(s)
    <3>1. \A t \in Threads : ~AboutToRecord(t, s)
      BY <1>2 DEF AboutToRecord
    <3>2. jobs'[s] = jobs[s]
      BY <2>2, <2>4
    <3>3. proc'[jobs[s].pid] = proc[jobs[s].pid]
      BY <1>1
    <3> QED BY <2>4, <3>1, <3>2, <3>3, SameSlot DEF GoesOn
  <2>5. ASSUME NEW j \in 1..MaxJobId, j # nextId PROVE PhaseOf(j)' = PhaseOf(j)
    <3>1. j < nextId' <=> j < nextId
      BY <1>5, <2>1, <2>5, JobControlAssumption
    <3>2. \A s \in Slots : Holds(s, j)' <=> Holds(s, j)
      BY <2>2, <2>3, <2>5 DEF Holds, Occupied
    <3>3. \A s \in Slots : Holds(s, j) => PhaseInSlot(s)' = PhaseInSlot(s)
      BY <2>4 DEF Holds
    <3> QED BY <2>1, <3>1, <3>2, <3>3, SameJob DEF GoesOn
  <2>6. CASE nextId \notin 1..MaxJobId
    BY <2>5, <2>6 DEF Phase
  <2>7. ASSUME NEW id \in 1..MaxJobId, id = nextId PROVE Lifecycle!Next
    <3>1. PhaseOf(id) = "unborn"
      BY <2>1, <2>7 DEF GoesOn, PhasesKnown
    <3>2. ASSUME NEW j \in 1..MaxJobId, j < id PROVE PhaseOf(j) # "unborn"
      <4>1. CASE \A s \in Slots : ~Holds(s, j)
        BY <2>7, <3>2, <4>1 DEF GoesOn, PhasesKnown
      <4>2. ASSUME NEW s \in Slots, Holds(s, j) PROVE PhaseOf(j) # "unborn"
        BY <4>2 DEF GoesOn, PhasesKnown, Holds
      <4> QED BY <4>1, <4>2
    <3>3. Holds(x, id)' /\ Running(x)'
      BY <1>3, <2>3, <2>7, JobControlAssumption DEF Holds, Occupied, Running
    <3>4. PhaseInSlot(x)' \in {"running", "exited", "killed"}
      BY <1>1, <1>3, <2>1, <2>3, <3>3 DEF PhaseInSlot, Zombies
    <3>5. PhaseOf(id)' = PhaseInSlot(x)'
      BY <3>3 DEF GoesOn, PhasesKnown
    <3>6. ASSUME NEW v, PhaseOf(id)' = v PROVE Phase' = [Phase EXCEPT ![id] = v]
      BY <2>5, <2>7, <3>6, OnePhase
    <3>7. \E v \in {"running", "exited", "killed"} : Phase' = [Phase EXCEPT ![id] = v]
      BY <3>4, <3>5, <3>6
    <3> QED BY <3>1, <3>2, <3>7, LifecycleSteps
  <2> QED BY <2>6, <2>7
<1> QED BY <1>1, <1>4, <1>5 DEF JobAdd

\* waitpid of the handler: the status moves from the kernel to the handler,
\* and the phase stays what it is.
LEMMA WaitPhases ==
  ASSUME SafeBuild, GoesOn, NEW t \in Threads, HandlerWait(t)
  PROVE  UNCHANGED Phase
<1>1. /\ UNCHANGED <<jobs, nextId>> /\ handler[t].pc = "wait"
  BY DEF HandlerWait, HandlerAt, tableVars
<1>2. \A s \in Slots : ~AboutToRecord(t, s)
  BY <1>1 DEF AboutToRecord
<1>3. \A u \in Threads \ {t} : handler'[u] = handler[u]
  BY WaitEffect, StepTypes DEF GoesOn, OwnInv, Ownership
<1>4. CASE UNCHANGED proc
  <2>1. \A u \in Threads : handler[u].pc = "record" => handler'[u] = handler[u]
    BY <1>1, <1>3
  <2> QED BY <1>1, <1>4, <2>1, QuietPhases
<1>5. ASSUME NEW p \in Pids, proc[p] \in Zombies, proc' = [proc EXCEPT ![p] = "absent"],
             handler' = [handler EXCEPT ![t] =
                           [@ EXCEPT !.pc = "record", !.rc = p, !.status = proc[p]]],
             p = handler[t].pid
      PROVE  UNCHANGED Phase
  <2>1. /\ handler \in [Threads -> HandlerLocals]
        /\ proc \in [Pids -> {"absent", "running"} \cup Zombies]
    BY StepTypes DEF GoesOn
  <2>2. /\ handler'[t].pc = "record" /\ handler'[t].rc = p
        /\ handler'[t].status = proc[p] /\ handler'[t].i = handler[t].i
    BY <1>5, <2>1 DEF HandlerLocals
  <2>3. /\ Running(handler[t].i) /\ jobs[handler[t].i].pid = p
        /\ handler[t].i \in Slots
    <3>1. WaiterUpToDate(t)
      BY DEF GoesOn, OwnInv, Ownership, HandlersUpToDate
    <3>2. handler[t].i \in 1..jobCount /\ jobCount \in 0..MaxJobs
      BY <1>1, StepTypes DEF GoesOn, TypeInv, TypeOK, IndicesInBounds
    <3>3. handler[t].i \in Slots
      BY <3>2, JobControlAssumption DEF Slots
    <3> QED BY <1>1, <1>5, <3>1, <3>3 DEF WaiterUpToDate, Zombies
  <2>4. ASSUME NEW s \in Slots, Occupied(s), s # handler[t].i
        PROVE  PhaseInSlot(s)' = PhaseInSlot(s)
    <3>1. \A u \in Threads : AboutToRecord(u, s) =>
             AboutToRecord(u, s)' /\ handler'[u].status = handler[u].status
      BY <1>1, <1>2, <1>3 DEF AboutToRecord
    <3>2. Running(s) => jobs[s].pid # p
      BY <2>3, <2>4 DEF GoesOn, OwnInv, Ownership, RunningPidsDiffer
    <3>3. jobs[s].pid \in Pids /\ jobs'[s] = jobs[s]
      BY <1>1, <2>4, StepTypes DEF GoesOn
    <3>4. proc'[jobs[s].pid] = proc[jobs[s].pid] \/ ~Running(s)
      BY <1>5, <2>1, <3>2, <3>3
    <3> QED BY <2>4, <3>1, <3>3, <3>4, SameSlot DEF GoesOn
  <2>5. PhaseInSlot(handler[t].i)' = PhaseInSlot(handler[t].i)
    <3> DEFINE x == handler[t].i
    <3>1. PhaseInSlot(x) = proc[p]
      BY <1>5, <2>3 DEF PhaseInSlot, Zombies
    <3>2. ASSUME NEW s \in Slots, s = handler[t].i PROVE PhaseInSlot(s)' = proc[p]
      <4>1. Occupied(s)' /\ Running(s)' /\ AboutToRecord(t, s)'
        BY <1>1, <2>2, <2>3, <3>2 DEF Occupied, Running, AboutToRecord
      <4>2. StatusHeld(s)' = proc[p]
        BY <2>2, <4>1 DEF GoesOn, PhasesKnown
      <4>3. proc'[jobs'[s].pid] = "absent"
        BY <1>1, <1>5, <2>1, <2>3, <3>2
      <4> QED BY <4>1, <4>2, <4>3 DEF PhaseInSlot
    <3> QED BY <2>2, <2>3, <3>1, <3>2
  <2>6. \A s \in Slots : Occupied(s) => PhaseInSlot(s)' = PhaseInSlot(s)
    <3> SUFFICES ASSUME NEW s \in Slots, Occupied(s) PROVE PhaseInSlot(s)' = PhaseInSlot(s)
      OBVIOUS
    <3>1. CASE s # handler[t].i
      BY <2>4, <3>1
    <3>2. CASE s = handler[t].i
      BY <2>2, <2>5, <3>2
    <3> QED BY <3>1, <3>2
  <2> QED BY <1>1, <2>6, NoPhase DEF GoesOn, Occupied
<1>6. CASE UNCHANGED proc \/ \E p \in Waitable(WaitTarget(t)) :
             /\ proc[p] \in Zombies
             /\ proc' = [proc EXCEPT ![p] = "absent"]
             /\ handler' = [handler EXCEPT ![t] =
                  [@ EXCEPT !.pc = "record", !.rc = p, !.status = proc[p]]]
  <2>1. Waitable(WaitTarget(t)) = {handler[t].pid} /\ handler[t].pid \in Pids
    <3>1. WaiterUpToDate(t)
      BY DEF GoesOn, OwnInv, Ownership, HandlersUpToDate
    <3>2. WaitTarget(t) = handler[t].pid /\ handler[t].pid \in Pids
      BY <1>1, <3>1 DEF WaiterUpToDate, WaitTarget, SafeBuild
    <3> QED BY <3>2, JobControlAssumption DEF Waitable
  <2> QED BY <1>4, <1>5, <1>6, <2>1
<1> QED BY <1>6 DEF HandlerWait

\* The classification in the handler: Learn, if the handler holds a status.
LEMMA RecordPhases ==
  ASSUME GoesOn, NEW t \in Threads, HandlerRecord(t)
  PROVE  Lifecycle!Next \/ UNCHANGED Phase
<1>1. /\ UNCHANGED <<proc, nextId>> /\ handler[t].pc = "record"
      /\ handler' = [handler EXCEPT ![t] = NextSlot(t)]
  BY DEF HandlerRecord, HandlerAt, kernelVars
<1>2. /\ jobs \in [Slots -> Job] /\ handler \in [Threads -> HandlerLocals] /\ TypeInv
      /\ \A s \in Slots : Occupied(s) => jobs[s].pid \in Pids
  BY StepTypes DEF GoesOn
<1>3. \A u \in Threads \ {t} : handler'[u] = handler[u]
  BY <1>1, <1>2
<1>4. /\ handler[t].i \in Slots
      /\ \A s \in Slots : jobs'[s].id = jobs[s].id /\ jobs'[s].pid = jobs[s].pid
      /\ \A s \in Slots : s # handler[t].i => jobs'[s] = jobs[s]
  BY <1>2, RecordEffect
<1>5. ASSUME NEW s \in Slots, Occupied(s), ~AboutToRecord(t, s), jobs'[s] = jobs[s]
      PROVE  PhaseInSlot(s)' = PhaseInSlot(s)
  <2>1. \A u \in Threads : AboutToRecord(u, s) =>
           AboutToRecord(u, s)' /\ handler'[u].status = handler[u].status
    BY <1>3, <1>5 DEF AboutToRecord
  <2>2. proc'[jobs[s].pid] = proc[jobs[s].pid]
    BY <1>1
  <2> QED BY <1>5, <2>1, <2>2, SameSlot DEF GoesOn
\* The handler found something else in the slot, or the slot is free.
<1>6. ASSUME \A s \in Slots : Occupied(s) => ~AboutToRecord(t, s) /\ jobs'[s] = jobs[s]
      PROVE  UNCHANGED Phase
  <2>1. \A s \in Slots : Occupied(s) => PhaseInSlot(s)' = PhaseInSlot(s)
    BY <1>5, <1>6
  <2> QED BY <1>1, <1>4, <2>1, NoPhase DEF GoesOn, Occupied
<1>7. CASE handler[t].rc # jobs[handler[t].i].pid
  <2>1. jobs' = jobs
    BY <1>7 DEF HandlerRecord
  <2> QED BY <1>6, <1>7, <2>1 DEF AboutToRecord
<1>8. CASE handler[t].rc = jobs[handler[t].i].pid /\ handler[t].rc = NoPid
  BY <1>4, <1>6, <1>8 DEF AboutToRecord, Occupied
<1>9. CASE handler[t].rc = jobs[handler[t].i].pid /\ handler[t].rc # NoPid
  <2>1. ASSUME NEW x \in Slots, x = handler[t].i
        PROVE  Lifecycle!Next \/ UNCHANGED Phase
    <3>1. HoldsStatus(t) /\ HolderUpToDate(t)
      BY <1>1, <1>9 DEF HoldsStatus, GoesOn, OwnInv, Ownership, HandlersUpToDate
    <3>2. /\ Running(x) /\ Occupied(x) /\ proc[jobs[x].pid] = "absent"
          /\ AboutToRecord(t, x)
      BY <1>1, <1>9, <2>1, <3>1 DEF HolderUpToDate, Running, AboutToRecord
    <3>3. PhaseInSlot(x) = handler[t].status /\ handler[t].status \in Zombies
      BY <1>2, <3>2 DEF PhaseInSlot, GoesOn, PhasesKnown, HandlerLocals
    <3>4. jobs' = [jobs EXCEPT ![x].state = StateOf(handler[t].status)]
      BY <1>9, <2>1 DEF HandlerRecord
    <3>5. jobs'[x].state = StateOf(handler[t].status)
      BY <1>2, <3>4 DEF Job
    <3>6. Occupied(x)' /\ ~Running(x)'
      BY <1>4, <3>2, <3>5 DEF Occupied, Running, StateOf
    <3>7. PhaseInSlot(x)' = StateOf(PhaseInSlot(x))
      BY <3>3, <3>5, <3>6 DEF PhaseInSlot
    <3>8. \A s \in Slots \ {x} : ~AboutToRecord(t, s) /\ jobs'[s] = jobs[s]
      BY <1>4, <2>1 DEF AboutToRecord
    <3>9. \A s \in Slots \ {x} : Occupied(s) => PhaseInSlot(s)' = PhaseInSlot(s)
      BY <1>5, <3>8
    <3>10. TableWellFormed' /\ PhaseInSlot(x) \in {"exited", "killed"}
      BY <3>3 DEF Zombies, GoesOn, OwnInv, ReplInv
    <3> QED BY <1>1, <1>4, <3>2, <3>6, <3>7, <3>8, <3>9, <3>10, SlotStep DEF GoesOn
  <2> QED BY <1>4, <2>1
<1> QED BY <1>7, <1>8, <1>9

-----------------------------------------------------------------------------
(* All of them.                                                            *)

LEMMA AliveSteps ==
  ASSUME SafeBuild, GoesOn, [Next]_vars
  PROVE  Lifecycle!Next \/ UNCHANGED Phase
<1> USE DEF kernelVars, tableVars, mainVars
<1>1. ASSUME NEW t \in Threads, HandlerStep(t) PROVE Lifecycle!Next \/ UNCHANGED Phase
  <2>1. CASE HandlerTest(t)
    <3>1. \A u \in Threads : handler[u].pc = "record" => handler'[u] = handler[u]
      BY <2>1, StepTypes DEF HandlerTest, HandlerAt, GoesOn
    <3> QED BY <2>1, <3>1, QuietPhases DEF HandlerTest
  <2> QED BY <1>1, <2>1, WaitPhases, RecordPhases DEF HandlerStep
<1>2. ASSUME NEW t \in Threads, DeliverSigchld(t) PROVE UNCHANGED Phase
  <2>1. \A u \in Threads : handler[u].pc = "record" => handler'[u] = handler[u]
    BY <1>2, StepTypes DEF DeliverSigchld, Takes, GoesOn
  <2> QED BY <1>2, <2>1, QuietPhases DEF DeliverSigchld
<1>3. ASSUME NEW p \in Pids, NEW how \in Zombies, ChildEnds(p, how)
      PROVE  Lifecycle!Next \/ UNCHANGED Phase
  BY <1>3, EndPhases DEF ChildEnds
<1>4. CASE KillSend
  <2>1. worker.target \in Pids
    BY <1>4 DEF KillSend, WorkerAt, GoesOn, OwnInv, Ownership, KillTargetIsPid
  <2>2. CASE UNCHANGED proc
    BY <1>4, <2>2, QuietPhases DEF KillSend
  <2>3. CASE proc[worker.target] = "running" /\ proc' = [proc EXCEPT ![worker.target] = "killed"]
    BY <1>4, <2>1, <2>3, EndPhases DEF KillSend, Zombies
  <2> QED BY <1>4, <2>2, <2>3 DEF KillSend
<1>5. CASE ForkStage
  <2>1. PICK p \in FreePids : proc' = [proc EXCEPT ![p] = "running"]
    BY <1>5 DEF ForkStage
  <2>2. \A t \in Threads : handler[t].pc = "idle"
    BY <1>5, NoHandlerActive, StepTypes DEF GoesOn, ForkStage, MainAt, Undisturbed
  <2>3. \A s \in Slots : Running(s) => jobs[s].pid # p
    BY <2>1, <2>2 DEF FreePids, GoesOn, OwnInv, Ownership, RunningJobHasChild, AboutToRecord
  <2> QED BY <1>5, <2>1, <2>3, StrangerPhases DEF ForkStage, FreePids
<1>6. CASE WaitStage
  <2>1. idx \in HeldStages
    BY <1>6, StageTypes, StepTypes DEF GoesOn, WaitStage, HeldStages
  <2>2. /\ pipeline.pids[idx] \in Pids
        /\ \A s \in Slots : Running(s) => jobs[s].pid # pipeline.pids[idx]
    BY <2>1 DEF GoesOn, OwnInv, Ownership, StagesHeld
  <2> QED BY <1>6, <2>2, StrangerPhases DEF WaitStage
<1>7. CASE NotifySlot
  <2>1. CASE Completed(idx)
    <3>1. idx \in Slots
      BY <1>7, StepTypes, JobControlAssumption DEF NotifySlot, PastLast, GoesOn, TypeInv, TypeOK, Slots
    <3> QED BY <1>7, <2>1, <3>1, RetirePhases DEF NotifySlot
  <2>2. CASE ~Completed(idx)
    BY <1>7, <2>2, QuietPhases DEF NotifySlot
  <2> QED BY <2>1, <2>2
<1>8. CASE JobsConsume
  <2>1. CASE jobs' = jobs
    BY <1>8, <2>1, QuietPhases DEF JobsConsume
  <2>2. CASE jobs' # jobs
    <3>1. worker.i \in Slots
      BY <1>8, StepTypes, JobControlAssumption
         DEF JobsConsume, WorkerAt, GoesOn, TypeInv, TypeOK, IndicesInBounds, Slots
    <3>2. /\ jobs[worker.i].state # "running"
          /\ jobs' = [jobs EXCEPT ![worker.i].pid = NoPid]
      BY <1>8, <2>2 DEF JobsConsume
    <3>3. Occupied(worker.i)
      BY <2>2, <3>1, <3>2, StepTypes DEF GoesOn, Occupied, Job
    <3> QED BY <1>8, <3>1, <3>2, <3>3, RetirePhases DEF JobsConsume, Completed
  <2> QED BY <2>1, <2>2
\* The other steps leave the table and the kernel's view of it alone.
<1>9. ASSUME UNCHANGED <<proc, jobs, nextId, handler>> PROVE UNCHANGED Phase
  BY <1>9, QuietPhases
<1>10. CASE TopOfLoop \/ NotifyReturn \/ ForkFails \/ JoinWorker
  BY <1>9, <1>10 DEF TopOfLoop, NotifyReturn, ForkFails, JoinWorker
<1>11. CASE UserLine
  BY <1>9, <1>11 DEF UserLine, OtherLine, EndOfInput, RunPipeline, RunBuiltin
<1>12. CASE JobsPrint \/ ExitBuiltin \/ \E id \in 1..MaxJobId : KillLookup(id)
  BY <1>9, <1>12 DEF JobsPrint, ExitBuiltin, KillLookup
<1>13. CASE UNCHANGED vars
  BY <1>9, <1>13 DEF vars
<1>14. ASSUME NEW p \in Pids, StrangerTakes(p) \/ StrangerEnds(p)
       PROVE  UNCHANGED Phase
  BY <1>9, <1>14 DEF StrangerTakes, StrangerEnds
<1> QED BY <1>1, <1>2, <1>3, <1>4, <1>5, <1>6, <1>7, <1>8, <1>10, <1>11, <1>12, <1>13, <1>14,
           RegisterPhases
        DEF Next, MainStep, WorkerStep, Kernel, Exited

LEMMA Refines ==
  ASSUME SafeBuild, OwnInv, PhasesKnown, OwnInv', PhasesKnown', [Next]_vars
  PROVE  Lifecycle!Next \/ UNCHANGED Phase
<1>1. CASE Alive /\ Alive'
  BY <1>1, AliveSteps DEF GoesOn
<1>2. CASE ~Alive'
  <2>1. Phase' = [id \in 1..MaxJobId |-> "lost"]
    BY <1>2 DEF PhasesKnown, Phase
  <2> QED BY <2>1 DEF Lifecycle!Next, Lifecycle!Lose, Lifecycle!Ids, Phase
<1>3. CASE ~Alive
  <2>1. UNCHANGED pc
    BY <1>3 DEF Alive, Next, MainStep, UserLine, WorkerStep, HandlerStep, Kernel, Exited,
            TopOfLoop, NotifySlot, NotifyReturn, ForkStage, ForkFails, RegisterStage, WaitStage,
            JoinWorker, OtherLine, EndOfInput, RunPipeline, RunBuiltin, JobsPrint, JobsConsume,
            KillLookup, KillSend, ExitBuiltin, HandlerTest, HandlerWait, HandlerRecord, HandlerAt,
            ChildEnds, DeliverSigchld, StrangerTakes, StrangerEnds, Takes, MainAt, WorkerAt, vars,
            mainVars
  <2> QED BY <1>2, <1>3, <2>1 DEF Alive
<1> QED BY <1>1, <1>2, <1>3

\* In a safe build job control goes through the life cycle of jobs: each of
\* its steps starts, ends, records or clears one job, or loses them all with
\* the shell, or leaves every job in its phase.
\* (job_add, sigchld_handler, notify_done_jobs, jobs_run, waitpid in execute_pipeline)
THEOREM StepsOfTheLifecycle == ASSUME SafeBuild PROVE Spec => Lifecycle!Steps
<1>1. Init => Lifecycle!Init
  BY DEF Init, Lifecycle!Init, Lifecycle!Ids, PhaseOf, Alive
<1>2. OwnInv => PhasesKnown
  BY KnownPhases
<1>3. OwnInv /\ PhasesKnown /\ OwnInv' /\ PhasesKnown' /\ [Next]_vars
        => [Lifecycle!Next]_Phase
  BY Refines
<1>4. Spec => [][Lifecycle!Next]_Phase
  BY <1>2, <1>3, OwnershipInvariant, PTL DEF Spec
<1> QED BY <1>1, <1>4, PTL DEF Spec, Lifecycle!Steps, Phase
=============================================================================
