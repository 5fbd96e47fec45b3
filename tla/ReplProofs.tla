------------------------------ MODULE ReplProofs ------------------------------
(***************************************************************************)
(* Theorems about the interactive loop, for any number of children, pipes, *)
(* stages, lines and Ctrl-C, and any choice of calls that fail: who holds  *)
(* which pipe end, which child is still to be waited for, and what the     *)
(* shell can die of.                                                       *)
(***************************************************************************)
EXTENDS Repl, TLAPS, WellFoundedInduction, SequenceTheorems

-----------------------------------------------------------------------------
(* Free numbers, and what the calls do to the pipe ends                    *)

LEMMA LeastIn ==
    ASSUME NEW S, S \subseteq Nat, S # {}
    PROVE  Min(S) \in S
<1>1. PICK m \in S : \A x \in S : <<x, m>> \notin OpToRel(<, Nat)
  BY NatLessThanWellFounded, WFMin, Zenon
<1>2. \A x \in S : ~(x < m)
  BY <1>1, Zenon DEF OpToRel
<1>3. \E x \in S : \A y \in S : x =< y
  BY <1>2
<1> QED
  BY <1>3 DEF Min

LEMMA FreePid ==
    ASSUME FreePids # {}
    PROVE  Min(FreePids) \in Pids /\ child[Min(FreePids)].st = "none"
<1>1. FreePids \subseteq Nat
  BY ReplAssumption DEF FreePids
<1>2. Min(FreePids) \in FreePids
  BY <1>1, LeastIn
<1> QED
  BY <1>2 DEF FreePids

LEMMA FreePipe ==
    ASSUME FreePipes # {}
    PROVE  /\ Min(FreePipes) \in Pipes /\ Min(FreePipes) # NoPipe
           /\ ends[Min(FreePipes)].r = {} /\ ends[Min(FreePipes)].w = {}
<1>1. FreePipes \subseteq Nat
  BY ReplAssumption DEF FreePipes
<1>2. Min(FreePipes) \in FreePipes
  BY <1>1, LeastIn
<1> QED
  BY <1>2, ReplAssumption DEF FreePipes

EndsType == [Pipes -> [r : SUBSET Procs, w : SUBSET Procs]]
PipeOrNone == Pipes \cup {NoPipe}

LEMMA Closed ==
    ASSUME NEW e \in EndsType, NEW p, NEW q \in PipeOrNone, NEW end \in {"r", "w"}
    PROVE  LET f == Close(e, p, q, end) IN
           /\ f \in EndsType
           /\ \A x \in Pipes :
                /\ f[x].r = IF x = q /\ end = "r" THEN e[x].r \ {p} ELSE e[x].r
                /\ f[x].w = IF x = q /\ end = "w" THEN e[x].w \ {p} ELSE e[x].w
<1>1. CASE q = NoPipe
  BY <1>1, ReplAssumption DEF Close, EndsType
<1> DEFINE r == [e[q] EXCEPT !.r = @ \ {p}]
           w == [e[q] EXCEPT !.w = @ \ {p}]
<1>0. q \in Pipes => /\ r \in [r : SUBSET Procs, w : SUBSET Procs]
                     /\ w \in [r : SUBSET Procs, w : SUBSET Procs]
                     /\ r.r = e[q].r \ {p} /\ r.w = e[q].w
                     /\ w.w = e[q].w \ {p} /\ w.r = e[q].r
  BY DEF EndsType
<1>2. CASE q # NoPipe /\ end = "r"
  <2>1. q \in Pipes /\ Close(e, p, q, end) = [e EXCEPT ![q] = r]
    BY <1>2 DEF Close, PipeOrNone
  <2> HIDE DEF r
  <2> QED
    BY <1>0, <1>2, <2>1 DEF EndsType
<1>3. CASE q # NoPipe /\ end = "w"
  <2>1. q \in Pipes /\ Close(e, p, q, end) = [e EXCEPT ![q] = w]
    BY <1>3 DEF Close, PipeOrNone
  <2> HIDE DEF w
  <2> QED
    BY <1>0, <1>3, <2>1 DEF EndsType
<1> QED
  BY <1>1, <1>2, <1>3

\* The readers and the writers of a pipe.
R(e, x) == e[x].r
W(e, x) == e[x].w

LEMMA ClosedRead ==
    ASSUME NEW e \in EndsType, NEW p, NEW q \in PipeOrNone
    PROVE  /\ Close(e, p, q, "r") \in EndsType
           /\ \A x \in Pipes :
                /\ R(Close(e, p, q, "r"), x) = IF x = q THEN R(e, x) \ {p} ELSE R(e, x)
                /\ W(Close(e, p, q, "r"), x) = W(e, x)
BY Closed DEF R, W

LEMMA ClosedWrite ==
    ASSUME NEW e \in EndsType, NEW p, NEW q \in PipeOrNone
    PROVE  /\ Close(e, p, q, "w") \in EndsType
           /\ \A x \in Pipes :
                /\ R(Close(e, p, q, "w"), x) = R(e, x)
                /\ W(Close(e, p, q, "w"), x) = IF x = q THEN W(e, x) \ {p} ELSE W(e, x)
BY Closed DEF R, W

LEMMA ClosedAll ==
    ASSUME NEW e \in EndsType, NEW ps
    PROVE  /\ CloseAll(e, ps) \in EndsType
           /\ \A x \in Pipes : /\ CloseAll(e, ps)[x].r = e[x].r \ ps
                               /\ CloseAll(e, ps)[x].w = e[x].w \ ps
BY DEF CloseAll, EndsType

LEMMA Inherited ==
    ASSUME NEW e \in EndsType, NEW p \in Procs
    PROVE  /\ Inherit(e, p) \in EndsType
           /\ \A x \in Pipes :
                /\ Inherit(e, p)[x].r = IF Shell \in e[x].r THEN e[x].r \cup {p} ELSE e[x].r
                /\ Inherit(e, p)[x].w = IF Shell \in e[x].w THEN e[x].w \cup {p} ELSE e[x].w
BY DEF Inherit, EndsType

LEMMA Opened ==
    ASSUME NEW e \in EndsType, NEW q \in Pipes, NEW f,
           f = [e EXCEPT ![q] = [r |-> {Shell}, w |-> {Shell}]]
    PROVE  /\ f \in EndsType
           /\ \A x \in Pipes : /\ f[x].r = IF x = q THEN {Shell} ELSE e[x].r
                               /\ f[x].w = IF x = q THEN {Shell} ELSE e[x].w
BY DEF EndsType, Procs

-----------------------------------------------------------------------------
(* The invariant                                                           *)

Of(q) == {q} \ {NoPipe}
ReadEnds(e) == {q \in Pipes : Shell \in e[q].r}
WriteEnds(e) == {q \in Pipes : Shell \in e[q].w}

\* What the shell holds, wherever its main thread is.
ShellHolds ==
    /\ pc \in {"start", "prompt", "read", "register", "wait", "aiWait", "confirm", "gone"} =>
         ReadEnds(ends) = {} /\ WriteEnds(ends) = {}
    /\ pc = "pipe" => cur = NoPipe /\ ReadEnds(ends) = Of(inFd) /\ WriteEnds(ends) = {}
    /\ pc \in {"fork", "parent"} => /\ ReadEnds(ends) = Of(inFd) \cup Of(cur)
                                    /\ WriteEnds(ends) = Of(cur)
                                    /\ inFd = NoPipe \/ inFd # cur
    /\ pc \in {"thread", "status", "join", "aiRead"} => cur \in Pipes
    /\ pc = "thread" => ReadEnds(ends) = {cur} /\ WriteEnds(ends) = {cur}
    /\ pc \in {"status", "aiRead"} => ReadEnds(ends) = {cur}
    /\ pc = "join" => ReadEnds(ends) = {}
    /\ pc \in {"status", "join"} => WriteEnds(ends) = IF worker = "done" THEN {} ELSE {cur}
    /\ pc = "aiRead" => WriteEnds(ends) = {}

\* The line that is executed, and how far it is.
LineFits ==
    /\ line.kind \in {"builtin", "exit", "external", "ai", "suggested"} => line.n = 1
    /\ pc \in {"pipe", "fork", "parent", "wait"} => next \in 1..line.n
    /\ pc \in {"fork", "parent"} => IF line.kind = "ai" THEN cur # NoPipe
                                                        ELSE next < line.n \/ cur = NoPipe
    /\ pc \in {"pipe", "fork"} => Len(pids) = next - 1 /\ (next = 1 => inFd = NoPipe)
    /\ pc = "parent" => Len(pids) = next
    /\ pc \in {"register", "wait", "aiRead", "aiWait"} => Len(pids) = line.n
    /\ pc = "aiRead" => line.kind = "ai"
    /\ pc = "aiWait" => line.kind \in {"ai", "suggested"}

\* What a child holds: nothing before and after its life, its end of its
\* output throughout, and once it is set up no end but its own two.
KidHolds(p, c, e) ==
    /\ c.st \in {"none", "zombie"} => \A q \in Pipes : p \notin e[q].r /\ p \notin e[q].w
    /\ c.st \in {"forked", "running"} /\ c.out # NoPipe => p \in e[c.out].w
    /\ c.st \in {"forked", "running"} =>
         \A q \in Pipes : /\ p \in e[q].r => q = c.in \/ (q = c.out /\ c.st = "forked")
                          /\ p \in e[q].w => q = c.out

KidsHold == \A p \in Pids : KidHolds(p, child[p], ends)

\* The builtin's thread and its status: while it is to come, nobody but the
\* shell can have put anything into the pipe.
WorkerFits ==
    /\ worker # "none" => pc \in {"status", "join"}
    /\ pc = "status" => worker # "none"
    /\ pc \in {"thread", "status", "join"} =>
         \A p \in Pids : p \notin ends[cur].r /\ p \notin ends[cur].w
    /\ pc = "thread" \/ (pc = "status" /\ worker # "done") => content[cur] = 0
    /\ pc = "join" /\ worker \in {"running", "writing"} => torn

\* What came of Ctrl-C.
Causes == DeathHasCause /\ (~caught => sigints > 0)

\* The children somebody still has to wait for.
Pending == {p \in Pids : child[p].st # "none" /\ ~child[p].job}

Waits ==
    sigints = 0 /\ ~faults =>
      /\ pc \in {"start", "prompt", "read", "thread", "status", "join", "confirm"} => Pending = {}
      /\ pc \in {"pipe", "fork", "parent", "register", "aiRead", "aiWait"} =>
           \A p \in Pending : \E k \in 1..Len(pids) : pids[k] = p
      /\ pc = "wait" => \A p \in Pending : \E k \in next..Len(pids) : pids[k] = p

Inv ==
    /\ TypeOK /\ ShellHolds /\ LineFits /\ KidsHold /\ WorkerFits /\ Causes /\ Waits

-----------------------------------------------------------------------------
(* Lines                                                                   *)

LEMMA LinesFit ==
    ASSUME NEW l \in Lines
    PROVE  /\ l \in [kind : Kinds \cup {"none", "suggested"}, n : 0..MaxStages, endless : BOOLEAN]
           /\ l.n \in 1..MaxStages /\ l.kind \in Kinds
           /\ l.kind \notin {"none", "suggested"}
           /\ l.kind \in {"builtin", "exit", "external", "ai"} => l.n = 1
<1>1. MaxStages \in Nat /\ MaxStages >= 1
  BY ReplAssumption
<1>2. CASE l \in {[kind |-> k, n |-> 1, endless |-> FALSE] : k \in Kinds \ {"pipeline", "background"}}
  <2>1. PICK k \in Kinds : l = [kind |-> k, n |-> 1, endless |-> FALSE]
    BY <1>2
  <2>2. l.kind = k /\ l.n = 1 /\ l.endless = FALSE
    BY <2>1
  <2>3. k \notin {"none", "suggested"}
    BY ReplAssumption
  <2> QED
    BY <1>1, <2>1, <2>2, <2>3
<1>3. CASE l \in [kind : Kinds \cap {"background"}, n : 1..MaxStages, endless : {FALSE}]
  <2>1. \A n \in 1..MaxStages : n \in 0..MaxStages
    BY <1>1
  <2>2. l.endless = FALSE
    BY <1>3
  <2> QED
    BY <1>3, <2>1, <2>2
<1>4. CASE l \in [kind : Kinds \cap {"pipeline"}, n : 2..MaxStages, endless : BOOLEAN]
  <2>1. \A n \in 2..MaxStages : n \in 1..MaxStages /\ n \in 0..MaxStages
    BY <1>1
  <2> QED
    BY <1>4, <2>1
<1> QED
  BY <1>2, <1>3, <1>4 DEF Lines

LEMMA Constants ==
    /\ Shell \notin Pids /\ NoPipe \notin Pipes /\ MaxStages \in Nat /\ MaxStages >= 1
    /\ Capacity \in Nat /\ Capacity >= 1 /\ MaxLines \in Nat /\ MaxSigints \in Nat
    /\ OneShot \in BOOLEAN /\ Pids \subseteq Procs /\ Shell \in Procs
BY ReplAssumption DEF Procs

LEMMA TypeFacts ==
    ASSUME TypeOK
    PROVE  /\ ends \in EndsType /\ inFd \in PipeOrNone /\ cur \in PipeOrNone
           /\ content \in [Pipes -> 0..Capacity] /\ child \in [Pids -> Children]
           /\ pids \in Seq(Pids) /\ next \in 1..MaxStages /\ pc \in Labels
BY DEF TypeOK, EndsType, PipeOrNone

\* What the shell opens or closes is nothing to the children.
LEMMA ShellOnly ==
    ASSUME TypeOK, KidsHold, child' = child,
           \A x \in Pipes : \A p \in Pids : /\ p \in ends'[x].r <=> p \in ends[x].r
                                            /\ p \in ends'[x].w <=> p \in ends[x].w
    PROVE  KidsHold'
<1>1. \A p \in Pids : child[p].out # NoPipe => child[p].out \in Pipes
  BY DEF TypeOK, Children
<1> QED
  BY <1>1 DEF KidsHold, KidHolds

\* The variables of the main thread, typed.
MainTyped ==
    /\ pc \in Labels
    /\ line \in [kind : Kinds \cup {"none", "suggested"}, n : 0..MaxStages, endless : BOOLEAN]
    /\ pids \in Seq(Pids) /\ next \in 1..MaxStages
    /\ {inFd, cur} \subseteq Pipes \cup {NoPipe}

LEMMA ExecuteTyped ==
    ASSUME NEW l \in Lines, Execute(l, FirstLabel(l.kind))
    PROVE  MainTyped'
<1>1. FirstLabel(l.kind) \in Labels /\ 1 \in 1..MaxStages /\ <<>> \in Seq(Pids)
  BY Constants DEF FirstLabel, Labels
<1> QED
  BY <1>1, LinesFit DEF MainTyped, Execute

LEMMA ReturnTyped ==
    ASSUME Return
    PROVE  MainTyped'
<1>1. 1 \in 1..MaxStages /\ <<>> \in Seq(Pids) /\ 0 \in 0..MaxStages
  BY Constants
<1>2. NoLine \in [kind : Kinds \cup {"none", "suggested"}, n : 0..MaxStages, endless : BOOLEAN]
  BY <1>1 DEF NoLine
<1> QED
  BY <1>1, <1>2 DEF MainTyped, Return, Labels

\* A child that has been waited for.
LEMMA Reaped ==
    ASSUME TypeOK, NEW p \in Pids, child' = [child EXCEPT ![p] = NoChild]
    PROVE  /\ child' \in [Pids -> Children]
           /\ \A q \in Pids : child'[q] = IF q = p THEN NoChild ELSE child[q]
           /\ NoChild.st = "none"
<1>1. NoChild \in Children /\ NoChild.st = "none"
  BY DEF NoChild, Children
<1>2. child \in [Pids -> Children]
  BY DEF TypeOK
<1> HIDE DEF NoChild
<1> QED
  BY <1>1, <1>2

LEMMA ConfirmedLine ==
    ASSUME Confirm
    PROVE  /\ Running /\ pc = "confirm"
           /\ Return \/ \E l \in Lines : Execute(l, FirstLabel(l.kind))
           /\ UNCHANGED <<worker, pipeVars, child, signalVars, over, left, historyVars>>
<1>1. ASSUME NEW k \in Kinds \cap {"builtin", "exit", "external"}
      PROVE  LET l == [kind |-> k, n |-> 1, endless |-> FALSE] IN l \in Lines /\ l.kind = k
  <2>1. k \in Kinds \ {"pipeline", "background"}
    OBVIOUS
  <2> QED
    BY <2>1 DEF Lines
<1>2. ASSUME NEW k \in Kinds \cap {"builtin", "exit", "external"},
             Execute([kind |-> k, n |-> 1, endless |-> FALSE], FirstLabel(k))
      PROVE  \E l \in Lines : Execute(l, FirstLabel(l.kind))
  BY <1>1, <1>2
<1> QED
  BY <1>2 DEF Confirm

LEMMA RegisterDoes ==
    ASSUME TypeOK, Register
    PROVE  /\ child' \in [Pids -> Children]
           /\ \A p \in Pids : /\ child'[p].st = child[p].st /\ child'[p].in = child[p].in
                              /\ child'[p].out = child[p].out
                              /\ child[p].job => child'[p].job
                              /\ (\E k \in 1..Len(pids) : pids[k] = p) => child'[p].job
<1> DEFINE known(p) == child[p].job \/ \E k \in 1..Len(pids) : pids[k] = p
<1>1. child' = [p \in Pids |-> [child[p] EXCEPT !.job = known(p)]]
  BY DEF Register
<1>2. \A p \in Pids : known(p) \in BOOLEAN /\ child[p] \in Children
  BY DEF TypeOK
<1> HIDE DEF known
<1>3. \A p \in Pids : /\ child'[p] \in Children /\ child'[p].st = child[p].st
                      /\ child'[p].in = child[p].in /\ child'[p].out = child[p].out
                      /\ child'[p].job = known(p)
  BY <1>1, <1>2 DEF Children
<1>4. child' \in [Pids -> Children]
  BY <1>1, <1>3
<1> QED
  BY <1>3, <1>4 DEF known

-----------------------------------------------------------------------------
(* Steps of the main thread that leave every pipe end where it is          *)

LEMMA StartKept ==
    ASSUME Inv, StartRepl \/ StartOnce
    PROVE  Inv'
<1> USE Constants, TypeFacts
<1>0. TypeOK /\ ShellHolds /\ LineFits /\ KidsHold /\ WorkerFits /\ Causes /\ Waits
  BY DEF Inv
<1>1. TypeOK'
  <2>1. MainTyped'
    BY ExecuteTyped, ReturnTyped DEF StartRepl, StartOnce
  <2> QED
    BY <1>0, <2>1 DEF TypeOK, MainTyped, StartRepl, StartOnce, pipeVars, signalVars, historyVars
<1>2. ShellHolds'
  BY <1>0, LinesFit DEF ShellHolds, Of, StartRepl, StartOnce, Execute, Return, FirstLabel, pipeVars
<1>3. LineFits'
  BY <1>0, LinesFit DEF LineFits, StartRepl, StartOnce, Execute, Return, FirstLabel, NoLine
<1>4. KidsHold'
  BY <1>0, LinesFit DEF KidsHold, StartRepl, StartOnce, pipeVars
<1>5. WorkerFits'
  BY <1>0, LinesFit DEF WorkerFits, StartRepl, StartOnce, Execute, Return, FirstLabel
<1>6. Causes'
  BY <1>0, LinesFit DEF Causes, DeathHasCause, StartRepl, StartOnce, Running, signalVars
<1>7. Waits'
  BY <1>0, LinesFit DEF Waits, Pending, StartRepl, StartOnce, signalVars, historyVars
<1> QED
  BY <1>1, <1>2, <1>3, <1>4, <1>5, <1>6, <1>7 DEF Inv

LEMMA PromptKept ==
    ASSUME Inv, Prompt
    PROVE  Inv'
<1> USE Constants, TypeFacts
<1>0. TypeOK /\ ShellHolds /\ LineFits /\ KidsHold /\ WorkerFits /\ Causes /\ Waits
  BY DEF Inv
<1>1. TypeOK'
  BY <1>0 DEF TypeOK, Labels, Prompt, pipeVars, historyVars
<1>2. ShellHolds'
  BY <1>0, LinesFit DEF ShellHolds, Prompt, pipeVars
<1>3. LineFits'
  BY <1>0, LinesFit DEF LineFits, Prompt
<1>4. KidsHold'
  BY <1>0, LinesFit DEF KidsHold, Prompt, pipeVars
<1>5. WorkerFits'
  BY <1>0, LinesFit DEF WorkerFits, Prompt
<1>6. Causes'
  BY <1>0, LinesFit DEF Causes, DeathHasCause, Prompt, Running
<1>7. Waits'
  BY <1>0, LinesFit DEF Waits, Pending, Prompt, historyVars
<1> QED
  BY <1>1, <1>2, <1>3, <1>4, <1>5, <1>6, <1>7 DEF Inv

LEMMA ReadKept ==
    ASSUME Inv, ReadLine
    PROVE  Inv'
<1> USE Constants, TypeFacts
<1>0. TypeOK /\ ShellHolds /\ LineFits /\ KidsHold /\ WorkerFits /\ Causes /\ Waits
  BY DEF Inv
<1>1. TypeOK'
  <2>1. MainTyped'
    BY ExecuteTyped, ReturnTyped DEF ReadLine
  <2> QED
    BY <1>0, <2>1 DEF TypeOK, MainTyped, ReadLine, pipeVars, signalVars, historyVars
<1>2. ShellHolds'
  BY <1>0, LinesFit DEF ShellHolds, Of, ReadLine, Execute, Return, FirstLabel, pipeVars
<1>3. LineFits'
  BY <1>0, LinesFit DEF LineFits, ReadLine, Execute, Return, FirstLabel, NoLine
<1>4. KidsHold'
  BY <1>0, LinesFit DEF KidsHold, ReadLine, pipeVars
<1>5. WorkerFits'
  BY <1>0, LinesFit DEF WorkerFits, ReadLine, Execute, Return, FirstLabel
<1>6. Causes'
  BY <1>0, LinesFit DEF Causes, DeathHasCause, ReadLine, Running, signalVars
<1>7. Waits'
  BY <1>0, LinesFit DEF Waits, Pending, ReadLine, signalVars, historyVars
<1> QED
  BY <1>1, <1>2, <1>3, <1>4, <1>5, <1>6, <1>7 DEF Inv

LEMMA ConfirmKept ==
    ASSUME Inv, Confirm
    PROVE  Inv'
<1> USE Constants, TypeFacts
<1>0. TypeOK /\ ShellHolds /\ LineFits /\ KidsHold /\ WorkerFits /\ Causes /\ Waits
  BY DEF Inv
<1>a. /\ Running /\ pc = "confirm"
      /\ Return \/ \E l \in Lines : Execute(l, FirstLabel(l.kind))
      /\ UNCHANGED <<worker, pipeVars, child, signalVars, over, left, historyVars>>
  BY ConfirmedLine
<1>1. TypeOK'
  <2>1. MainTyped'
    BY <1>a, ExecuteTyped, ReturnTyped
  <2> QED
    BY <1>0, <1>a, <2>1 DEF TypeOK, MainTyped, pipeVars, signalVars, historyVars
<1>2. ShellHolds'
  BY <1>0, LinesFit, <1>a DEF ShellHolds, Of, Execute, Return, FirstLabel, pipeVars
<1>3. LineFits'
  BY <1>0, LinesFit, <1>a DEF LineFits, Execute, Return, FirstLabel, NoLine
<1>4. KidsHold'
  BY <1>0, LinesFit, <1>a DEF KidsHold, pipeVars
<1>5. WorkerFits'
  BY <1>0, LinesFit, <1>a DEF WorkerFits, Execute, Return, FirstLabel
<1>6. Causes'
  BY <1>0, LinesFit, <1>a DEF Causes, DeathHasCause, Running, signalVars
<1>7. Waits'
  BY <1>0, LinesFit, <1>a DEF Waits, Pending, signalVars, historyVars
<1> QED
  BY <1>1, <1>2, <1>3, <1>4, <1>5, <1>6, <1>7 DEF Inv

LEMMA RegisterKept ==
    ASSUME Inv, Register
    PROVE  Inv'
<1> USE Constants, TypeFacts
<1>0. TypeOK /\ ShellHolds /\ LineFits /\ KidsHold /\ WorkerFits /\ Causes /\ Waits
  BY DEF Inv
<1>a. /\ child' \in [Pids -> Children]
      /\ \A p \in Pids : /\ child'[p].st = child[p].st /\ child'[p].in = child[p].in
                         /\ child'[p].out = child[p].out
                         /\ child[p].job => child'[p].job
                         /\ (\E k \in 1..Len(pids) : pids[k] = p) => child'[p].job
      /\ pc = "register" /\ Return
      /\ UNCHANGED <<worker, pipeVars, signalVars, over, left, historyVars>>
  BY <1>0, RegisterDoes DEF Register
<1>1. TypeOK'
  <2>1. MainTyped'
    BY <1>a, ReturnTyped
  <2> QED
    BY <1>0, <1>a, <2>1 DEF TypeOK, MainTyped, pipeVars, signalVars, historyVars
<1>2. ShellHolds'
  BY <1>0, <1>a DEF ShellHolds, Return, pipeVars
<1>3. LineFits'
  BY <1>0, <1>a DEF LineFits, Return, NoLine
<1>4. KidsHold'
  BY <1>0, <1>a DEF KidsHold, KidHolds, pipeVars
<1>5. WorkerFits'
  BY <1>0, <1>a DEF WorkerFits, Return
<1>6. Causes'
  BY <1>0, <1>a DEF Causes, DeathHasCause, signalVars, historyVars
<1>7. Waits'
  BY <1>0, <1>a DEF Waits, Pending, signalVars, historyVars
<1> QED
  BY <1>1, <1>2, <1>3, <1>4, <1>5, <1>6, <1>7 DEF Inv

LEMMA WaitStageKept ==
    ASSUME Inv, WaitStage
    PROVE  Inv'
<1> USE Constants, TypeFacts
<1>0. TypeOK /\ ShellHolds /\ LineFits /\ KidsHold /\ WorkerFits /\ Causes /\ Waits
  BY DEF Inv
<1> DEFINE p == pids[next]
<1>a. /\ pc = "wait" /\ p \in Pids /\ next \in 1..line.n /\ Len(pids) = line.n
      /\ \/ /\ MoreToWaitFor(next) /\ next' = next + 1
            /\ UNCHANGED <<pc, line, pids, inFd, cur>>
         \/ ~MoreToWaitFor(next) /\ Return
      /\ UNCHANGED <<worker, pipeVars, signalVars, over, left, historyVars>>
      /\ child' \in [Pids -> Children]
      /\ \A q \in Pids : child'[q] = IF q = p THEN NoChild ELSE child[q]
      /\ NoChild.st = "none" /\ child[p].st = "zombie"
  <2>1. pc = "wait" /\ next \in 1..line.n /\ Len(pids) = line.n /\ line.n \in Nat
    BY <1>0 DEF WaitStage, LineFits
  <2>2. p \in Pids
    BY <1>0, <2>1 DEF TypeOK
  <2> QED
    BY <1>0, <2>1, <2>2, Reaped DEF WaitStage
<1> HIDE DEF p
<1>1. TypeOK'
  <2>1. MainTyped'
    BY <1>0, <1>a, ReturnTyped DEF TypeOK, MainTyped, MoreToWaitFor
  <2> QED
    BY <1>0, <1>a, <2>1 DEF TypeOK, MainTyped, pipeVars, signalVars, historyVars
<1>2. ShellHolds'
  BY <1>0, <1>a DEF ShellHolds, Return, pipeVars
<1>3. LineFits'
  BY <1>0, <1>a DEF LineFits, MoreToWaitFor, Return, NoLine
<1>4. KidsHold'
  BY <1>0, <1>a DEF KidsHold, KidHolds, pipeVars
<1>5. WorkerFits'
  BY <1>0, <1>a DEF WorkerFits, Return
<1>6. Causes'
  BY <1>0, <1>a DEF Causes, DeathHasCause, signalVars, historyVars
<1>7. Waits'
  <2>1. CASE MoreToWaitFor(next)
    <3>1. \A q \in Pids : child'[q].st # "none" /\ ~child'[q].job =>
             q # p /\ child[q].st # "none" /\ ~child[q].job
      BY <1>a
    <3>2. \A k \in next..Len(pids) : pids[k] # p => k \in next + 1 .. Len(pids)
      BY <1>a DEF p
    <3> QED
      BY <1>0, <1>a, <2>1, <3>1, <3>2 DEF Waits, Pending, signalVars, historyVars
  <2>2. CASE ~MoreToWaitFor(next)
    <3>1. next = Len(pids) /\ \A k \in next..Len(pids) : pids[k] = p
      BY <1>a, <2>2 DEF MoreToWaitFor, p
    <3> QED
      BY <1>0, <1>a, <2>2, <3>1 DEF Waits, Pending, signalVars, historyVars
  <2> QED
    BY <2>1, <2>2
<1> QED
  BY <1>1, <1>2, <1>3, <1>4, <1>5, <1>6, <1>7 DEF Inv

LEMMA WaitHelperKept ==
    ASSUME Inv, WaitHelper
    PROVE  Inv'
<1> USE Constants, TypeFacts
<1>0. TypeOK /\ ShellHolds /\ LineFits /\ KidsHold /\ WorkerFits /\ Causes /\ Waits
  BY DEF Inv
<1> DEFINE p == pids[1]
<1>a. /\ pc = "aiWait" /\ p \in Pids /\ Len(pids) = 1 /\ AfterHelper
      /\ UNCHANGED <<worker, pipeVars, signalVars, over, left, historyVars>>
      /\ child' \in [Pids -> Children]
      /\ \A q \in Pids : child'[q] = IF q = p THEN NoChild ELSE child[q]
      /\ NoChild.st = "none" /\ child[p].st = "zombie"
  <2>1. pc = "aiWait" /\ Len(pids) = 1
    BY <1>0 DEF WaitHelper, LineFits
  <2>2. 1 \in 1..Len(pids) /\ pids \in Seq(Pids)
    BY <1>0, <2>1 DEF TypeOK
  <2>3. p \in Pids
    BY <2>2, ElementOfSeq
  <2> QED
    BY <1>0, <2>1, <2>3, Reaped DEF WaitHelper
<1>b. \A k \in 1..Len(pids) : pids[k] = p
  BY <1>a DEF p
<1> HIDE DEF p
<1>1. TypeOK'
  <2>1. MainTyped'
    BY <1>0, <1>a, ReturnTyped DEF TypeOK, MainTyped, AfterHelper, Labels
  <2> QED
    BY <1>0, <1>a, <2>1 DEF TypeOK, MainTyped, pipeVars, signalVars, historyVars
<1>2. ShellHolds'
  BY <1>0, <1>b, <1>a DEF ShellHolds, AfterHelper, Return, pipeVars
<1>3. LineFits'
  BY <1>0, <1>b, <1>a DEF LineFits, AfterHelper, Return, NoLine
<1>4. KidsHold'
  BY <1>0, <1>b, <1>a DEF KidsHold, KidHolds, pipeVars
<1>5. WorkerFits'
  BY <1>0, <1>b, <1>a DEF WorkerFits, AfterHelper, Return
<1>6. Causes'
  BY <1>0, <1>b, <1>a DEF Causes, DeathHasCause, signalVars, historyVars
<1>7. Waits'
  BY <1>0, <1>b, <1>a DEF Waits, Pending, signalVars, historyVars
<1> QED
  BY <1>1, <1>2, <1>3, <1>4, <1>5, <1>6, <1>7 DEF Inv

LEMMA BuiltinReturnsKept ==
    ASSUME Inv, BuiltinReturns
    PROVE  Inv'
<1> USE Constants, TypeFacts
<1>0. TypeOK /\ ShellHolds /\ LineFits /\ KidsHold /\ WorkerFits /\ Causes /\ Waits
  BY DEF Inv
<1>1. TypeOK'
  BY <1>0 DEF TypeOK, BuiltinReturns, pipeVars, signalVars, historyVars, mainVars
<1>2. ShellHolds'
  BY <1>0, LinesFit DEF ShellHolds, BuiltinReturns, pipeVars, mainVars
<1>3. LineFits'
  BY <1>0, LinesFit DEF LineFits, BuiltinReturns, mainVars
<1>4. KidsHold'
  BY <1>0, LinesFit DEF KidsHold, BuiltinReturns, pipeVars
<1>5. WorkerFits'
  BY <1>0, LinesFit DEF WorkerFits, BuiltinReturns, pipeVars, historyVars, mainVars
<1>6. Causes'
  BY <1>0, LinesFit DEF Causes, DeathHasCause, BuiltinReturns, Running, signalVars
<1>7. Waits'
  BY <1>0, LinesFit DEF Waits, Pending, BuiltinReturns, signalVars, historyVars, mainVars
<1> QED
  BY <1>1, <1>2, <1>3, <1>4, <1>5, <1>6, <1>7 DEF Inv

-----------------------------------------------------------------------------
(* Steps that open or close the shell's ends                               *)

LEMMA EndOfInputKept ==
    ASSUME Inv, EndOfInput
    PROVE  Inv'
<1> USE Constants, TypeFacts
<1>0. TypeOK /\ ShellHolds /\ LineFits /\ KidsHold /\ WorkerFits /\ Causes /\ Waits
  BY DEF Inv
<1>a. /\ over = "no" /\ over' = "exit" /\ pc = "read" /\ pc' = "gone"
      /\ ends' \in EndsType
      /\ \A x \in Pipes :
           /\ ends'[x].r = ends[x].r \ {Shell}
           /\ ends'[x].w = ends[x].w \ {Shell}
      /\ UNCHANGED <<line, pids, next, inFd, cur, worker, content, child, signalVars, left,
                     historyVars>>
  BY <1>0, ClosedAll DEF EndOfInput, Running
<1>1. TypeOK'
  BY <1>0, <1>a DEF TypeOK, Labels, EndsType, signalVars, historyVars
<1>2. ShellHolds'
  BY <1>0, <1>a DEF ShellHolds, ReadEnds, WriteEnds
<1>3. LineFits'
  BY <1>0, <1>a DEF LineFits
<1>4. KidsHold'
  BY <1>0, <1>a, ShellOnly
<1>5. WorkerFits'
  BY <1>0, <1>a DEF WorkerFits
<1>6. Causes'
  BY <1>0, <1>a DEF Causes, DeathHasCause, signalVars
<1>7. Waits'
  BY <1>0, <1>a DEF Waits
<1> QED
  BY <1>1, <1>2, <1>3, <1>4, <1>5, <1>6, <1>7 DEF Inv

LEMMA BuiltinExitsKept ==
    ASSUME Inv, BuiltinExits
    PROVE  Inv'
<1> USE Constants, TypeFacts
<1>0. TypeOK /\ ShellHolds /\ LineFits /\ KidsHold /\ WorkerFits /\ Causes /\ Waits
  BY DEF Inv
<1>a. /\ over = "no" /\ over' = "exit" /\ worker' = "none" /\ pc' = "gone"
      /\ ends' \in EndsType
      /\ \A x \in Pipes :
           /\ ends'[x].r = ends[x].r \ {Shell}
           /\ ends'[x].w = ends[x].w \ {Shell}
      /\ UNCHANGED <<line, pids, next, inFd, cur, content, child, signalVars, left,
                     historyVars>>
  BY <1>0, ClosedAll DEF BuiltinExits, Running
<1>1. TypeOK'
  BY <1>0, <1>a DEF TypeOK, Labels, EndsType, signalVars, historyVars
<1>2. ShellHolds'
  BY <1>0, <1>a DEF ShellHolds, ReadEnds, WriteEnds
<1>3. LineFits'
  BY <1>0, <1>a DEF LineFits
<1>4. KidsHold'
  BY <1>0, <1>a, ShellOnly
<1>5. WorkerFits'
  BY <1>0, <1>a DEF WorkerFits
<1>6. Causes'
  BY <1>0, <1>a DEF Causes, DeathHasCause, signalVars
<1>7. Waits'
  BY <1>0, <1>a DEF Waits
<1> QED
  BY <1>1, <1>2, <1>3, <1>4, <1>5, <1>6, <1>7 DEF Inv

\* What pipe(2) leaves behind, when it is called.
LEMMA PipeMade ==
    ASSUME TypeOK, MakePipe, NeedsPipe
    PROVE  /\ cur' \in Pipes /\ ends[cur'].r = {} /\ ends[cur'].w = {}
           /\ ends' \in EndsType
           /\ \A x \in Pipes : /\ ends'[x].r = IF x = cur' THEN {Shell} ELSE ends[x].r
                               /\ ends'[x].w = IF x = cur' THEN {Shell} ELSE ends[x].w
           /\ content' \in [Pipes -> 0..Capacity]
           /\ \A x \in Pipes : content'[x] = IF x = cur' THEN 0 ELSE content[x]
<1> DEFINE q == Min(FreePipes)
<1>1. /\ FreePipes # {} /\ cur' = q /\ content' = [content EXCEPT ![q] = 0]
      /\ ends' = [ends EXCEPT ![q] = [r |-> {Shell}, w |-> {Shell}]]
  BY DEF MakePipe
<1>2. q \in Pipes /\ ends[q].r = {} /\ ends[q].w = {}
  BY <1>1, FreePipe
<1> HIDE DEF q
<1>3. content' \in [Pipes -> 0..Capacity] /\ \A x \in Pipes : content'[x] = IF x = q THEN 0 ELSE content[x]
  BY <1>1, <1>2, TypeFacts, Constants
<1>4. ends \in EndsType
  BY TypeFacts
<1>5. /\ ends' \in EndsType
      /\ \A x \in Pipes : /\ ends'[x].r = IF x = q THEN {Shell} ELSE ends[x].r
                          /\ ends'[x].w = IF x = q THEN {Shell} ELSE ends[x].w
  <2> DEFINE opened == [ends EXCEPT ![q] = [r |-> {Shell}, w |-> {Shell}]]
  <2>1. ends' = opened
    BY <1>1
  <2>2. opened \in EndsType
    BY <1>2, <1>4, Opened
  <2>3. \A x \in Pipes : /\ opened[x].r = IF x = q THEN {Shell} ELSE ends[x].r
                         /\ opened[x].w = IF x = q THEN {Shell} ELSE ends[x].w
    BY <1>2, <1>4 DEF EndsType
  <2> HIDE DEF opened
  <2> QED
    BY <2>1, <2>2, <2>3
<1> QED
  BY <1>1, <1>2, <1>3, <1>5

LEMMA MakePipeKept ==
    ASSUME Inv, MakePipe
    PROVE  Inv'
<1> USE Constants, TypeFacts
<1>0. TypeOK /\ ShellHolds /\ LineFits /\ KidsHold /\ WorkerFits /\ Causes /\ Waits
  BY DEF Inv
<1>a. /\ pc = "pipe" /\ pc' = IF line.kind \in {"builtin", "exit"} THEN "thread" ELSE "fork"
      /\ ~NeedsPipe => UNCHANGED <<ends, content, cur>>
      /\ UNCHANGED <<line, pids, next, inFd, worker, child, signalVars, over, left, historyVars>>
  BY DEF MakePipe
<1>b. NeedsPipe =>
        /\ cur' \in Pipes /\ cur' # NoPipe /\ ends[cur'].r = {} /\ ends[cur'].w = {}
        /\ ends' \in EndsType
        /\ \A x \in Pipes : /\ ends'[x].r = IF x = cur' THEN {Shell} ELSE ends[x].r
                            /\ ends'[x].w = IF x = cur' THEN {Shell} ELSE ends[x].w
        /\ content' \in [Pipes -> 0..Capacity]
        /\ \A x \in Pipes : content'[x] = IF x = cur' THEN 0 ELSE content[x]
  BY <1>0, PipeMade
<1>c. /\ line.n \in Nat /\ next \in 1..line.n
      /\ cur = NoPipe /\ ReadEnds(ends) = Of(inFd) /\ WriteEnds(ends) = {}
  BY <1>0, <1>a DEF LineFits, TypeOK, ShellHolds
<1>1. TypeOK'
  BY <1>0, <1>a, <1>b DEF TypeOK, Labels, EndsType, signalVars, historyVars
<1>2. ShellHolds'
  <2>1. CASE NeedsPipe
    <3>1. ReadEnds(ends') = Of(inFd) \cup {cur'} /\ WriteEnds(ends') = {cur'} /\ cur' # inFd
      BY <1>b, <1>c, <2>1 DEF ReadEnds, WriteEnds, Of
    <3>2. line.kind \in {"builtin", "exit"} => inFd = NoPipe
      BY <1>0, <1>a DEF LineFits
    <3> QED
      BY <1>a, <1>b, <2>1, <3>1, <3>2 DEF ShellHolds, Of
  <2>2. CASE ~NeedsPipe
    BY <1>a, <1>c, <2>2 DEF ShellHolds, Of, NeedsPipe
  <2> QED
    BY <2>1, <2>2
<1>3. LineFits'
  BY <1>0, <1>b, <1>c, <1>a DEF LineFits, NeedsPipe
<1>4. KidsHold'
  BY <1>0, <1>a, <1>b, ShellOnly
<1>5. WorkerFits'
  BY <1>0, <1>b, <1>c, <1>a DEF WorkerFits, NeedsPipe
<1>6. Causes'
  BY <1>0, <1>b, <1>c, <1>a DEF Causes, DeathHasCause, signalVars, historyVars
<1>7. Waits'
  BY <1>0, <1>b, <1>c, <1>a DEF Waits, Pending, LineFits, signalVars, historyVars
<1> QED
  BY <1>1, <1>2, <1>3, <1>4, <1>5, <1>6, <1>7 DEF Inv

LEMMA PipeFailsKept ==
    ASSUME Inv, PipeFails
    PROVE  Inv'
<1> USE Constants, TypeFacts
<1>0. TypeOK /\ ShellHolds /\ LineFits /\ KidsHold /\ WorkerFits /\ Causes /\ Waits
  BY DEF Inv
<1>a. /\ pc = "pipe" /\ faults' = TRUE /\ Return
      /\ ends' \in EndsType
      /\ \A x \in Pipes :
           /\ ends'[x].r = IF x = inFd THEN ends[x].r \ {Shell} ELSE ends[x].r
           /\ ends'[x].w = ends[x].w
      /\ UNCHANGED <<content, worker, child, signalVars, over, left, torn>>
  <2> DEFINE e == AfterPipeFails(ends)
  <2>1. e \in EndsType /\ \A x \in Pipes : /\ R(e, x) = IF x = inFd THEN R(ends, x) \ {Shell} ELSE R(ends, x)
                                           /\ W(e, x) = W(ends, x)
    BY <1>0, ClosedRead DEF AfterPipeFails
  <2>2. /\ pc = "pipe" /\ faults' = TRUE /\ Return /\ ends' = e
        /\ UNCHANGED <<content, worker, child, signalVars, over, left, torn>>
    BY DEF PipeFails
  <2> HIDE DEF e
  <2> QED
    BY <2>1, <2>2 DEF R, W
<1>1. TypeOK'
  <2>1. MainTyped'
    BY <1>a, ReturnTyped
  <2> QED
    BY <1>0, <1>a, <2>1 DEF TypeOK, EndsType, MainTyped, signalVars
<1>2. ShellHolds'
  <2>1. ReadEnds(ends) = Of(inFd) /\ WriteEnds(ends) = {}
    BY <1>0, <1>a DEF ShellHolds
  <2>2. \A x \in Pipes : Shell \notin ends'[x].r /\ Shell \notin ends'[x].w
    BY <1>a, <2>1 DEF ReadEnds, WriteEnds, Of
  <2>3. ReadEnds(ends') = {} /\ WriteEnds(ends') = {}
    BY <2>2 DEF ReadEnds, WriteEnds
  <2> QED
    BY <1>a, <2>3 DEF ShellHolds, Return
<1>3. LineFits'
  BY <1>0, <1>a DEF LineFits, Return, NoLine
<1>4. KidsHold'
  BY <1>0, <1>a, ShellOnly
<1>5. WorkerFits'
  BY <1>0, <1>a DEF WorkerFits, Return
<1>6. Causes'
  BY <1>0, <1>a DEF Causes, DeathHasCause, signalVars
<1>7. Waits'
  BY <1>0, <1>a DEF Waits
<1> QED
  BY <1>1, <1>2, <1>3, <1>4, <1>5, <1>6, <1>7 DEF Inv

LEMMA ForkFailsKept ==
    ASSUME Inv, ForkFails
    PROVE  Inv'
<1> USE Constants, TypeFacts
<1>0. TypeOK /\ ShellHolds /\ LineFits /\ KidsHold /\ WorkerFits /\ Causes /\ Waits
  BY DEF Inv
<1>a. /\ pc = "fork" /\ faults' = TRUE /\ Return
      /\ ends' \in EndsType
      /\ \A x \in Pipes :
           /\ ends'[x].r = IF x = inFd \/ x = cur THEN ends[x].r \ {Shell} ELSE ends[x].r
           /\ ends'[x].w = IF x = cur THEN ends[x].w \ {Shell} ELSE ends[x].w
      /\ UNCHANGED <<content, worker, child, signalVars, over, left, torn>>
  <2> DEFINE e == Close(ends, Shell, cur, "r")
             f == Close(e, Shell, cur, "w")
             g == Close(f, Shell, inFd, "r")
  <2>1. /\ e \in EndsType
        /\ \A x \in Pipes : /\ R(e, x) = IF x = cur THEN R(ends, x) \ {Shell} ELSE R(ends, x)
                            /\ W(e, x) = W(ends, x)
    BY <1>0, ClosedRead
  <2>4. /\ pc = "fork" /\ faults' = TRUE /\ Return /\ ends' = g
        /\ UNCHANGED <<content, worker, child, signalVars, over, left, torn>>
    BY DEF ForkFails, AfterForkFails
  <2> HIDE DEF e
  <2>2. /\ f \in EndsType
        /\ \A x \in Pipes : /\ R(f, x) = R(e, x)
                            /\ W(f, x) = IF x = cur THEN W(e, x) \ {Shell} ELSE W(e, x)
    BY <1>0, <2>1, ClosedWrite
  <2> HIDE DEF f
  <2>3. /\ g \in EndsType
        /\ \A x \in Pipes : /\ R(g, x) = IF x = inFd THEN R(f, x) \ {Shell} ELSE R(f, x)
                            /\ W(g, x) = W(f, x)
    BY <1>0, <2>2, ClosedRead
  <2> HIDE DEF g
  <2> QED
    BY <2>1, <2>2, <2>3, <2>4 DEF R, W
<1>1. TypeOK'
  <2>1. MainTyped'
    BY <1>a, ReturnTyped
  <2> QED
    BY <1>0, <1>a, <2>1 DEF TypeOK, EndsType, MainTyped, signalVars
<1>2. ShellHolds'
  <2>1. ReadEnds(ends) = Of(inFd) \cup Of(cur) /\ WriteEnds(ends) = Of(cur)
    BY <1>0, <1>a DEF ShellHolds
  <2>2. \A x \in Pipes : Shell \notin ends'[x].r /\ Shell \notin ends'[x].w
    BY <1>a, <2>1 DEF ReadEnds, WriteEnds, Of
  <2>3. ReadEnds(ends') = {} /\ WriteEnds(ends') = {}
    BY <2>2 DEF ReadEnds, WriteEnds
  <2> QED
    BY <1>a, <2>3 DEF ShellHolds, Return
<1>3. LineFits'
  BY <1>0, <1>a DEF LineFits, Return, NoLine
<1>4. KidsHold'
  BY <1>0, <1>a, ShellOnly
<1>5. WorkerFits'
  BY <1>0, <1>a DEF WorkerFits, Return
<1>6. Causes'
  BY <1>0, <1>a DEF Causes, DeathHasCause, signalVars
<1>7. Waits'
  BY <1>0, <1>a DEF Waits
<1> QED
  BY <1>1, <1>2, <1>3, <1>4, <1>5, <1>6, <1>7 DEF Inv

\* What fork(2) adds: a child with a copy of the shell's ends.
LEMMA Forked ==
    ASSUME TypeOK, Fork
    PROVE  \E p \in Pids :
             /\ child[p].st = "none" /\ child' \in [Pids -> Children]
             /\ child'[p].st = "forked" /\ child'[p].in = inFd /\ child'[p].out = cur
             /\ \A q \in Pids : q # p => child'[q] = child[q]
             /\ ends' \in EndsType
             /\ \A x \in Pipes :
                  /\ ends'[x].r = IF Shell \in ends[x].r THEN ends[x].r \cup {p} ELSE ends[x].r
                  /\ ends'[x].w = IF Shell \in ends[x].w THEN ends[x].w \cup {p} ELSE ends[x].w
             /\ pids' = Append(pids, p)
<1> DEFINE p == Min(FreePids)
           new == [NoChild EXCEPT !.st = "forked", !.in = inFd, !.out = cur]
<1>1. /\ FreePids # {} /\ child' = [child EXCEPT ![p] = new] /\ ends' = Inherit(ends, p)
      /\ pids' = Append(pids, p)
  BY DEF Fork
<1>2. p \in Pids /\ child[p].st = "none"
  BY <1>1, FreePid
<1>3. new \in Children /\ new.st = "forked" /\ new.in = inFd /\ new.out = cur
  BY DEF NoChild, Children, TypeOK
<1> HIDE DEF p, new
<1>4. /\ child' \in [Pids -> Children] /\ child'[p] = new
      /\ \A q \in Pids : q # p => child'[q] = child[q]
  BY <1>1, <1>2, <1>3 DEF TypeOK
<1>5. ends \in EndsType /\ p \in Procs
  BY <1>2, TypeFacts, Constants
<1>6. /\ ends' \in EndsType
      /\ \A x \in Pipes :
           /\ ends'[x].r = IF Shell \in ends[x].r THEN ends[x].r \cup {p} ELSE ends[x].r
           /\ ends'[x].w = IF Shell \in ends[x].w THEN ends[x].w \cup {p} ELSE ends[x].w
  BY <1>1, <1>5, Inherited
<1> QED
  BY <1>1, <1>2, <1>3, <1>4, <1>6

LEMMA ForkKept ==
    ASSUME Inv, Fork
    PROVE  Inv'
<1> USE Constants, TypeFacts
<1>0. TypeOK /\ ShellHolds /\ LineFits /\ KidsHold /\ WorkerFits /\ Causes /\ Waits
  BY DEF Inv
<1>p. PICK p \in Pids :
        /\ child[p].st = "none" /\ child' \in [Pids -> Children]
        /\ child'[p].st = "forked" /\ child'[p].in = inFd /\ child'[p].out = cur
        /\ \A q \in Pids : q # p => child'[q] = child[q]
        /\ ends' \in EndsType
        /\ \A x \in Pipes :
             /\ ends'[x].r = IF Shell \in ends[x].r THEN ends[x].r \cup {p} ELSE ends[x].r
             /\ ends'[x].w = IF Shell \in ends[x].w THEN ends[x].w \cup {p} ELSE ends[x].w
        /\ pids' = Append(pids, p)
  BY <1>0, Forked
<1>a. /\ pc = "fork" /\ pc' = "parent"
      /\ UNCHANGED <<line, next, inFd, cur, worker, content, signalVars, over, left, historyVars>>
  BY DEF Fork
<1>b. /\ pids' \in Seq(Pids) /\ Len(pids') = Len(pids) + 1 /\ pids'[Len(pids')] = p
      /\ \A k \in 1..Len(pids) : pids'[k] = pids[k]
  BY <1>0, <1>p
<1>c. ReadEnds(ends) = Of(inFd) \cup Of(cur) /\ WriteEnds(ends) = Of(cur)
  BY <1>0, <1>a DEF ShellHolds
<1>d. next \in Nat /\ line.n \in Nat /\ Len(pids) = next - 1
  BY <1>0, <1>a DEF LineFits, TypeOK
<1>1. TypeOK'
  BY <1>0, <1>a, <1>b, <1>p DEF TypeOK, EndsType, Labels, signalVars, historyVars
<1>2. ShellHolds'
  <2>1. ReadEnds(ends') = ReadEnds(ends) /\ WriteEnds(ends') = WriteEnds(ends)
    BY <1>p DEF ReadEnds, WriteEnds
  <2> QED
    BY <1>0, <1>a, <2>1 DEF ShellHolds
<1>3. LineFits'
  BY <1>0, <1>a, <1>b, <1>d DEF LineFits
<1>4. KidsHold'
  <2>1. \A x \in Pipes : /\ Shell \in ends[x].r => x = inFd \/ x = cur
                         /\ Shell \in ends[x].w <=> x = cur
    BY <1>c DEF ReadEnds, WriteEnds, Of
  <2>2. KidHolds(p, child'[p], ends')
    <3>1. \A x \in Pipes : p \notin ends[x].r /\ p \notin ends[x].w
      BY <1>0, <1>p DEF KidsHold, KidHolds
    <3> DEFINE c == child'[p]
    <3>2. c.st = "forked" /\ c.in = inFd /\ c.out = cur
      BY <1>p
    <3> HIDE DEF c
    <3>3. \A x \in Pipes : /\ p \in ends'[x].r => x = inFd \/ x = cur
                           /\ p \in ends'[x].w <=> x = cur
      BY <1>p, <2>1, <3>1
    <3>4. cur # NoPipe => cur \in Pipes
      BY <1>0 DEF PipeOrNone
    <3>a. c.st \notin {"none", "zombie"}
      BY <3>2
    <3>b. c.out # NoPipe => p \in ends'[c.out].w
      BY <3>2, <3>3, <3>4
    <3>c. \A x \in Pipes : /\ p \in ends'[x].r => x = c.in \/ (x = c.out /\ c.st = "forked")
                           /\ p \in ends'[x].w => x = c.out
      BY <3>2, <3>3
    <3>5. KidHolds(p, c, ends')
      BY <3>a, <3>b, <3>c DEF KidHolds
    <3> QED
      BY <3>5 DEF c
  <2>3. ASSUME NEW q \in Pids, q # p
        PROVE  KidHolds(q, child'[q], ends')
    <3>1. \A x \in Pipes : /\ q \in ends'[x].r <=> q \in ends[x].r
                           /\ q \in ends'[x].w <=> q \in ends[x].w
      <4>1. TAKE x \in Pipes
      <4>2. /\ ends'[x].r = ends[x].r \/ ends'[x].r = ends[x].r \cup {p}
            /\ ends'[x].w = ends[x].w \/ ends'[x].w = ends[x].w \cup {p}
        BY <1>p
      <4> QED
        BY <2>3, <4>2
    <3>2. KidHolds(q, child[q], ends) /\ child'[q] = child[q]
      BY <1>0, <1>p, <2>3 DEF KidsHold
    <3>3. child[q].out # NoPipe => child[q].out \in Pipes
      BY <1>0 DEF Children
    <3>4. KidHolds(q, child[q], ends)
      BY <3>2
    <3> DEFINE c == child[q]
    <3>5. c.out # NoPipe => c.out \in Pipes
      BY <3>3
    <3>6. KidHolds(q, c, ends)
      BY <3>4
    <3> HIDE DEF c
    <3>a. c.st \in {"none", "zombie"} => \A x \in Pipes : q \notin ends'[x].r /\ q \notin ends'[x].w
      BY <3>1, <3>6 DEF KidHolds
    <3>b. c.st \in {"forked", "running"} /\ c.out # NoPipe => q \in ends'[c.out].w
      BY <3>1, <3>5, <3>6 DEF KidHolds
    <3>c. c.st \in {"forked", "running"} =>
            \A x \in Pipes : /\ q \in ends'[x].r => x = c.in \/ (x = c.out /\ c.st = "forked")
                             /\ q \in ends'[x].w => x = c.out
      BY <3>1, <3>6 DEF KidHolds
    <3>7. KidHolds(q, c, ends')
      BY <3>a, <3>b, <3>c DEF KidHolds
    <3> QED
      BY <3>2, <3>7 DEF c
  <2> QED
    BY <2>2, <2>3 DEF KidsHold
<1>5. WorkerFits'
  BY <1>0, <1>a DEF WorkerFits
<1>6. Causes'
  BY <1>0, <1>a DEF Causes, DeathHasCause, signalVars, historyVars
<1>7. Waits'
  <2> SUFFICES ASSUME sigints = 0, ~faults, NEW q \in Pending'
               PROVE  \E k \in 1..Len(pids') : pids'[k] = q
    BY <1>a DEF Waits, signalVars, historyVars
  <2>1. CASE q = p
    BY <1>b, <2>1
  <2>2. CASE q # p
    <3>1. q \in Pending
      BY <1>p, <2>2 DEF Pending
    <3>2. PICK k \in 1..Len(pids) : pids[k] = q
      BY <1>0, <1>a, <3>1 DEF Waits
    <3> QED
      BY <1>b, <3>2
  <2> QED
    BY <2>1, <2>2
<1> QED
  BY <1>1, <1>2, <1>3, <1>4, <1>5, <1>6, <1>7 DEF Inv

LEMMA AfterForkKept ==
    ASSUME Inv, AfterFork
    PROVE  Inv'
<1> USE Constants, TypeFacts
<1>0. TypeOK /\ ShellHolds /\ LineFits /\ KidsHold /\ WorkerFits /\ Causes /\ Waits
  BY DEF Inv
<1> DEFINE e == Close(ends, Shell, inFd, "r")
           f == Close(e, Shell, cur, "w")
<1>e. /\ e \in EndsType
      /\ \A x \in Pipes : /\ R(e, x) = IF x = inFd THEN R(ends, x) \ {Shell} ELSE R(ends, x)
                          /\ W(e, x) = W(ends, x)
  BY <1>0, ClosedRead
<1>g. ends' = f
  BY DEF AfterFork, ParentCloses
<1> HIDE DEF e
<1>f. /\ f \in EndsType
      /\ \A x \in Pipes : /\ R(f, x) = R(e, x)
                          /\ W(f, x) = IF x = cur THEN W(e, x) \ {Shell} ELSE W(e, x)
  BY <1>0, <1>e, ClosedWrite
<1> HIDE DEF f
<1>a. /\ pc = "parent" /\ ends' \in EndsType
      /\ \A x \in Pipes : /\ ends'[x].r = IF x = inFd THEN ends[x].r \ {Shell} ELSE ends[x].r
                          /\ ends'[x].w = IF x = cur THEN ends[x].w \ {Shell} ELSE ends[x].w
      /\ UNCHANGED <<line, pids, content, worker, child, signalVars, over, left, historyVars>>
  BY <1>e, <1>f, <1>g DEF AfterFork, R, W
<1>b. \/ /\ next < line.n /\ next' = next + 1 /\ inFd' = cur /\ cur' = NoPipe /\ pc' = "pipe"
      \/ /\ next >= line.n /\ next' = 1 /\ inFd' = NoPipe /\ UNCHANGED cur
         /\ pc' = CASE line.kind = "background" -> "register"
                    [] line.kind = "ai"         -> "aiRead"
                    [] OTHER                    -> "wait"
  BY <1>0 DEF AfterFork, TypeOK
<1>c. /\ next \in 1..line.n /\ line.n \in 0..MaxStages /\ Len(pids) = next
      /\ IF line.kind = "ai" THEN cur # NoPipe ELSE next < line.n \/ cur = NoPipe
      /\ line.kind = "ai" => line.n = 1
  BY <1>0, <1>a DEF LineFits, TypeOK
<1>1. TypeOK'
  <2>1. next' \in 1..MaxStages /\ pc' \in Labels
    BY <1>b, <1>c DEF Labels
  <2> QED
    BY <1>0, <1>a, <1>b, <2>1 DEF TypeOK, EndsType, signalVars, historyVars
<1>2. ShellHolds'
  <2>1. ReadEnds(ends) = Of(inFd) \cup Of(cur) /\ WriteEnds(ends) = Of(cur) /\ (inFd = NoPipe \/ inFd # cur)
    BY <1>0, <1>a DEF ShellHolds
  <2>2. \A x \in Pipes : /\ Shell \in ends'[x].r <=> x = cur
                         /\ Shell \notin ends'[x].w
    BY <1>a, <2>1 DEF ReadEnds, WriteEnds, Of
  <2>3. ReadEnds(ends') = Of(cur) /\ WriteEnds(ends') = {}
    BY <1>0, <2>2 DEF ReadEnds, WriteEnds, Of, PipeOrNone
  <2>4. CASE next < line.n
    BY <1>b, <1>c, <2>3, <2>4 DEF ShellHolds
  <2>5. CASE next >= line.n
    BY <1>0, <1>b, <1>c, <2>3, <2>5 DEF ShellHolds, Of, PipeOrNone
  <2> QED
    BY <1>c, <2>4, <2>5
<1>3. LineFits'
  BY <1>0, <1>a, <1>b, <1>c DEF LineFits
<1>4. KidsHold'
  BY <1>0, <1>a, ShellOnly
<1>5. WorkerFits'
  BY <1>0, <1>a, <1>b DEF WorkerFits
<1>6. Causes'
  BY <1>0, <1>a DEF Causes, DeathHasCause, signalVars, historyVars
<1>7. Waits'
  <2>1. Pending' = Pending
    BY <1>a DEF Pending
  <2>2. pc' = "wait" => next' = 1
    BY <1>b
  <2> QED
    BY <1>0, <1>a, <1>b, <2>1, <2>2 DEF Waits, signalVars, historyVars
<1> QED
  BY <1>1, <1>2, <1>3, <1>4, <1>5, <1>6, <1>7 DEF Inv

-----------------------------------------------------------------------------
(* The status pipe and the suggestion's pipe                               *)

\* Both ends of the pipe are closed again.
LEMMA StatusPipeClosed ==
    ASSUME TypeOK
    PROVE  LET f == CloseStatusPipe(ends) IN
           /\ f \in EndsType
           /\ \A x \in Pipes : /\ R(f, x) = IF x = cur THEN R(ends, x) \ {Shell} ELSE R(ends, x)
                               /\ W(f, x) = IF x = cur THEN W(ends, x) \ {Shell} ELSE W(ends, x)
<1> USE TypeFacts
<1> DEFINE e == Close(ends, Shell, cur, "r")
           f == Close(e, Shell, cur, "w")
<1>1. /\ e \in EndsType
      /\ \A x \in Pipes : /\ R(e, x) = IF x = cur THEN R(ends, x) \ {Shell} ELSE R(ends, x)
                          /\ W(e, x) = W(ends, x)
  BY ClosedRead
<1>2. f = CloseStatusPipe(ends)
  BY DEF CloseStatusPipe
<1> HIDE DEF e
<1>3. /\ f \in EndsType
      /\ \A x \in Pipes : /\ R(f, x) = R(e, x)
                          /\ W(f, x) = IF x = cur THEN W(e, x) \ {Shell} ELSE W(e, x)
  BY <1>1, ClosedWrite
<1> HIDE DEF f
<1> QED
  BY <1>1, <1>2, <1>3

LEMMA ThreadRunsKept ==
    ASSUME Inv, CreateThread, worker' = "running"
    PROVE  Inv'
<1> USE Constants, TypeFacts
<1>0. TypeOK /\ ShellHolds /\ LineFits /\ KidsHold /\ WorkerFits /\ Causes /\ Waits
  BY DEF Inv
<1>a. /\ pc = "thread" /\ pc' = "status" /\ worker' = "running"
      /\ UNCHANGED <<ends, line, pids, next, inFd, cur, content, child, signalVars, over, left,
                     historyVars>>
  <2>1. pc = "thread" /\ worker = "none"
    BY <1>0 DEF CreateThread, WorkerFits
  <2> QED
    BY <2>1 DEF CreateThread
<1>1. TypeOK'
  BY <1>0, <1>a DEF TypeOK, Labels, signalVars, historyVars
<1>2. ShellHolds'
  BY <1>0, <1>a DEF ShellHolds
<1>3. LineFits'
  BY <1>0, <1>a DEF LineFits
<1>4. KidsHold'
  BY <1>0, <1>a DEF KidsHold
<1>5. WorkerFits'
  BY <1>0, <1>a DEF WorkerFits
<1>6. Causes'
  BY <1>0, <1>a DEF Causes, DeathHasCause, signalVars, historyVars
<1>7. Waits'
  BY <1>0, <1>a DEF Waits, Pending, signalVars, historyVars
<1> QED
  BY <1>1, <1>2, <1>3, <1>4, <1>5, <1>6, <1>7 DEF Inv

LEMMA ThreadFailsKept ==
    ASSUME Inv, CreateThread, worker' # "running"
    PROVE  Inv'
<1> USE Constants, TypeFacts
<1>0. TypeOK /\ ShellHolds /\ LineFits /\ KidsHold /\ WorkerFits /\ Causes /\ Waits
  BY DEF Inv
<1>s. /\ CloseStatusPipe(ends) \in EndsType
      /\ \A x \in Pipes :
           /\ R(CloseStatusPipe(ends), x) = IF x = cur THEN R(ends, x) \ {Shell} ELSE R(ends, x)
           /\ W(CloseStatusPipe(ends), x) = IF x = cur THEN W(ends, x) \ {Shell} ELSE W(ends, x)
  BY <1>0, StatusPipeClosed
<1>b. /\ pc = "thread" /\ Return /\ UNCHANGED worker /\ ends' = CloseStatusPipe(ends)
      /\ UNCHANGED <<content, child, signalVars, over, left, historyVars>>
  BY DEF CreateThread
<1> DEFINE f == CloseStatusPipe(ends)
<1> HIDE DEF f
<1>c. ends' = f
  BY <1>b DEF f
<1>a. /\ pc = "thread" /\ Return /\ UNCHANGED worker
      /\ ends' \in EndsType
      /\ \A x \in Pipes :
           /\ ends'[x].r = IF x = cur THEN ends[x].r \ {Shell} ELSE ends[x].r
           /\ ends'[x].w = IF x = cur THEN ends[x].w \ {Shell} ELSE ends[x].w
      /\ UNCHANGED <<content, child, signalVars, over, left, historyVars>>
  <2>1. /\ f \in EndsType
        /\ \A x \in Pipes : /\ R(f, x) = IF x = cur THEN R(ends, x) \ {Shell} ELSE R(ends, x)
                            /\ W(f, x) = IF x = cur THEN W(ends, x) \ {Shell} ELSE W(ends, x)
    BY <1>s DEF f
  <2> QED
    BY <1>b, <1>c, <2>1 DEF R, W
<1>1. TypeOK'
  <2>1. MainTyped'
    BY <1>0, <1>a, ReturnTyped
  <2> QED
    BY <1>0, <1>a, <2>1 DEF TypeOK, EndsType, MainTyped, signalVars, historyVars
<1>2. ShellHolds'
  <2>1. ReadEnds(ends) = {cur} /\ WriteEnds(ends) = {cur}
    BY <1>0, <1>a DEF ShellHolds
  <2>2. \A x \in Pipes : Shell \notin ends'[x].r /\ Shell \notin ends'[x].w
    BY <1>a, <2>1 DEF ReadEnds, WriteEnds
  <2>3. ReadEnds(ends') = {} /\ WriteEnds(ends') = {}
    BY <2>2 DEF ReadEnds, WriteEnds
  <2> QED
    BY <1>a, <2>3 DEF ShellHolds, Return
<1>3. LineFits'
  BY <1>0, <1>a DEF LineFits, Return, NoLine
<1>4. KidsHold'
  BY <1>0, <1>a, ShellOnly
<1>5. WorkerFits'
  BY <1>0, <1>a DEF WorkerFits, Return
<1>6. Causes'
  BY <1>0, <1>a DEF Causes, DeathHasCause, signalVars, historyVars
<1>7. Waits'
  BY <1>0, <1>a DEF Waits, Pending, signalVars, historyVars
<1> QED
  BY <1>1, <1>2, <1>3, <1>4, <1>5, <1>6, <1>7 DEF Inv

LEMMA WriteStatusDeadKept ==
    ASSUME Inv, WriteStatus, ends[cur].r = {}
    PROVE  Inv'
<1> USE Constants, TypeFacts
<1>0. TypeOK /\ ShellHolds /\ LineFits /\ KidsHold /\ WorkerFits /\ Causes /\ Waits
  BY DEF Inv
<1>a. /\ worker = "writing" /\ over' = "SIGPIPE" /\ pc' = "gone" /\ worker' = "none"
      /\ ends' \in EndsType
      /\ \A x \in Pipes : /\ ends'[x].r = ends[x].r \ {Shell}
                          /\ ends'[x].w = ends[x].w \ {Shell}
      /\ UNCHANGED <<content, line, pids, next, inFd, cur, child, signalVars, left, historyVars>>
  BY <1>0, ClosedAll DEF WriteStatus
<1>b. torn
  <2>1. cur \in Pipes /\ pc \in {"status", "join"}
    BY <1>0, <1>a DEF ShellHolds, WorkerFits
  <2>2. pc # "status"
    BY <1>0, <2>1 DEF ShellHolds, ReadEnds
  <2> QED
    BY <1>0, <1>a, <2>1, <2>2 DEF WorkerFits
<1>1. TypeOK'
  BY <1>0, <1>a DEF TypeOK, Labels, EndsType, signalVars, historyVars
<1>2. ShellHolds'
  BY <1>0, <1>a DEF ShellHolds, ReadEnds, WriteEnds
<1>3. LineFits'
  BY <1>0, <1>a DEF LineFits
<1>4. KidsHold'
  BY <1>0, <1>a, ShellOnly
<1>5. WorkerFits'
  BY <1>0, <1>a DEF WorkerFits
<1>6. Causes'
  BY <1>0, <1>a, <1>b DEF Causes, DeathHasCause, signalVars, historyVars
<1>7. Waits'
  BY <1>0, <1>a DEF Waits
<1> QED
  BY <1>1, <1>2, <1>3, <1>4, <1>5, <1>6, <1>7 DEF Inv

LEMMA WriteStatusDoneKept ==
    ASSUME Inv, WriteStatus, ends[cur].r # {}
    PROVE  Inv'
<1> USE Constants, TypeFacts
<1>0. TypeOK /\ ShellHolds /\ LineFits /\ KidsHold /\ WorkerFits /\ Causes /\ Waits
  BY DEF Inv
<1> DEFINE f == Close(ends, Shell, cur, "w")
<1>s. /\ f \in EndsType
      /\ \A x \in Pipes : /\ R(f, x) = R(ends, x)
                          /\ W(f, x) = IF x = cur THEN W(ends, x) \ {Shell} ELSE W(ends, x)
  BY <1>0, ClosedWrite
<1>b. ends' = f /\ content' = [content EXCEPT ![cur] = 1]
  BY DEF WriteStatus
<1> HIDE DEF f
<1>a. /\ worker = "writing" /\ worker' = "done" /\ UNCHANGED <<over, pc>>
      /\ ends' \in EndsType
      /\ \A x \in Pipes : /\ ends'[x].r = ends[x].r
                          /\ ends'[x].w = IF x = cur THEN ends[x].w \ {Shell} ELSE ends[x].w
      /\ UNCHANGED <<line, pids, next, inFd, cur, child, signalVars, left, historyVars>>
  BY <1>s, <1>b DEF WriteStatus, R, W
<1>c. content' \in [Pipes -> 0..Capacity]
  <2>1. 1 \in 0..Capacity
    OBVIOUS
  <2> QED
    BY <1>0, <1>b, <2>1
<1>d. pc \in {"status", "join"} /\ cur \in Pipes
  BY <1>0, <1>a DEF WorkerFits, ShellHolds
<1>1. TypeOK'
  BY <1>0, <1>a, <1>c DEF TypeOK, EndsType, signalVars, historyVars
<1>2. ShellHolds'
  <2>1. WriteEnds(ends) = {cur}
    BY <1>0, <1>a, <1>d DEF ShellHolds
  <2>2. \A x \in Pipes : (Shell \in ends'[x].r <=> Shell \in ends[x].r) /\ Shell \notin ends'[x].w
    BY <1>a, <2>1 DEF WriteEnds
  <2>3. ReadEnds(ends') = ReadEnds(ends) /\ WriteEnds(ends') = {}
    BY <2>2 DEF ReadEnds, WriteEnds
  <2> QED
    BY <1>0, <1>a, <1>d, <2>3 DEF ShellHolds
<1>3. LineFits'
  BY <1>0, <1>d, <1>a DEF LineFits
<1>4. KidsHold'
  BY <1>0, <1>a, ShellOnly
<1>5. WorkerFits'
  BY <1>0, <1>d, <1>a DEF WorkerFits
<1>6. Causes'
  BY <1>0, <1>d, <1>a DEF Causes, DeathHasCause, signalVars, historyVars
<1>7. Waits'
  BY <1>0, <1>d, <1>a DEF Waits, Pending, signalVars, historyVars
<1> QED
  BY <1>1, <1>2, <1>3, <1>4, <1>5, <1>6, <1>7 DEF Inv

LEMMA ReadStatusKept ==
    ASSUME Inv, ReadStatus
    PROVE  Inv'
<1> USE Constants, TypeFacts
<1>0. TypeOK /\ ShellHolds /\ LineFits /\ KidsHold /\ WorkerFits /\ Causes /\ Waits
  BY DEF Inv
<1> DEFINE f == Close(ends, Shell, cur, "r")
<1>s. /\ f \in EndsType
      /\ \A x \in Pipes : /\ R(f, x) = IF x = cur THEN R(ends, x) \ {Shell} ELSE R(ends, x)
                          /\ W(f, x) = W(ends, x)
  BY <1>0, ClosedRead
<1>b. ends' = f /\ content' = [content EXCEPT ![cur] = 0] /\ pc = "status" /\ Readable(cur)
  BY DEF ReadStatus
<1> HIDE DEF f
<1>a. /\ pc = "status" /\ pc' = "join"
      /\ ends' \in EndsType
      /\ \A x \in Pipes : /\ ends'[x].r = IF x = cur THEN ends[x].r \ {Shell} ELSE ends[x].r
                          /\ ends'[x].w = ends[x].w
      /\ UNCHANGED <<line, pids, next, inFd, cur, worker, child, signalVars, over, left, historyVars>>
  BY <1>s, <1>b DEF ReadStatus, R, W
<1>c. content' \in [Pipes -> 0..Capacity]
  <2>1. 0 \in 0..Capacity
    OBVIOUS
  <2> QED
    BY <1>0, <1>b, <2>1
<1>d. cur \in Pipes /\ ReadEnds(ends) = {cur}
  BY <1>0, <1>a DEF ShellHolds
<1>f. worker = "done"
  <2> SUFFICES ASSUME worker # "done"
               PROVE  FALSE
    OBVIOUS
  <2>1. content[cur] = 0 /\ WriteEnds(ends) = {cur}
    BY <1>0, <1>a DEF WorkerFits, ShellHolds
  <2>2. Shell \in ends[cur].w
    BY <2>1 DEF WriteEnds
  <2> QED
    BY <1>b, <2>1, <2>2 DEF Readable
<1>1. TypeOK'
  BY <1>0, <1>a, <1>c DEF TypeOK, Labels, EndsType, signalVars, historyVars
<1>2. ShellHolds'
  <2>1. \A x \in Pipes : (Shell \in ends'[x].w <=> Shell \in ends[x].w) /\ Shell \notin ends'[x].r
    BY <1>a, <1>d DEF ReadEnds
  <2>2. ReadEnds(ends') = {} /\ WriteEnds(ends') = WriteEnds(ends)
    BY <2>1 DEF ReadEnds, WriteEnds
  <2> QED
    BY <1>0, <1>a, <1>d, <2>2 DEF ShellHolds
<1>3. LineFits'
  BY <1>0, <1>d, <1>f, <1>a DEF LineFits
<1>4. KidsHold'
  BY <1>0, <1>a, ShellOnly
<1>5. WorkerFits'
  BY <1>0, <1>d, <1>f, <1>a DEF WorkerFits
<1>6. Causes'
  BY <1>0, <1>d, <1>f, <1>a DEF Causes, DeathHasCause, signalVars, historyVars
<1>7. Waits'
  BY <1>0, <1>d, <1>f, <1>a DEF Waits, Pending, signalVars, historyVars
<1> QED
  BY <1>1, <1>2, <1>3, <1>4, <1>5, <1>6, <1>7 DEF Inv

LEMMA JoinThreadKept ==
    ASSUME Inv, JoinThread
    PROVE  Inv'
<1> USE Constants, TypeFacts
<1>0. TypeOK /\ ShellHolds /\ LineFits /\ KidsHold /\ WorkerFits /\ Causes /\ Waits
  BY DEF Inv
<1> DEFINE f == Close(ends, Shell, cur, "w")
<1>s. /\ f \in EndsType
      /\ \A x \in Pipes : /\ R(f, x) = R(ends, x)
                          /\ W(f, x) = IF x = cur THEN W(ends, x) \ {Shell} ELSE W(ends, x)
  BY <1>0, ClosedWrite
<1>b. ends' = f
  BY DEF JoinThread
<1> HIDE DEF f
<1>a. /\ pc = "join" /\ worker = "done" /\ worker' = "none" /\ Return
      /\ ends' \in EndsType
      /\ \A x \in Pipes : /\ ends'[x].r = ends[x].r
                          /\ ends'[x].w = IF x = cur THEN ends[x].w \ {Shell} ELSE ends[x].w
      /\ UNCHANGED <<content, child, signalVars, over, left, historyVars>>
  BY <1>s, <1>b DEF JoinThread, R, W
<1>1. TypeOK'
  <2>1. MainTyped'
    BY <1>0, <1>a, ReturnTyped
  <2> QED
    BY <1>0, <1>a, <2>1 DEF TypeOK, EndsType, MainTyped, signalVars, historyVars
<1>2. ShellHolds'
  <2>1. ReadEnds(ends) = {} /\ WriteEnds(ends) = {}
    BY <1>0, <1>a DEF ShellHolds
  <2>2. \A x \in Pipes : Shell \notin ends'[x].r /\ Shell \notin ends'[x].w
    BY <1>a, <2>1 DEF ReadEnds, WriteEnds
  <2>3. ReadEnds(ends') = {} /\ WriteEnds(ends') = {}
    BY <2>2 DEF ReadEnds, WriteEnds
  <2> QED
    BY <1>a, <2>3 DEF ShellHolds, Return
<1>3. LineFits'
  BY <1>0, <1>a DEF LineFits, Return, NoLine
<1>4. KidsHold'
  BY <1>0, <1>a, ShellOnly
<1>5. WorkerFits'
  BY <1>0, <1>a DEF WorkerFits, Return
<1>6. Causes'
  BY <1>0, <1>a DEF Causes, DeathHasCause, signalVars, historyVars
<1>7. Waits'
  BY <1>0, <1>a DEF Waits, Pending, signalVars, historyVars
<1> QED
  BY <1>1, <1>2, <1>3, <1>4, <1>5, <1>6, <1>7 DEF Inv

LEMMA ReadSuggestionKept ==
    ASSUME Inv, ReadSuggestion
    PROVE  Inv'
<1> USE Constants, TypeFacts
<1>0. TypeOK /\ ShellHolds /\ LineFits /\ KidsHold /\ WorkerFits /\ Causes /\ Waits
  BY DEF Inv
<1> DEFINE f == Close(ends, Shell, cur, "r")
           k == IF content[cur] > 0 THEN "suggested" ELSE "ai"
<1>s. /\ f \in EndsType
      /\ \A x \in Pipes : /\ R(f, x) = IF x = cur THEN R(ends, x) \ {Shell} ELSE R(ends, x)
                          /\ W(f, x) = W(ends, x)
  BY <1>0, ClosedRead
<1>b. /\ ends' = f /\ content' = [content EXCEPT ![cur] = 0] /\ line' = [line EXCEPT !.kind = k]
  BY DEF ReadSuggestion
<1>e. k \in {"suggested", "ai"}
  OBVIOUS
<1> HIDE DEF f, k
<1>a. /\ pc = "aiRead" /\ pc' = "aiWait"
      /\ ends' \in EndsType
      /\ \A x \in Pipes : /\ ends'[x].r = IF x = cur THEN ends[x].r \ {Shell} ELSE ends[x].r
                          /\ ends'[x].w = ends[x].w
      /\ UNCHANGED <<pids, next, inFd, cur, worker, child, signalVars, over, left, historyVars>>
  BY <1>s, <1>b DEF ReadSuggestion, R, W
<1>c. content' \in [Pipes -> 0..Capacity]
  <2>1. 0 \in 0..Capacity
    OBVIOUS
  <2> QED
    BY <1>0, <1>b, <2>1
<1>d. /\ cur \in Pipes /\ ReadEnds(ends) = {cur} /\ WriteEnds(ends) = {}
      /\ line.kind = "ai" /\ line.n = 1 /\ Len(pids) = 1
  BY <1>0, <1>a DEF ShellHolds, LineFits
<1>f. /\ line' \in [kind : Kinds \cup {"none", "suggested"}, n : 0..MaxStages, endless : BOOLEAN]
      /\ line'.kind \in {"ai", "suggested"} /\ line'.n = 1
  <2>1. line \in [kind : Kinds \cup {"none", "suggested"}, n : 0..MaxStages, endless : BOOLEAN]
    BY <1>0 DEF TypeOK
  <2>2. k \in Kinds \cup {"none", "suggested"}
    BY <1>d, <1>e, <2>1
  <2> QED
    BY <1>b, <1>d, <1>e, <2>1, <2>2
<1>1. TypeOK'
  BY <1>0, <1>a, <1>c, <1>f DEF TypeOK, Labels, EndsType, signalVars, historyVars
<1>2. ShellHolds'
  <2>1. \A x \in Pipes : Shell \notin ends'[x].w /\ Shell \notin ends'[x].r
    BY <1>a, <1>d DEF ReadEnds, WriteEnds
  <2>2. ReadEnds(ends') = {} /\ WriteEnds(ends') = {}
    BY <2>1 DEF ReadEnds, WriteEnds
  <2> QED
    BY <1>a, <2>2 DEF ShellHolds
<1>3. LineFits'
  BY <1>0, <1>d, <1>f, <1>a DEF LineFits
<1>4. KidsHold'
  BY <1>0, <1>a, ShellOnly
<1>5. WorkerFits'
  BY <1>0, <1>d, <1>f, <1>a DEF WorkerFits
<1>6. Causes'
  BY <1>0, <1>d, <1>f, <1>a DEF Causes, DeathHasCause, signalVars, historyVars
<1>7. Waits'
  BY <1>0, <1>d, <1>f, <1>a DEF Waits, Pending, signalVars, historyVars
<1> QED
  BY <1>1, <1>2, <1>3, <1>4, <1>5, <1>6, <1>7 DEF Inv

-----------------------------------------------------------------------------
(* The children                                                            *)

\* Children that end keep their record, as zombies.
LEMMA Ended ==
    ASSUME TypeOK, NEW ps \in SUBSET Pids,
           child' = [p \in Pids |-> IF p \in ps THEN [child[p] EXCEPT !.st = "zombie"] ELSE child[p]]
    PROVE  /\ child' \in [Pids -> Children]
           /\ \A p \in Pids : /\ child'[p].st = IF p \in ps THEN "zombie" ELSE child[p].st
                              /\ child'[p].in = child[p].in /\ child'[p].out = child[p].out
                              /\ child'[p].job = child[p].job
<1> DEFINE dead(c) == [c EXCEPT !.st = "zombie"]
<1>1. \A c \in Children : /\ dead(c) \in Children /\ dead(c).st = "zombie" /\ dead(c).in = c.in
                          /\ dead(c).out = c.out /\ dead(c).job = c.job
  BY DEF Children
<1>2. child' = [p \in Pids |-> IF p \in ps THEN dead(child[p]) ELSE child[p]]
  OBVIOUS
<1>3. \A p \in Pids : child[p] \in Children
  BY DEF TypeOK
<1> HIDE DEF dead
<1>4. \A p \in Pids : child'[p] \in Children
  BY <1>1, <1>2, <1>3
<1>5. child' \in [Pids -> Children]
  BY <1>2, <1>4
<1> QED
  BY <1>1, <1>2, <1>3, <1>5

\* What a dead child held is closed; the others hold what they held.
LEMMA KidsDie ==
    ASSUME TypeOK, KidsHold, NEW ps \in SUBSET Pids,
           \A p \in Pids : /\ child'[p].st = IF p \in ps THEN "zombie" ELSE child[p].st
                           /\ child'[p].in = child[p].in /\ child'[p].out = child[p].out,
           \A x \in Pipes : \A p \in Pids :
             /\ p \in ends'[x].r <=> p \in ends[x].r /\ p \notin ps
             /\ p \in ends'[x].w <=> p \in ends[x].w /\ p \notin ps
    PROVE  KidsHold'
<1>1. \A p \in Pids : child[p].out # NoPipe => child[p].out \in Pipes
  BY DEF TypeOK, Children
<1>2. SUFFICES ASSUME NEW p \in Pids
               PROVE  KidHolds(p, child'[p], ends')
  BY DEF KidsHold
<1>3. CASE p \in ps
  <2>1. child'[p].st = "zombie" /\ \A x \in Pipes : p \notin ends'[x].r /\ p \notin ends'[x].w
    BY <1>3
  <2> QED
    BY <2>1 DEF KidHolds
<1>4. CASE p \notin ps
  <2>1. child'[p].st = child[p].st /\ child'[p].in = child[p].in /\ child'[p].out = child[p].out
    BY <1>4
  <2>2. \A x \in Pipes : /\ p \in ends'[x].r <=> p \in ends[x].r
                         /\ p \in ends'[x].w <=> p \in ends[x].w
    BY <1>4
  <2>3. KidHolds(p, child[p], ends)
    BY DEF KidsHold
  <2> QED
    BY <1>1, <2>1, <2>2, <2>3 DEF KidHolds
<1> QED
  BY <1>3, <1>4

LEMMA ChildGoneKept ==
    ASSUME Inv, NEW p \in Pids, Alive(p), End({p}),
           UNCHANGED <<mainVars, worker, content, signalVars, over, left, historyVars>>
    PROVE  Inv'
<1> USE Constants, TypeFacts
<1>0. TypeOK /\ ShellHolds /\ LineFits /\ KidsHold /\ WorkerFits /\ Causes /\ Waits
  BY DEF Inv
<1>a. UNCHANGED <<mainVars, worker, content, signalVars, over, left, historyVars>>
  OBVIOUS
<1>b. child[p].st \in {"forked", "running"}
  BY DEF Alive
<1>c. /\ child' \in [Pids -> Children]
      /\ \A k \in Pids : /\ child'[k].st = IF k \in {p} THEN "zombie" ELSE child[k].st
                         /\ child'[k].in = child[k].in /\ child'[k].out = child[k].out
                         /\ child'[k].job = child[k].job
  <2>1. {p} \in SUBSET Pids
    OBVIOUS
  <2>2. child' = [k \in Pids |-> IF k \in {p} THEN [child[k] EXCEPT !.st = "zombie"] ELSE child[k]]
    BY DEF End
  <2> QED
    BY <1>0, <2>1, <2>2, Ended
<1>d. /\ ends' \in EndsType
      /\ \A x \in Pipes : /\ ends'[x].r = ends[x].r \ {p}
                          /\ ends'[x].w = ends[x].w \ {p}
  BY <1>0, ClosedAll DEF End
<1>f. p # Shell
  OBVIOUS
<1>1. TypeOK'
  BY <1>0, <1>a, <1>c, <1>d DEF TypeOK, EndsType, mainVars, signalVars, historyVars
<1>2. ShellHolds'
  <2>1. ReadEnds(ends') = ReadEnds(ends) /\ WriteEnds(ends') = WriteEnds(ends)
    BY <1>d, <1>f DEF ReadEnds, WriteEnds
  <2> QED
    BY <1>0, <1>a, <2>1 DEF ShellHolds, mainVars
<1>3. LineFits'
  BY <1>0, <1>a DEF LineFits, mainVars
<1>4. KidsHold'
  BY <1>0, <1>c, <1>d, KidsDie
<1>5. WorkerFits'
  <2>1. pc \in {"thread", "status", "join"} => cur \in Pipes
    BY <1>0 DEF ShellHolds
  <2> QED
    BY <1>0, <1>a, <1>d, <2>1 DEF WorkerFits, mainVars, historyVars
<1>6. Causes'
  BY <1>0, <1>a DEF Causes, DeathHasCause, signalVars, historyVars
<1>7. Waits'
  <2>1. Pending' \subseteq Pending
    BY <1>b, <1>c DEF Pending
  <2> QED
    BY <1>0, <1>a, <2>1 DEF Waits, mainVars, signalVars, historyVars
<1> QED
  BY <1>1, <1>2, <1>3, <1>4, <1>5, <1>6, <1>7 DEF Inv

LEMMA ChildRunsKept ==
    ASSUME Inv, NEW p \in Pids, ChildSetup(p), ~End({p})
    PROVE  Inv'
<1> USE Constants, TypeFacts
<1>0. TypeOK /\ ShellHolds /\ LineFits /\ KidsHold /\ WorkerFits /\ Causes /\ Waits
  BY DEF Inv
<1>a. /\ UNCHANGED <<mainVars, worker, content, signalVars, over, left, historyVars>>
      /\ child[p].st = "forked"
  BY DEF ChildSetup
<1> DEFINE set == [child[p] EXCEPT !.st = "running"]
           f == ChildCloses(p)
<1>b. child' = [child EXCEPT ![p] = set] /\ ends' = f
  BY DEF ChildSetup
<1>e. child[p] \in Children /\ child \in [Pids -> Children]
  BY <1>0 DEF TypeOK
<1>g. /\ set \in Children /\ set.st = "running" /\ set.in = child[p].in
      /\ set.out = child[p].out /\ set.job = child[p].job /\ child[p].out \in PipeOrNone
  BY <1>e DEF Children, PipeOrNone
<1>s. /\ f \in EndsType
      /\ \A x \in Pipes : /\ R(f, x) = IF x = child[p].out THEN R(ends, x) \ {p} ELSE R(ends, x)
                          /\ W(f, x) = W(ends, x)
  <2> DEFINE o == child[p].out
  <2>1. f = Close(ends, p, o, "r") /\ o \in PipeOrNone
    BY <1>g DEF ChildCloses
  <2> HIDE DEF f, o
  <2>2. /\ f \in EndsType
        /\ \A x \in Pipes : /\ R(f, x) = IF x = o THEN R(ends, x) \ {p} ELSE R(ends, x)
                            /\ W(f, x) = W(ends, x)
    BY <1>0, <2>1, ClosedRead
  <2> QED
    BY <2>2 DEF o
<1> HIDE DEF set, f
<1>c. /\ child' \in [Pids -> Children] /\ child'[p] = set
      /\ \A k \in Pids : k # p => child'[k] = child[k]
  BY <1>b, <1>e, <1>g
<1>d. /\ ends' \in EndsType
      /\ \A x \in Pipes : /\ ends'[x].r = IF x = child[p].out THEN ends[x].r \ {p} ELSE ends[x].r
                          /\ ends'[x].w = ends[x].w
  BY <1>b, <1>s DEF R, W
<1>f. p # Shell
  OBVIOUS
<1>1. TypeOK'
  BY <1>0, <1>a, <1>c, <1>d DEF TypeOK, EndsType, mainVars, signalVars, historyVars
<1>2. ShellHolds'
  <2>1. ReadEnds(ends') = ReadEnds(ends) /\ WriteEnds(ends') = WriteEnds(ends)
    BY <1>d, <1>f DEF ReadEnds, WriteEnds
  <2> QED
    BY <1>0, <1>a, <2>1 DEF ShellHolds, mainVars
<1>3. LineFits'
  BY <1>0, <1>a DEF LineFits, mainVars
<1>4. KidsHold'
  <2>1. SUFFICES ASSUME NEW k \in Pids
                 PROVE  KidHolds(k, child'[k], ends')
    BY DEF KidsHold
  <2>2. KidHolds(k, child[k], ends)
    BY <1>0 DEF KidsHold
  <2>3. CASE k = p
    <3>1. \A x \in Pipes : /\ p \in ends[x].r => x = child[p].in \/ x = child[p].out
                           /\ p \in ends[x].w => x = child[p].out
      BY <1>a, <2>2, <2>3 DEF KidHolds
    <3>2. child[p].out # NoPipe => child[p].out \in Pipes /\ p \in ends[child[p].out].w
      BY <1>a, <1>g, <2>2, <2>3 DEF KidHolds, PipeOrNone
    <3>3. \A x \in Pipes : /\ p \in ends'[x].r => x = child[p].in
                           /\ p \in ends'[x].w => x = child[p].out
      BY <1>d, <3>1
    <3>4. KidHolds(p, set, ends')
      BY <1>d, <1>g, <3>2, <3>3 DEF KidHolds
    <3> QED
      BY <1>c, <2>3, <3>4
  <2>4. CASE k # p
    <3>1. \A x \in Pipes : /\ k \in ends'[x].r <=> k \in ends[x].r
                           /\ k \in ends'[x].w <=> k \in ends[x].w
      BY <1>d, <2>4
    <3>2. child[k].out # NoPipe => child[k].out \in Pipes
      BY <1>e DEF Children
    <3>3. KidHolds(k, child[k], ends')
      BY <2>2, <3>1, <3>2 DEF KidHolds
    <3> QED
      BY <1>c, <2>4, <3>3
  <2> QED
    BY <2>3, <2>4
<1>5. WorkerFits'
  <2>1. pc \in {"thread", "status", "join"} => cur \in Pipes
    BY <1>0 DEF ShellHolds
  <2> QED
    BY <1>0, <1>a, <1>d, <2>1 DEF WorkerFits, mainVars, historyVars
<1>6. Causes'
  BY <1>0, <1>a DEF Causes, DeathHasCause, signalVars, historyVars
<1>7. Waits'
  <2>1. \A k \in Pids : /\ child'[k].st # "none" => child[k].st # "none"
                         /\ child'[k].job = child[k].job
    BY <1>a, <1>c, <1>g
  <2>2. Pending' \subseteq Pending
    BY <2>1 DEF Pending
  <2> QED
    BY <1>0, <1>a, <2>2 DEF Waits, mainVars, signalVars, historyVars
<1> QED
  BY <1>1, <1>2, <1>3, <1>4, <1>5, <1>6, <1>7 DEF Inv

\* A child reads what is there, or writes to its output.
LEMMA ChildContentKept ==
    ASSUME Inv, NEW p \in Pids, child[p].st = "running", NEW q \in Pipes,
           content' \in [Pipes -> 0..Capacity], \A x \in Pipes : x # q => content'[x] = content[x],
           content[q] > 0 \/ q = child[p].out,
           UNCHANGED <<mainVars, worker, ends, child, signalVars, over, left, historyVars>>
    PROVE  Inv'
<1> USE Constants, TypeFacts
<1>0. TypeOK /\ ShellHolds /\ LineFits /\ KidsHold /\ WorkerFits /\ Causes /\ Waits
  BY DEF Inv
<1>a. UNCHANGED <<mainVars, worker, ends, child, signalVars, over, left, historyVars>>
  OBVIOUS
<1>b. content[q] > 0 \/ p \in ends[q].w
  <2>1. KidHolds(p, child[p], ends)
    BY <1>0 DEF KidsHold
  <2> QED
    BY <2>1 DEF KidHolds
<1>1. TypeOK'
  BY <1>0, <1>a DEF TypeOK, mainVars, signalVars, historyVars
<1>2. ShellHolds'
  BY <1>0, <1>a DEF ShellHolds, mainVars
<1>3. LineFits'
  BY <1>0, <1>a DEF LineFits, mainVars
<1>4. KidsHold'
  BY <1>0, <1>a DEF KidsHold
<1>5. WorkerFits'
  <2>1. pc = "thread" \/ (pc = "status" /\ worker # "done") => cur \in Pipes /\ cur # q /\ content[cur] = 0
    <3>1. pc = "thread" \/ (pc = "status" /\ worker # "done") =>
            cur \in Pipes /\ content[cur] = 0 /\ p \notin ends[cur].w
      BY <1>0 DEF ShellHolds, WorkerFits
    <3> QED
      BY <1>b, <3>1
  <2> QED
    BY <1>0, <1>a, <2>1 DEF WorkerFits, mainVars, historyVars
<1>6. Causes'
  BY <1>0, <1>a DEF Causes, DeathHasCause, signalVars, historyVars
<1>7. Waits'
  BY <1>0, <1>a DEF Waits, Pending, mainVars, signalVars, historyVars
<1> QED
  BY <1>1, <1>2, <1>3, <1>4, <1>5, <1>6, <1>7 DEF Inv

LEMMA ChildSeesEndKept ==
    ASSUME Inv, NEW p \in Pids, child[p].st = "running", child' = [child EXCEPT ![p].eof = TRUE],
           UNCHANGED <<mainVars, worker, pipeVars, signalVars, over, left, historyVars>>
    PROVE  Inv'
<1> USE Constants, TypeFacts
<1>0. TypeOK /\ ShellHolds /\ LineFits /\ KidsHold /\ WorkerFits /\ Causes /\ Waits
  BY DEF Inv
<1>a. UNCHANGED <<mainVars, worker, pipeVars, signalVars, over, left, historyVars>>
  OBVIOUS
<1> DEFINE set == [child[p] EXCEPT !.eof = TRUE]
<1>b. child' = [child EXCEPT ![p] = set]
  OBVIOUS
<1>e. child[p] \in Children /\ child \in [Pids -> Children]
  BY <1>0 DEF TypeOK
<1>g. /\ set \in Children /\ set.st = child[p].st /\ set.in = child[p].in
      /\ set.out = child[p].out /\ set.job = child[p].job
  BY <1>e DEF Children
<1> HIDE DEF set
<1>c. /\ child' \in [Pids -> Children]
      /\ \A k \in Pids : /\ child'[k].st = child[k].st /\ child'[k].in = child[k].in
                         /\ child'[k].out = child[k].out /\ child'[k].job = child[k].job
  BY <1>b, <1>e, <1>g
<1>1. TypeOK'
  BY <1>0, <1>a, <1>c DEF TypeOK, mainVars, pipeVars, signalVars, historyVars
<1>2. ShellHolds'
  BY <1>0, <1>a DEF ShellHolds, mainVars, pipeVars
<1>3. LineFits'
  BY <1>0, <1>a DEF LineFits, mainVars
<1>4. KidsHold'
  BY <1>0, <1>a, <1>c DEF KidsHold, KidHolds, pipeVars
<1>5. WorkerFits'
  BY <1>0, <1>a DEF WorkerFits, mainVars, pipeVars, historyVars
<1>6. Causes'
  BY <1>0, <1>a DEF Causes, DeathHasCause, signalVars, historyVars
<1>7. Waits'
  <2>1. Pending' = Pending
    BY <1>c DEF Pending
  <2> QED
    BY <1>0, <1>a, <2>1 DEF Waits, mainVars, signalVars, historyVars
<1> QED
  BY <1>1, <1>2, <1>3, <1>4, <1>5, <1>6, <1>7 DEF Inv

LEMMA ReapBackgroundKept ==
    ASSUME Inv, NEW p \in Pids, ReapBackground(p)
    PROVE  Inv'
<1> USE Constants, TypeFacts
<1>0. TypeOK /\ ShellHolds /\ LineFits /\ KidsHold /\ WorkerFits /\ Causes /\ Waits
  BY DEF Inv
<1>a. UNCHANGED <<mainVars, worker, pipeVars, signalVars, over, left, historyVars>>
  BY DEF ReapBackground
<1>b. child[p].st = "zombie" /\ child[p].job
  BY DEF ReapBackground
<1>c. /\ child' \in [Pids -> Children]
      /\ \A k \in Pids : child'[k] = IF k = p THEN NoChild ELSE child[k]
      /\ NoChild.st = "none"
  BY <1>0, Reaped DEF ReapBackground
<1>1. TypeOK'
  BY <1>0, <1>a, <1>c DEF TypeOK, mainVars, pipeVars, signalVars, historyVars
<1>2. ShellHolds'
  BY <1>0, <1>a DEF ShellHolds, mainVars, pipeVars
<1>3. LineFits'
  BY <1>0, <1>a DEF LineFits, mainVars
<1>4. KidsHold'
  BY <1>0, <1>a, <1>b, <1>c DEF KidsHold, KidHolds, pipeVars
<1>5. WorkerFits'
  BY <1>0, <1>a DEF WorkerFits, mainVars, pipeVars, historyVars
<1>6. Causes'
  BY <1>0, <1>a DEF Causes, DeathHasCause, signalVars, historyVars
<1>7. Waits'
  <2>1. Pending' \subseteq Pending
    BY <1>c DEF Pending
  <2> QED
    BY <1>0, <1>a, <2>1 DEF Waits, mainVars, signalVars, historyVars
<1> QED
  BY <1>1, <1>2, <1>3, <1>4, <1>5, <1>6, <1>7 DEF Inv

LEMMA ChildKept ==
    ASSUME Inv, NEW p \in Pids, Child(p)
    PROVE  Inv'
<1>0. TypeOK /\ child[p] \in Children /\ content \in [Pipes -> 0..Capacity] /\ Capacity \in Nat
  BY TypeFacts, Constants DEF Inv, TypeOK
<1>1. CASE ChildSetup(p)
  <2>1. CASE End({p})
    BY <1>1, <2>1, ChildGoneKept DEF ChildSetup, Alive
  <2>2. CASE ~End({p})
    BY <1>1, <2>2, ChildRunsKept
  <2> QED
    BY <2>1, <2>2
<1>2. CASE ChildReads(p)
  <2> DEFINE q == child[p].in
  <2>1. child[p].st = "running" /\ q \in Pipes
    BY <1>0, <1>2 DEF ChildReads, Children
  <2>2. CASE content[q] > 0
    <3>1. /\ content' = [content EXCEPT ![q] = @ - 1]
          /\ UNCHANGED <<mainVars, worker, ends, child, signalVars, over, left, historyVars>>
      BY <1>2, <2>2 DEF ChildReads
    <3> HIDE DEF q
    <3>2. content[q] - 1 \in 0..Capacity
      BY <1>0, <2>1, <2>2
    <3>3. content' \in [Pipes -> 0..Capacity] /\ \A x \in Pipes : x # q => content'[x] = content[x]
      BY <1>0, <2>1, <3>1, <3>2
    <3> QED
      BY <2>1, <2>2, <3>1, <3>3, ChildContentKept
  <2>3. CASE ~(content[q] > 0)
    BY <1>2, <2>1, <2>3, ChildSeesEndKept DEF ChildReads, pipeVars
  <2> QED
    BY <2>2, <2>3
<1>3. CASE ChildWrites(p)
  <2> DEFINE q == child[p].out
  <2>1. child[p].st = "running" /\ q \in Pipes
    BY <1>0, <1>3 DEF ChildWrites, Children
  <2>2. CASE ends[q].r = {}
    BY <1>3, <2>1, <2>2, ChildGoneKept DEF ChildWrites, Alive
  <2>3. CASE ends[q].r # {}
    <3>1. /\ content' = [content EXCEPT ![q] = @ + 1] /\ content[q] < Capacity
          /\ UNCHANGED <<mainVars, worker, ends, child, signalVars, over, left, historyVars>>
      BY <1>3, <2>3 DEF ChildWrites
    <3>4. q = child[p].out
      OBVIOUS
    <3> HIDE DEF q
    <3>2. content[q] + 1 \in 0..Capacity
      BY <1>0, <2>1, <3>1
    <3>3. content' \in [Pipes -> 0..Capacity] /\ \A x \in Pipes : x # q => content'[x] = content[x]
      BY <1>0, <2>1, <3>1, <3>2
    <3> QED
      BY <2>1, <3>1, <3>3, <3>4, ChildContentKept
  <2> QED
    BY <2>2, <2>3
<1>4. CASE ChildEnds(p)
  BY <1>4, ChildGoneKept DEF ChildEnds, Alive
<1> QED
  BY <1>1, <1>2, <1>3, <1>4 DEF Child

-----------------------------------------------------------------------------
(* Ctrl-C                                                                  *)

\* What SIGINT does to the children, whatever it does to the shell.
Struck(ps) ==
    /\ child' \in [Pids -> Children]
    /\ \A p \in Pids : /\ child'[p].st = IF p \in ps THEN "zombie" ELSE child[p].st
                       /\ child'[p].in = child[p].in /\ child'[p].out = child[p].out
                       /\ child'[p].job = child[p].job
    /\ ends' \in EndsType
    /\ \A x \in Pipes : \A p \in Pids :
         /\ p \in ends'[x].r <=> p \in ends[x].r /\ p \notin ps
         /\ p \in ends'[x].w <=> p \in ends[x].w /\ p \notin ps
    /\ sigints' = sigints + 1 /\ sigints' \in 0..MaxSigints
    /\ UNCHANGED <<content, left>>

\* What it does to the ends the shell holds.
Keeps == ReadEnds(ends') = ReadEnds(ends) /\ WriteEnds(ends') = WriteEnds(ends)
LosesReadEnd == ReadEnds(ends') = ReadEnds(ends) \ {cur} /\ WriteEnds(ends') = WriteEnds(ends)
LosesAll == ReadEnds(ends') = {} /\ WriteEnds(ends') = {}

LEMMA CtrlCDoes ==
    ASSUME TypeOK, CtrlC
    PROVE  /\ over = "no" /\ pc # "start"
           /\ \E ps \in SUBSET Pids : Struck(ps)
           /\ \/ /\ LosesAll /\ ~caught /\ over' = "SIGINT" /\ pc' = "gone" /\ worker' = "none"
                 /\ UNCHANGED <<gSigint, caught, line, pids, next, inFd, cur, historyVars>>
              \/ /\ Blocked /\ Interrupted /\ UNCHANGED <<faults, over, worker>>
                 /\ gSigint' = TRUE /\ caught' = ~OneShot
                 /\ IF pc \in {"status", "aiRead"} THEN LosesReadEnd ELSE Keeps
              \/ /\ Keeps /\ UNCHANGED <<mainVars, historyVars, over, worker>>
                 /\ gSigint' = TRUE /\ caught' = ~OneShot
<1> USE TypeFacts, Constants
<1>1. PICK ps \in SUBSET Pids :
        /\ child' = [p \in Pids |-> IF p \in ps THEN [child[p] EXCEPT !.st = "zombie"] ELSE child[p]]
        /\ \/ /\ ~caught
              /\ over' = "SIGINT" /\ pc' = "gone" /\ worker' = "none"
              /\ ends' = CloseAll(CloseAll(ends, ps), {Shell})
              /\ UNCHANGED <<gSigint, caught, line, pids, next, inFd, cur, historyVars>>
           \/ /\ Blocked /\ Interrupted
              /\ ends' = InterruptedEnds(CloseAll(ends, ps))
              /\ gSigint' = TRUE /\ caught' = ~OneShot
              /\ UNCHANGED <<faults, over, worker>>
           \/ /\ ends' = CloseAll(ends, ps)
              /\ gSigint' = TRUE /\ caught' = ~OneShot
              /\ UNCHANGED <<mainVars, historyVars, over, worker>>
  <2>1. PICK ps \in SUBSET {p \in Pids : Alive(p)} :
          /\ child' = [p \in Pids |-> IF p \in ps THEN [child[p] EXCEPT !.st = "zombie"] ELSE child[p]]
          /\ \/ /\ ~caught
                /\ over' = "SIGINT" /\ pc' = "gone" /\ worker' = "none"
                /\ ends' = CloseAll(CloseAll(ends, ps), {Shell})
                /\ UNCHANGED <<gSigint, caught, line, pids, next, inFd, cur, historyVars>>
             \/ /\ Blocked /\ Interrupted
                /\ ends' = InterruptedEnds(CloseAll(ends, ps))
                /\ gSigint' = TRUE /\ caught' = ~OneShot
                /\ UNCHANGED <<faults, over, worker>>
             \/ /\ ends' = CloseAll(ends, ps)
                /\ gSigint' = TRUE /\ caught' = ~OneShot
                /\ UNCHANGED <<mainVars, historyVars, over, worker>>
    BY DEF CtrlC
  <2>2. ps \in SUBSET Pids
    OBVIOUS
  <2> QED
    BY <2>1, <2>2
<1>2. /\ over = "no" /\ pc # "start" /\ sigints' = sigints + 1 /\ sigints' \in 0..MaxSigints
      /\ UNCHANGED <<content, left>>
  BY DEF CtrlC, Running, TypeOK
<1>3. /\ child' \in [Pids -> Children]
      /\ \A p \in Pids : /\ child'[p].st = IF p \in ps THEN "zombie" ELSE child[p].st
                         /\ child'[p].in = child[p].in /\ child'[p].out = child[p].out
                         /\ child'[p].job = child[p].job
  BY <1>1, Ended
<1> DEFINE e == CloseAll(ends, ps)
<1>4. /\ e \in EndsType
      /\ \A x \in Pipes : e[x].r = ends[x].r \ ps /\ e[x].w = ends[x].w \ ps
  BY ClosedAll
<1>5. Shell \notin ps
  OBVIOUS
<1>6. /\ ends' \in EndsType
      /\ \A x \in Pipes : \A p \in Pids :
           /\ p \in ends'[x].r <=> p \in ends[x].r /\ p \notin ps
           /\ p \in ends'[x].w <=> p \in ends[x].w /\ p \notin ps
      /\ ends' = CloseAll(e, {Shell}) => LosesAll
      /\ ends' = InterruptedEnds(e) => IF pc \in {"status", "aiRead"} THEN LosesReadEnd ELSE Keeps
      /\ ends' = e => Keeps
  <2> HIDE DEF e
  <2>1. ASSUME ends' = e
        PROVE  /\ ends' \in EndsType
               /\ \A x \in Pipes : \A p \in Pids :
                    /\ p \in ends'[x].r <=> p \in ends[x].r /\ p \notin ps
                    /\ p \in ends'[x].w <=> p \in ends[x].w /\ p \notin ps
               /\ Keeps
    BY <1>4, <1>5, <2>1 DEF Keeps, ReadEnds, WriteEnds
  <2>2. ASSUME ends' = CloseAll(e, {Shell})
        PROVE  /\ ends' \in EndsType
               /\ \A x \in Pipes : \A p \in Pids :
                    /\ p \in ends'[x].r <=> p \in ends[x].r /\ p \notin ps
                    /\ p \in ends'[x].w <=> p \in ends[x].w /\ p \notin ps
               /\ LosesAll
    <3>1. /\ ends' \in EndsType
          /\ \A x \in Pipes : ends'[x].r = e[x].r \ {Shell} /\ ends'[x].w = e[x].w \ {Shell}
      BY <1>4, <2>2, ClosedAll
    <3> QED
      BY <1>4, <3>1 DEF LosesAll, ReadEnds, WriteEnds
  <2>3. ASSUME ends' = InterruptedEnds(e), pc \in {"status", "aiRead"}
        PROVE  /\ ends' \in EndsType
               /\ \A x \in Pipes : \A p \in Pids :
                    /\ p \in ends'[x].r <=> p \in ends[x].r /\ p \notin ps
                    /\ p \in ends'[x].w <=> p \in ends[x].w /\ p \notin ps
               /\ LosesReadEnd
    <3> DEFINE f == Close(e, Shell, cur, "r")
    <3>1. ends' = f
      BY <2>3 DEF InterruptedEnds
    <3>2. /\ f \in EndsType
          /\ \A x \in Pipes : /\ R(f, x) = IF x = cur THEN R(e, x) \ {Shell} ELSE R(e, x)
                              /\ W(f, x) = W(e, x)
      BY <1>4, ClosedRead
    <3> HIDE DEF f
    <3>3. /\ ends' \in EndsType
          /\ \A x \in Pipes : /\ ends'[x].r = IF x = cur THEN e[x].r \ {Shell} ELSE e[x].r
                              /\ ends'[x].w = e[x].w
      BY <3>1, <3>2 DEF R, W
    <3> QED
      BY <1>4, <1>5, <3>3 DEF LosesReadEnd, ReadEnds, WriteEnds
  <2>4. ends' = InterruptedEnds(e) /\ pc \notin {"status", "aiRead"} => ends' = e
    BY DEF InterruptedEnds
  <2>5. ends' = CloseAll(e, {Shell}) \/ ends' = InterruptedEnds(e) \/ ends' = e
    BY <1>1 DEF e
  <2> QED
    BY <2>1, <2>2, <2>3, <2>4, <2>5
<1>7. Struck(ps)
  BY <1>2, <1>3, <1>6 DEF Struck
<1> HIDE DEF e
<1>8. \/ /\ ends' = CloseAll(e, {Shell}) /\ ~caught /\ over' = "SIGINT" /\ pc' = "gone" /\ worker' = "none"
         /\ UNCHANGED <<gSigint, caught, line, pids, next, inFd, cur, historyVars>>
      \/ /\ Blocked /\ Interrupted /\ UNCHANGED <<faults, over, worker>>
         /\ ends' = InterruptedEnds(e) /\ gSigint' = TRUE /\ caught' = ~OneShot
      \/ /\ ends' = e /\ UNCHANGED <<mainVars, historyVars, over, worker>>
         /\ gSigint' = TRUE /\ caught' = ~OneShot
  BY <1>1 DEF e
<1> QED
  BY <1>2, <1>6, <1>7, <1>8

LEMMA SigintKillsKept ==
    ASSUME Inv, NEW ps \in SUBSET Pids, Struck(ps), pc # "start", over = "no",
           LosesAll, ~caught, over' = "SIGINT", pc' = "gone", worker' = "none",
           UNCHANGED <<gSigint, caught, line, pids, next, inFd, cur, historyVars>>
    PROVE  Inv'
<1> USE Constants, TypeFacts
<1>0. TypeOK /\ ShellHolds /\ LineFits /\ KidsHold /\ WorkerFits /\ Causes /\ Waits
  BY DEF Inv
<1>a. Struck(ps) /\ pc # "start" /\ over = "no"
  OBVIOUS
<1>b. sigints \in Nat /\ sigints' = sigints + 1 /\ sigints' # 0
  BY <1>0 DEF TypeOK, Struck
<1>1. TypeOK'
  BY <1>0, <1>a DEF TypeOK, Labels, Struck, EndsType, historyVars
<1>2. ShellHolds'
  BY DEF ShellHolds, LosesAll
<1>3. LineFits'
  BY <1>0 DEF LineFits
<1>4. KidsHold'
  BY <1>0, <1>a, KidsDie DEF Struck
<1>5. WorkerFits'
  BY <1>0 DEF WorkerFits
<1>6. Causes'
  BY <1>0, <1>b DEF Causes, DeathHasCause
<1>7. Waits'
  BY <1>b DEF Waits
<1> QED
  BY <1>1, <1>2, <1>3, <1>4, <1>5, <1>6, <1>7 DEF Inv

LEMMA SigintPassesKept ==
    ASSUME Inv, NEW ps \in SUBSET Pids, Struck(ps), pc # "start", over = "no",
           Keeps, gSigint' = TRUE, caught' = ~OneShot,
           UNCHANGED <<mainVars, historyVars, over, worker>>
    PROVE  Inv'
<1> USE Constants, TypeFacts
<1>0. TypeOK /\ ShellHolds /\ LineFits /\ KidsHold /\ WorkerFits /\ Causes /\ Waits
  BY DEF Inv
<1>a. Struck(ps) /\ pc # "start" /\ over = "no"
  OBVIOUS
<1>b. sigints \in Nat /\ sigints' = sigints + 1 /\ sigints' # 0
  BY <1>0 DEF TypeOK, Struck
<1>1. TypeOK'
  BY <1>0, <1>a DEF TypeOK, Struck, EndsType, mainVars, historyVars
<1>2. ShellHolds'
  BY <1>0 DEF ShellHolds, Keeps, mainVars
<1>3. LineFits'
  BY <1>0 DEF LineFits, mainVars
<1>4. KidsHold'
  BY <1>0, <1>a, KidsDie DEF Struck
<1>5. WorkerFits'
  <2>1. pc \in {"thread", "status", "join"} => cur \in Pipes
    BY <1>0 DEF ShellHolds
  <2> QED
    BY <1>0, <2>1 DEF WorkerFits, Struck, mainVars, historyVars
<1>6. Causes'
  BY <1>0, <1>a, <1>b DEF Causes, DeathHasCause
<1>7. Waits'
  BY <1>b DEF Waits
<1> QED
  BY <1>1, <1>2, <1>3, <1>4, <1>5, <1>6, <1>7 DEF Inv

LEMMA SigintInterruptsKept ==
    ASSUME Inv, NEW ps \in SUBSET Pids, Struck(ps), pc # "start", over = "no",
           Blocked, Interrupted, gSigint' = TRUE, caught' = ~OneShot,
           IF pc \in {"status", "aiRead"} THEN LosesReadEnd ELSE Keeps,
           UNCHANGED <<faults, over, worker>>
    PROVE  Inv'
<1> USE Constants, TypeFacts
<1>0. TypeOK /\ ShellHolds /\ LineFits /\ KidsHold /\ WorkerFits /\ Causes /\ Waits
  BY DEF Inv
<1>a. Struck(ps) /\ pc # "start" /\ over = "no"
  OBVIOUS
<1>b. sigints \in Nat /\ sigints' = sigints + 1 /\ sigints' # 0
  BY <1>0 DEF TypeOK, Struck
<1>c. \/ /\ pc = "read" /\ pc' = "prompt" /\ Keeps /\ UNCHANGED <<line, pids, next, inFd, cur, torn>>
      \/ /\ pc = "status" /\ pc' = "join" /\ torn' = TRUE /\ LosesReadEnd
         /\ UNCHANGED <<line, pids, next, inFd, cur>>
      \/ /\ pc = "wait" /\ Keeps /\ UNCHANGED torn
         /\ \/ next < line.n /\ next' = next + 1 /\ UNCHANGED <<pc, line, pids, inFd, cur>>
            \/ Return
      \/ /\ pc = "aiRead" /\ pc' = "aiWait" /\ LosesReadEnd
         /\ UNCHANGED <<line, pids, next, inFd, cur, torn>>
      \/ /\ pc = "aiWait" /\ Keeps /\ UNCHANGED torn
         /\ \/ line.kind = "suggested" /\ pc' = "confirm" /\ UNCHANGED <<line, pids, next, inFd, cur>>
            \/ Return
      \/ pc = "confirm" /\ Return /\ Keeps /\ UNCHANGED torn
  BY DEF Blocked, Interrupted, AfterHelper, MoreToWaitFor
<1>d. pc = "wait" => next \in 1..line.n
  BY <1>0 DEF LineFits
<1>e. line.n \in 0..MaxStages /\ torn' \in BOOLEAN
  BY <1>0, <1>c DEF TypeOK
<1>f. MainTyped'
  <2>1. MainTyped
    BY <1>0 DEF MainTyped, TypeOK
  <2>2. pc = "wait" /\ next < line.n /\ next' = next + 1 => next' \in 1..MaxStages
    BY <1>d, <1>e
  <2> QED
    BY <1>c, <2>1, <2>2, ReturnTyped DEF MainTyped, Labels
<1>1. TypeOK'
  BY <1>0, <1>a, <1>e, <1>f DEF TypeOK, MainTyped, Struck, EndsType
<1>2. ShellHolds'
  <2>1. pc \in {"status", "aiRead"} => ReadEnds(ends) = {cur} /\ cur \in Pipes
    BY <1>0 DEF ShellHolds
  <2> QED
    BY <1>0, <1>c, <2>1 DEF ShellHolds, Keeps, LosesReadEnd, Return
<1>3. LineFits'
  BY <1>0, <1>c, <1>d, <1>e DEF LineFits, Return, NoLine
<1>4. KidsHold'
  BY <1>0, <1>a, KidsDie DEF Struck
<1>5. WorkerFits'
  <2>1. pc = "status" => cur \in Pipes
    BY <1>0 DEF ShellHolds
  <2> QED
    BY <1>0, <1>c, <2>1 DEF WorkerFits, Struck, Return
<1>6. Causes'
  BY <1>0, <1>a, <1>b, <1>c DEF Causes, DeathHasCause
<1>7. Waits'
  BY <1>b DEF Waits
<1> QED
  BY <1>1, <1>2, <1>3, <1>4, <1>5, <1>6, <1>7 DEF Inv

-----------------------------------------------------------------------------
(* The theorems                                                            *)

LEMMA InitHolds ==
    ASSUME Init
    PROVE  Inv
<1> USE Constants
<1>1. TypeOK
  <2>1. NoLine \in [kind : Kinds \cup {"none", "suggested"}, n : 0..MaxStages, endless : BOOLEAN]
    BY DEF NoLine
  <2>2. NoChild \in Children /\ NoChild.st = "none"
    BY DEF NoChild, Children
  <2>3. pids \in Seq(Pids) /\ next \in 1..MaxStages /\ pc \in Labels /\ line = NoLine
    BY DEF Init, Labels
  <2>4. ends \in [Pipes -> [r : SUBSET Procs, w : SUBSET Procs]]
    BY DEF Init
  <2>5. content \in [Pipes -> 0..Capacity] /\ child \in [Pids -> Children]
    BY <2>2 DEF Init
  <2>6. left \in 0..MaxLines /\ sigints \in 0..MaxSigints
    BY DEF Init
  <2>7. /\ {inFd, cur} \subseteq Pipes \cup {NoPipe} /\ worker \in {"none", "running", "writing", "done"}
        /\ {gSigint, caught, torn, faults} \subseteq BOOLEAN
        /\ over \in {"no", "exit", "SIGINT", "SIGPIPE"}
    BY DEF Init
  <2> QED
    BY <2>1, <2>3, <2>4, <2>5, <2>6, <2>7 DEF TypeOK
<1>2. \A x \in Pipes : ends[x].r = {} /\ ends[x].w = {}
  BY DEF Init
<1>3. \A p \in Pids : child[p].st = "none"
  BY DEF Init, NoChild
<1>4. ShellHolds
  BY <1>2 DEF Init, ShellHolds, ReadEnds, WriteEnds
<1>5. LineFits
  BY DEF Init, LineFits, NoLine
<1>6. KidsHold
  BY <1>2, <1>3 DEF KidsHold, KidHolds
<1>7. WorkerFits /\ Causes
  BY DEF Init, WorkerFits, Causes, DeathHasCause
<1>8. Waits
  BY <1>3 DEF Waits, Pending
<1> QED
  BY <1>1, <1>4, <1>5, <1>6, <1>7, <1>8 DEF Inv

LEMMA CtrlCKept ==
    ASSUME Inv, CtrlC
    PROVE  Inv'
<1>1. TypeOK
  BY DEF Inv
<1>2. PICK ps \in SUBSET Pids : Struck(ps)
  BY <1>1, CtrlCDoes
<1>3. over = "no" /\ pc # "start"
  BY <1>1, CtrlCDoes
<1>4. \/ /\ LosesAll /\ ~caught /\ over' = "SIGINT" /\ pc' = "gone" /\ worker' = "none"
         /\ UNCHANGED <<gSigint, caught, line, pids, next, inFd, cur, historyVars>>
      \/ /\ Blocked /\ Interrupted /\ UNCHANGED <<faults, over, worker>>
         /\ gSigint' = TRUE /\ caught' = ~OneShot
         /\ IF pc \in {"status", "aiRead"} THEN LosesReadEnd ELSE Keeps
      \/ /\ Keeps /\ UNCHANGED <<mainVars, historyVars, over, worker>>
         /\ gSigint' = TRUE /\ caught' = ~OneShot
  BY <1>1, CtrlCDoes
<1> QED
  BY <1>2, <1>3, <1>4, SigintKillsKept, SigintPassesKept, SigintInterruptsKept

LEMMA StepKept ==
    ASSUME Inv, [Next]_vars
    PROVE  Inv'
<1>1. ASSUME MainStep
      PROVE  Inv'
  <2>1. CASE CreateThread
    BY <2>1, ThreadRunsKept, ThreadFailsKept
  <2> QED
    BY <1>1, <2>1, StartKept, PromptKept, MakePipeKept, PipeFailsKept, ForkKept, ForkFailsKept,
       AfterForkKept, RegisterKept, WaitStageKept, ReadStatusKept, JoinThreadKept,
       ReadSuggestionKept, WaitHelperKept DEF MainStep
<1>2. ASSUME User
      PROVE  Inv'
  BY <1>2, ReadKept, EndOfInputKept, ConfirmKept DEF User
<1>3. ASSUME Worker
      PROVE  Inv'
  BY <1>3, BuiltinReturnsKept, BuiltinExitsKept, WriteStatusDeadKept, WriteStatusDoneKept DEF Worker
<1>4. ASSUME UNCHANGED vars
      PROVE  Inv'
  BY <1>4 DEF vars, mainVars, pipeVars, signalVars, historyVars, Inv, TypeOK, ShellHolds, LineFits,
              KidsHold, WorkerFits, Causes, DeathHasCause, Waits, Pending
<1>5. AllOver => UNCHANGED vars
  BY DEF AllOver
<1> QED
  BY <1>1, <1>2, <1>3, <1>4, <1>5, CtrlCKept, ChildKept, ReapBackgroundKept DEF Next

\* Every step of the loop, of a child and of Ctrl-C keeps the invariant.
THEOREM LoopInvariant == Spec => []Inv
<1>1. Inv /\ [Next]_vars => Inv'
  BY StepKept
<1> QED
  BY InitHolds, <1>1, PTL DEF Spec

\* Whatever fails and whenever Ctrl-C is pressed, the shell is back at its
\* prompt without a pipe end (execute_pipeline, dispatch_builtin,
\* handle_llm_line).
THEOREM NoPipeAtPrompt == Spec => []PromptHoldsNoPipe
<1>1. Inv => PromptHoldsNoPipe
  BY DEF Inv, ShellHolds, PromptHoldsNoPipe, AtPrompt, ReadEnds, WriteEnds
<1> QED
  BY <1>1, LoopInvariant, PTL

\* A stage that is set up holds its own two ends, however long the pipeline is
\* (the child's side of execute_pipeline).
THEOREM StagesHoldTheirOwn == Spec => []StageHoldsOwnEnds
<1>1. Inv => StageHoldsOwnEnds
  BY DEF Inv, KidsHold, KidHolds, StageHoldsOwnEnds
<1> QED
  BY <1>1, LoopInvariant, PTL

\* At the prompt every child has been waited for or is a background job, as
\* long as no Ctrl-C, pipe or fork broke a line off (execute_pipeline,
\* dispatch_external, handle_llm_line).
THEOREM NobodyForgotten == Spec => []NoForgottenChild
<1>1. Inv => NoForgottenChild
  BY DEF Inv, Waits, Pending, NoForgottenChild, AtPrompt
<1> QED
  BY <1>1, LoopInvariant, PTL

\* The shell is killed by a second Ctrl-C at the earliest, and by the status it
\* writes itself only after a Ctrl-C in the read of it (signal_handler,
\* dispatch_builtin).
THEOREM DeathsHaveCauses == Spec => []DeathHasCause
<1>1. Inv => DeathHasCause
  BY DEF Inv, Causes
<1> QED
  BY <1>1, LoopInvariant, PTL

===============================================================================
