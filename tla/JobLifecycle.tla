---------------------------- MODULE JobLifecycle ----------------------------
(***************************************************************************)
(* What job control promises about one background job: job ids are given   *)
(* out in order, a job goes through its phases one at a time, the way its  *)
(* child ended is the way it is reported to have ended, and the end of a   *)
(* child is always noticed.                                                *)
(*                                                                         *)
(*   unborn -> running -> exited | killed -> done | signaled -> retired    *)
(*                                                                         *)
(* exited and killed are facts about the child; done and signaled are what *)
(* the shell has recorded; retired jobs have left the shell's table.       *)
(***************************************************************************)
EXTENDS Naturals

CONSTANT MaxJobId  \* bound: the last job id

VARIABLE phase     \* the phase of each job

Ids == 1..MaxJobId

Phases == {"unborn", "running", "exited", "killed", "done", "signaled",
           "retired", "lost"}

Recorded(end) == IF end = "exited" THEN "done" ELSE "signaled"

Init == phase = [id \in Ids |-> "unborn"]

\* A job may have ended by the time it is registered.
Start(id) ==
  /\ phase[id] = "unborn"
  /\ \A j \in Ids : j < id => phase[j] # "unborn"
  /\ \E p \in {"running", "exited", "killed"} :
       phase' = [phase EXCEPT ![id] = p]

End(id) ==
  /\ phase[id] = "running"
  /\ \E p \in {"exited", "killed"} : phase' = [phase EXCEPT ![id] = p]

Learn(id) ==
  /\ phase[id] \in {"exited", "killed"}
  /\ phase' = [phase EXCEPT ![id] = Recorded(@)]

Retire(id) ==
  /\ phase[id] \in {"done", "signaled"}
  /\ phase' = [phase EXCEPT ![id] = "retired"]

\* The shell exits, and what it knew of its jobs is gone.
Lose == phase' = [id \in Ids |-> "lost"]

Next == \/ \E id \in Ids : Start(id) \/ End(id) \/ Learn(id) \/ Retire(id)
        \/ Lose

Steps == Init /\ [][Next]_phase

Spec == Steps /\ \A id \in Ids : WF_phase(Learn(id))

=============================================================================
