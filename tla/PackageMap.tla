----------------------------- MODULE PackageMap -----------------------------
(***************************************************************************)
(* What the package manager promises its user: a map from names to the     *)
(* versions that are installed, which a command changes at one point, for  *)
(* its own name only, or not at all. An upgrade has two such points, since *)
(* it drops the old record before it makes the new one.                    *)
(***************************************************************************)
CONSTANTS
  Procs,    \* the pkg processes
  Names,    \* package names
  Versions, \* their versions
  Newer,    \* the pairs of a version and a newer one
  NoPkg,    \* no package
  NotThere  \* no version: the name is not installed

VARIABLES
  version,  \* for each name, the version that is installed
  doing     \* the command each process runs

vars == <<version, doing>>

Pkgs == [name : Names, version : Versions]
Task(op, pkg) == [op |-> op, pkg |-> pkg]
Idle == Task("none", NoPkg)

Init ==
  /\ version = [n \in Names |-> NotThere]
  /\ doing = [p \in Procs |-> Idle]

\* An archive may hold any version; only an upgrade looks for a newer one, and
\* what is removed is what is installed.
MayBegin(op, t) ==
  \/ op = "install"
  \/ op = "upgrade" /\ <<version[t.name], t.version>> \in Newer
  \/ op = "remove" /\ version[t.name] = t.version

Begin(p) ==
  /\ doing[p] = Idle
  /\ \E op \in {"install", "upgrade", "remove"}, t \in Pkgs :
       /\ MayBegin(op, t)
       /\ doing' = [doing EXCEPT ![p] = Task(op, t)]
  /\ UNCHANGED version

\* A version that is there already is not replaced.
Record(p) ==
  /\ doing[p].op \in {"install", "record"}
  /\ LET t == doing[p].pkg IN
       version' = [version EXCEPT ![t.name] = IF @ = NotThere THEN t.version ELSE @]
  /\ doing' = [doing EXCEPT ![p] = Idle]

Forget(p) ==
  /\ doing[p].op \in {"remove", "upgrade"}
  /\ version' = [version EXCEPT ![doing[p].pkg.name] = NotThere]
  /\ doing' = [doing EXCEPT ![p] =
       IF @.op = "upgrade" THEN Task("record", @.pkg) ELSE Idle]

\* An archive that cannot be unpacked, or a process that is killed.
GiveUp(p) ==
  /\ doing' = [doing EXCEPT ![p] = Idle]
  /\ UNCHANGED version

Next == \E p \in Procs : Begin(p) \/ Record(p) \/ Forget(p) \/ GiveUp(p)

Spec == Init /\ [][Next]_vars

=============================================================================
