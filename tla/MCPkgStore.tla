----------------------------- MODULE MCPkgStore -----------------------------
(* Instances of PkgStore for TLC. *)
EXTENDS PkgStore, TLC

CONSTANTS ed, vi, b1, b2

\* The second version is newer, although its text comes first.
v1 == <<1, 9>>
v2 == <<1, 10>>
MCVersions == {v1, v2}

\* The two packages share an executable, and the second version of the first
\* one has an executable that the first version has not.
MCFiles == [t \in Pkgs |-> IF t.name = ed /\ t.version = v1 THEN <<b1>>
                           ELSE IF t.name = ed THEN <<b1, b2>> ELSE <<b1>>]

MCArchives == {t \in Pkgs : t.name = ed \/ t.version = v2}

\* The registry has both versions of the first package, the second unknown.
MCModules == <<[name |-> ed, version |-> v1], [name |-> ed, version |-> v2]>>

\* Bounds: one package may be recorded again and again, the others once.
MCLines == [n \in Names |-> IF n = ed THEN 3 ELSE 1]
MCLinesTwo == [n \in Names |-> IF n = ed THEN 2 ELSE 1]

\* The processes are alike, and so are the files that a name may denote.
MCSymmetry == Permutations(Procs) \cup Permutations(Inodes)

=============================================================================
