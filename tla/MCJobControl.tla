---------------------------- MODULE MCJobControl ----------------------------
(* Instances of JobControl for TLC. *)
EXTENDS JobControl, TLC

\* Pids are only compared with one another.
PidSymmetry == Permutations(Pids)

=============================================================================
