---------------------------- MODULE MCRepoIndex ----------------------------
(* Instances of RepoIndex for TLC. *)
EXTENDS RepoIndex

\* The worlds of one run: a repository denied and approved again; denied with
\* failures; the default branch moving under a failing index; a review of a
\* repository that has no index yet.
Worlds == {
    [changes |-> 3, pushes |-> 0, reviews |-> 0, faults |-> 0],
    [changes |-> 2, pushes |-> 0, reviews |-> 0, faults |-> 2],
    [changes |-> 1, pushes |-> 1, reviews |-> 0, faults |-> 2],
    [changes |-> 1, pushes |-> 0, reviews |-> 1, faults |-> 2]}

\* One failure at most.
OneFault == {
    [changes |-> 1, pushes |-> 0, reviews |-> 1, faults |-> 1],
    [changes |-> 3, pushes |-> 0, reviews |-> 0, faults |-> 1]}
=============================================================================
