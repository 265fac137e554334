---------------------------- MODULE MCTaskQueue ----------------------------
(* Instances of TaskQueue for TLC: every task belongs to the one repository. *)
EXTENDS TaskQueue

CONSTANT repo

OneRepo == {repo}
AllInRepo == [t \in Tasks |-> repo]
=============================================================================
