--------------------------- MODULE TaskLifecycle ---------------------------
(***************************************************************************)
(* What the task queue promises: the life of a task as its submitter and   *)
(* the cluster see it.  A task is new, parked behind an index, ready to be *)
(* claimed, owned by a dispatch that is accountable for it, loose (its     *)
(* runner is at work and no dispatch is accountable) or over; and its run  *)
(* in the cluster is absent, live or done.  Rows, leases, Job names, pods, *)
(* listings and program counters are gone.                                 *)
(*                                                                         *)
(* A task becomes owned by being claimed from the ready ones, or by the    *)
(* adoption of a loose one; it becomes ready again only by being given up  *)
(* while it is under way, never once it is over; its run starts only after *)
(* it has left the queue; and a live run is never taken away from an owned *)
(* task.  What a runner reports is believed whenever it lands, so a task   *)
(* that is over or ready may become loose, but not owned.                  *)
(***************************************************************************)
EXTENDS Naturals

CONSTANT Tasks

VARIABLES
    stage,       \* where each task is in its life
    dispatches,  \* how often it has been claimed
    work         \* its run in the cluster

vars == <<stage, dispatches, work>>

Started == {"ready", "owned", "loose", "over"}

Init ==
    /\ stage = [t \in Tasks |-> "new"]
    /\ dispatches = [t \in Tasks |-> 0]
    /\ work = [t \in Tasks |-> "none"]

Submit(t) ==
    /\ stage[t] = "new"
    /\ \E s \in {"parked", "ready"} : stage' = [stage EXCEPT ![t] = s]
    /\ UNCHANGED <<dispatches, work>>

\* The index ended: the tasks parked behind it are ready together.
Unpark(S) ==
    /\ \A t \in S : stage[t] = "parked"
    /\ stage' = [t \in Tasks |-> IF t \in S THEN "ready" ELSE stage[t]]
    /\ UNCHANGED <<dispatches, work>>

Cancel(S) ==
    /\ \A t \in S : stage[t] \notin {"new", "over"}
    /\ stage' = [t \in Tasks |-> IF t \in S THEN "over" ELSE stage[t]]
    /\ UNCHANGED <<dispatches, work>>

Dispatch(t) ==
    /\ stage[t] = "ready"
    /\ stage' = [stage EXCEPT ![t] = "owned"]
    /\ dispatches' = [dispatches EXCEPT ![t] = @ + 1]
    /\ UNCHANGED work

\* The run could not be started, or it is gone.
GiveUp(t) ==
    /\ stage[t] \in {"owned", "loose"}
    /\ stage' = [stage EXCEPT ![t] = "ready"]
    /\ UNCHANGED <<dispatches, work>>

\* The reaper finds a run that nobody is accountable for at work.
Adopt(t) ==
    /\ stage[t] = "loose"
    /\ stage' = [stage EXCEPT ![t] = "owned"]
    /\ UNCHANGED <<dispatches, work>>

\* What a runner says, or what is concluded about it: under way, or over.
Told(t) ==
    /\ stage[t] \in Started
    /\ \/ stage' = [stage EXCEPT ![t] = "over"]
       \/ stage' = [stage EXCEPT ![t] = IF @ = "owned" THEN @ ELSE "loose"]

Launch(t) ==
    /\ stage[t] \in Started \ {"ready"}
    /\ work[t] = "none"
    /\ work' = [work EXCEPT ![t] = "live"]
    /\ UNCHANGED <<stage, dispatches>>

Ends(t) ==
    /\ work[t] = "live"
    /\ work' = [work EXCEPT ![t] = "done"]

\* A report, alone or with the exit of the runner that made it.
Report(t) == Told(t) /\ (Ends(t) \/ UNCHANGED work) /\ UNCHANGED dispatches

\* The run ends without a word that arrives.
End(t) == Ends(t) /\ UNCHANGED <<stage, dispatches>>

\* A finished run is collected; a live one is stopped, unless it is owned.
Remove(t) ==
    /\ work[t] = "done" \/ (work[t] = "live" /\ stage[t] # "owned")
    /\ work' = [work EXCEPT ![t] = "none"]
    /\ UNCHANGED <<stage, dispatches>>

Next ==
    \/ \E t \in Tasks : \/ Submit(t) \/ Dispatch(t) \/ Adopt(t) \/ GiveUp(t)
                        \/ Report(t) \/ Launch(t) \/ End(t) \/ Remove(t)
    \/ \E S \in SUBSET Tasks : Unpark(S) \/ Cancel(S)

Spec == Init /\ [][Next]_vars
=============================================================================
