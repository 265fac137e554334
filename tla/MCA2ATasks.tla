----------------------------- MODULE MCA2ATasks -----------------------------
EXTENDS A2ATasks

None == [submits |-> 1, streams |-> 0, bad |-> 0, cancels |-> 0, outside |-> 0,
         retries |-> 0, releases |-> 0, mcps |-> 0, hooks |-> 0, faults |-> 0,
         sweeps |-> 0]

\* Two handles of one run: cancellations against reports, a Job that comes back.
CancelWorld == [None EXCEPT !.submits = 2, !.cancels = 2, !.retries = 1, !.faults = 2]
\* Streams of a run that is reported, cancelled or given back.
StreamWorld == [None EXCEPT !.streams = 2, !.cancels = 1, !.releases = 1]
ClosedWorld == [None EXCEPT !.submits = 2, !.streams = 1, !.outside = 1, !.faults = 1]
\* Rejections, quotas and webhooks.
QuotaWorld  == [None EXCEPT !.submits = 4, !.bad = 1]
HookWorld   == [None EXCEPT !.hooks = 5]
McpWorld    == [None EXCEPT !.mcps = 3, !.faults = 1]
SweepWorld  == [None EXCEPT !.submits = 2, !.sweeps = 2, !.retries = 1, !.streams = 1]

AllWorlds == {CancelWorld, StreamWorld, ClosedWorld, QuotaWorld, HookWorld, McpWorld,
              SweepWorld}
OneCancel == {[None EXCEPT !.cancels = 1]}
OneRetry  == {[None EXCEPT !.retries = 1]}
Watched   == {[None EXCEPT !.cancels = 1, !.streams = 1]}
Rush      == {[None EXCEPT !.submits = 3]}
Hooks     == {HookWorld}
TwoHandles == {[None EXCEPT !.submits = 2]}
=============================================================================
