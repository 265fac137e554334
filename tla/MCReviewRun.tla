----------------------------- MODULE MCReviewRun -----------------------------
EXTENDS ReviewRun

Call(tool, at, priority) == [tool |-> tool, at |-> at, priority |-> priority, verdict |-> FALSE]

A1 == <<"a", 1>>
A2 == <<"a", 2>>
B1 == <<"b", 1>>

Read(f)    == Call("read", <<f, 1>>, "P2")
Search     == Call("search", A1, "P2")
Add(l, p)  == Call("add", l, p)
Claim(l)   == [Call("add", l, "P2") EXCEPT !.verdict = TRUE]
Retract(l) == Call("retract", l, "P2")
Reply      == Call("reply", A1, "P2")
Sast       == Call("sast", A2, "P2")
Note_      == Call("progress", A1, "P2")
Finish     == Call("finish", A1, "P2")
Abort      == Call("abort", A1, "P2")

TwoFiles == {"a", "b"}
OneFile  == {"a"}

\* Kinds of model: what each may answer in one turn.
Answers ==
    [reader   |-> {<<>>, <<Read("a")>>, <<Read("b"), Search>>, <<Note_>>, <<Finish>>},
     recorder |-> {<<>>, <<Read("a")>>, <<Add(A1, "P1"), Finish>>, <<Retract(A1), Reply>>, <<Finish>>},
     brief    |-> {<<>>, <<Add(A1, "P1"), Finish>>, <<Read("a"), Retract(A1), Reply>>},
     scanner  |-> {<<Read("b")>>, <<Sast, Claim(A1), Finish>>, <<Add(B1, "P2")>>},
     reviser  |-> {<<>>, <<Add(A1, "P1")>>, <<Retract(A1), Add(A1, "P2")>>, <<Finish>>},
     critic   |-> {<<>>, <<Sast, Claim(A1)>>, <<Add(A1, "P1"), Add(A1, "P1")>>, <<Add(A1, "P2"), Finish>>,
                   <<Add(A1, "P2"), Abort>>}]

None == [host |-> "native", llm |-> "recorder", durable |-> FALSE, entry |-> "mention",
         parallel |-> FALSE, crash |-> 0, lookup |-> 0, http |-> 0, model |-> 0, full |-> 0, journal |-> 0,
         ttl |-> 0, swallow |-> 0, child |-> 0]
Durable == [None EXCEPT !.durable = TRUE]
Child   == [None EXCEPT !.host = "opencode"]

AllWorlds ==
    {[Durable EXCEPT !.crash = 1],
     [None EXCEPT !.crash = 1, !.llm = "critic"],
     [Durable EXCEPT !.crash = 1, !.ttl = 1, !.llm = "brief"],
     [Durable EXCEPT !.crash = 1, !.journal = 1, !.llm = "brief"],
     [Durable EXCEPT !.crash = 1, !.lookup = 1, !.http = 1, !.llm = "brief"],
     [Durable EXCEPT !.crash = 1, !.llm = "scanner"],
     [None EXCEPT !.model = 2, !.llm = "reader"],
     [None EXCEPT !.http = 1, !.full = 1],
     [None EXCEPT !.http = 1, !.llm = "critic"],
     [Child EXCEPT !.http = 1],
     [Child EXCEPT !.http = 1, !.llm = "critic"],
     [Child EXCEPT !.llm = "reader"],
     [Child EXCEPT !.swallow = 1],
     [Child EXCEPT !.child = 1, !.crash = 1],
     [Child EXCEPT !.parallel = TRUE, !.entry = "pr_open", !.llm = "reviser"]}

Skipped    == {[Durable EXCEPT !.crash = 1, !.model = 1]}
Unsure     == {[Durable EXCEPT !.crash = 1, !.lookup = 1, !.llm = "brief"]}
Rescanned  == {[Durable EXCEPT !.crash = 1, !.llm = "scanner"]}
LostTurn   == {[None EXCEPT !.model = 1]}
Unanswered == {[None EXCEPT !.http = 1]}
Silent     == {[Child EXCEPT !.llm = "reader"]}
Refused    == {[Child EXCEPT !.http = 1]}
Aborting   == {[None EXCEPT !.http = 1, !.llm = "critic"]}
Overlapped == {[Child EXCEPT !.parallel = TRUE, !.llm = "reviser"]}
=============================================================================
