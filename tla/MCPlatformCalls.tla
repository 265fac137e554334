-------------------------- MODULE MCPlatformCalls --------------------------
(* Instances of PlatformCalls for TLC. *)
EXTENDS PlatformCalls

F(file_, line_, title_) == [file |-> file_, line |-> line_, title |-> title_]

Hunk(n) == <<"@@", n>>
Add == <<"+", 0>>
Ctx == <<" ", 0>>
Del == <<"-", 0>>
Eof == <<"other", 0>>

\* One changed file, whose added line moves from 2 to 3 with the second push;
\* then a head whose files have no patch.
MCPatches == <<[a |-> <<Hunk(1), Ctx, Del, Add, Hunk(3), Ctx, Ctx, Eof>>],
               [a |-> <<Hunk(2), Ctx, Del, Del, Add, Ctx>>],
               << >> >>

Nothing == [tasks |-> 0, faults |-> 0, pushes |-> 0, reactions |-> 0,
            deletes |-> 0, remarks |-> 0, edits |-> 0]

\* What the runs of a world may find: one issue, the same issue in several
\* places (added line, context lines, too far away, outside the diff), two
\* issues on neighbouring lines.
Same  == {{F("a", 2, "T")}, {F("a", 1, "T"), F("a", 3, "T")},
          {F("a", 2, "T"), F("a", 4, "T"), F("b", 1, "T")}}
Mixed == {{F("a", 2, "T"), F("a", 3, "U")}, {F("a", 1, "T"), F("a", 2, "U")}}
Far   == {{F("a", 2, "T")}, {F("a", 2, "T"), F("a", 4, "T"), F("b", 1, "T")}}
Few   == {{F("a", 2, "T")}, {F("a", 2, "T"), F("a", 4, "T")}}

Review(p, scope_, finds_, budget_) ==
    [kind |-> "review", platform |-> p, scope |-> scope_, finds |-> finds_,
     budget |-> budget_, file |-> NoFile]
Config(p, file_) ==
    [kind |-> "config", platform |-> p, scope |-> "pr", finds |-> {},
     budget |-> [Nothing EXCEPT !.edits = 3], file |-> file_]

SomeFile == [rev |-> 1, good |-> TRUE, keys |-> {<<"author", 1>>}]

ReviewWorlds == {
    Review("github", "pr", Far, [Nothing EXCEPT !.tasks = 3, !.pushes = 1]),
    Review("gitlab", "pr", Same, [Nothing EXCEPT !.tasks = 2, !.pushes = 2]),
    Review("github", "pr", Few, [Nothing EXCEPT !.tasks = 2, !.pushes = 1, !.faults = 1]),
    Review("gitlab", "commit", Few, [Nothing EXCEPT !.tasks = 2, !.pushes = 1, !.faults = 1]),
    Review("bitbucket", "pr", Same, [Nothing EXCEPT !.tasks = 2, !.pushes = 1]),
    Review("bitbucket", "pr", Few, [Nothing EXCEPT !.tasks = 2, !.pushes = 1, !.faults = 1])}
FeedbackWorlds ==
    {Review(p, "pr", Mixed,
            [Nothing EXCEPT !.tasks = 1, !.reactions = 2, !.deletes = 1, !.remarks = 1]) :
        p \in Platforms}
    \cup
    {Review(p, "pr", {{F("a", 2, "T")}, {F("a", 2, "U")}},
            [Nothing EXCEPT !.tasks = 2, !.faults = 1, !.reactions = 2]) :
        p \in {"github", "gitlab"}}
ConfigWorlds == {Config(p, f) : p \in Platforms, f \in {NoFile, SomeFile}}

AllWorlds == ReviewWorlds \cup FeedbackWorlds \cup ConfigWorlds
=============================================================================
