---------------------------- MODULE MCProblemPipeline ----------------------------
(***************************************************************************)
(* Three providers, of which two stream.  A problem is drafted with three  *)
(* hidden cases and two public ones, of which none, one or two are wrong;  *)
(* only the jobs with one attempt vary the policy, and a refresh of the    *)
(* profile asks one provider.  The profile has one long note, or two.      *)
(***************************************************************************)
EXTENDS ProblemPipeline, TLC

CONSTANTS p1, p2, p3, h1, h2, h3, v1, v2, loops, joins, trees, graph, sql

Draft(wrong) ==
    [n \in Names |->
        [shown |-> IF n \in {v1, v2} THEN "public" ELSE "hidden", right |-> n \notin wrong]]

MCOrder == <<p1, p2, p3>>

MCDrafts == {Draft(wrong) : wrong \in {{}, {h1}, {h1, v1}}}

MCPolicies ==
    [kind \in Kinds |->
        IF kind = "single"
        THEN {AnyProvider, [AnyProvider EXCEPT !.preferred = p2], [AnyProvider EXCEPT !.allowed = {p2}]}
        ELSE IF kind = "profile" THEN {[AnyProvider EXCEPT !.allowed = {p2}]}
        ELSE {AnyProvider}]

MCSlug == [t \in Titles |-> IF t = loops THEN 1 ELSE IF t = joins THEN 2 ELSE 3]

LongNote(problem, title) ==
    [problem |-> problem, title |-> title, length |-> 100, action |-> "review", created |-> 0]

MCShelves ==
    {[notes |-> 1 :> LongNote(Nothing, loops) @@ NoNotes, summary |-> 300, skills |-> {}],
     [notes |-> 1 :> LongNote(graph, loops) @@ 2 :> LongNote(sql, joins) @@ NoNotes,
      summary |-> 30, skills |-> {}]}

Proposal(op, id, problem, title, length, action) ==
    [op |-> op, id |-> id, problem |-> problem, title |-> title, length |-> length, action |-> action]

\* New notes, one of them of a concept that there is; a note pruned, renamed, linked to
\* a problem, shortened.
MCChanges ==
    {Proposal("create", Nothing, graph, trees, 100, "keep"),
     Proposal("create", 3, Nothing, loops, 30, "review"),
     Proposal("prune", 1, Nothing, Nothing, 0, "none"),
     Proposal("update", 2, Nothing, loops, 0, "keep"),
     Proposal("update", 1, graph, Nothing, 0, "none"),
     Proposal("update", 2, Nothing, Nothing, 30, "none")}

MCRefreshes == {<<"none", Nothing>>, <<"mcq", Nothing>>, <<"coding", graph>>}
=============================================================================
