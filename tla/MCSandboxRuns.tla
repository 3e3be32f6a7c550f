---------------------------- MODULE MCSandboxRuns ----------------------------
(***************************************************************************)
(* One run whose code writes a few progress lines, a result line and a     *)
(* verdict: as the protocol wants them, or in a form that one of the two   *)
(* readers or both reject, mend or fail on.                                *)
(***************************************************************************)
EXTENDS SandboxRuns, SequencesExt, TLC

CONSTANT c1

C(name, status, duration, error) ==
    [name |-> name, status |-> status, duration |-> duration, error |-> error]

V(status, cases, compile, readers) ==
    [status |-> status, cases |-> cases, compile |-> compile, readers |-> readers]

Good(status) == C(c1, status, "ms", "text")

\* Broken; as it should be; without content; not a text, a duration or a status where they must be.
MCVerdicts ==
    {V("passed", <<>>, "none", {}),
     V("failed", <<Good("pass"), Good("fail")>>, "none", Reader),
     V("passed", <<>>, "none", Reader),
     V("failed", <<C(Blank, "fail", "ms", "text")>>, "text", Reader),
     V("passed", <<C(c1, "pass", "fraction", "text")>>, "none", Reader),
     V("failed", <<C(c1, "list", "ms", "text")>>, "none", Reader)}

MCLines ==
    {V("passed", <<Good("pass")>>, "none", Reader),
     V("failed", <<C(Number, "fail", "ms", "other")>>, "none", Reader),
     V("failed", <<C(c1, "fail", "null", "text")>>, "other", Reader),
     V("failed", <<>>, "other", Reader)}

E(kind, case, readers, stops) == [kind |-> kind, case |-> case, readers |-> readers, stops |-> stops]

MCEvents ==
    {E("start", Good("other"), Reader, {}),
     E("result", Good("pass"), Reader, {}),
     E("result", C(c1, "pass", "wide", "other"), Reader, {}),
     E("result", C(Blank, "pass", "negative", "text"), {"supervisor"}, {}),
     E("result", Good("list"), Reader, {}),
     E("start", Good("other"), {}, {"backend"})}

\* parseCaseProgress and progress_cases as the loops that they are, line by line.
Loop(events, who) ==
    LET Step(acc, e) ==
          IF acc.stopped \/ who \in e.stops THEN [acc EXCEPT !.stopped = TRUE]
          ELSE IF ~Counts(e, who) THEN acc
          ELSE IF e.kind = "start" THEN [acc EXCEPT !.during = e.case.name]
          ELSE [acc EXCEPT !.cases = Append(@, CaseOf(e)),
                           !.during = IF @ = e.case.name THEN Number ELSE @]
        end == FoldLeft(Step, [cases |-> <<>>, during |-> Number, stopped |-> FALSE], events)
    IN [cases |-> end.cases, during |-> end.during]

LoopEvents ==
    MCEvents \union {E("result", C(Number, "fail", "ms", "text"), Reader, {}),
                     E("start", C(Blank, "other", "ms", "text"), Reader, {}),
                     E("start", Good("other"), {"supervisor"}, {"supervisor"})}

\* Progress is what the loops compute.
ASSUME ProgressIsTheLoop ==
    \A who \in Reader : \A n \in 0..4 : \A events \in [1..n -> LoopEvents] :
        Progress(events, who) = Loop(events, who)
=============================================================================
