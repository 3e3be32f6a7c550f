------------------------- MODULE MarathonRunProofs -------------------------
(***************************************************************************)
(* Proofs about MarathonRun, for any answers, any written questions, any   *)
(* bounds and any number of faults.  The inductive invariant says how far  *)
(* every view of the run has come, the one on the page, the session's,     *)
(* those in grading and those in the queue of saves: the page shows no     *)
(* question as open that the memory has a verdict on, unless an earlier    *)
(* page went before the verdict was saved, or the grading of the question  *)
(* was overtaken; and what is in grading and not overtaken is the question *)
(* that the page shows.                                                    *)
(***************************************************************************)
EXTENDS MarathonRun, TLAPS

-----------------------------------------------------------------------------
(* The invariant.                                                          *)

SaveViews == {saves[i].view : i \in DOMAIN saves}

GradingViews == {grading.of[g] : g \in InGrading}

Views == {view, row.view} \union GradingViews \union SaveViews

Gradings == [on : BOOLEAN, of : [Graders -> View]]

\* The questions that may get a second verdict.
Spared == forgot \union overtaken

\* The questions of the set of v that v shows as not answered yet.
Ahead(v) ==
    {q \in Question : q.set = v.set /\ (q.index > v.index \/ (q.index = v.index /\ ~v.confirmed))}

Asked(events) == {e.question : e \in events \intersect Verdict}

SnapshotFits(v, built, mindful) ==
    /\ v.set <= built
    /\ \A round \in Rounds : round < v.round => round \in mindful
    /\ \A q \in Judged(v) : q.set <= v.set /\ q \notin Ahead(v)

SnapshotsFit == \A v \in Views : SnapshotFits(v, sets, reflected)

PageFits ==
    /\ In("active") => page.work \in {"none", "enter"}
    /\ In("loading") => page.work \in {"generate", "flush", "maintain", "complete"}
    /\ page.phase \notin {"active", "loading"} => page.work = "none"
    /\ In("closed") => page.exit = "none"
    /\ \A round \in Rounds : round < page.round => round \in reflected
    /\ In("active") \/ page.work \in {"flush", "maintain", "complete"} => view.set > 0
    /\ page.work \in {"flush", "maintain"} =>
           view.confirmed /\ (page.goal = "next" => view.round < MaxRounds)
    /\ page.left.set <= sets

\* A grade that is still to come is about the question on the page, or an earlier one
\* of its set, or an older set; the page waits for it unless it was overtaken.
GradeFits(v) ==
    /\ ~v.confirmed
    /\ v.set > 0 /\ v.set <= view.set
    /\ v.set = view.set => v.index <= view.index
    /\ Current(v) \notin overtaken => grading.on /\ v = view

GradingFits == \A v \in GradingViews : GradeFits(v)

Awaited(for, p) ==
    /\ for = "enter" => p.work = "enter"
    /\ for = "finish" => p.work = "complete"
    /\ for = "exit" => p.exit = "save"

\* What somebody waits for is in the queue once.
QueueFits ==
    ~In("closed") =>
        /\ \A i \in DOMAIN saves : Awaited(saves[i].for, page)
        /\ \A i, j \in DOMAIN saves : i # j /\ saves[i].for # "" => saves[i].for # saves[j].for

ViewFollows == AsFarAs(view, page.left)

\* Behind the save of the exit there is nothing older than it.
SavesFollow ==
    /\ page.exit = "save" =>
           \A i \in DOMAIN saves : saves[i].for = "exit" =>
               /\ saves[i].view = page.left
               /\ \A j \in DOMAIN saves : j > i => AsFarAs(saves[j].view, page.left)
    /\ page.exit = "flush" =>
           /\ AsFarAs(row.view, page.left)
           /\ \A i \in DOMAIN saves : AsFarAs(saves[i].view, page.left)

ExitFits == page.exit # "none" /\ ~strayed => ViewFollows /\ SavesFollow

Unsettled == {p.event : p \in {p \in pending : p.promise # "ok"}}

Waited(waiter) == flush[waiter].open \union flush[waiter].failed

EventsFit ==
    /\ {p.event : p \in pending} \subseteq tracked
    /\ ~In("closed") => tracked \subseteq recorded \union Unsettled
    /\ page.work = "flush" =>
           /\ flush["reflection"].failed \subseteq tracked
           /\ ~strayed => tracked \subseteq recorded \union Waited("reflection")
    /\ page.exit = "flush" => flush["exit"].failed \subseteq tracked
    /\ page.work = "maintain" /\ ~strayed => tracked \subseteq recorded
    /\ \A q \in Asked(recorded \union tracked) : q.set <= sets

VerdictsFit ==
    /\ Asked(recorded \union tracked) \intersect Ahead(view) \subseteq Spared
    /\ \A v \in {row.view} \union GradingViews \union SaveViews :
           Asked(recorded) \intersect Ahead(v) \subseteq Spared \union Asked(tracked)
    /\ \A e, f \in (recorded \union tracked) \intersect Verdict :
           e # f /\ e.question = f.question => e.question \in Spared

\* What the handler knows that builds a round, or finishes: questions that were shown, and
\* during the reflection what the page shows, unless a grade has strayed.
HeldFits ==
    /\ \A u \in page.held : u.question.set <= view.set
    /\ page.work \in {"flush", "maintain"} =>
           /\ \A u \in page.held : u.question \notin Ahead(view)
           /\ ~strayed => page.held = view.verdicts

Inv ==
    /\ TypeOK
    /\ SnapshotsFit
    /\ PageFits /\ GradingFits /\ QueueFits
    /\ ExitFits
    /\ EventsFit /\ VerdictsFit

-----------------------------------------------------------------------------
(* Views, pages and patches.                                               *)

LEMMA BoundsFit ==
    /\ SetSize \in Nat \ {0} /\ MaxRounds \in Nat \ {0} /\ MaxSets \in Nat \ {0}
    /\ MaxFaults \in Nat
    /\ 1 \in Rounds /\ 1 \in 1..SetSize /\ 0 \in 0..MaxSets
BY MarathonAssumption DEF Rounds

LEMMA NoSetFits == NoSet \in View /\ NoSet.set = 0 /\ NoSet.round = 1 /\ NoSet.verdicts = {}
BY BoundsFit DEF NoSet, View

LEMMA ViewIs ==
    ASSUME NEW v \in View
    PROVE  /\ v.round \in Rounds /\ v.set \in 0..MaxSets /\ v.index \in 1..SetSize
           /\ v.confirmed \in BOOLEAN /\ v.verdicts \in SUBSET Verdict
BY DEF View

\* The views that the steps make of v.
FreshOf(v, r, s, i, c) == [v EXCEPT !.round = r, !.set = s, !.index = i, !.confirmed = c]

CleanOf(v, d) == [v EXCEPT !.verdicts = d]

SettledOf(v, c, d) == [v EXCEPT !.confirmed = c, !.verdicts = d]

NextOf(v, i, c) == [v EXCEPT !.index = i, !.confirmed = c]

\* What is left of a grading when the page shows another question.
QuietOf(g, c) == [g EXCEPT !.on = c]

LEMMA QuietGrading ==
    ASSUME NEW g \in Gradings, NEW c \in BOOLEAN
    PROVE  QuietOf(g, c) \in Gradings /\ QuietOf(g, c).of = g.of /\ QuietOf(g, c).on = c
BY DEF QuietOf, Gradings

LEMMA FreshView ==
    ASSUME NEW v \in View, NEW r \in Rounds, NEW s \in 0..MaxSets, NEW i \in 1..SetSize,
           NEW c \in BOOLEAN
    PROVE  LET w == FreshOf(v, r, s, i, c)
           IN  /\ w \in View /\ w.round = r /\ w.set = s /\ w.index = i /\ w.confirmed = c
               /\ w.verdicts = v.verdicts
BY DEF View, FreshOf

LEMMA CleanView ==
    ASSUME NEW v \in View, NEW d \in SUBSET Verdict
    PROVE  LET w == CleanOf(v, d)
           IN  /\ w \in View /\ w.round = v.round /\ w.set = v.set /\ w.index = v.index
               /\ w.confirmed = v.confirmed /\ w.verdicts = d
BY DEF View, CleanOf

LEMMA SettledView ==
    ASSUME NEW v \in View, NEW c \in BOOLEAN, NEW d \in SUBSET Verdict
    PROVE  LET w == SettledOf(v, c, d)
           IN  /\ w \in View /\ w.round = v.round /\ w.set = v.set /\ w.index = v.index
               /\ w.confirmed = c /\ w.verdicts = d
BY DEF View, SettledOf

LEMMA NextView ==
    ASSUME NEW v \in View, NEW i \in 1..SetSize, NEW c \in BOOLEAN
    PROVE  LET w == NextOf(v, i, c)
           IN  /\ w \in View /\ w.round = v.round /\ w.set = v.set /\ w.index = i
               /\ w.confirmed = c /\ w.verdicts = v.verdicts
BY DEF View, NextOf

LEMMA PageIs ==
    ASSUME NEW p \in Page
    PROVE  /\ p.phase \in {"closed", "loading", "active", "generation_failed", "results"}
           /\ p.work \in {"none", "generate", "enter", "flush", "maintain", "complete"}
           /\ p.goal \in {"next", "finish"} /\ p.round \in Rounds
           /\ p.exit \in {"none", "save", "flush"} /\ p.exited \in BOOLEAN
           /\ p.told \in SUBSET Rounds /\ p.left \in View /\ p.held \in SUBSET Verdict
BY DEF Page

LEMMA ClosedFits ==
    /\ Closed \in Page /\ Closed.phase = "closed" /\ Closed.work = "none" /\ Closed.exit = "none"
    /\ Closed.round = 1 /\ Closed.left = NoSet /\ Closed.held = {}
BY BoundsFit, NoSetFits DEF Closed, Page

LEMMA IdleFits == Idle \in Gradings /\ ~Idle.on /\ \A g \in Graders : Idle.of[g] = NoSet
BY NoSetFits DEF Idle, Gradings

LEMMA AppendIs ==
    ASSUME NEW s \in Seq(Patch), NEW p \in Patch
    PROVE  /\ Append(s, p) \in Seq(Patch) /\ Len(s) \in Nat
           /\ DOMAIN s = 1..Len(s) /\ DOMAIN Append(s, p) = 1..(Len(s) + 1)
           /\ \A i \in 1..Len(s) : Append(s, p)[i] = s[i] /\ s[i] \in Patch
           /\ Append(s, p)[Len(s) + 1] = p
OBVIOUS

LEMMA TailIs ==
    ASSUME NEW s \in Seq(Patch), s # <<>>
    PROVE  /\ Tail(s) \in Seq(Patch) /\ Head(s) \in Patch /\ Head(s) = s[1]
           /\ Len(s) \in Nat \ {0}
           /\ DOMAIN s = 1..Len(s) /\ DOMAIN Tail(s) = 1..(Len(s) - 1)
           /\ \A i \in 1..(Len(s) - 1) : Tail(s)[i] = s[i + 1]
OBVIOUS

LEMMA PatchIs ==
    ASSUME NEW p \in Patch
    PROVE  /\ p.status \in {"", "active", "completed"} /\ p.view \in View
           /\ p.for \in {"", "enter", "finish", "exit"}
BY DEF Patch

\* A row that a patch has written.
LEMMA WrittenRow ==
    ASSUME NEW r \in [status : {"active", "completed"}, view : View], NEW p \in Patch
    PROVE  LET now == [status |-> IF p.status = "" THEN r.status ELSE p.status, view |-> p.view]
           IN  now \in [status : {"active", "completed"}, view : View] /\ now.view = p.view
BY PatchIs

\* Whatever is told of a round is not about a question.
LEMMA ToldIs ==
    ASSUME NEW type \in {"started", "completed", "exited"}, NEW r \in Rounds
    PROVE  Told(type, r) \in Event /\ Told(type, r) \notin Verdict
BY DEF Told, Event, Verdict

LEMMA EventIs == ASSUME NEW e \in Event PROVE e \in Verdict \/ e \in [type : {"started", "completed", "exited"}, round : Rounds]
BY DEF Event

LEMMA CurrentIs ==
    ASSUME NEW v \in View, v.set > 0
    PROVE  Current(v) \in Question /\ Current(v).set = v.set /\ Current(v).index = v.index
<1>1. v.set \in 1..MaxSets /\ v.index \in 1..SetSize
    BY ViewIs, BoundsFit
<1> QED
    BY <1>1 DEF Current, Question

LEMMA VerdictIs ==
    ASSUME NEW v \in View, v.set > 0, NEW as \in Answers \union {"skipped"}
    PROVE  LET verdict == [question |-> Current(v), round |-> v.round, as |-> as]
           IN  /\ verdict \in Verdict /\ verdict \in Event
               /\ verdict.question = Current(v) /\ verdict.as = as /\ Current(v) \in Question
               /\ Current(v).set = v.set /\ Current(v).index = v.index
<1>1. Current(v) \in Question /\ Current(v).set = v.set /\ Current(v).index = v.index
    BY CurrentIs
<1>2. v.round \in Rounds
    BY ViewIs
<1> QED
    BY <1>1, <1>2 DEF Verdict, Event

LEMMA ViewsFit ==
    ASSUME TypeOK
    PROVE  /\ page \in Page /\ view \in View /\ row.view \in View
           /\ grading \in Gradings /\ grading.on \in BOOLEAN /\ GradingViews \subseteq View
           /\ row \in [status : {"active", "completed"}, view : View]
           /\ saves \in Seq(Patch)
           /\ \A i \in DOMAIN saves : saves[i] \in Patch /\ saves[i].view \in View
           /\ SaveViews \subseteq View /\ Views \subseteq View
           /\ sets \in 0..MaxSets /\ sets \in Nat
<1>1. /\ page \in Page /\ view \in View /\ grading \in Gradings
      /\ row \in [status : {"active", "completed"}, view : View]
      /\ saves \in Seq(Patch) /\ sets \in 0..MaxSets
    BY DEF TypeOK, Gradings
<1>2. \A i \in DOMAIN saves : saves[i] \in Patch
    BY <1>1
<1>3. \A i \in DOMAIN saves : saves[i].view \in View
    BY <1>2, PatchIs
<1>4. SaveViews \subseteq View
    BY <1>3 DEF SaveViews
<1>5. row.view \in View /\ grading.on \in BOOLEAN /\ sets \in Nat
    BY <1>1, BoundsFit DEF Gradings
<1>6. GradingViews \subseteq View
    BY <1>1 DEF GradingViews, InGrading, Gradings
<1> QED
    BY <1>1, <1>2, <1>3, <1>4, <1>5, <1>6 DEF Views

-----------------------------------------------------------------------------
(* What is in grading.                                                     *)

\* What any step may do: more is overtaken, and the page is the only one to send a view.
GradingStep ==
    /\ grading' \in Gradings
    /\ GradingViews' \subseteq GradingViews \union {view}
    /\ overtaken' \in SUBSET Question
    /\ overtaken \subseteq overtaken'

LEMMA InGradingIs ==
    ASSUME NEW v \in GradingViews
    PROVE  \E g \in InGrading : v = grading.of[g]
BY DEF GradingViews

LEMMA SameGradings ==
    ASSUME grading'.of = grading.of
    PROVE  GradingViews' = GradingViews
BY DEF GradingViews, InGrading

LEMMA GradingKept ==
    ASSUME TypeOK, GradingFits, UNCHANGED <<view, grading, historyVars>>
    PROVE  GradingStep /\ GradingFits' /\ GradingViews' = GradingViews
<1>1. view' = view /\ grading' = grading /\ overtaken' = overtaken
    BY DEF historyVars
<1>2. GradingViews' = GradingViews
    BY <1>1, SameGradings
<1>3. grading \in Gradings /\ overtaken \in SUBSET Question
    BY DEF TypeOK, Gradings
<1>4. GradingFits'
    BY <1>1, <1>2 DEF GradingFits, GradeFits
<1> QED
    BY <1>1, <1>2, <1>3, <1>4 DEF GradingStep

\* A call begins.
LEMMA GradingBegins ==
    ASSUME grading \in Gradings, view \in View, NEW g \in Graders,
           grading' = [on |-> TRUE, of |-> [grading.of EXCEPT ![g] = view]]
    PROVE  /\ grading' \in Gradings /\ grading'.on
           /\ GradingViews' \subseteq GradingViews \union {view}
<1> DEFINE of == [grading.of EXCEPT ![g] = view]
<1>1. of \in [Graders -> View] /\ \A h \in Graders : of[h] = IF h = g THEN view ELSE grading.of[h]
    BY DEF Gradings
<1>2. grading'.of = of /\ grading'.on /\ grading' = [on |-> TRUE, of |-> of]
    OBVIOUS
<1> HIDE DEF of
<1>3. GradingViews' \subseteq GradingViews \union {view}
    BY <1>1, <1>2 DEF GradingViews, InGrading
<1> QED
    BY <1>1, <1>2, <1>3 DEF Gradings

\* A call ends, and overtakes the others.
LEMMA GradingEnds ==
    ASSUME TypeOK, GradingFits, NEW g \in InGrading, Overtake(InGrading \ {g}),
           grading' = [on |-> FALSE, of |-> [grading.of EXCEPT ![g] = NoSet]]
    PROVE  /\ grading' \in Gradings /\ GradingViews' \subseteq GradingViews
           /\ \A v \in GradingViews' : Current(v) \in overtaken'
           /\ overtaken \subseteq overtaken' /\ overtaken' \in SUBSET Question
           /\ grading.of[g] \in GradingViews
<1> DEFINE of == [grading.of EXCEPT ![g] = NoSet]
<1>1. grading \in Gradings /\ g \in Graders /\ overtaken \in SUBSET Question
    BY DEF TypeOK, Gradings, InGrading
<1>2. of \in [Graders -> View] /\ \A h \in Graders : of[h] = IF h = g THEN NoSet ELSE grading.of[h]
    BY <1>1, NoSetFits DEF Gradings
<1>3. grading'.of = of /\ grading' = [on |-> FALSE, of |-> of]
    OBVIOUS
<1> HIDE DEF of
<1>4. GradingViews' = {grading.of[h] : h \in InGrading \ {g}}
    <2>1. InGrading' = InGrading \ {g}
        BY <1>1, <1>2, <1>3 DEF InGrading
    <2>2. \A h \in InGrading \ {g} : grading'.of[h] = grading.of[h]
        BY <1>2, <1>3 DEF InGrading
    <2> QED
        BY <2>1, <2>2 DEF GradingViews
<1>5. overtaken' = overtaken \union {Current(grading.of[h]) : h \in InGrading \ {g}}
    BY DEF Overtake
<1>6. \A v \in GradingViews : Current(v) \in Question
    BY ViewsFit, CurrentIs DEF GradingFits, GradeFits
<1>7. grading' \in Gradings
    BY <1>2, <1>3 DEF Gradings
<1> QED
    BY <1>1, <1>4, <1>5, <1>6, <1>7 DEF GradingViews

-----------------------------------------------------------------------------
(* What a step leaves alone.                                               *)

LEMMA AsFarAsItself == ASSUME NEW v \in View PROVE AsFarAs(v, v)
BY DEF AsFarAs

LEMMA AskedBoth ==
    ASSUME NEW E, NEW F
    PROVE  Asked(E \union F) = Asked(E) \union Asked(F)
BY DEF Asked

LEMMA AskedIs ==
    ASSUME NEW E, NEW q \in Asked(E)
    PROVE  /\ q \in Question /\ q.set \in Nat /\ q.index \in Nat
           /\ \E e \in E \intersect Verdict : e.question = q
<1>1. PICK e \in E \intersect Verdict : e.question = q
    BY DEF Asked
<1>2. q \in Question
    BY <1>1 DEF Verdict
<1> QED
    BY <1>1, <1>2, BoundsFit DEF Question

LEMMA UnsettledIs ==
    ASSUME NEW e
    PROVE  e \in Unsettled <=> \E p \in pending : p.event = e /\ p.promise # "ok"
BY DEF Unsettled

LEMMA PromisesAdded ==
    ASSUME NEW P, NEW E, NEW Q, Q = P \union {[event |-> e, promise |-> "open"] : e \in E}
    PROVE  /\ \A q \in Q : q \in P \/ (q.event \in E /\ q.promise = "open")
           /\ P \subseteq Q
           /\ \A e \in E : \E q \in Q : q.event = e /\ q.promise = "open"
<1>1. ASSUME NEW q \in Q PROVE q \in P \/ (q.event \in E /\ q.promise = "open")
    OBVIOUS
<1>2. ASSUME NEW e \in E PROVE \E q \in Q : q.event = e /\ q.promise = "open"
    <2>1. [event |-> e, promise |-> "open"] \in Q
        OBVIOUS
    <2> QED
        BY <2>1
<1> QED
    BY <1>1, <1>2

\* The events that are told of are about questions that were built.
LEMMA AskedStay ==
    ASSUME TypeOK, EventsFit, sets' \in Nat, sets <= sets'
    PROVE  \A q \in Asked(recorded \union tracked) : q.set <= sets'
<1> SUFFICES ASSUME NEW q \in Asked(recorded \union tracked) PROVE q.set <= sets'
    OBVIOUS
<1>1. q.set \in Nat /\ sets \in Nat
    BY AskedIs, ViewsFit
<1>2. q.set <= sets
    BY DEF EventsFit
<1> QED
    BY <1>1, <1>2

\* How far ahead a view looks.
LEMMA AheadIs ==
    ASSUME NEW v \in View, NEW q \in Ahead(v)
    PROVE  /\ q \in Question /\ q.set = v.set /\ q.set \in Nat \ {0} /\ q.index \in Nat
           /\ v.index <= q.index /\ (v.confirmed => v.index < q.index)
<1>1. /\ q \in Question /\ q.set = v.set
      /\ q.index > v.index \/ (q.index = v.index /\ ~v.confirmed)
    BY DEF Ahead
<1>2. v.index \in Nat /\ q.set \in Nat \ {0} /\ q.index \in Nat
    BY <1>1, ViewIs, BoundsFit DEF Question
<1> QED
    BY <1>1, <1>2

LEMMA AheadSettled ==
    ASSUME NEW v \in View, NEW w \in View, w.set = v.set, w.index = v.index, w.confirmed
    PROVE  Ahead(w) \subseteq Ahead(v)
BY DEF Ahead

LEMMA CurrentAhead ==
    ASSUME NEW v \in View, v.set > 0, ~v.confirmed
    PROVE  Current(v) \in Ahead(v)
BY CurrentIs DEF Ahead

LEMMA NothingAhead == Ahead(NoSet) = {}
BY NoSetFits, AheadIs

LEMMA GrownSaves ==
    ASSUME TypeOK, NEW p \in Patch, saves' = Append(saves, p)
    PROVE  /\ saves' \in Seq(Patch)
           /\ \A i \in DOMAIN saves : i \in DOMAIN saves' /\ saves'[i] = saves[i]
           /\ \E last \in DOMAIN saves' :
                /\ saves'[last] = p
                /\ \A i \in DOMAIN saves' : i \in DOMAIN saves \/ i = last
<1>1. /\ DOMAIN saves = 1..Len(saves) /\ DOMAIN saves' = 1..(Len(saves) + 1) /\ Len(saves) \in Nat
      /\ \A i \in 1..Len(saves) : saves'[i] = saves[i]
      /\ saves'[Len(saves) + 1] = p /\ saves' \in Seq(Patch)
    BY ViewsFit, AppendIs
<1>2. \A i \in 1..(Len(saves) + 1) : i \in 1..Len(saves) \/ i = Len(saves) + 1
    BY <1>1
<1>3. \A i \in 1..Len(saves) : i \in 1..(Len(saves) + 1)
    BY <1>1
<1>4. Len(saves) + 1 \in 1..(Len(saves) + 1)
    BY <1>1
<1> QED
    BY <1>1, <1>2, <1>3, <1>4

LEMMA GrownViews ==
    ASSUME TypeOK, NEW p \in Patch, saves' = Append(saves, p)
    PROVE  SaveViews' = SaveViews \union {p.view}
<1>1. PICK last \in DOMAIN saves' :
        /\ saves'[last] = p
        /\ \A i \in DOMAIN saves' : i \in DOMAIN saves \/ i = last
    BY GrownSaves
<1>2. \A i \in DOMAIN saves : i \in DOMAIN saves' /\ saves'[i] = saves[i]
    BY GrownSaves
<1> QED
    BY <1>1, <1>2 DEF SaveViews

LEMMA ShrunkViews ==
    ASSUME TypeOK, saves # <<>>, saves' = Tail(saves)
    PROVE  saves' \in Seq(Patch) /\ SaveViews' \subseteq SaveViews /\ Head(saves).view \in SaveViews
<1>1. /\ DOMAIN saves = 1..Len(saves) /\ DOMAIN saves' = 1..(Len(saves) - 1) /\ Len(saves) \in Nat \ {0}
      /\ \A i \in 1..(Len(saves) - 1) : saves'[i] = saves[i + 1]
      /\ Head(saves) = saves[1] /\ saves' \in Seq(Patch)
    BY ViewsFit, TailIs
<1>2. 1 \in DOMAIN saves /\ \A i \in DOMAIN saves' : i + 1 \in DOMAIN saves
    BY <1>1
<1> QED
    BY <1>1, <1>2 DEF SaveViews

LEMMA SnapshotsKept ==
    ASSUME TypeOK, SnapshotsFit, sets' \in Nat, sets <= sets', reflected \subseteq reflected',
           \A v \in Views' : v \in Views \/ SnapshotFits(v, sets', reflected')
    PROVE  SnapshotsFit'
<1> SUFFICES ASSUME NEW v \in Views PROVE SnapshotFits(v, sets', reflected')
    BY DEF SnapshotsFit
<1>1. v \in View /\ sets \in Nat
    BY ViewsFit
<1>2. v.set \in Nat
    BY <1>1, ViewIs, BoundsFit
<1>3. SnapshotFits(v, sets, reflected)
    BY DEF SnapshotsFit
<1> QED
    BY <1>1, <1>2, <1>3 DEF SnapshotFits

LEMMA QueueGrows ==
    ASSUME TypeOK, QueueFits, NEW p \in Patch, saves' = Append(saves, p),
           In("closed") => In("closed")',
           ~In("closed")' =>
               /\ \A i \in DOMAIN saves : Awaited(saves[i].for, page')
               /\ Awaited(p.for, page')
               /\ p.for # "" => \A i \in DOMAIN saves : saves[i].for # p.for
    PROVE  QueueFits'
<1> SUFFICES ASSUME ~In("closed")'
             PROVE  /\ \A i \in DOMAIN saves' : Awaited(saves'[i].for, page')
                    /\ \A i, j \in DOMAIN saves' :
                            i # j /\ saves'[i].for # "" => saves'[i].for # saves'[j].for
    BY DEF QueueFits
<1>1. PICK last \in DOMAIN saves' :
        /\ saves'[last] = p
        /\ \A i \in DOMAIN saves' : i \in DOMAIN saves \/ i = last
    BY GrownSaves
<1>2. \A i \in DOMAIN saves : i \in DOMAIN saves' /\ saves'[i] = saves[i]
    BY GrownSaves
<1>3. \A i, j \in DOMAIN saves : i # j /\ saves[i].for # "" => saves[i].for # saves[j].for
    BY DEF QueueFits
<1>4. \A i \in DOMAIN saves' : Awaited(saves'[i].for, page')
    BY <1>1, <1>2
<1>5. ASSUME NEW i \in DOMAIN saves', NEW j \in DOMAIN saves', i # j, saves'[i].for # ""
      PROVE  saves'[i].for # saves'[j].for
    <2>1. CASE i \in DOMAIN saves /\ j \in DOMAIN saves
        BY <1>2, <1>3, <1>5, <2>1
    <2>2. CASE i \in DOMAIN saves /\ j = last
        BY <1>1, <1>2, <1>5, <2>2
    <2>3. CASE i = last /\ j \in DOMAIN saves
        BY <1>1, <1>2, <1>5, <2>3
    <2> QED
        BY <1>1, <1>5, <2>1, <2>2, <2>3
<1> QED
    BY <1>4, <1>5

LEMMA FollowersGrow ==
    ASSUME TypeOK, SavesFollow, NEW p \in Patch, saves' = Append(saves, p), row' = row,
           page'.exit = page.exit, page'.left = page.left, p.for # "exit",
           AsFarAs(p.view, page.left)
    PROVE  SavesFollow'
<1>1. /\ DOMAIN saves = 1..Len(saves) /\ DOMAIN saves' = 1..(Len(saves) + 1) /\ Len(saves) \in Nat
      /\ \A i \in 1..Len(saves) : saves'[i] = saves[i]
      /\ saves'[Len(saves) + 1] = p
    BY ViewsFit, AppendIs
<1>2. \A i \in DOMAIN saves' : i \in DOMAIN saves \/ i = Len(saves) + 1
    BY <1>1
<1> QED
    BY <1>1, <1>2 DEF SavesFollow

LEMMA ExitKept ==
    ASSUME ExitFits, page'.exit = page.exit, page'.left = page.left, ~strayed' => ~strayed,
           page.exit # "none" /\ ~strayed' /\ ViewFollows => ViewFollows',
           page.exit # "none" /\ ~strayed' /\ ViewFollows /\ SavesFollow => SavesFollow'
    PROVE  ExitFits'
BY DEF ExitFits

LEMMA EventsKept ==
    ASSUME TypeOK, EventsFit, UNCHANGED <<pending, flush, tracked, recorded>>,
           sets' \in Nat, sets <= sets', ~strayed' => ~strayed,
           In("closed") => In("closed")', page'.work \in {"flush", "maintain"} => page'.work = page.work,
           page'.exit = "flush" => page.exit = "flush"
    PROVE  EventsFit'
<1>1. \A q \in Asked(recorded \union tracked) : q.set <= sets'
    BY AskedStay
<1> QED
    BY <1>1 DEF EventsFit, Unsettled, Waited

\* Events are tracked when the page neither flushes nor reflects, or has gone astray.
LEMMA EventsTracked ==
    ASSUME TypeOK, EventsFit, NEW events \in SUBSET Event,
           pending' = pending \union {[event |-> e, promise |-> "open"] : e \in events},
           tracked' = tracked \union events, recorded' = recorded, flush' = flush,
           sets' \in Nat, sets <= sets',
           \A q \in Asked(events) : q.set <= sets',
           In("closed") => In("closed")',
           ~strayed' => ~strayed,
           page'.work = "flush" => page.work = "flush" /\ strayed',
           page'.work = "maintain" => strayed',
           page'.exit = "flush" => page.exit = "flush"
    PROVE  EventsFit'
<1>1. \A q \in Asked(recorded \union tracked) : q.set <= sets'
    BY AskedStay
<1>2. \A q \in Asked(recorded \union tracked') : q.set <= sets'
    <2>1. Asked(recorded \union tracked') = Asked(recorded \union tracked) \union Asked(events)
        BY AskedBoth
    <2> QED
        BY <1>1, <2>1
<1>3. /\ \A q \in pending' : q \in pending \/ (q.event \in events /\ q.promise = "open")
      /\ pending \subseteq pending'
      /\ \A e \in events : \E q \in pending' : q.event = e /\ q.promise = "open"
    BY PromisesAdded
<1>4. {p.event : p \in pending'} \subseteq tracked'
    BY <1>3 DEF EventsFit
<1>5. Unsettled \union events \subseteq Unsettled'
    <2>1. ASSUME NEW e \in Unsettled \union events PROVE e \in Unsettled'
        <3>1. \E p \in pending' : p.event = e /\ p.promise # "ok"
            BY <1>3, UnsettledIs
        <3> QED
            BY <3>1 DEF Unsettled
    <2> QED
        BY <2>1
<1>6. ~In("closed")' => tracked' \subseteq recorded' \union Unsettled'
    BY <1>5 DEF EventsFit
<1> QED
    BY <1>2, <1>4, <1>6 DEF EventsFit, Waited

\* No verdict is new, and no view goes back.
LEMMA VerdictsKept ==
    ASSUME VerdictsFit,
           recorded' \intersect Verdict \subseteq recorded \union tracked,
           tracked' \intersect Verdict = tracked \intersect Verdict,
           forgot' = forgot, overtaken \subseteq overtaken',
           \/ Ahead(view') \subseteq Ahead(view)
           \/ Ahead(view') \intersect Asked(recorded \union tracked) = {},
           \A v \in {row'.view} \union GradingViews' \union SaveViews' :
               \/ \E w \in Views : Ahead(v) \subseteq Ahead(w)
               \/ Ahead(v) \intersect Asked(recorded \union tracked) = {}
    PROVE  VerdictsFit'
<1>1. (recorded' \union tracked') \intersect Verdict \subseteq (recorded \union tracked) \intersect Verdict
    OBVIOUS
<1>2. Asked(recorded' \union tracked') \subseteq Asked(recorded \union tracked)
    BY <1>1 DEF Asked
<1>3. Asked(recorded') \subseteq Asked(recorded) \union Asked(tracked)
    BY DEF Asked
<1>4. Asked(tracked') = Asked(tracked) /\ Asked(recorded \union tracked) = Asked(recorded) \union Asked(tracked)
    BY AskedBoth DEF Asked
<1>5. Spared \subseteq Spared'
    BY DEF Spared
<1>6. Asked(recorded' \union tracked') \intersect Ahead(view') \subseteq Spared'
    BY <1>2, <1>5 DEF VerdictsFit
<1>7. ASSUME NEW v \in {row'.view} \union GradingViews' \union SaveViews'
      PROVE  Asked(recorded') \intersect Ahead(v) \subseteq Spared' \union Asked(tracked')
    <2>1. CASE Ahead(v) \intersect Asked(recorded \union tracked) = {}
        BY <1>3, <1>4, <2>1
    <2>2. CASE \E w \in Views : Ahead(v) \subseteq Ahead(w)
        <3>1. PICK w \in Views : Ahead(v) \subseteq Ahead(w)
            BY <2>2
        <3>2. Asked(recorded) \intersect Ahead(w) \subseteq Spared \union Asked(tracked)
            BY <1>4 DEF VerdictsFit, Views
        <3> QED
            BY <1>3, <1>4, <1>5, <3>1, <3>2
    <2> QED
        BY <1>7, <2>1, <2>2
<1>8. \A e, f \in (recorded' \union tracked') \intersect Verdict :
            e # f /\ e.question = f.question => e.question \in Spared'
    BY <1>1, <1>5 DEF VerdictsFit
<1> QED
    BY <1>6, <1>7, <1>8 DEF VerdictsFit

-----------------------------------------------------------------------------
(* A verdict is settled.                                                   *)

\* v is the view of a handler that may judge its question.
Judges(v) ==
    /\ v \in {view} \union GradingViews
    /\ v \in View /\ v.set > 0 /\ ~v.confirmed /\ v.set <= view.set
    /\ v.set = view.set => v.index <= view.index
    /\ Current(v) \notin overtaken => v = view

LEMMA FurtherView ==
    ASSUME NEW u \in View, NEW v \in View, NEW w \in View, NEW x \in View,
           AsFarAs(u, w), AsFarAs(v, w),
           u.set = x.set, v.set = x.set, u.index = x.index, v.index = x.index,
           u.verdicts \intersect v.verdicts \subseteq x.verdicts, x.confirmed
    PROVE  AsFarAs(x, w)
<1>1. /\ u.set \in Nat /\ w.set \in Nat /\ u.index \in Nat /\ w.index \in Nat
    BY ViewIs, BoundsFit
<1> QED
    BY <1>1 DEF AsFarAs

LEMMA TypesOfEvents ==
    ASSUME TypeOK, NEW events \in SUBSET Event, Track(events)
    PROVE  /\ pending' \in SUBSET [event : Event, promise : {"open", "ok", "failed"}]
           /\ flush' \in [Waiter -> [open : SUBSET Event, failed : SUBSET Event]]
           /\ tracked' \in SUBSET Event
<1>1. \A e \in events : [event |-> e, promise |-> "open"] \in [event : Event, promise : {"open", "ok", "failed"}]
    OBVIOUS
<1> QED
    BY <1>1 DEF TypeOK, Track

\* What Settle does, with the verdict and the patch that it makes.
SettlesWith(v, verdict, patch) ==
    /\ verdict \in Event /\ verdict.question = Current(v)
    /\ view' \in View /\ view'.round = view.round /\ view'.set = view.set
    /\ view'.index = view.index /\ view'.confirmed
    /\ view'.verdicts \subseteq v.verdicts \union view.verdicts \union {verdict}
    /\ v.verdicts \intersect view.verdicts \subseteq view'.verdicts
    /\ patch.for = "" /\ patch.view \in View /\ patch.view.confirmed
    /\ patch.view.round = v.round /\ patch.view.set = v.set /\ patch.view.index = v.index
    /\ patch.view.verdicts = v.verdicts \union {verdict}
    /\ saves' = Append(saves, patch)
    /\ Track({verdict})

LEMMA SettleIs ==
    ASSUME Inv, NEW v, Judges(v), NEW as \in Answers \union {"skipped"}, Settle(v, as)
    PROVE  \E verdict \in Verdict, patch \in Patch : SettlesWith(v, verdict, patch)
<1> DEFINE verdict == [question |-> Current(v), round |-> v.round, as |-> as]
           results == {u \in v.verdicts : u.as # "skipped"}
           skipped == {u \in view.verdicts : u.as = "skipped"}
           shown == results \union skipped \union {verdict}
           kept == v.verdicts \union {verdict}
           yes == TRUE
           saved == [v EXCEPT !.confirmed = yes, !.verdicts = kept]
           patch == [status |-> "", view |-> saved, for |-> ""]
<1>1. verdict \in Verdict /\ verdict \in Event /\ verdict.question = Current(v)
    BY VerdictIs DEF Judges
<1>2. v \in View /\ view \in View /\ yes \in BOOLEAN
    BY ViewsFit DEF Judges, Inv
<1>3. v.verdicts \in SUBSET Verdict /\ view.verdicts \in SUBSET Verdict
    BY <1>2, ViewIs
<1>4. shown \in SUBSET Verdict /\ kept \in SUBSET Verdict
    BY <1>1, <1>3
<1>5. view' = [view EXCEPT !.confirmed = yes, !.verdicts = shown] /\ Track({verdict})
    BY DEF Settle
<1>6. saves' = Append(saves, [status |-> "", view |-> [v EXCEPT !.confirmed = TRUE, !.verdicts = @ \union {verdict}], for |-> ""])
    BY DEF Settle, Persist
<1>7. saved = [v EXCEPT !.confirmed = TRUE, !.verdicts = @ \union {verdict}]
    BY Zenon
<1>8. saves' = Append(saves, patch)
    BY <1>6, <1>7
<1>9. /\ shown \subseteq v.verdicts \union view.verdicts \union {verdict}
      /\ v.verdicts \intersect view.verdicts \subseteq shown
      /\ kept = v.verdicts \union {verdict} /\ yes
    OBVIOUS
<1>10. patch.view = saved /\ patch.for = "" /\ patch.status = ""
    OBVIOUS
<1>11. saved = [v EXCEPT !.confirmed = yes, !.verdicts = kept]
    OBVIOUS
<1>12. patch = [status |-> "", view |-> saved, for |-> ""]
    OBVIOUS
<1> HIDE DEF verdict, shown, kept, yes, saved, patch
<1>13. /\ view' \in View /\ view'.round = view.round /\ view'.set = view.set
       /\ view'.index = view.index /\ view'.confirmed = yes /\ view'.verdicts = shown
    <2>1. view' = SettledOf(view, yes, shown)
        BY <1>5 DEF SettledOf
    <2> QED
        BY <1>2, <1>4, <2>1, SettledView
<1>14. /\ saved \in View /\ saved.round = v.round /\ saved.set = v.set
       /\ saved.index = v.index /\ saved.confirmed = yes /\ saved.verdicts = kept
    <2>1. saved = SettledOf(v, yes, kept)
        BY <1>11 DEF SettledOf
    <2> QED
        BY <1>2, <1>4, <2>1, SettledView
<1>15. patch \in Patch
    BY <1>12, <1>14 DEF Patch
<1> QED
    BY <1>1, <1>5, <1>8, <1>9, <1>10, <1>13, <1>14, <1>15 DEF SettlesWith

LEMMA SettleInv ==
    ASSUME Inv, NEW v, Judges(v), NEW as \in Answers \union {"skipped"}, Settle(v, as),
           grading' \in Gradings, GradingViews' \subseteq GradingViews,
           \A u \in GradingViews' : Current(u) \in overtaken',
           overtaken \subseteq overtaken', overtaken' \in SUBSET Question,
           strayed' \in BOOLEAN, strayed \/ v # view => strayed'
    PROVE  Inv'
<1>0. PICK verdict \in Verdict, patch \in Patch : SettlesWith(v, verdict, patch)
    BY SettleIs
<1>1. /\ verdict \in Event /\ verdict.question = Current(v)
            /\ view' \in View /\ view'.round = view.round /\ view'.set = view.set
            /\ view'.index = view.index /\ view'.confirmed
            /\ view'.verdicts \subseteq v.verdicts \union view.verdicts \union {verdict}
            /\ v.verdicts \intersect view.verdicts \subseteq view'.verdicts
            /\ patch.for = "" /\ patch.view \in View /\ patch.view.confirmed
            /\ patch.view.round = v.round /\ patch.view.set = v.set /\ patch.view.index = v.index
            /\ patch.view.verdicts = v.verdicts \union {verdict}
            /\ saves' = Append(saves, patch)
            /\ Track({verdict})
    BY <1>0 DEF SettlesWith
<1> DEFINE saved == patch.view
<1>2. UNCHANGED <<page, row, recorded, reflected, forgot, sets, faults>>
    BY DEF Settle, serverVars
<1>3. TypeOK /\ v \in View /\ view \in View /\ GradingViews \subseteq View /\ sets \in Nat /\ page \in Page
    BY ViewsFit DEF Inv, Judges
<1>4. /\ v.set \in Nat \ {0} /\ v.index \in Nat /\ view.set \in Nat \ {0} /\ view.index \in Nat
      /\ v.set <= view.set
    BY <1>3, ViewIs, BoundsFit DEF Judges
<1>5. /\ Current(v) \in Question /\ Current(v).set = v.set /\ Current(v).index = v.index
      /\ verdict.question = Current(v)
    BY <1>1, <1>3, VerdictIs DEF Judges
<1>6. Spared \subseteq Spared'
    BY <1>2 DEF Spared
<1>7. SaveViews' = SaveViews \union {saved}
    BY <1>1, <1>3, GrownViews
<1>8. Ahead(view') \subseteq Ahead(view) /\ Current(v) \notin Ahead(view')
    <2>1. Ahead(view') \subseteq Ahead(view)
        BY <1>1, <1>3, AheadSettled
    <2>2. \A q \in Ahead(view') : q.set = view.set /\ view.index < q.index
        BY <1>1, AheadIs
    <2> QED
        BY <1>4, <1>5, <2>1, <2>2 DEF Judges
<1>9. Ahead(saved) \subseteq Ahead(v) /\ Current(v) \notin Ahead(saved) /\ Current(v) \in Ahead(v)
    <2>1. Ahead(saved) \subseteq Ahead(v)
        BY <1>1, <1>3, AheadSettled
    <2>2. \A q \in Ahead(saved) : v.index < q.index
        BY <1>1, AheadIs
    <2>3. Current(v) \in Ahead(v)
        BY CurrentAhead DEF Judges
    <2> QED
        BY <1>4, <1>5, <2>1, <2>2, <2>3
<1>10. TypeOK'
    <2>1. saves' \in Seq(Patch)
        BY <1>1, <1>3, GrownSaves
    <2>2. /\ pending' \in SUBSET [event : Event, promise : {"open", "ok", "failed"}]
          /\ flush' \in [Waiter -> [open : SUBSET Event, failed : SUBSET Event]]
          /\ tracked' \in SUBSET Event
        BY <1>1, <1>3, TypesOfEvents
    <2> QED
        BY <1>1, <1>2, <1>3, <2>1, <2>2 DEF TypeOK, Gradings
<1> DEFINE Fits(u) == SnapshotFits(u, sets, reflected)
<1>11. Fits(v) /\ Fits(view)
    BY DEF Inv, SnapshotsFit, Views, Judges
<1>12. SnapshotsFit'
    <2>1. Judged(saved) = Judged(v) \union {Current(v)}
        BY <1>1 DEF Judged
    <2>2. Fits(saved)
        <3>1. saved.set <= sets /\ \A round \in Rounds : round < saved.round => round \in reflected
            BY <1>1, <1>11 DEF SnapshotFits
        <3>2. \A q \in Judged(v) : q.set <= v.set /\ q \notin Ahead(v)
            BY <1>11 DEF SnapshotFits
        <3>3. Current(v).set <= v.set
            BY <1>4, <1>5
        <3>4. \A q \in Judged(saved) : q.set <= saved.set /\ q \notin Ahead(saved)
            BY <1>1, <1>9, <2>1, <3>2, <3>3
        <3> HIDE DEF saved
        <3> QED
            BY <3>1, <3>4 DEF SnapshotFits
    <2>3. Judged(view') \subseteq Judged(v) \union Judged(view) \union {Current(v)}
        BY <1>1 DEF Judged
    <2>4. ASSUME NEW q \in Judged(v) PROVE q.set <= view.set /\ q \notin Ahead(view')
        <3>1. q \in Question /\ q.set <= v.set /\ q \notin Ahead(v)
            BY <1>3, <1>11, <2>4, ViewIs DEF SnapshotFits, Judged, Verdict
        <3>2. q.set \in Nat /\ q.index \in Nat
            BY <3>1, BoundsFit DEF Question
        <3>3. q.set <= view.set
            BY <1>4, <3>1, <3>2
        <3>4. CASE v.set = view.set
            <4>1. q.set = v.set => q.index <= v.index
                BY <1>4, <3>1, <3>2 DEF Ahead
            <4>2. v.index <= view.index
                BY <3>4 DEF Judges
            <4>3. q.set = view.set => q.index <= view.index
                BY <1>4, <3>2, <3>4, <4>1, <4>2
            <4>4. \A r \in Ahead(view') : r.set = view.set /\ view.index < r.index
                BY <1>1, AheadIs
            <4> QED
                BY <1>4, <3>2, <3>3, <4>3, <4>4
        <3>5. CASE v.set # view.set
            <4>1. q.set # view.set
                BY <1>4, <3>1, <3>2, <3>5
            <4> QED
                BY <1>1, <3>3, <4>1, AheadIs
        <3> QED
            BY <3>4, <3>5
    <2>5. Fits(view')
        BY <1>1, <1>4, <1>5, <1>8, <1>11, <2>3, <2>4 DEF SnapshotFits
    <2>6. \A u \in Views' : u \in Views \/ Fits(u)
        BY <1>2, <1>7, <2>2, <2>5 DEF Views
    <2>7. SnapshotsFit /\ sets' = sets /\ reflected' = reflected
        BY <1>2 DEF Inv
    <2> HIDE DEF saved
    <2> QED
        BY <1>3, <2>6, <2>7, SnapshotsKept
<1>13. PageFits'
    BY <1>1, <1>2 DEF Inv, PageFits, In
<1>14. GradingFits'
    BY <1>1 DEF Inv, GradingFits, GradeFits
<1>15. QueueFits'
    <2>1. ~In("closed")' => \A i \in DOMAIN saves : Awaited(saves[i].for, page')
        BY <1>2 DEF Inv, QueueFits, In
    <2>2. Awaited(patch.for, page') /\ patch.for = "" /\ saves' = Append(saves, patch)
        BY <1>1 DEF Awaited
    <2>3. (In("closed") => In("closed")') /\ QueueFits
        BY <1>2 DEF Inv, In
    <2> QED
        BY <1>3, <2>1, <2>2, <2>3, QueueGrows
<1>16. ExitFits'
    <2>1. ASSUME page.exit # "none", ~strayed', ViewFollows
          PROVE  ViewFollows' /\ AsFarAs(saved, page.left)
        <3>1. v = view /\ page.left \in View
            BY <1>3, <2>1, PageIs
        <3>2. AsFarAs(v, page.left) /\ AsFarAs(view, page.left)
            BY <2>1, <3>1 DEF ViewFollows
        <3>3. AsFarAs(view', page.left)
            BY <1>1, <1>3, <3>1, <3>2, FurtherView
        <3>4. AsFarAs(saved, page.left)
            <4>1. saved \in View /\ v.verdicts \intersect v.verdicts \subseteq saved.verdicts
                  /\ saved.set = v.set /\ saved.index = v.index /\ saved.confirmed
                BY <1>1
            <4> HIDE DEF saved
            <4> QED
                BY <1>3, <3>1, <3>2, <4>1, FurtherView
        <3> QED
            BY <1>2, <3>3, <3>4 DEF ViewFollows
    <2>2. ASSUME page.exit # "none", ~strayed', ViewFollows, SavesFollow PROVE SavesFollow'
        <3>1. patch.for # "exit" /\ page'.exit = page.exit /\ page'.left = page.left
            BY <1>1, <1>2
        <3> QED
            BY <1>1, <1>2, <1>3, <2>1, <2>2, <3>1, FollowersGrow
    <2>3. ExitFits /\ page'.exit = page.exit /\ page'.left = page.left /\ (~strayed' => ~strayed)
        BY <1>2 DEF Inv
    <2> QED
        BY <2>1, <2>2, <2>3, ExitKept
<1>17. EventsFit'
    <2>1. page.work \in {"flush", "maintain"} => strayed'
        BY DEF Inv, PageFits, Judges
    <2>2. \A q \in Asked({verdict}) : q.set <= sets'
        <3>1. view.set <= sets
            BY <1>11 DEF SnapshotFits
        <3>2. v.set <= sets'
            BY <1>2, <1>3, <1>4, <3>1
        <3> QED
            BY <1>5, <3>2 DEF Asked
    <2>3. {verdict} \in SUBSET Event /\ EventsFit /\ sets' = sets /\ sets' \in Nat /\ sets <= sets'
        <3>1. sets' = sets /\ EventsFit /\ verdict \in Event
            BY <1>1, <1>2 DEF Inv
        <3> QED
            BY <1>3, <3>1
    <2>4. /\ pending' = pending \union {[event |-> e, promise |-> "open"] : e \in {verdict}}
          /\ tracked' = tracked \union {verdict} /\ flush' = flush
        BY <1>1 DEF Track
    <2>5. /\ In("closed") => In("closed")'
          /\ page'.work = "flush" => page.work = "flush" /\ strayed'
          /\ page'.work = "maintain" => strayed'
          /\ page'.exit = "flush" => page.exit = "flush"
          /\ ~strayed' => ~strayed
        BY <1>2, <2>1 DEF In
    <2> QED
        BY <1>2, <1>3, <2>2, <2>3, <2>4, <2>5, EventsTracked
<1>18. VerdictsFit'
    <2> DEFINE told == recorded \union tracked
               told2 == recorded' \union tracked'
    <2>1. told2 = told \union {verdict} /\ recorded' = recorded
        BY <1>1, <1>2 DEF Track
    <2>2. Asked(told2) = Asked(told) \union {Current(v)} /\ Asked(tracked) \subseteq Asked(tracked')
        <3>1. Asked({verdict}) = {Current(v)}
            BY <1>1 DEF Asked
        <3>2. Asked(tracked') = Asked(tracked) \union Asked({verdict})
            BY <1>1, AskedBoth DEF Track
        <3>3. Asked(told \union {verdict}) = Asked(told) \union Asked({verdict})
            BY AskedBoth
        <3> QED
            BY <2>1, <3>1, <3>2, <3>3
    <2>3. /\ Asked(told) \intersect Ahead(view) \subseteq Spared
          /\ \A u \in Views : Asked(recorded) \intersect Ahead(u) \subseteq Spared \union Asked(tracked)
          /\ \A e, f \in told \intersect Verdict : e # f /\ e.question = f.question => e.question \in Spared
        BY AskedBoth DEF Inv, VerdictsFit, Views
    <2>4. v \in Views
        BY DEF Judges, Views
    <2>5. Current(v) \in Spared \/ v = view
        BY DEF Judges, Spared
    <2>7. Asked(told2) \intersect Ahead(view') \subseteq Spared'
        BY <1>6, <1>8, <2>2, <2>3
    <2>8. ASSUME NEW u \in {row'.view} \union GradingViews' \union SaveViews'
          PROVE  Asked(recorded') \intersect Ahead(u) \subseteq Spared' \union Asked(tracked')
        <3>1. CASE u \in Views
            BY <1>6, <2>1, <2>2, <2>3, <3>1
        <3>2. CASE u = saved
            BY <1>6, <1>9, <2>1, <2>2, <2>3, <2>4, <3>2
        <3> QED
            BY <1>2, <1>7, <2>8, <3>1, <3>2 DEF Views
    <2>9. ASSUME NEW e \in told2 \intersect Verdict, NEW f \in told2 \intersect Verdict,
                 e # f, e.question = f.question
          PROVE  e.question \in Spared'
        <3>1. CASE e \in told /\ f \in told
            BY <1>6, <2>1, <2>3, <2>9, <3>1
        <3>2. CASE e \notin told \/ f \notin told
            <4>1. \E g \in told \intersect Verdict : g.question = Current(v) /\ e.question = Current(v)
                BY <1>1, <2>1, <2>9, <3>2
            <4>2. Current(v) \in Asked(told)
                BY <4>1 DEF Asked
            <4> QED
                BY <1>6, <1>9, <2>3, <2>5, <4>1, <4>2
        <3> QED
            BY <3>1, <3>2
    <2> QED
        BY <2>7, <2>8, <2>9 DEF VerdictsFit
<1> QED
    BY <1>10, <1>12, <1>13, <1>14, <1>15, <1>16, <1>17, <1>18 DEF Inv

-----------------------------------------------------------------------------
(* A round is entered.                                                     *)

\* A set that is built now is newer than all that is known.
LEMMA NewSet ==
    ASSUME Inv, NEW v \in View, v.set = sets + 1
    PROVE  /\ \A u \in Views \union {page.left} : u.set < v.set
           /\ Ahead(v) \intersect Asked(recorded \union tracked) = {}
<1>1. sets \in Nat /\ page.left \in View /\ Views \subseteq View
    BY ViewsFit, PageIs DEF Inv
<1>2. \A u \in Views \union {page.left} : u.set \in Nat /\ u.set <= sets
    BY <1>1, ViewIs, BoundsFit DEF Inv, SnapshotsFit, SnapshotFits, PageFits
<1>3. \A q \in Asked(recorded \union tracked) : q.set \in Nat /\ q.set <= sets
    BY AskedIs DEF Inv, EventsFit
<1>4. \A q \in Ahead(v) : q.set = sets + 1
    BY AheadIs
<1>5. \A u \in Views \union {page.left} : u.set < v.set
    BY <1>1, <1>2
<1>6. \A q \in Asked(recorded \union tracked) : q.set # sets + 1
    BY <1>1, <1>3
<1> QED
    BY <1>4, <1>5, <1>6

\* What EnterRound does, with the patch that it makes.
EntersWith(patch, held) ==
    /\ view' \in View /\ view'.round = page.round /\ view'.set = sets + 1
    /\ view'.verdicts = view.verdicts
    /\ patch.for = "enter" /\ patch.view \in View
    /\ patch.view.round = page.round /\ patch.view.set = sets + 1
    /\ patch.view.verdicts \subseteq held
    /\ saves' = Append(saves, patch)
    /\ grading' \in Gradings /\ grading'.of = grading.of
    /\ page' \in Page /\ page'.phase = "active" /\ page'.work = "enter"
    /\ page'.exit = page.exit /\ page'.left = page.left /\ page'.round = page.round

LEMMA EnterIs ==
    ASSUME Inv, NEW held \in SUBSET Verdict, EnterRound(held)
    PROVE  \E patch \in Patch : EntersWith(patch, held)
<1> DEFINE no == FALSE
           one == 1
           none == {}
           next == sets + 1
           fresh == FreshOf(view, page.round, next, one, no)
           kept == IF page.round = 1 THEN none ELSE held
           saved == CleanOf(fresh, kept)
           patch == [status |-> "", view |-> saved, for |-> "enter"]
<1>1. no \in BOOLEAN /\ one \in 1..SetSize /\ none \in SUBSET Verdict /\ none = {} /\ one = 1
    BY BoundsFit
<1>2. /\ next \in 0..MaxSets /\ page.round \in Rounds /\ view \in View /\ page \in Page
      /\ grading \in Gradings
    <2>1. sets < MaxSets
        BY DEF EnterRound
    <2>2. sets \in Nat /\ view \in View /\ page \in Page /\ grading \in Gradings
        BY ViewsFit DEF Inv
    <2> QED
        BY <2>1, <2>2, PageIs, BoundsFit
<1>3. view' = fresh /\ saves' = Append(saves, patch)
    BY DEF EnterRound, Persist, FreshOf, CleanOf
<1>4. grading' = QuietOf(grading, no)
    BY DEF EnterRound, QuietOf
<1>5. page' = [page EXCEPT !.phase = "active", !.work = "enter", !.held = none]
    BY DEF EnterRound
<1>6. next = sets + 1 /\ patch.view = saved /\ patch.for = "enter"
    OBVIOUS
<1>7. patch = [status |-> "", view |-> saved, for |-> "enter"]
    OBVIOUS
<1>8. saved = CleanOf(fresh, kept) /\ kept \in SUBSET Verdict /\ kept \subseteq held
    OBVIOUS
<1>9. fresh = FreshOf(view, page.round, next, one, no)
    OBVIOUS
<1> HIDE DEF no, one, none, next, fresh, kept, saved, patch
<1>10. /\ fresh \in View /\ fresh.round = page.round /\ fresh.set = next
       /\ fresh.verdicts = view.verdicts
    BY <1>1, <1>2, <1>9, FreshView
<1>11. /\ saved \in View /\ saved.round = page.round /\ saved.set = next
       /\ saved.verdicts \subseteq held
    BY <1>8, <1>10, CleanView
<1>12. grading' \in Gradings /\ grading'.of = grading.of
    BY <1>1, <1>2, <1>4, QuietGrading
<1>13. /\ page' \in Page /\ page'.phase = "active" /\ page'.work = "enter"
       /\ page'.exit = page.exit /\ page'.left = page.left /\ page'.round = page.round
    BY <1>1, <1>2, <1>5 DEF Page
<1>14. patch \in Patch
    BY <1>7, <1>11 DEF Patch
<1> QED
    BY <1>3, <1>6, <1>10, <1>11, <1>12, <1>13, <1>14 DEF EntersWith

LEMMA EnterInv ==
    ASSUME Inv, NEW held \in SUBSET Verdict, \A u \in held : u.question.set <= view.set,
           EnterRound(held), page.work = "generate" \/ In("generation_failed")
    PROVE  Inv'
<1>1. PICK patch \in Patch : EntersWith(patch, held)
    BY EnterIs
<1> DEFINE saved == patch.view
           events == {Told("started", page.round)}
<1>2. /\ view' \in View /\ view'.round = page.round /\ view'.set = sets + 1
      /\ view'.verdicts = view.verdicts
      /\ patch.for = "enter" /\ saved \in View
      /\ saved.round = page.round /\ saved.set = sets + 1
      /\ saved.verdicts \subseteq held
      /\ saves' = Append(saves, patch)
    BY <1>1 DEF EntersWith
<1>3. /\ grading' \in Gradings /\ GradingViews' = GradingViews
      /\ page' \in Page /\ page'.phase = "active" /\ page'.work = "enter"
      /\ page'.exit = page.exit /\ page'.left = page.left /\ page'.round = page.round
    BY <1>1, SameGradings DEF EntersWith
<1>4. UNCHANGED <<row, recorded, reflected, forgot, strayed, faults>> /\ sets' = sets + 1 /\ sets < MaxSets
    BY DEF EnterRound, serverVars, historyVars
<1>5. /\ TypeOK /\ view \in View /\ GradingViews \subseteq View /\ sets \in Nat /\ sets' \in Nat
      /\ sets <= sets' /\ sets' \in 0..MaxSets /\ page \in Page /\ page.left \in View
    BY <1>4, ViewsFit, PageIs, BoundsFit DEF Inv
<1>6. page.work \notin {"enter", "flush", "maintain", "complete"} /\ ~In("closed")
    BY DEF Inv, PageFits, In
<1>7. SaveViews' = SaveViews \union {saved}
    BY <1>2, <1>5, GrownViews
<1>8. /\ \A u \in Views \union {page.left} : u.set < view'.set /\ u.set < saved.set
      /\ Ahead(view') \intersect Asked(recorded \union tracked) = {}
      /\ Ahead(saved) \intersect Asked(recorded \union tracked) = {}
    BY <1>2, NewSet
<1>9. Track(events) /\ events \in SUBSET Event /\ Asked(events) = {}
    <2>1. page.round \in Rounds
        BY <1>5, PageIs
    <2>2. Track(events)
        BY DEF EnterRound
    <2> QED
        BY <2>1, <2>2, ToldIs DEF Asked
<1> HIDE DEF saved, events
<1>10. /\ overtaken \subseteq overtaken' /\ overtaken' \in SUBSET Question
       /\ \A u \in GradingViews' : Current(u) \in overtaken'
    <2>1. overtaken' = overtaken \union {Current(u) : u \in GradingViews}
        BY DEF EnterRound, Overtake, GradingViews
    <2>2. \A u \in GradingViews : Current(u) \in Question
        BY <1>5, CurrentIs DEF Inv, GradingFits, GradeFits
    <2>3. overtaken \in SUBSET Question
        BY <1>5 DEF TypeOK
    <2> QED
        BY <1>3, <2>1, <2>2, <2>3
<1>11. TypeOK'
    <2>1. saves' \in Seq(Patch)
        BY <1>2, <1>5, GrownSaves
    <2>2. /\ pending' \in SUBSET [event : Event, promise : {"open", "ok", "failed"}]
          /\ flush' \in [Waiter -> [open : SUBSET Event, failed : SUBSET Event]]
          /\ tracked' \in SUBSET Event
        BY <1>5, <1>9, TypesOfEvents
    <2> QED
        BY <1>2, <1>3, <1>4, <1>5, <1>10, <2>1, <2>2 DEF TypeOK, Gradings
<1>12. SnapshotsFit'
    <2>1. \A round \in Rounds : round < page.round => round \in reflected'
        BY <1>4 DEF Inv, PageFits
    <2>2. ASSUME NEW u \in {view', saved} PROVE SnapshotFits(u, sets', reflected')
        <3> DEFINE known == {d.question : d \in view.verdicts \union held}
        <3>1. /\ u \in View /\ u.set = sets + 1 /\ u.round = page.round
              /\ u.verdicts \subseteq view.verdicts \union held
            BY <1>2
        <3>2. Judged(u) \subseteq known
            BY <3>1 DEF Judged
        <3>3. \A q \in known : q \in Question /\ q.set <= view.set
            <4>1. \A q \in known : q \in Question
                BY <1>5, ViewIs DEF Verdict
            <4>2. \A q \in Judged(view) : q.set <= view.set
                BY DEF Inv, SnapshotsFit, SnapshotFits, Views
            <4>3. \A d \in view.verdicts : d.question \in Judged(view)
                BY DEF Judged
            <4> QED
                BY <4>1, <4>2, <4>3
        <3>4. view.set \in Nat /\ view.set < u.set
            BY <1>2, <1>5, <1>8, <3>1, ViewIs, BoundsFit DEF Views
        <3> HIDE DEF known
        <3>5. \A q \in Judged(u) : q.set \in Nat /\ q.set < u.set
            BY <1>5, <3>1, <3>2, <3>3, <3>4, BoundsFit DEF Question
        <3>6. \A q \in Judged(u) : q.set <= u.set /\ q \notin Ahead(u)
            BY <1>5, <3>1, <3>5, AheadIs
        <3> QED
            BY <1>4, <1>5, <2>1, <3>1, <3>6 DEF SnapshotFits
    <2>3. \A u \in Views' : u \in Views \/ SnapshotFits(u, sets', reflected')
        BY <1>3, <1>4, <1>7, <2>2 DEF Views
    <2> QED
        BY <1>4, <1>5, <2>3, SnapshotsKept DEF Inv
<1>13. PageFits'
    <2>1. page'.left.set <= sets' /\ view'.set > 0
        BY <1>2, <1>3, <1>4, <1>5, ViewIs, BoundsFit DEF Inv, PageFits
    <2> QED
        BY <1>3, <1>4, <2>1 DEF Inv, PageFits, In
<1>14. GradingFits'
    <2>1. ASSUME NEW u \in GradingViews PROVE ~u.confirmed /\ u.set > 0 /\ u.set < view'.set
        BY <1>8 DEF Inv, GradingFits, GradeFits, Views
    <2>2. \A u \in GradingViews : u.set \in Nat
        BY <1>5, ViewIs, BoundsFit
    <2>3. view'.set \in Nat
        BY <1>2, ViewIs, BoundsFit
    <2>4. ASSUME NEW u \in GradingViews' PROVE GradeFits(u)'
        BY <1>3, <1>10, <2>1, <2>2, <2>3 DEF GradeFits
    <2> QED
        BY <2>4 DEF GradingFits
<1>15. QueueFits'
    <2>1. \A i \in DOMAIN saves : Awaited(saves[i].for, page)
        BY <1>6 DEF Inv, QueueFits
    <2>2. \A i \in DOMAIN saves : Awaited(saves[i].for, page') /\ saves[i].for # "enter"
        BY <1>3, <1>6, <2>1 DEF Awaited
    <2>3. Awaited(patch.for, page') /\ patch.for = "enter"
        BY <1>2, <1>3 DEF Awaited
    <2> QED
        BY <1>2, <1>5, <1>6, <2>2, <2>3, QueueGrows DEF Inv
<1>16. ExitFits'
    <2>1. \A u \in {view', saved} : AsFarAs(u, page.left)
        BY <1>2, <1>5, <1>8, ViewIs, BoundsFit DEF AsFarAs
    <2>2. ViewFollows'
        BY <1>3, <2>1 DEF ViewFollows
    <2>3. ASSUME SavesFollow PROVE SavesFollow'
        <3>1. patch.for # "exit" /\ AsFarAs(patch.view, page.left)
            BY <1>2, <2>1 DEF saved
        <3> QED
            BY <1>2, <1>3, <1>4, <1>5, <2>3, <3>1, FollowersGrow
    <2> QED
        BY <1>3, <1>4, <2>2, <2>3, ExitKept DEF Inv
<1>17. EventsFit'
    <2>1. /\ pending' = pending \union {[event |-> e, promise |-> "open"] : e \in events}
          /\ tracked' = tracked \union events /\ flush' = flush /\ recorded' = recorded
          /\ \A q \in Asked(events) : q.set <= sets'
          /\ In("closed") => In("closed")'
          /\ ~strayed' => ~strayed
          /\ page'.work = "flush" => page.work = "flush" /\ strayed'
          /\ page'.work = "maintain" => strayed'
          /\ page'.exit = "flush" => page.exit = "flush"
        BY <1>3, <1>4, <1>6, <1>9 DEF Track, In
    <2> QED
        BY <1>5, <1>9, <2>1, EventsTracked DEF Inv
<1>18. VerdictsFit'
    <2>1. tracked' \intersect Verdict = tracked \intersect Verdict
        BY <1>9 DEF Track, Asked
    <2>2. recorded' \intersect Verdict \subseteq recorded \union tracked /\ forgot' = forgot
        BY <1>4
    <2>3. \A v \in {row'.view} \union GradingViews' \union SaveViews' : v \in Views \/ v = saved
        BY <1>3, <1>4, <1>7 DEF Views
    <2>4. \A v \in {row'.view} \union GradingViews' \union SaveViews' :
            \/ \E w \in Views : Ahead(v) \subseteq Ahead(w)
            \/ Ahead(v) \intersect Asked(recorded \union tracked) = {}
        BY <1>8, <2>3
    <2> QED
        BY <1>8, <1>10, <2>1, <2>2, <2>4, VerdictsKept DEF Inv
<1> QED
    BY <1>11, <1>12, <1>13, <1>14, <1>15, <1>16, <1>17, <1>18 DEF Inv

-----------------------------------------------------------------------------
(* The steps of the page.                                                  *)

LEMMA InitInv == ASSUME Init PROVE Inv
<1>1. /\ page = Closed /\ view = NoSet /\ grading = Idle /\ saves = <<>> /\ pending = {}
      /\ flush = NoFlush /\ row = [status |-> "active", view |-> NoSet]
      /\ recorded = {} /\ reflected = {} /\ tracked = {} /\ forgot = {} /\ overtaken = {}
      /\ strayed = FALSE /\ sets = 0 /\ faults = 0
    BY DEF Init
<1>2. row.view = NoSet /\ row \in [status : {"active", "completed"}, view : View]
    BY <1>1, NoSetFits
<1>3. saves \in Seq(Patch) /\ DOMAIN saves = {} /\ SaveViews = {}
    BY <1>1 DEF SaveViews
<1>4. NoFlush \in [Waiter -> [open : SUBSET Event, failed : SUBSET Event]]
    BY DEF NoFlush
<1>5. TypeOK
    <2>1. page \in Page /\ view \in View /\ grading \in [on : BOOLEAN, of : [Graders -> View]]
        BY <1>1, NoSetFits, ClosedFits, IdleFits DEF Gradings
    <2>2. flush \in [Waiter -> [open : SUBSET Event, failed : SUBSET Event]]
        BY <1>1, <1>4
    <2>3. sets \in 0..MaxSets /\ faults \in 0..MaxFaults
        <3>1. 0 \in 0..MaxSets /\ 0 \in 0..MaxFaults
            BY BoundsFit
        <3> QED
            BY <1>1, <3>1
    <2>5. strayed \in BOOLEAN
        BY <1>1
    <2>4. /\ pending \in SUBSET [event : Event, promise : {"open", "ok", "failed"}]
          /\ recorded \in SUBSET Event /\ reflected \in SUBSET Rounds
          /\ tracked \in SUBSET Event /\ forgot \in SUBSET Question /\ overtaken \in SUBSET Question
        BY <1>1
    <2> QED
        BY <1>2, <1>3, <2>1, <2>2, <2>3, <2>4, <2>5 DEF TypeOK
<1>6. SnapshotFits(NoSet, sets, reflected)
    BY <1>1, NoSetFits, BoundsFit DEF SnapshotFits, Judged, Rounds
<1>7. GradingViews = {}
    BY <1>1, IdleFits DEF GradingViews, InGrading
<1>8. SnapshotsFit
    BY <1>1, <1>2, <1>3, <1>6, <1>7 DEF SnapshotsFit, Views
<1>9. PageFits /\ GradingFits /\ QueueFits /\ ExitFits
    BY <1>1, <1>7, ClosedFits, NoSetFits, BoundsFit
    DEF PageFits, GradingFits, QueueFits, ExitFits, In, Rounds
<1>10. Asked(recorded) = {} /\ Asked(recorded \union tracked) = {}
    BY <1>1 DEF Asked
<1>11. EventsFit
    BY <1>1, <1>10, ClosedFits DEF EventsFit, In
<1>12. VerdictsFit
    BY <1>1, <1>10 DEF VerdictsFit
<1> QED
    BY <1>5, <1>8, <1>9, <1>11, <1>12 DEF Inv

\* The view of the page, and of the grading, may judge.
LEMMA PageJudges ==
    ASSUME Inv, In("active"), ~view.confirmed
    PROVE  Judges(view)
<1>1. view \in View /\ view.set \in Nat /\ view.set > 0 /\ view.index \in Nat
    BY ViewsFit, ViewIs, BoundsFit DEF Inv, PageFits
<1> QED
    BY <1>1 DEF Judges

LEMMA GradingJudges ==
    ASSUME Inv, NEW v \in GradingViews
    PROVE  Judges(v)
<1>1. GradeFits(v) /\ v \in View
    BY ViewsFit DEF Inv, GradingFits
<1> QED
    BY <1>1 DEF GradeFits, Judges

LEMMA ConfirmInv == ASSUME Inv, Confirm PROVE Inv'
<1>1. MayJudge /\ grading' = grading /\ overtaken' = overtaken /\ strayed' = strayed
    BY DEF Confirm
<1>2. PICK as \in Answers \union {"skipped"} : Settle(view, as)
    BY DEF Confirm
<1>3. Judges(view) /\ ~grading.on
    BY <1>1, PageJudges DEF MayJudge
<1>4. TypeOK /\ strayed \in BOOLEAN /\ overtaken \in SUBSET Question /\ grading \in Gradings
    BY DEF Inv, TypeOK, Gradings
<1>5. GradingViews' = GradingViews /\ \A u \in GradingViews : Current(u) \in overtaken
    BY <1>1, <1>3, SameGradings DEF Inv, GradingFits, GradeFits
<1> QED
    BY <1>1, <1>2, <1>3, <1>4, <1>5, SettleInv

\* A step that leaves the views alone, and brings no verdict.
LEMMA QuietStep ==
    ASSUME Inv, UNCHANGED <<view, saves, row, forgot, strayed, sets>>,
           faults' \in 0..MaxFaults, page' \in Page, GradingStep,
           pending' \in SUBSET [event : Event, promise : {"open", "ok", "failed"}],
           flush' \in [Waiter -> [open : SUBSET Event, failed : SUBSET Event]],
           tracked' \in SUBSET Event, recorded' \in SUBSET Event,
           reflected \subseteq reflected', reflected' \in SUBSET Rounds,
           recorded' \intersect Verdict \subseteq recorded \union tracked,
           tracked' \intersect Verdict = tracked \intersect Verdict,
           PageFits', GradingFits', QueueFits', ExitFits', EventsFit'
    PROVE  Inv'
<1>1. UNCHANGED <<view, saves, row, forgot, strayed, sets>>
    OBVIOUS
<1>2. TypeOK /\ SnapshotsFit /\ VerdictsFit /\ sets \in Nat
    BY ViewsFit DEF Inv
<1>3. TypeOK'
    BY <1>1, <1>2 DEF TypeOK, GradingStep, Gradings
<1>4. SaveViews' = SaveViews
    BY <1>1 DEF SaveViews
<1>5. Views' \subseteq Views
    BY <1>1, <1>4 DEF Views, GradingStep
<1>6. SnapshotsFit'
    BY <1>1, <1>2, <1>5, SnapshotsKept
<1>7. VerdictsFit'
    <2>1. \A v \in {row'.view} \union GradingViews' \union SaveViews' : v \in Views
        BY <1>5 DEF Views
    <2>2. Ahead(view') \subseteq Ahead(view) /\ overtaken \subseteq overtaken' /\ forgot' = forgot
        BY <1>1 DEF GradingStep
    <2> QED
        BY <1>2, <2>1, <2>2, VerdictsKept
<1> QED
    BY <1>3, <1>6, <1>7 DEF Inv

\* A step that leaves alone the events, too.
LEMMA PageStep ==
    ASSUME Inv, UNCHANGED <<view, saves, eventVars, serverVars, forgot, strayed, sets>>,
           faults' \in 0..MaxFaults, page' \in Page, GradingStep,
           PageFits', GradingFits', QueueFits', ExitFits',
           In("closed") => In("closed")', page'.work \in {"flush", "maintain"} => page'.work = page.work,
           page'.exit = "flush" => page.exit = "flush"
    PROVE  Inv'
<1>1. UNCHANGED <<view, saves, pending, flush, tracked, row, recorded, reflected, strayed, sets>>
    BY DEF eventVars, serverVars
<1>2. TypeOK /\ EventsFit /\ sets \in Nat
    BY ViewsFit DEF Inv
<1>3. EventsFit'
    BY <1>1, <1>2, EventsKept
<1>4. /\ pending' \in SUBSET [event : Event, promise : {"open", "ok", "failed"}]
      /\ flush' \in [Waiter -> [open : SUBSET Event, failed : SUBSET Event]]
      /\ tracked' \in SUBSET Event /\ recorded' \in SUBSET Event
      /\ reflected \subseteq reflected' /\ reflected' \in SUBSET Rounds
    BY <1>1, <1>2 DEF TypeOK
<1> QED
    BY <1>1, <1>3, <1>4, QuietStep

LEMMA EvaluateInv == ASSUME Inv, Evaluate PROVE Inv'
<1>1. /\ UNCHANGED <<page, view, saves, eventVars, serverVars, historyVars, sets, faults>>
      /\ In("active") /\ ~view.confirmed /\ ~grading.on
    BY DEF Evaluate, MayJudge
<1>2. PICK g \in Graders \ InGrading :
          grading' = [on |-> TRUE, of |-> [grading.of EXCEPT ![g] = view]]
    BY DEF Evaluate
<1>3. /\ TypeOK /\ view \in View /\ page \in Page /\ view.set > 0 /\ view.set \in Nat
      /\ view.index \in Nat /\ grading \in Gradings /\ overtaken \in SUBSET Question
    BY <1>1, ViewsFit, ViewIs, BoundsFit DEF Inv, PageFits, TypeOK
<1>4. UNCHANGED <<page, view, saves, row, forgot, overtaken, strayed, sets, reflected>>
    BY <1>1 DEF serverVars, historyVars
<1>5. /\ grading' \in Gradings /\ grading'.on
      /\ GradingViews' \subseteq GradingViews \union {view}
    BY <1>2, <1>3, GradingBegins
<1>6. GradingStep
    BY <1>3, <1>4, <1>5 DEF GradingStep
<1>7. PageFits'
    BY <1>4 DEF Inv, PageFits, In
<1>8. GradingFits'
    <2>1. \A u \in GradingViews : GradeFits(u)
        BY DEF Inv, GradingFits
    <2>2. \A u \in GradingViews : Current(u) \in overtaken
        BY <1>1, <2>1 DEF GradeFits
    <2>3. ASSUME NEW u \in GradingViews \union {view} PROVE GradeFits(u)'
        <3>1. CASE u \in GradingViews
            BY <1>4, <2>1, <2>2, <3>1 DEF GradeFits
        <3>2. CASE u = view
            BY <1>1, <1>3, <1>4, <1>5, <3>2 DEF GradeFits
        <3> QED
            BY <3>1, <3>2
    <2> QED
        BY <1>5, <2>3 DEF GradingFits
<1>9. QueueFits'
    BY <1>4 DEF Inv, QueueFits, In
<1>10. ExitFits'
    <2>1. (ViewFollows => ViewFollows') /\ (SavesFollow => SavesFollow')
        BY <1>4 DEF ViewFollows, SavesFollow
    <2> QED
        BY <1>4, <2>1, ExitKept DEF Inv
<1>11. /\ In("closed") => In("closed")'
       /\ page'.work \in {"flush", "maintain"} => page'.work = page.work
       /\ page'.exit = "flush" => page.exit = "flush"
       /\ faults' \in 0..MaxFaults /\ page' \in Page
    BY <1>1, <1>3 DEF In, TypeOK
<1> QED
    BY <1>1, <1>4, <1>6, <1>7, <1>8, <1>9, <1>10, <1>11, PageStep

LEMMA FaultFits == ASSUME Inv, Fault PROVE faults' \in 0..MaxFaults
<1>1. faults \in 0..MaxFaults /\ MaxFaults \in Nat /\ faults < MaxFaults /\ faults' = faults + 1
    BY BoundsFit DEF Inv, TypeOK, Fault
<1> QED
    BY <1>1

LEMMA EvaluatedInv == ASSUME Inv, Evaluated PROVE Inv'
<1> DEFINE Fails == UNCHANGED <<page, view, saves, eventVars, serverVars, forgot, strayed, sets, faults>>
<1>1. PICK g \in InGrading :
        /\ grading' = [on |-> FALSE, of |-> [grading.of EXCEPT ![g] = NoSet]]
        /\ Overtake(InGrading \ {g})
        /\ \/ /\ \E as \in Answers : Settle(grading.of[g], as)
              /\ strayed' = (strayed \/ (Current(grading.of[g]) \in overtaken /\ grading.of[g] # view))
           \/ Fails
    BY DEF Evaluated
<1> DEFINE v == grading.of[g]
<1>2. /\ TypeOK /\ GradingFits /\ strayed \in BOOLEAN /\ view \in View /\ page \in Page
      /\ faults \in 0..MaxFaults
    BY ViewsFit DEF Inv, TypeOK
<1>3. /\ grading' \in Gradings /\ GradingViews' \subseteq GradingViews
      /\ \A u \in GradingViews' : Current(u) \in overtaken'
      /\ overtaken \subseteq overtaken' /\ overtaken' \in SUBSET Question
      /\ v \in GradingViews
    BY <1>1, <1>2, GradingEnds
<1>4. CASE /\ \E as \in Answers : Settle(v, as)
           /\ strayed' = (strayed \/ (Current(v) \in overtaken /\ v # view))
    <2> HIDE DEF v
    <2>1. PICK as \in Answers \union {"skipped"} : Settle(v, as)
        BY <1>4
    <2>2. Judges(v) /\ (Current(v) \notin overtaken => v = view)
        BY <1>3, GradingJudges DEF Judges
    <2>3. strayed' \in BOOLEAN /\ (strayed \/ v # view => strayed')
        BY <1>2, <1>4, <2>2
    <2> QED
        BY <1>3, <2>1, <2>2, <2>3, SettleInv
<1>5. CASE Fails
    <2>1. UNCHANGED <<page, view, saves, row, strayed, forgot, sets, reflected, faults>>
        BY <1>5 DEF serverVars
    <2>2. GradingStep
        BY <1>3 DEF GradingStep
    <2>3. PageFits'
        BY <2>1 DEF Inv, PageFits, In
    <2>4. GradingFits'
        BY <1>2, <1>3, <2>1 DEF GradingFits, GradeFits
    <2>5. QueueFits'
        BY <2>1 DEF Inv, QueueFits, In
    <2>6. ExitFits'
        <3>1. (ViewFollows => ViewFollows') /\ (SavesFollow => SavesFollow')
            BY <2>1 DEF ViewFollows, SavesFollow
        <3> QED
            BY <2>1, <3>1, ExitKept DEF Inv
    <2>7. /\ In("closed") => In("closed")'
          /\ page'.work \in {"flush", "maintain"} => page'.work = page.work
          /\ page'.exit = "flush" => page.exit = "flush"
          /\ page' \in Page /\ faults' \in 0..MaxFaults
        BY <1>2, <2>1 DEF In
    <2> QED
        BY <1>5, <2>1, <2>2, <2>3, <2>4, <2>5, <2>6, <2>7, PageStep
<1> QED
    BY <1>1, <1>4, <1>5

\* A step that saves the view of the page, which has not gone back, or one like it.
LEMMA SaveStep ==
    ASSUME Inv, NEW p \in Patch, saves' = Append(saves, p),
           p.view = view' \/ SnapshotFits(p.view, sets, reflected'),
           Ahead(p.view) \subseteq Ahead(view),
           UNCHANGED <<row, recorded, forgot, strayed, sets>>,
           tracked' \intersect Verdict = tracked \intersect Verdict,
           reflected \subseteq reflected', reflected' \in SUBSET Rounds, faults' \in 0..MaxFaults,
           pending' \in SUBSET [event : Event, promise : {"open", "ok", "failed"}],
           flush' \in [Waiter -> [open : SUBSET Event, failed : SUBSET Event]],
           tracked' \in SUBSET Event,
           page' \in Page, view' \in View, view'.set = view.set, view'.round = view.round,
           view'.verdicts = view.verdicts, Ahead(view') \subseteq Ahead(view), GradingStep,
           PageFits', GradingFits', QueueFits', ExitFits', EventsFit'
    PROVE  Inv'
<1>1. UNCHANGED <<row, recorded, forgot, strayed, sets>>
    OBVIOUS
<1>2. TypeOK /\ SnapshotsFit /\ VerdictsFit /\ sets \in Nat
    BY ViewsFit DEF Inv
<1>3. saves' \in Seq(Patch) /\ SaveViews' = SaveViews \union {p.view}
    BY <1>2, GrownSaves, GrownViews
<1>4. TypeOK'
    BY <1>1, <1>2, <1>3 DEF TypeOK, GradingStep, Gradings
<1>5. \A u \in Views' : u \in Views \/ u = view' \/ u = p.view
    BY <1>1, <1>3 DEF Views, GradingStep
<1>6. SnapshotsFit'
    <2>1. SnapshotFits(view, sets, reflected)
        BY <1>2 DEF SnapshotsFit, Views
    <2>2. Judged(view') = Judged(view)
        BY DEF Judged
    <2>3. SnapshotFits(view', sets', reflected')
        BY <1>1, <2>1, <2>2 DEF SnapshotFits
    <2>4. \A u \in Views' : u \in Views \/ SnapshotFits(u, sets', reflected')
        BY <1>1, <1>5, <2>3
    <2> QED
        BY <1>1, <1>2, <2>4, SnapshotsKept
<1>7. VerdictsFit'
    <2>1. \A v \in {row'.view} \union GradingViews' \union SaveViews' :
            \E w \in Views : Ahead(v) \subseteq Ahead(w)
        <3>1. view \in Views
            BY DEF Views
        <3> QED
            BY <1>5, <3>1 DEF Views
    <2>2. recorded' \intersect Verdict \subseteq recorded \union tracked /\ forgot' = forgot
        BY <1>1
    <2>3. overtaken \subseteq overtaken'
        BY DEF GradingStep
    <2> QED
        BY <1>2, <2>1, <2>2, <2>3, VerdictsKept
<1> QED
    BY <1>4, <1>6, <1>7 DEF Inv

\* The patch that persistSession queues.
LEMMA PersistIs ==
    ASSUME NEW status \in {"", "active", "completed"}, NEW v \in View,
           NEW for \in {"", "enter", "finish", "exit"}, Persist(status, v, for)
    PROVE  \E p \in Patch : p.view = v /\ p.for = for /\ saves' = Append(saves, p)
<1> DEFINE p == [status |-> status, view |-> v, for |-> for]
<1>1. p \in Patch /\ p.view = v /\ p.for = for
    BY DEF Patch
<1>2. saves' = Append(saves, p)
    BY DEF Persist
<1> HIDE DEF p
<1> QED
    BY <1>1, <1>2

LEMMA SaveDraftInv == ASSUME Inv, SaveDraft PROVE Inv'
<1>1. /\ UNCHANGED <<page, view, grading, eventVars, serverVars, historyVars, sets, faults>>
      /\ Persist("", view, "")
    BY DEF SaveDraft
<1>2. TypeOK /\ view \in View /\ page \in Page /\ sets \in Nat
    BY ViewsFit DEF Inv
<1>3. PICK p \in Patch : p.view = view /\ p.for = "" /\ saves' = Append(saves, p)
    BY <1>1, <1>2, PersistIs
<1>4. UNCHANGED <<page, view, grading, pending, flush, tracked, row, recorded, reflected, strayed, sets, faults>>
    BY <1>1 DEF eventVars, serverVars, historyVars
<1>5. PageFits' /\ GradingFits' /\ GradingStep
    BY <1>1, <1>4, GradingKept DEF Inv, PageFits, In
<1>6. QueueFits'
    <2>1. ~In("closed")' => \A i \in DOMAIN saves : Awaited(saves[i].for, page')
        BY <1>4 DEF Inv, QueueFits, In
    <2>2. Awaited(p.for, page') /\ (In("closed") => In("closed")') /\ QueueFits
        BY <1>3, <1>4 DEF Awaited, In, Inv
    <2> QED
        BY <1>2, <1>3, <2>1, <2>2, QueueGrows
<1>7. ExitFits'
    <2>1. ViewFollows => ViewFollows'
        BY <1>4 DEF ViewFollows
    <2>2. ASSUME ViewFollows, SavesFollow PROVE SavesFollow'
        <3>1. AsFarAs(p.view, page.left) /\ p.for # "exit"
            BY <1>3, <2>2 DEF ViewFollows
        <3> QED
            BY <1>2, <1>3, <1>4, <2>2, <3>1, FollowersGrow
    <2> QED
        BY <1>4, <2>1, <2>2, ExitKept DEF Inv
<1>8. EventsFit'
    BY <1>2, <1>4, EventsKept DEF Inv, In
<1>9. /\ pending' \in SUBSET [event : Event, promise : {"open", "ok", "failed"}]
      /\ flush' \in [Waiter -> [open : SUBSET Event, failed : SUBSET Event]]
      /\ tracked' \in SUBSET Event /\ reflected' \in SUBSET Rounds /\ faults' \in 0..MaxFaults
    BY <1>2, <1>4 DEF TypeOK
<1> QED
    BY <1>1, <1>2, <1>3, <1>4, <1>5, <1>6, <1>7, <1>8, <1>9, SaveStep DEF historyVars

LEMMA NextQuestionInv == ASSUME Inv, NextQuestion PROVE Inv'
<1>1. TypeOK /\ view \in View /\ page \in Page /\ sets \in Nat /\ GradingViews \subseteq View /\ page.left \in View
    BY ViewsFit, PageIs DEF Inv
<1> DEFINE no == FALSE
           index == view.index + 1
<1>2. /\ In("active") /\ view.confirmed /\ view.index < SetSize
      /\ UNCHANGED <<page, eventVars, serverVars, historyVars, sets, faults>>
      /\ Persist("", view', "")
    BY DEF NextQuestion
<1>3. view' = NextOf(view, index, no)
    BY DEF NextQuestion, NextOf
<1>4. grading' = QuietOf(grading, no)
    BY DEF NextQuestion, QuietOf
<1>5. no \in BOOLEAN /\ index \in 1..SetSize /\ view.index < index /\ ~no /\ index \in Nat
    <2>1. view.index \in 1..SetSize /\ view.index < SetSize /\ SetSize \in Nat
        BY <1>1, <1>2, ViewIs, BoundsFit
    <2> QED
        BY <2>1
<1> HIDE DEF no, index
<1>6. /\ view' \in View /\ view'.round = view.round /\ view'.set = view.set /\ view'.index = index
      /\ view'.confirmed = no /\ view'.verdicts = view.verdicts
    BY <1>1, <1>3, <1>5, NextView
<1>7. grading' \in Gradings /\ GradingViews' = GradingViews /\ overtaken' = overtaken
    <2>1. grading \in Gradings
        BY <1>1, ViewsFit
    <2> QED
        BY <1>2, <1>4, <1>5, <2>1, QuietGrading, SameGradings DEF historyVars
<1>8. PICK p \in Patch : p.view = view' /\ p.for = "" /\ saves' = Append(saves, p)
    BY <1>2, <1>6, PersistIs
<1>9. UNCHANGED <<page, pending, flush, tracked, row, recorded, reflected, strayed, sets, faults>>
    BY <1>2 DEF eventVars, serverVars, historyVars
<1>10. view.set \in Nat \ {0} /\ view.index \in Nat
    <2>1. view.set > 0
        BY <1>2 DEF Inv, PageFits
    <2> QED
        BY <1>1, <2>1, ViewIs, BoundsFit
<1>11. Ahead(view') \subseteq Ahead(view)
    <2> SUFFICES ASSUME NEW q \in Ahead(view') PROVE q \in Ahead(view)
        OBVIOUS
    <2>1. q \in Question /\ q.set = view.set /\ q.index \in Nat /\ index <= q.index
        BY <1>6, AheadIs
    <2>2. q.index > view.index
        BY <1>5, <1>10, <2>1
    <2> QED
        BY <2>1, <2>2 DEF Ahead
<1>12. GradingStep
    BY <1>1, <1>7 DEF GradingStep, TypeOK
<1>13. PageFits'
    BY <1>2, <1>6, <1>9 DEF Inv, PageFits, In
<1>14. GradingFits'
    <2>1. \A u \in GradingViews : ~u.confirmed /\ u # view
        BY <1>2 DEF Inv, GradingFits, GradeFits
    <2>2. \A u \in GradingViews : u.index \in Nat
        BY <1>1, ViewIs, BoundsFit
    <2>3. \A u \in GradingViews : u.set = view'.set => u.index <= view'.index
        BY <1>5, <1>6, <1>10, <2>2 DEF Inv, GradingFits, GradeFits
    <2> QED
        BY <1>6, <1>7, <2>1, <2>3 DEF Inv, GradingFits, GradeFits
<1>15. QueueFits'
    <2>1. ~In("closed")' => \A i \in DOMAIN saves : Awaited(saves[i].for, page')
        BY <1>9 DEF Inv, QueueFits, In
    <2>2. Awaited(p.for, page') /\ (In("closed") => In("closed")') /\ QueueFits
        BY <1>8, <1>9 DEF Awaited, In, Inv
    <2> QED
        BY <1>1, <1>8, <2>1, <2>2, QueueGrows
<1>16. ASSUME ViewFollows PROVE AsFarAs(view', page.left) /\ ViewFollows'
    <2>1. page.left.set \in Nat /\ page.left.index \in Nat
        BY <1>1, ViewIs, BoundsFit
    <2>2. AsFarAs(view', page.left)
        BY <1>5, <1>6, <1>10, <1>16, <2>1 DEF ViewFollows, AsFarAs
    <2> QED
        BY <1>9, <2>2 DEF ViewFollows
<1>17. ExitFits'
    <2>1. ASSUME ViewFollows, SavesFollow PROVE SavesFollow'
        <3>1. AsFarAs(p.view, page.left) /\ p.for # "exit"
            BY <1>8, <1>16, <2>1
        <3> QED
            BY <1>1, <1>8, <1>9, <2>1, <3>1, FollowersGrow
    <2> QED
        BY <1>9, <1>16, <2>1, ExitKept DEF Inv
<1>18. EventsFit'
    BY <1>1, <1>9, EventsKept DEF Inv, In
<1>19. /\ pending' \in SUBSET [event : Event, promise : {"open", "ok", "failed"}]
       /\ flush' \in [Waiter -> [open : SUBSET Event, failed : SUBSET Event]]
       /\ tracked' \in SUBSET Event /\ reflected' \in SUBSET Rounds /\ faults' \in 0..MaxFaults
    BY <1>1, <1>9 DEF TypeOK
<1> QED
    BY <1>1, <1>2, <1>6, <1>8, <1>9, <1>11, <1>12, <1>13, <1>14, <1>15, <1>17, <1>18, <1>19, SaveStep
    DEF historyVars

LEMMA TryAgainInv == ASSUME Inv, HeldFits, TryAgain PROVE Inv'
<1>1. In("generation_failed") /\ TypeOK /\ page \in Page
    BY ViewsFit DEF TryAgain, Inv
<1>2. CASE EnterRound(view.verdicts)
    <2>1. view.verdicts \in SUBSET Verdict
        BY <1>1, ViewsFit, ViewIs
    <2>2. \A u \in view.verdicts : u.question.set <= view.set
        BY DEF Inv, SnapshotsFit, SnapshotFits, Views, Judged
    <2> QED
        BY <1>1, <1>2, <2>1, <2>2, EnterInv
<1>3. CASE /\ page' = [page EXCEPT !.phase = "loading", !.work = "generate", !.held = view.verdicts]
           /\ UNCHANGED <<view, grading, saves, eventVars, serverVars, historyVars, sets, faults>>
    <2>1. /\ page' \in Page /\ page'.phase = "loading" /\ page'.work = "generate"
          /\ page'.round = page.round /\ page'.exit = page.exit /\ page'.left = page.left
        BY <1>1, <1>3, ViewsFit, ViewIs DEF Page
    <2>2. UNCHANGED <<view, grading, saves, row, reflected, strayed, sets, faults>>
        BY <1>3 DEF serverVars, historyVars
    <2>3. page.work = "none" /\ ~In("closed")
        BY <1>1 DEF Inv, PageFits, In
    <2>4. PageFits'
        BY <2>1, <2>2 DEF Inv, PageFits, In
    <2>5. GradingFits' /\ GradingStep
        BY <1>3, GradingKept DEF Inv
    <2>6. QueueFits'
        BY <2>1, <2>2, <2>3 DEF Inv, QueueFits, Awaited, In
    <2>7. ExitFits'
        <3>1. (ViewFollows => ViewFollows') /\ (SavesFollow => SavesFollow')
            BY <2>1, <2>2 DEF ViewFollows, SavesFollow
        <3> QED
            BY <2>1, <2>2, <3>1, ExitKept DEF Inv
    <2>8. /\ In("closed") => In("closed")'
          /\ page'.work \in {"flush", "maintain"} => page'.work = page.work
          /\ page'.exit = "flush" => page.exit = "flush"
          /\ faults' \in 0..MaxFaults
        BY <1>1, <2>1, <2>2, <2>3 DEF TypeOK
    <2> QED
        BY <1>3, <2>1, <2>2, <2>4, <2>5, <2>6, <2>7, <2>8, PageStep DEF historyVars
<1> QED
    BY <1>2, <1>3 DEF TryAgain

LEMMA GenerateInv == ASSUME Inv, HeldFits, Generate PROVE Inv'
<1>1. page.work = "generate" /\ TypeOK /\ page \in Page
    BY ViewsFit DEF Generate, Inv
<1>2. CASE EnterRound(page.held)
    BY <1>1, <1>2, PageIs, EnterInv DEF HeldFits
<1>3. CASE /\ Fault
           /\ page' = [page EXCEPT !.phase = "generation_failed", !.work = "none"]
           /\ UNCHANGED <<view, grading, saves, eventVars, serverVars, historyVars, sets>>
    <2>1. /\ page' \in Page /\ page'.phase = "generation_failed" /\ page'.work = "none"
          /\ page'.round = page.round /\ page'.exit = page.exit /\ page'.left = page.left
        BY <1>1, <1>3 DEF Page
    <2>2. UNCHANGED <<view, grading, saves, row, reflected, strayed, sets>>
        BY <1>3 DEF serverVars, historyVars
    <2>3. ~In("closed")
        BY <1>1 DEF Inv, PageFits, In
    <2>4. PageFits'
        BY <2>1, <2>2 DEF Inv, PageFits, In
    <2>5. GradingFits' /\ GradingStep
        BY <1>3, GradingKept DEF Inv
    <2>6. QueueFits'
        BY <1>1, <2>1, <2>2, <2>3 DEF Inv, QueueFits, Awaited, In
    <2>7. ExitFits'
        <3>1. (ViewFollows => ViewFollows') /\ (SavesFollow => SavesFollow')
            BY <2>1, <2>2 DEF ViewFollows, SavesFollow
        <3> QED
            BY <2>1, <2>2, <3>1, ExitKept DEF Inv
    <2>8. /\ In("closed") => In("closed")'
          /\ page'.work \in {"flush", "maintain"} => page'.work = page.work
          /\ page'.exit = "flush" => page.exit = "flush"
        BY <1>1, <2>1, <2>2, <2>3 DEF TypeOK
    <2>9. faults' \in 0..MaxFaults
        BY <1>3, FaultFits
    <2> QED
        BY <1>3, <2>1, <2>2, <2>4, <2>5, <2>6, <2>7, <2>8, <2>9, PageStep DEF historyVars
<1> QED
    BY <1>2, <1>3 DEF Generate

-----------------------------------------------------------------------------
(* Events are flushed, and reflected on.                                   *)

Pending == SUBSET [event : Event, promise : {"open", "ok", "failed"}]

Flush == [Waiter -> [open : SUBSET Event, failed : SUBSET Event]]

\* The events of P with a promise.
Those(P, promise) == {p.event : p \in {p \in P : p.promise = promise}}

LEMMA ThoseAre ==
    ASSUME NEW P \in Pending, NEW promise
    PROVE  /\ Those(P, promise) \in SUBSET Event
           /\ \A p \in P : p.promise = promise => p.event \in Those(P, promise)
           /\ \A e \in Those(P, promise) : \E p \in P : p.event = e /\ p.promise = promise
<1>1. \A p \in P : p.event \in Event
    BY DEF Pending
<1> QED
    BY <1>1 DEF Those

LEMMA AwaitIs ==
    ASSUME flush \in Flush, NEW w \in Waiter, NEW P \in Pending, Await(w, P)
    PROVE  /\ flush' \in Flush
           /\ flush'[w].open = Those(P, "open") /\ flush'[w].failed = Those(P, "failed")
           /\ \A u \in Waiter \ {w} : flush'[u] = flush[u]
<1> DEFINE open == Those(P, "open")
           failed == Those(P, "failed")
<1>1. open \in SUBSET Event /\ failed \in SUBSET Event
    BY ThoseAre
<1>2. flush' = [flush EXCEPT ![w] = [open |-> open, failed |-> failed]]
    BY DEF Await, Those
<1> HIDE DEF open, failed
<1>3. [open |-> open, failed |-> failed] \in [open : SUBSET Event, failed : SUBSET Event]
    BY <1>1
<1>4. flush' \in Flush /\ flush'[w] = [open |-> open, failed |-> failed]
    BY <1>2, <1>3 DEF Flush
<1>5. \A u \in Waiter \ {w} : flush'[u] = flush[u]
    BY <1>2 DEF Flush
<1> QED
    BY <1>4, <1>5 DEF open, failed

LEMMA FlushIs ==
    ASSUME TypeOK
    PROVE  /\ flush \in Flush /\ pending \in Pending
           /\ \A w \in Waiter : flush[w].open \in SUBSET Event /\ flush[w].failed \in SUBSET Event
           /\ "reflection" \in Waiter /\ "exit" \in Waiter /\ "reflection" # "exit"
           /\ \A w \in Waiter : w = "reflection" \/ w = "exit"
<1>1. flush \in Flush /\ pending \in Pending
    BY DEF TypeOK, Flush, Pending
<1>2. \A w \in Waiter : flush[w].open \in SUBSET Event /\ flush[w].failed \in SUBSET Event
    BY <1>1 DEF Flush
<1> QED
    BY <1>1, <1>2 DEF Waiter

LEMMA FlushedIs ==
    ASSUME Inv, NEW w \in Waiter, Flushed(w)
    PROVE  /\ pending' \in Pending /\ flush' \in Flush /\ flush' = flush
           /\ Waited(w) = {}
           /\ {p.event : p \in pending'} \subseteq tracked
           /\ Unsettled' = Unsettled
<1>1. /\ flush[w] = [open |-> {}, failed |-> {}] /\ flush' = flush
      /\ pending' = {p \in pending : p.promise # "ok"}
    BY DEF Flushed
<1>2. flush \in Flush /\ pending \in Pending
    BY FlushIs DEF Inv
<1>3. Waited(w) = {}
    BY <1>1 DEF Waited
<1>4. pending' \in Pending /\ flush' \in Flush /\ {p.event : p \in pending'} \subseteq tracked
    BY <1>1, <1>2 DEF Pending, Inv, EventsFit
<1>5. Unsettled' = Unsettled
    BY <1>1 DEF Unsettled
<1> QED
    BY <1>1, <1>3, <1>4, <1>5

LEMMA FlushFailsIs ==
    ASSUME Inv, NEW w \in Waiter, FlushFails(w), flush[w].failed \subseteq tracked
    PROVE  /\ pending' \in Pending /\ flush' \in Flush
           /\ \A u \in Waiter \ {w} : flush'[u] = flush[u]
           /\ {p.event : p \in pending'} \subseteq tracked
           /\ Unsettled \subseteq Unsettled'
<1> DEFINE failed == flush[w].failed
           kept == {p \in pending : p.event \notin failed}
           none == {}
<1>1. flush \in Flush /\ pending \in Pending /\ failed \in SUBSET Event
    BY FlushIs DEF Inv
<1>2. /\ pending' = kept \union {[event |-> e, promise |-> "open"] : e \in failed}
      /\ flush' = [flush EXCEPT ![w] = [open |-> none, failed |-> none]]
    BY DEF FlushFails
<1>3. none \in SUBSET Event /\ failed \subseteq tracked
    OBVIOUS
<1>4. kept \in Pending /\ \A p \in pending : p.event \notin failed => p \in kept
    BY <1>1 DEF Pending
<1>5. \A e \in failed : [event |-> e, promise |-> "open"] \in [event : Event, promise : {"open", "ok", "failed"}]
    BY <1>1
<1>6. \A p \in kept : p.event \in tracked
    BY DEF Inv, EventsFit
<1> HIDE DEF failed, kept, none
<1>7. pending' \in Pending
    BY <1>2, <1>4, <1>5 DEF Pending
<1>8. flush' \in Flush /\ \A u \in Waiter \ {w} : flush'[u] = flush[u]
    <2>1. [open |-> none, failed |-> none] \in [open : SUBSET Event, failed : SUBSET Event]
        BY <1>3
    <2> QED
        BY <1>1, <1>2, <2>1 DEF Flush
<1>9. /\ \A q \in pending' : q \in kept \/ (q.event \in failed /\ q.promise = "open")
      /\ kept \subseteq pending'
      /\ \A e \in failed : \E q \in pending' : q.event = e /\ q.promise = "open"
    BY <1>2, PromisesAdded
<1>10. {p.event : p \in pending'} \subseteq tracked
    BY <1>3, <1>6, <1>9
<1>11. ASSUME NEW e \in Unsettled PROVE e \in Unsettled'
    <2>1. PICK p \in pending : p.event = e /\ p.promise # "ok"
        BY UnsettledIs
    <2>2. \E q \in pending' : q.event = e /\ q.promise # "ok"
        BY <1>4, <1>9, <2>1
    <2> QED
        BY <2>2 DEF Unsettled
<1> QED
    BY <1>7, <1>8, <1>10, <1>11

LEMMA ReflectInv == ASSUME Inv, Reflect PROVE Inv'
<1> DEFINE events == IF view.round \in page.told THEN {} ELSE {Told("completed", view.round)}
           told == page.told \union {view.round}
<1>1. /\ TypeOK /\ view \in View /\ page \in Page /\ sets \in Nat /\ view.round \in Rounds
      /\ flush \in Flush /\ pending \in Pending /\ "reflection" \in Waiter
      /\ "exit" \in Waiter \ {"reflection"}
    BY ViewsFit, ViewIs, FlushIs DEF Inv
<1>2. /\ In("active") /\ view.confirmed /\ page.work = "none"
      /\ pending' = pending \union {[event |-> e, promise |-> "open"] : e \in events}
      /\ tracked' = tracked \union events
      /\ Await("reflection", pending')
      /\ UNCHANGED <<view, grading, saves, serverVars, historyVars, sets, faults>>
    BY DEF Reflect
<1>3. PICK goal \in {"next", "finish"} :
        /\ goal = "next" => view.round < MaxRounds
        /\ page' = [page EXCEPT !.phase = "loading", !.work = "flush", !.goal = goal, !.told = told,
                                !.held = view.verdicts]
    BY DEF Reflect
<1>4. events \in SUBSET Event /\ Asked(events) = {} /\ events \intersect Verdict = {}
    BY <1>1, ToldIs DEF Asked
<1>5. told \in SUBSET Rounds
    BY <1>1, PageIs
<1> HIDE DEF events, told
<1>6. /\ page' \in Page /\ page'.phase = "loading" /\ page'.work = "flush" /\ page'.goal = goal
      /\ page'.round = page.round /\ page'.exit = page.exit /\ page'.left = page.left
    BY <1>1, <1>3, <1>5, ViewIs DEF Page
<1>7. UNCHANGED <<view, grading, saves, row, recorded, reflected, strayed, sets, faults>>
    BY <1>2 DEF serverVars, historyVars
<1>8. \A e \in events : [event |-> e, promise |-> "open"] \in [event : Event, promise : {"open", "ok", "failed"}]
    BY <1>4
<1>9. pending' \in Pending /\ tracked' \in SUBSET Event
    BY <1>1, <1>2, <1>4, <1>8 DEF Pending, TypeOK
<1>10. /\ flush' \in Flush
       /\ flush'["reflection"].open = Those(pending', "open")
       /\ flush'["reflection"].failed = Those(pending', "failed")
       /\ flush'["exit"] = flush["exit"]
    <2> DEFINE P == pending'
    <2>1. P \in Pending /\ Await("reflection", P)
        BY <1>2, <1>9
    <2> HIDE DEF P
    <2>2. /\ flush' \in Flush
          /\ flush'["reflection"].open = Those(P, "open") /\ flush'["reflection"].failed = Those(P, "failed")
          /\ \A u \in Waiter \ {"reflection"} : flush'[u] = flush[u]
        BY <1>1, <2>1, AwaitIs
    <2> QED
        BY <1>1, <2>2 DEF P
<1>11. PageFits'
    BY <1>2, <1>3, <1>6, <1>7 DEF Inv, PageFits, In
<1>12. GradingFits' /\ GradingStep
    BY <1>2, GradingKept DEF Inv
<1>13. QueueFits'
    BY ZenonT(60), <1>2, <1>6, <1>7 DEF Inv, QueueFits, Awaited, In
<1>14. ExitFits'
    <2>1. (ViewFollows => ViewFollows') /\ (SavesFollow => SavesFollow')
        BY <1>6, <1>7 DEF ViewFollows, SavesFollow
    <2> QED
        BY <1>6, <1>7, <2>1, ExitKept DEF Inv
<1>15. EventsFit'
    <2>1. /\ \A q \in pending' : q \in pending \/ (q.event \in events /\ q.promise = "open")
          /\ pending \subseteq pending'
          /\ \A e \in events : \E q \in pending' : q.event = e /\ q.promise = "open"
        BY SMTT(60), <1>2, PromisesAdded
    <2>2. {p.event : p \in pending'} \subseteq tracked'
        BY <1>2, <2>1 DEF Inv, EventsFit
    <2>3. tracked' \subseteq recorded \union Unsettled'
        <3>1. tracked \subseteq recorded \union Unsettled
            BY <1>2 DEF Inv, EventsFit, In
        <3>2. ASSUME NEW e \in Unsettled \union events PROVE e \in Unsettled'
            <4>1. \E p \in pending' : p.event = e /\ p.promise # "ok"
                BY <2>1, UnsettledIs
            <4> QED
                BY <4>1 DEF Unsettled
        <3> QED
            BY <1>2, <3>1, <3>2
    <2>4. Unsettled' \subseteq Waited("reflection")'
        <3>1. ASSUME NEW e \in Unsettled' PROVE e \in Those(pending', "open") \union Those(pending', "failed")
            <4>1. PICK p \in pending' : p.event = e /\ p.promise # "ok"
                BY DEF Unsettled
            <4>2. p.promise \in {"open", "failed"}
                BY <1>9, <4>1 DEF Pending
            <4> QED
                BY <4>1, <4>2 DEF Those
        <3> QED
            BY <1>10, <3>1 DEF Waited
    <2>5. flush'["reflection"].failed \subseteq tracked'
        BY <1>10, <2>2 DEF Those
    <2>6. page'.exit = "flush" => flush'["exit"].failed \subseteq tracked'
        BY <1>2, <1>6, <1>10 DEF Inv, EventsFit
    <2>7. \A q \in Asked(recorded' \union tracked') : q.set <= sets'
        <3>1. Asked(recorded \union tracked') = Asked(recorded \union tracked) \union Asked(events)
            BY <1>2, AskedBoth
        <3> QED
            BY <1>4, <1>7, <3>1 DEF Inv, EventsFit
    <2> QED
        BY <1>6, <1>7, <2>2, <2>3, <2>4, <2>5, <2>6, <2>7 DEF EventsFit
<1>16. tracked' \intersect Verdict = tracked \intersect Verdict
    BY <1>2, <1>4
<1>17. /\ recorded' \in SUBSET Event /\ recorded' \intersect Verdict \subseteq recorded \union tracked
       /\ reflected \subseteq reflected' /\ reflected' \in SUBSET Rounds /\ faults' \in 0..MaxFaults
    BY <1>1, <1>7 DEF TypeOK
<1> QED
    BY <1>2, <1>6, <1>7, <1>9, <1>10, <1>11, <1>12, <1>13, <1>14, <1>15, <1>16, <1>17, QuietStep
    DEF Pending, Flush, historyVars

\* A step of the page that flushes, with the work and the exit that are left.
LEMMA FlushStep ==
    ASSUME Inv, UNCHANGED <<view, grading, saves, serverVars, tracked, historyVars, sets, faults>>,
           pending' \in Pending, flush' \in Flush, page' \in Page,
           PageFits', QueueFits', ExitFits', EventsFit'
    PROVE  Inv'
<1>1. UNCHANGED <<view, grading, saves, row, recorded, reflected, tracked, sets, faults>>
    BY DEF serverVars
<1>2. TypeOK /\ faults \in 0..MaxFaults
    BY DEF Inv, TypeOK
<1>3. GradingFits' /\ GradingStep
    BY GradingKept DEF Inv
<1>4. /\ recorded' \in SUBSET Event /\ recorded' \intersect Verdict \subseteq recorded \union tracked
      /\ reflected \subseteq reflected' /\ reflected' \in SUBSET Rounds /\ faults' \in 0..MaxFaults
      /\ tracked' \in SUBSET Event /\ tracked' \intersect Verdict = tracked \intersect Verdict
    BY <1>1, <1>2 DEF TypeOK
<1> QED
    BY <1>1, <1>3, <1>4, QuietStep DEF Pending, Flush, historyVars

LEMMA FlushRoundInv == ASSUME Inv, FlushRound PROVE Inv'
<1>1. /\ TypeOK /\ page \in Page /\ "reflection" \in Waiter /\ "exit" \in Waiter \ {"reflection"}
    BY ViewsFit, FlushIs DEF Inv
<1>2. page.work = "flush" /\ UNCHANGED <<view, grading, saves, serverVars, tracked, historyVars, sets, faults>>
    BY DEF FlushRound
<1>3. UNCHANGED <<view, grading, saves, row, recorded, reflected, strayed, tracked, sets>>
    BY <1>2 DEF serverVars, historyVars
<1>4. In("loading") /\ ~In("active") /\ ~In("closed") /\ view.set > 0 /\ view.confirmed
    BY <1>1, <1>2, PageIs DEF Inv, PageFits, In
<1>5. ASSUME page' \in Page, page'.round = page.round, page'.exit = page.exit, page'.left = page.left,
             page'.goal = page.goal,
             \/ page'.phase = page.phase /\ page'.work = "maintain"
             \/ page'.phase = "active" /\ page'.work = "none"
      PROVE  PageFits' /\ QueueFits' /\ ExitFits'
    <2>1. PageFits'
        BY <1>2, <1>3, <1>4, <1>5 DEF Inv, PageFits, In
    <2>2. QueueFits'
        BY ZenonT(60), <1>2, <1>3, <1>4, <1>5 DEF Inv, QueueFits, Awaited, In
    <2>3. (ViewFollows => ViewFollows') /\ (SavesFollow => SavesFollow')
        BY <1>3, <1>5 DEF ViewFollows, SavesFollow
    <2> QED
        BY <1>3, <1>5, <2>1, <2>2, <2>3, ExitKept DEF Inv
<1>6. ASSUME Flushed("reflection"), page' = [page EXCEPT !.work = "maintain"]
      PROVE  Inv'
    <2>1. /\ page' \in Page /\ page'.round = page.round /\ page'.exit = page.exit
          /\ page'.left = page.left /\ page'.goal = page.goal
          /\ page'.phase = page.phase /\ page'.work = "maintain"
        BY <1>1, <1>6 DEF Page
    <2>2. /\ pending' \in Pending /\ flush' \in Flush /\ flush' = flush
          /\ Waited("reflection") = {}
          /\ {p.event : p \in pending'} \subseteq tracked
          /\ Unsettled' = Unsettled
        BY <1>1, <1>6, FlushedIs
    <2>3. ~strayed => tracked \subseteq recorded
        BY <1>2, <2>2 DEF Inv, EventsFit
    <2>4. EventsFit'
        BY <1>3, <1>4, <2>1, <2>2, <2>3 DEF Inv, EventsFit, In
    <2> QED
        BY <1>2, <1>5, <2>1, <2>2, <2>4, FlushStep
<1>7. ASSUME FlushFails("reflection"), page' = [page EXCEPT !.phase = "active", !.work = "none"]
      PROVE  Inv'
    <2>1. /\ page' \in Page /\ page'.round = page.round /\ page'.exit = page.exit
          /\ page'.left = page.left /\ page'.goal = page.goal
          /\ page'.phase = "active" /\ page'.work = "none"
        BY <1>1, <1>7 DEF Page
    <2>2. flush["reflection"].failed \subseteq tracked
        BY <1>2 DEF Inv, EventsFit
    <2>3. /\ pending' \in Pending /\ flush' \in Flush
          /\ \A u \in Waiter \ {"reflection"} : flush'[u] = flush[u]
          /\ {p.event : p \in pending'} \subseteq tracked
          /\ Unsettled \subseteq Unsettled'
        BY <1>1, <1>7, <2>2, FlushFailsIs
    <2>4. EventsFit'
        BY <1>1, <1>3, <1>4, <2>1, <2>3 DEF Inv, EventsFit, In
    <2> QED
        BY <1>2, <1>5, <2>1, <2>3, <2>4, FlushStep
<1> QED
    BY <1>6, <1>7 DEF FlushRound

LEMMA FlushExitInv == ASSUME Inv, FlushExit PROVE Inv'
<1>1. /\ TypeOK /\ page \in Page /\ "exit" \in Waiter /\ "reflection" \in Waiter \ {"exit"} /\ sets \in Nat
    BY ViewsFit, FlushIs DEF Inv
<1>2. page.exit = "flush" /\ UNCHANGED <<view, grading, saves, serverVars, tracked, historyVars, sets, faults>>
    BY DEF FlushExit
<1>3. UNCHANGED <<view, grading, saves, row, recorded, reflected, strayed, tracked, sets>>
    BY <1>2 DEF serverVars, historyVars
<1>4. ~In("closed")
    BY <1>2 DEF Inv, PageFits
<1>5. ASSUME Flushed("exit"), page' = Closed PROVE Inv'
    <2>1. PageFits'
        BY <1>1, <1>3, <1>5, ClosedFits, NoSetFits, BoundsFit DEF PageFits, In, Rounds
    <2>2. QueueFits' /\ ExitFits'
        BY <1>5, ClosedFits DEF QueueFits, ExitFits, In
    <2>3. pending' \in Pending /\ flush' \in Flush /\ {p.event : p \in pending'} \subseteq tracked
        BY <1>1, <1>5, FlushedIs
    <2>4. EventsFit'
        BY <1>3, <1>5, <2>3, ClosedFits DEF Inv, EventsFit, In
    <2>5. page' \in Page
        BY <1>5, ClosedFits
    <2> QED
        BY <1>2, <2>1, <2>2, <2>3, <2>4, <2>5, FlushStep
<1>6. ASSUME FlushFails("exit"), page' = [page EXCEPT !.exit = "none"] PROVE Inv'
    <2>1. /\ page' \in Page /\ page'.phase = page.phase /\ page'.work = page.work
          /\ page'.round = page.round /\ page'.goal = page.goal
          /\ page'.exit = "none" /\ page'.left = page.left
        BY <1>1, <1>6 DEF Page
    <2>2. PageFits'
        BY <1>3, <2>1 DEF Inv, PageFits, In
    <2>3. QueueFits'
        BY ZenonT(60), <1>2, <1>3, <2>1 DEF Inv, QueueFits, Awaited, In
    <2>4. ExitFits'
        BY <2>1 DEF ExitFits
    <2>5. flush["exit"].failed \subseteq tracked
        BY <1>2 DEF Inv, EventsFit
    <2>6. /\ pending' \in Pending /\ flush' \in Flush
          /\ \A u \in Waiter \ {"exit"} : flush'[u] = flush[u]
          /\ {p.event : p \in pending'} \subseteq tracked
          /\ Unsettled \subseteq Unsettled'
        BY <1>1, <1>6, <2>5, FlushFailsIs
    <2>7. EventsFit'
        <3>1. flush'["reflection"] = flush["reflection"]
            BY <1>1, <2>6
        <3>2. ~In("closed")' => tracked' \subseteq recorded' \union Unsettled'
            BY <1>3, <1>4, <2>6 DEF Inv, EventsFit
        <3> QED
            BY <1>3, <2>1, <2>6, <3>1, <3>2 DEF Inv, EventsFit, Waited
    <2> QED
        BY <1>2, <2>1, <2>2, <2>3, <2>4, <2>6, <2>7, FlushStep
<1> QED
    BY <1>5, <1>6 DEF FlushExit

LEMMA MaintainInv == ASSUME Inv, HeldFits, Maintain PROVE Inv'
<1> DEFINE next == view.round + 1
           known == reflected \union {view.round}
<1>1. /\ TypeOK /\ view \in View /\ page \in Page /\ view.round \in Rounds /\ sets \in Nat
      /\ reflected \in SUBSET Rounds
    BY ViewsFit, ViewIs DEF Inv, TypeOK
<1>2. page.work = "maintain" /\ UNCHANGED <<view, grading, eventVars, row, recorded, historyVars, sets>>
    BY DEF Maintain
<1>3. UNCHANGED <<view, grading, pending, flush, tracked, row, recorded, strayed, sets>>
    BY <1>2 DEF eventVars, historyVars
<1>4. In("loading") /\ ~In("active") /\ ~In("closed") /\ view.set > 0 /\ view.confirmed
    BY <1>1, <1>2, PageIs DEF Inv, PageFits, In
<1>5. /\ \A round \in Rounds : round < view.round => round \in reflected
      /\ \A round \in Rounds : round < page.round => round \in reflected
    BY DEF Inv, SnapshotsFit, SnapshotFits, Views, PageFits
<1>6. known \in SUBSET Rounds /\ reflected \subseteq known
    BY <1>1
<1>7. \A round \in Rounds : round < next => round \in known
    BY <1>1, <1>5, BoundsFit DEF Rounds
<1>8. next \in Rounds \/ page.goal # "next"
    BY <1>1, <1>2, BoundsFit DEF Rounds, Inv, PageFits
<1>9. GradingFits' /\ GradingStep
    BY <1>2, GradingKept DEF Inv
<1>10. ASSUME page' \in Page, page'.exit = page.exit, page'.left = page.left, reflected \subseteq reflected',
              page'.work \notin {"flush", "maintain"}, page'.phase \in {"active", "loading"},
              page'.phase = "active" => page'.work = "none",
              page'.phase = "loading" => page'.work \in {"generate", "complete"},
              \A round \in Rounds : round < page'.round => round \in reflected'
       PROVE  PageFits' /\ EventsFit'
    <2>1. PageFits'
        BY <1>3, <1>4, <1>10 DEF Inv, PageFits, In
    <2>2. EventsFit'
        BY <1>1, <1>3, <1>4, <1>10, EventsKept DEF Inv, In
    <2> QED
        BY <2>1, <2>2
<1>11. /\ pending' \in SUBSET [event : Event, promise : {"open", "ok", "failed"}]
       /\ flush' \in [Waiter -> [open : SUBSET Event, failed : SUBSET Event]]
       /\ tracked' \in SUBSET Event /\ recorded' \in SUBSET Event
       /\ recorded' \intersect Verdict \subseteq recorded \union tracked
       /\ tracked' \intersect Verdict = tracked \intersect Verdict
       /\ view' = view /\ view' \in View /\ faults \in 0..MaxFaults
    BY <1>1, <1>2, <1>3 DEF TypeOK
<1> HIDE DEF next, known
<1>12. ASSUME page' \in Page, page'.phase \in {"active", "loading"}, page'.exit = page.exit, page'.left = page.left,
              UNCHANGED saves
       PROVE  QueueFits' /\ ExitFits'
    <2>1. QueueFits'
        BY <1>2, <1>4, <1>12 DEF Inv, QueueFits, Awaited, In
    <2>2. (ViewFollows => ViewFollows') /\ (SavesFollow => SavesFollow')
        BY <1>2, <1>12 DEF ViewFollows, SavesFollow
    <2> QED
        BY <1>3, <1>12, <2>1, <2>2, ExitKept DEF Inv
<1>13. ASSUME reflected' = known, page.goal = "next",
              page' = [page EXCEPT !.work = "generate", !.round = next], UNCHANGED <<saves, faults>>
       PROVE  Inv'
    <2>1. /\ page' \in Page /\ page'.phase = page.phase /\ page'.work = "generate"
          /\ page'.round = next /\ page'.exit = page.exit /\ page'.left = page.left
        BY <1>1, <1>8, <1>13 DEF Page
    <2>2. PageFits' /\ EventsFit'
        BY <1>4, <1>6, <1>7, <1>10, <1>13, <2>1 DEF In
    <2>3. QueueFits' /\ ExitFits'
        BY <1>4, <1>12, <1>13, <2>1 DEF In
    <2> QED
        BY <1>2, <1>6, <1>9, <1>11, <1>13, <2>1, <2>2, <2>3, QuietStep DEF historyVars
<1>14. ASSUME reflected' = known, page' = [page EXCEPT !.work = "complete"],
              Persist("completed", CleanOf(view, page.held), "finish"), UNCHANGED faults
       PROVE  Inv'
    <2>1. /\ page' \in Page /\ page'.phase = page.phase /\ page'.work = "complete"
          /\ page'.round = page.round /\ page'.exit = page.exit /\ page'.left = page.left
        BY <1>1, <1>14 DEF Page
    <2>2. PageFits' /\ EventsFit'
        BY <1>4, <1>5, <1>6, <1>10, <1>14, <2>1 DEF In
    <2> DEFINE left == CleanOf(view, page.held)
    <2>a. /\ left \in View /\ left.round = view.round /\ left.set = view.set
          /\ left.index = view.index /\ left.confirmed = view.confirmed /\ left.verdicts = page.held
        BY <1>1, PageIs, CleanView
    <2>b. Ahead(left) = Ahead(view)
        BY <2>a DEF Ahead
    <2>c. SnapshotFits(left, sets, reflected')
        <3>1. \A q \in Judged(left) : q.set <= view.set /\ q \notin Ahead(view)
            BY <1>2, <2>a DEF HeldFits, Judged
        <3>2. left.set <= sets
            BY <2>a DEF Inv, SnapshotsFit, SnapshotFits, Views
        <3> QED
            BY <1>5, <1>6, <1>14, <2>a, <2>b, <3>1, <3>2 DEF SnapshotFits
    <2>d. ~strayed => left.verdicts = view.verdicts
        BY <1>2, <2>a DEF HeldFits
    <2>3. PICK p \in Patch : p.view = left /\ p.for = "finish" /\ saves' = Append(saves, p)
        BY <1>14, <2>a, PersistIs
    <2> HIDE DEF left
    <2>4. QueueFits'
        <3>1. \A i \in DOMAIN saves : Awaited(saves[i].for, page)
            BY <1>4 DEF Inv, QueueFits
        <3>2. \A i \in DOMAIN saves : Awaited(saves[i].for, page') /\ saves[i].for # "finish"
            BY <1>2, <2>1, <3>1 DEF Awaited
        <3>3. Awaited(p.for, page') /\ p.for = "finish" /\ QueueFits
            BY <2>1, <2>3 DEF Awaited, Inv
        <3> QED
            BY <1>1, <1>4, <2>3, <3>2, <3>3, QueueGrows
    <2>5. ExitFits'
        <3>1. ViewFollows => ViewFollows'
            BY <1>2, <2>1 DEF ViewFollows
        <3>2. ASSUME ViewFollows, SavesFollow, ~strayed PROVE SavesFollow'
            <4>1. AsFarAs(p.view, page.left) /\ p.for # "exit" /\ row' = row
                BY <1>3, <2>3, <2>a, <2>d, <3>2 DEF ViewFollows, AsFarAs
            <4> QED
                BY <1>1, <2>1, <2>3, <3>2, <4>1, FollowersGrow
        <3>3. strayed' = strayed
            BY <1>3
        <3> QED
            BY <2>1, <3>1, <3>2, <3>3 DEF Inv, ExitFits
    <2> QED
        BY <1>2, <1>6, <1>9, <1>11, <1>14, <2>1, <2>2, <2>3, <2>4, <2>5, <2>b, <2>c, SaveStep
        DEF historyVars
<1>15. ASSUME Fault, MaintainFails, reflected' = known \/ reflected' = reflected, UNCHANGED saves
       PROVE  Inv'
    <2>1. /\ page' \in Page /\ page'.phase = "active" /\ page'.work = "none"
          /\ page'.round = page.round /\ page'.exit = page.exit /\ page'.left = page.left
        BY <1>1, <1>15 DEF Page, MaintainFails
    <2>2. faults' \in 0..MaxFaults /\ reflected \subseteq reflected' /\ reflected' \in SUBSET Rounds
        BY <1>1, <1>6, <1>15, FaultFits
    <2>3. PageFits' /\ EventsFit'
        BY <1>5, <1>10, <2>1, <2>2
    <2>4. QueueFits' /\ ExitFits'
        BY <1>12, <1>15, <2>1
    <2> QED
        BY <1>2, <1>9, <1>11, <1>15, <2>1, <2>2, <2>3, <2>4, QuietStep DEF historyVars
<1>16. \/ /\ reflected' = reflected \union {view.round}
          /\ page.goal = "next" /\ page' = [page EXCEPT !.work = "generate", !.round = view.round + 1]
          /\ UNCHANGED <<saves, faults>>
       \/ /\ reflected' = reflected \union {view.round}
          /\ page' = [page EXCEPT !.work = "complete"]
          /\ Persist("completed", CleanOf(view, page.held), "finish") /\ UNCHANGED faults
       \/ /\ Fault /\ MaintainFails /\ UNCHANGED saves
          /\ reflected' = reflected \union {view.round} \/ UNCHANGED reflected
    BY Zenon DEF Maintain, CleanOf
<1> QED
    BY <1>13, <1>14, <1>15, <1>16 DEF next, known

-----------------------------------------------------------------------------
(* The page is left and opened.                                            *)

LEMMA ExitInv == ASSUME Inv, Exit PROVE Inv'
<1> DEFINE yes == TRUE
           events == IF page.exited THEN {} ELSE {Told("exited", view.round)}
<1>1. /\ TypeOK /\ view \in View /\ page \in Page /\ view.round \in Rounds /\ sets \in Nat
    BY ViewsFit, ViewIs DEF Inv, TypeOK
<1>2. /\ In("active") /\ page.exit = "none" /\ ~grading.on
      /\ page' = [page EXCEPT !.exit = "save", !.exited = yes, !.left = view]
      /\ Persist("active", view, "exit") /\ Track(events)
      /\ UNCHANGED <<view, grading, serverVars, historyVars, sets, faults>>
    BY DEF Exit
<1>3. events \in SUBSET Event /\ Asked(events) = {} /\ events \intersect Verdict = {} /\ yes \in BOOLEAN
    BY <1>1, ToldIs DEF Asked
<1> HIDE DEF yes, events
<1>4. /\ page' \in Page /\ page'.phase = page.phase /\ page'.work = page.work /\ page'.goal = page.goal
      /\ page'.round = page.round /\ page'.exit = "save" /\ page'.left = view
    BY <1>1, <1>2, <1>3 DEF Page
<1>5. UNCHANGED <<view, grading, row, recorded, reflected, strayed, sets, faults>>
    BY <1>2 DEF serverVars, historyVars
<1>6. PICK p \in Patch : p.view = view /\ p.for = "exit" /\ saves' = Append(saves, p)
    BY <1>1, <1>2, PersistIs
<1>7. view.set > 0 /\ view.set <= sets /\ view.set \in Nat
    BY <1>1, <1>2, ViewIs, BoundsFit DEF Inv, PageFits, SnapshotsFit, SnapshotFits, Views
<1>8. PageFits'
    BY <1>2, <1>4, <1>5, <1>7 DEF Inv, PageFits, In
<1>9. GradingFits' /\ GradingStep
    BY <1>2, GradingKept DEF Inv
<1>10. \A i \in DOMAIN saves : Awaited(saves[i].for, page) /\ saves[i].for # "exit"
    BY <1>2 DEF Inv, QueueFits, Awaited, In
<1>11. QueueFits'
    <2>1. \A i \in DOMAIN saves : Awaited(saves[i].for, page')
        BY <1>4, <1>10 DEF Awaited
    <2>2. Awaited(p.for, page') /\ ~In("closed") /\ QueueFits
        BY <1>2, <1>4, <1>6 DEF Awaited, In, Inv
    <2> QED
        BY <1>1, <1>6, <1>10, <2>1, <2>2, QueueGrows
<1>12. ExitFits'
    <2>1. AsFarAs(view, view)
        BY <1>1, AsFarAsItself
    <2>3. ViewFollows'
        BY <1>4, <1>5, <2>1 DEF ViewFollows
    <2>4. SavesFollow'
        <3>1. /\ DOMAIN saves = 1..Len(saves) /\ DOMAIN saves' = 1..(Len(saves) + 1) /\ Len(saves) \in Nat
              /\ \A i \in 1..Len(saves) : saves'[i] = saves[i]
              /\ saves'[Len(saves) + 1] = p
            BY <1>1, <1>6, ViewsFit, AppendIs
        <3>2. ASSUME NEW i \in DOMAIN saves', saves'[i].for = "exit"
              PROVE  i = Len(saves) + 1
            BY <1>10, <3>1, <3>2
        <3>3. \A i \in DOMAIN saves' : saves'[i].for = "exit" =>
                /\ saves'[i].view = view
                /\ \A j \in DOMAIN saves' : ~(j > i)
            BY <1>6, <3>1, <3>2
        <3> QED
            BY <1>4, <3>3 DEF SavesFollow
    <2> QED
        BY <2>3, <2>4 DEF ExitFits
<1>13. EventsFit'
    <2>1. /\ pending' = pending \union {[event |-> e, promise |-> "open"] : e \in events}
          /\ tracked' = tracked \union events /\ flush' = flush /\ recorded' = recorded
          /\ \A q \in Asked(events) : q.set <= sets'
          /\ In("closed") => In("closed")'
          /\ ~strayed' => ~strayed
          /\ page'.work = "flush" => page.work = "flush" /\ strayed'
          /\ page'.work = "maintain" => strayed'
          /\ page'.exit = "flush" => page.exit = "flush"
        BY <1>2, <1>3, <1>4, <1>5 DEF Track, In, Inv, PageFits
    <2>2. sets' \in Nat /\ sets <= sets' /\ EventsFit
        BY <1>1, <1>5 DEF Inv
    <2> QED
        BY <1>1, <1>3, <2>1, <2>2, EventsTracked
<1>14. /\ pending' \in SUBSET [event : Event, promise : {"open", "ok", "failed"}]
       /\ flush' \in [Waiter -> [open : SUBSET Event, failed : SUBSET Event]]
       /\ tracked' \in SUBSET Event
    BY <1>1, <1>2, <1>3, TypesOfEvents
<1>15. /\ tracked' \intersect Verdict = tracked \intersect Verdict
       /\ reflected \subseteq reflected' /\ reflected' \in SUBSET Rounds /\ faults' \in 0..MaxFaults
       /\ view' = view
    BY <1>1, <1>2, <1>3, <1>5 DEF TypeOK, Track
<1> QED
    BY <1>1, <1>2, <1>4, <1>5, <1>6, <1>8, <1>9, <1>11, <1>12, <1>13, <1>14, <1>15, SaveStep DEF historyVars

LEMMA OpenInv == ASSUME Inv, Open PROVE Inv'
<1>1. /\ TypeOK /\ row.view \in View /\ row \in [status : {"active", "completed"}, view : View]
      /\ sets \in Nat /\ row.view.set \in Nat
    BY ViewsFit, ViewIs, BoundsFit DEF Inv
<1>2. /\ In("closed") /\ Quiet /\ (Start \/ Resume)
      /\ pending' = {} /\ tracked' = {} /\ strayed' = FALSE
      /\ forgot' = forgot \union ({e.question : e \in tracked \intersect Verdict} \ Judged(row.view))
      /\ UNCHANGED <<grading, saves, flush, serverVars, overtaken, sets, faults>>
    BY DEF Open
<1>3. forgot' = forgot \union (Asked(tracked) \ Judged(row.view))
    BY <1>2 DEF Asked
<1>4. /\ view' \in {NoSet, row.view}
      /\ \E phase \in {"results", "active", "loading"}, work \in {"generate", "none"} :
             /\ page' = [Closed EXCEPT !.phase = phase, !.work = work]
             /\ work = "generate" <=> phase = "loading"
             /\ phase = "active" => view' = row.view /\ row.view.set > 0
    <2>1. CASE Start
        <3> DEFINE phase == "loading"
                   work == "generate"
        <3>1. page' = [Closed EXCEPT !.phase = phase, !.work = work] /\ view' = NoSet
            BY <2>1 DEF Start
        <3> QED
            BY <3>1
    <2>2. CASE Resume
        <3> DEFINE phase == IF row.status # "active" THEN "results"
                            ELSE IF row.view.set > 0 THEN "active" ELSE "loading"
                   work == IF row.status = "active" /\ row.view.set = 0 THEN "generate" ELSE "none"
        <3>1. page' = [Closed EXCEPT !.phase = phase, !.work = work] /\ view' = row.view
            BY <2>2 DEF Resume
        <3>2. /\ phase \in {"results", "active", "loading"} /\ work \in {"generate", "none"}
              /\ work = "generate" <=> phase = "loading"
              /\ phase = "active" => row.view.set > 0
            BY <1>1
        <3> HIDE DEF phase, work
        <3> QED
            BY <3>1, <3>2
    <2> QED
        BY <1>2, <2>1, <2>2
<1>5. PICK phase \in {"results", "active", "loading"}, work \in {"generate", "none"} :
        /\ page' = [Closed EXCEPT !.phase = phase, !.work = work]
        /\ work = "generate" <=> phase = "loading"
        /\ phase = "active" => view' = row.view /\ row.view.set > 0
    BY <1>4
<1>6. /\ page' \in Page /\ page'.phase = phase /\ page'.work = work
      /\ page'.round = 1 /\ page'.exit = "none" /\ page'.left = NoSet
    BY <1>5, ClosedFits DEF Page
<1>7. UNCHANGED <<grading, saves, flush, row, recorded, reflected, overtaken, sets, faults>>
    BY <1>2 DEF serverVars
<1>8. SaveViews' = {} /\ GradingViews' = {}
    BY <1>2, <1>7 DEF SaveViews, GradingViews, InGrading, Quiet
<1>9. Asked(tracked) \subseteq Question
    BY AskedIs
<1>10. TypeOK'
    BY <1>1, <1>2, <1>3, <1>4, <1>6, <1>7, <1>9, NoSetFits DEF TypeOK
<1>11. SnapshotsFit'
    <2>1. SnapshotFits(NoSet, sets', reflected')
        BY <1>1, <1>7, NoSetFits, BoundsFit DEF SnapshotFits, Judged, Rounds
    <2>2. \A u \in Views' : u \in Views \/ SnapshotFits(u, sets', reflected')
        BY <1>4, <1>7, <1>8, <2>1 DEF Views
    <2> QED
        BY <1>1, <1>7, <2>2, SnapshotsKept DEF Inv
<1>12. PageFits'
    BY <1>1, <1>4, <1>5, <1>6, <1>7, NoSetFits, BoundsFit DEF PageFits, In, Rounds
<1>13. GradingFits' /\ QueueFits' /\ ExitFits'
    <2>1. QueueFits'
        BY <1>2, <1>7 DEF QueueFits, Quiet
    <2> QED
        BY <1>6, <1>8, <2>1 DEF GradingFits, ExitFits
<1>14. EventsFit'
    <2>1. \A q \in Asked(recorded') : q.set <= sets'
        BY <1>7, AskedBoth DEF Inv, EventsFit
    <2>2. recorded' \union tracked' = recorded' /\ tracked' = {} /\ pending' = {}
        BY <1>2
    <2>3. page'.work \notin {"flush", "maintain"} /\ page'.exit # "flush"
        BY <1>6
    <2> QED
        BY <2>1, <2>2, <2>3 DEF EventsFit
<1>15. VerdictsFit'
    <2>1. Asked(recorded) \intersect Ahead(row.view) \subseteq Spared \union Asked(tracked)
        BY DEF Inv, VerdictsFit
    <2>2. \A q \in Judged(row.view) : q \notin Ahead(row.view)
        BY DEF Inv, SnapshotsFit, SnapshotFits, Views
    <2>3. Spared \subseteq Spared' /\ Asked(tracked) \ Judged(row.view) \subseteq Spared'
        BY <1>3, <1>7 DEF Spared
    <2>4. Asked(recorded) \intersect Ahead(row.view) \subseteq Spared'
        BY <2>1, <2>2, <2>3
    <2>5. recorded' \union tracked' = recorded /\ Asked(tracked') = {}
        BY <1>2, <1>7 DEF Asked
    <2>6. Asked(recorded' \union tracked') \intersect Ahead(view') \subseteq Spared'
        BY <1>4, <2>4, <2>5, NothingAhead
    <2>7. \A v \in {row'.view} \union GradingViews' \union SaveViews' :
            Asked(recorded') \intersect Ahead(v) \subseteq Spared' \union Asked(tracked')
        BY <1>7, <1>8, <2>4
    <2>8. \A e, f \in (recorded' \union tracked') \intersect Verdict :
            e # f /\ e.question = f.question => e.question \in Spared'
        BY <2>3, <2>5 DEF Inv, VerdictsFit
    <2> QED
        BY <2>6, <2>7, <2>8 DEF VerdictsFit
<1> QED
    BY <1>10, <1>11, <1>12, <1>13, <1>14, <1>15 DEF Inv

LEMMA ReloadInv == ASSUME Inv, Reload PROVE Inv'
<1>1. /\ TypeOK /\ row \in [status : {"active", "completed"}, view : View] /\ sets \in Nat
      /\ saves \in Seq(Patch) /\ row.view \in View
    BY ViewsFit DEF Inv
<1>2. /\ Fault /\ page' = Closed /\ view' = NoSet /\ grading' = Idle /\ saves' = <<>>
      /\ pending' = {} /\ flush' = NoFlush
      /\ UNCHANGED <<reflected, tracked, historyVars, sets>>
    BY DEF Reload
<1>3. UNCHANGED <<reflected, tracked, forgot, overtaken, strayed, sets>>
    BY <1>2 DEF historyVars
<1>4. row' \in [status : {"active", "completed"}, view : View] /\ row'.view \in {row.view} \union SaveViews
    <2>1. CASE UNCHANGED row
        BY <1>1, <2>1
    <2>2. CASE /\ saves # <<>>
               /\ row' = [status |-> IF saves[1].status = "" THEN row.status ELSE saves[1].status,
                          view |-> saves[1].view]
        <3>1. saves # <<>>
            BY <2>2
        <3>2. Head(saves) \in Patch /\ Head(saves) = saves[1] /\ Len(saves) \in Nat \ {0} /\ DOMAIN saves = 1..Len(saves)
            BY <1>1, <3>1, TailIs
        <3>3. saves[1] \in Patch /\ 1 \in DOMAIN saves
            BY <3>2
        <3> QED
            BY <1>1, <2>2, <3>3, WrittenRow DEF SaveViews
    <2> QED
        BY <2>1, <2>2 DEF Reload
<1>5. PICK sent \in SUBSET Promised("open") : recorded' = recorded \union sent
    BY DEF Reload
<1>6. sent \subseteq tracked
    BY DEF Promised, Inv, EventsFit
<1>7. SaveViews' = {}
    BY <1>2 DEF SaveViews
<1>8. GradingViews' = {} /\ grading' \in Gradings
    BY <1>2, IdleFits DEF GradingViews, InGrading
<1>9. TypeOK'
    <2>1. flush' \in [Waiter -> [open : SUBSET Event, failed : SUBSET Event]]
        BY <1>2 DEF NoFlush
    <2>2. page' \in Page /\ saves' \in Seq(Patch) /\ faults' \in 0..MaxFaults
        BY <1>2, ClosedFits, FaultFits
    <2>3. recorded' \in SUBSET Event /\ pending' \in SUBSET [event : Event, promise : {"open", "ok", "failed"}]
        BY <1>1, <1>2, <1>5, <1>6 DEF TypeOK
    <2> QED
        BY <1>1, <1>2, <1>3, <1>4, <1>8, <2>1, <2>2, <2>3, NoSetFits DEF TypeOK, Gradings
<1>10. SnapshotsFit'
    <2>1. SnapshotFits(NoSet, sets', reflected')
        BY <1>1, <1>3, NoSetFits, BoundsFit DEF SnapshotFits, Judged, Rounds
    <2>2. \A u \in Views' : u \in Views \/ SnapshotFits(u, sets', reflected')
        BY <1>2, <1>4, <1>7, <1>8, <2>1 DEF Views
    <2> QED
        BY <1>1, <1>3, <2>2, SnapshotsKept DEF Inv
<1>11. PageFits'
    BY <1>1, <1>2, <1>3, ClosedFits, NoSetFits, BoundsFit DEF PageFits, In, Rounds
<1>12. GradingFits' /\ QueueFits' /\ ExitFits'
    BY <1>2, <1>8, ClosedFits DEF GradingFits, QueueFits, ExitFits, In
<1>13. recorded' \union tracked' = recorded \union tracked
    BY <1>3, <1>5, <1>6
<1>14. EventsFit'
    <2>1. \A q \in Asked(recorded' \union tracked') : q.set <= sets'
        BY <1>3, <1>13 DEF Inv, EventsFit
    <2> QED
        BY <1>2, <2>1, ClosedFits DEF EventsFit, In
<1>15. VerdictsFit'
    <2>1. recorded' \intersect Verdict \subseteq recorded \union tracked
        BY <1>13
    <2>2. Ahead(view') \intersect Asked(recorded \union tracked) = {}
        BY <1>2, NothingAhead
    <2>3. \A v \in {row'.view} \union GradingViews' \union SaveViews' : v \in Views
        BY <1>4, <1>7, <1>8 DEF Views
    <2> QED
        BY <1>3, <2>1, <2>2, <2>3, VerdictsKept DEF Inv
<1> QED
    BY <1>9, <1>10, <1>11, <1>12, <1>14, <1>15 DEF Inv

-----------------------------------------------------------------------------
(* The server answers.                                                     *)

LEMMA ResolveIs ==
    ASSUME Inv, NEW e \in Promised("open"), NEW promise \in {"ok", "failed"}, Resolve(e, promise)
    PROVE  /\ e \in tracked /\ e \in Event
           /\ pending' \in Pending /\ flush' \in Flush
           /\ {p.event : p \in pending'} \subseteq tracked
           /\ Unsettled \subseteq Unsettled' \union {e}
           /\ promise = "failed" => e \in Unsettled'
           /\ \A w \in Waiter :
                /\ flush'[w].failed \subseteq flush[w].failed \union {e}
                /\ Waited(w) \subseteq Waited(w)' \union {e}
                /\ promise = "failed" => Waited(w) \subseteq Waited(w)'
<1> DEFINE told == [event |-> e, promise |-> promise]
           asked == [event |-> e, promise |-> "open"]
           failedOf(w) == IF promise = "failed" /\ e \in flush[w].open
                          THEN flush[w].failed \union {e} ELSE flush[w].failed
<1>1. /\ pending' = (pending \ {asked}) \union {told}
      /\ flush' = [w \in Waiter |-> [open |-> flush[w].open \ {e}, failed |-> failedOf(w)]]
    BY DEF Resolve
<1>2. /\ TypeOK /\ flush \in Flush /\ pending \in Pending
      /\ \A w \in Waiter : flush[w].open \in SUBSET Event /\ flush[w].failed \in SUBSET Event
    BY FlushIs DEF Inv
<1>3. e \in tracked /\ e \in Event
    BY <1>2 DEF Promised, Inv, EventsFit, TypeOK
<1>4. \A w \in Waiter : failedOf(w) \in SUBSET Event
    BY <1>2, <1>3
<1>5. pending' \in Pending /\ {p.event : p \in pending'} \subseteq tracked
    BY <1>1, <1>2, <1>3 DEF Pending, Inv, EventsFit
<1>6. ASSUME NEW f \in Unsettled PROVE f \in Unsettled' \union {e}
    <2>1. PICK p \in pending : p.event = f /\ p.promise # "ok"
        BY <1>6, UnsettledIs
    <2>2. p = asked \/ p \in pending'
        BY <1>1
    <2> QED
        BY <2>1, <2>2 DEF Unsettled
<1>7. ASSUME promise = "failed" PROVE e \in Unsettled'
    <2>1. told \in pending' /\ told.event = e /\ told.promise # "ok"
        BY <1>1, <1>7
    <2> QED
        BY <2>1 DEF Unsettled
<1>8. ASSUME NEW w \in Waiter
      PROVE  /\ flush'[w].open = flush[w].open \ {e}
             /\ flush'[w].failed = failedOf(w)
    BY <1>1
<1>9. flush' \in Flush
    BY <1>1, <1>2, <1>4 DEF Flush
<1>10. ASSUME NEW w \in Waiter
       PROVE  /\ flush'[w].failed \subseteq flush[w].failed \union {e}
              /\ Waited(w) \subseteq Waited(w)' \union {e}
              /\ promise = "failed" => Waited(w) \subseteq Waited(w)'
    BY <1>8 DEF Waited
<1> QED
    BY <1>3, <1>5, <1>6, <1>7, <1>9, <1>10

LEMMA SendEventInv == ASSUME Inv, SendEvent PROVE Inv'
<1>1. /\ TypeOK /\ page \in Page /\ sets \in Nat /\ "reflection" \in Waiter /\ "exit" \in Waiter
      /\ faults \in 0..MaxFaults
    BY ViewsFit, FlushIs DEF Inv, TypeOK
<1>2. UNCHANGED <<pageVars, row, reflected, tracked, historyVars, sets>>
    BY DEF SendEvent
<1>3. UNCHANGED <<page, view, grading, saves, row, reflected, tracked, strayed, sets>>
    BY <1>2 DEF pageVars, historyVars
<1>4. PICK e \in Promised("open"), promise \in {"ok", "failed"} :
        /\ Resolve(e, promise)
        /\ recorded' = recorded \union {e} \/ (recorded' = recorded /\ promise = "failed")
        /\ faults' = faults \/ Fault
    <2>1. PICK e \in Promised("open") :
            \/ recorded' = recorded \union {e} /\ Resolve(e, "ok") /\ UNCHANGED faults
            \/ /\ Fault /\ Resolve(e, "failed")
               /\ recorded' = recorded \union {e} \/ UNCHANGED recorded
        BY Zenon DEF SendEvent
    <2>2. CASE recorded' = recorded \union {e} /\ Resolve(e, "ok") /\ UNCHANGED faults
        BY <2>2, Zenon
    <2>3. CASE /\ Fault /\ Resolve(e, "failed")
               /\ recorded' = recorded \union {e} \/ UNCHANGED recorded
        BY <2>3, Zenon
    <2> QED
        BY <2>1, <2>2, <2>3
<1>5. /\ e \in tracked /\ e \in Event
      /\ pending' \in Pending /\ flush' \in Flush
      /\ {p.event : p \in pending'} \subseteq tracked
      /\ Unsettled \subseteq Unsettled' \union {e}
      /\ promise = "failed" => e \in Unsettled'
      /\ \A w \in Waiter :
            /\ flush'[w].failed \subseteq flush[w].failed \union {e}
            /\ Waited(w) \subseteq Waited(w)' \union {e}
            /\ promise = "failed" => Waited(w) \subseteq Waited(w)'
    BY <1>4, ResolveIs
<1>6. recorded \subseteq recorded' /\ recorded' \subseteq recorded \union {e}
    BY <1>4
<1>7. PageFits' /\ GradingFits' /\ GradingStep /\ QueueFits'
    BY <1>2, <1>3, GradingKept DEF Inv, PageFits, QueueFits, Awaited, In
<1>8. ExitFits'
    <2>1. (ViewFollows => ViewFollows') /\ (SavesFollow => SavesFollow')
        BY <1>3 DEF ViewFollows, SavesFollow
    <2> QED
        BY <1>3, <2>1, ExitKept DEF Inv
<1>9. EventsFit'
    <2>1. ~In("closed")' => tracked' \subseteq recorded' \union Unsettled'
        <3>1. ~In("closed")' => tracked \subseteq recorded \union Unsettled
            BY <1>3 DEF Inv, EventsFit, In
        <3> QED
            BY <1>3, <1>4, <1>5, <1>6, <3>1
    <2>2. ASSUME page'.work = "flush"
          PROVE  /\ flush'["reflection"].failed \subseteq tracked'
                 /\ ~strayed' => tracked' \subseteq recorded' \union Waited("reflection")'
        <3>1. /\ flush["reflection"].failed \subseteq tracked
              /\ ~strayed => tracked \subseteq recorded \union Waited("reflection")
            BY <1>3, <2>2 DEF Inv, EventsFit
        <3> QED
            BY <1>1, <1>3, <1>4, <1>5, <1>6, <3>1
    <2>3. page'.exit = "flush" => flush'["exit"].failed \subseteq tracked'
        BY <1>1, <1>3, <1>5 DEF Inv, EventsFit
    <2>4. page'.work = "maintain" /\ ~strayed' => tracked' \subseteq recorded'
        BY <1>3, <1>6 DEF Inv, EventsFit
    <2>5. recorded' \union tracked' = recorded \union tracked
        BY <1>3, <1>5, <1>6
    <2>6. \A q \in Asked(recorded' \union tracked') : q.set <= sets'
        BY <1>3, <2>5 DEF Inv, EventsFit
    <2> QED
        BY <1>3, <1>5, <2>1, <2>2, <2>3, <2>4, <2>6 DEF EventsFit
<1>10. /\ recorded' \in SUBSET Event /\ recorded' \intersect Verdict \subseteq recorded \union tracked
       /\ tracked' \in SUBSET Event /\ tracked' \intersect Verdict = tracked \intersect Verdict
       /\ reflected \subseteq reflected' /\ reflected' \in SUBSET Rounds
    BY <1>1, <1>3, <1>4, <1>5 DEF TypeOK
<1>11. faults' \in 0..MaxFaults
    BY <1>1, <1>4, FaultFits
<1>12. page' \in Page
    BY <1>1, <1>3
<1> QED
    BY <1>2, <1>3, <1>5, <1>7, <1>8, <1>9, <1>10, <1>11, <1>12, QuietStep DEF Pending, Flush, historyVars

\* What the page does when a save is answered.
LEMMA SavedIs ==
    ASSUME page \in Page, NEW for \in {"", "enter", "finish", "exit"}, Saved(for) \/ NotSaved(for)
    PROVE  /\ page' \in Page /\ page'.round = page.round /\ page'.left = page.left /\ page'.goal = page.goal
           /\ page'.held = page.held
           /\ for = "" => page' = page
           /\ for = "enter" =>
                /\ page'.phase \in {page.phase, "generation_failed"}
                /\ page'.work = "none" /\ page'.exit = page.exit
           /\ for = "finish" =>
                page'.phase \in {"results", "active"} /\ page'.work = "none" /\ page'.exit = page.exit
           /\ for = "exit" =>
                page'.phase = page.phase /\ page'.work = page.work /\ page'.exit \in {"flush", "none"}
<1>1. CASE for = ""
    BY <1>1 DEF Saved, NotSaved
<1>2. CASE for = "enter"
    <2>1. page' = [page EXCEPT !.work = "none"]
            \/ page' = [page EXCEPT !.phase = "generation_failed", !.work = "none"]
        BY <1>2 DEF Saved, NotSaved
    <2> QED
        BY <1>2, <2>1 DEF Page
<1>3. CASE for = "finish"
    <2>1. page' = [page EXCEPT !.phase = "results", !.work = "none"]
            \/ page' = [page EXCEPT !.phase = "active", !.work = "none"]
        BY <1>3 DEF Saved, NotSaved
    <2> QED
        BY <1>3, <2>1 DEF Page
<1>4. CASE for = "exit"
    <2>1. page' = [page EXCEPT !.exit = "flush"] \/ page' = [page EXCEPT !.exit = "none"]
        BY <1>4 DEF Saved, NotSaved
    <2> QED
        BY <1>4, <2>1 DEF Page
<1> QED
    BY <1>1, <1>2, <1>3, <1>4

LEMMA SavedOrNot ==
    ASSUME page \in Page
    PROVE  /\ Saved("exit") => page'.exit = "flush"
           /\ NotSaved("exit") => page'.exit = "none"
BY DEF Saved, NotSaved, Page

\* What is known of the save at the head of the queue.
HeadFits(patch, for) ==
    /\ patch \in Patch /\ patch = saves[1] /\ 1 \in DOMAIN saves
    /\ for = IF In("closed") THEN "" ELSE patch.for
    /\ for \in {"", "enter", "finish", "exit"}
    /\ Awaited(for, page)
    /\ \A i \in DOMAIN saves' :
        /\ i + 1 \in DOMAIN saves /\ saves'[i] = saves[i + 1] /\ i + 1 > 1
        /\ \A j \in DOMAIN saves' : (j > i => j + 1 > i + 1) /\ (i # j => i + 1 # j + 1)
        /\ for # "" => saves[i + 1].for # for

LEMMA HeadIs ==
    ASSUME Inv, saves # <<>>, saves' = Tail(saves)
    PROVE  HeadFits(Head(saves), Heard(Head(saves).for))
<1>1. saves \in Seq(Patch)
    BY ViewsFit DEF Inv
<1>2. /\ Head(saves) \in Patch /\ Head(saves) = saves[1] /\ Len(saves) \in Nat \ {0}
      /\ DOMAIN saves = 1..Len(saves) /\ DOMAIN saves' = 1..(Len(saves) - 1)
      /\ \A i \in 1..(Len(saves) - 1) : saves'[i] = saves[i + 1]
    BY <1>1, TailIs
<1>3. 1 \in DOMAIN saves
    BY <1>2
<1>4. ASSUME NEW i \in DOMAIN saves'
      PROVE  /\ i + 1 \in DOMAIN saves /\ saves'[i] = saves[i + 1] /\ i + 1 > 1
             /\ i + 1 # 1
             /\ \A j \in DOMAIN saves' : (j > i => j + 1 > i + 1) /\ (i # j => i + 1 # j + 1)
    BY <1>2, <1>4
<1>5. Heard(Head(saves).for) = IF In("closed") THEN "" ELSE Head(saves).for
    BY DEF Heard
<1>6. Heard(Head(saves).for) \in {"", "enter", "finish", "exit"}
    BY <1>2, <1>5, PatchIs
<1>7. Awaited(Heard(Head(saves).for), page)
    <2>1. CASE In("closed")
        BY <1>5, <2>1 DEF Awaited
    <2>2. CASE ~In("closed")
        <3>1. \A i \in DOMAIN saves : Awaited(saves[i].for, page)
            BY <2>2 DEF Inv, QueueFits
        <3>2. Awaited(saves[1].for, page)
            BY <1>3, <3>1
        <3> QED
            BY <1>2, <1>5, <2>2, <3>2
    <2> QED
        BY <2>1, <2>2
<1>8. ASSUME NEW i \in DOMAIN saves', Heard(Head(saves).for) # ""
      PROVE  saves[i + 1].for # Heard(Head(saves).for)
    <2>1. ~In("closed") /\ Heard(Head(saves).for) = saves[1].for
        BY <1>2, <1>5, <1>8
    <2>2. i + 1 \in DOMAIN saves /\ 1 # i + 1
        BY <1>4
    <2> QED
        BY <1>3, <1>8, <2>1, <2>2 DEF Inv, QueueFits
<1> QED
    BY <1>2, <1>3, <1>4, <1>5, <1>6, <1>7, <1>8 DEF HeadFits

LEMMA SendPatchPage ==
    ASSUME Inv, NEW patch, NEW for, HeadFits(patch, for), Saved(for) \/ NotSaved(for),
           UNCHANGED <<view, reflected, sets>>
    PROVE  PageFits' /\ QueueFits'
<1>1. page \in Page
    BY ViewsFit DEF Inv
<1>2. /\ page' \in Page /\ page'.round = page.round /\ page'.left = page.left /\ page'.goal = page.goal
      /\ for = "" => page' = page
      /\ for = "enter" =>
            /\ page'.phase \in {page.phase, "generation_failed"}
            /\ page'.work = "none" /\ page'.exit = page.exit
      /\ for = "finish" =>
            page'.phase \in {"results", "active"} /\ page'.work = "none" /\ page'.exit = page.exit
      /\ for = "exit" =>
            page'.phase = page.phase /\ page'.work = page.work /\ page'.exit \in {"flush", "none"}
    BY <1>1, SavedIs DEF HeadFits
<1>3. for \in {"", "enter", "finish", "exit"} /\ (In("closed") => for = "") /\ Awaited(for, page)
    BY DEF HeadFits
<1>4. for = "enter" => In("active")
    BY <1>1, <1>3, PageIs DEF Inv, PageFits, Awaited, In
<1>5. for = "finish" => view.set > 0
    BY <1>3 DEF Inv, PageFits, Awaited
<1>6. In("closed")' => In("closed")
    BY <1>2, <1>3, <1>4 DEF In
<1>7. PageFits'
    <2>1. CASE for = ""
        BY <1>2, <2>1 DEF Inv, PageFits, In
    <2>2. CASE for = "enter"
        BY <1>2, <1>4, <2>2 DEF Inv, PageFits, In
    <2>3. CASE for = "finish"
        BY <1>2, <1>5, <2>3 DEF Inv, PageFits, In
    <2>4. CASE for = "exit"
        BY <1>2, <1>3, <2>4 DEF Inv, PageFits, In
    <2> QED
        BY <1>3, <2>1, <2>2, <2>3, <2>4
<1>8. QueueFits'
    <2> SUFFICES ASSUME ~In("closed")'
                 PROVE  /\ \A i \in DOMAIN saves' : Awaited(saves'[i].for, page')
                        /\ \A i, j \in DOMAIN saves' :
                                i # j /\ saves'[i].for # "" => saves'[i].for # saves'[j].for
        BY DEF QueueFits
    <2>1. ~In("closed")
        BY <1>2, <1>3 DEF In
    <2>2. ASSUME NEW i \in DOMAIN saves' PROVE Awaited(saves'[i].for, page')
        <3>1. /\ saves'[i] = saves[i + 1] /\ i + 1 \in DOMAIN saves
              /\ for # "" => saves[i + 1].for # for
            BY DEF HeadFits
        <3>2. Awaited(saves'[i].for, page)
            BY <2>1, <3>1 DEF Inv, QueueFits
        <3>3. for # "" => saves'[i].for # for
            BY <3>1
        <3>4. /\ for # "exit" => page'.exit = page.exit
              /\ for \notin {"enter", "finish"} => page'.work = page.work
            BY <1>2, <1>3
        <3>5. /\ for = "enter" => page.work = "enter"
              /\ for = "finish" => page.work = "complete"
            BY <1>3 DEF Awaited
        <3> QED
            BY <3>2, <3>3, <3>4, <3>5 DEF Awaited
    <2>3. ASSUME NEW i \in DOMAIN saves', NEW j \in DOMAIN saves', i # j, saves'[i].for # ""
          PROVE  saves'[i].for # saves'[j].for
        <3>1. /\ saves'[i] = saves[i + 1] /\ saves'[j] = saves[j + 1]
              /\ i + 1 \in DOMAIN saves /\ j + 1 \in DOMAIN saves
            BY DEF HeadFits
        <3>2. i + 1 # j + 1
            BY <2>3 DEF HeadFits
        <3> QED
            BY <2>1, <2>3, <3>1, <3>2 DEF Inv, QueueFits
    <2> QED
        BY <2>2, <2>3
<1> QED
    BY <1>7, <1>8

LEMMA SendPatchExit ==
    ASSUME Inv, NEW patch, NEW for, HeadFits(patch, for),
           \/ Saved(for) /\ row'.view = patch.view
           \/ NotSaved(for) /\ row'.view \in {row.view, patch.view},
           UNCHANGED <<view, grading, strayed>>
    PROVE  ExitFits'
<1>1. page \in Page /\ patch.view \in View
    BY ViewsFit, PatchIs DEF Inv, HeadFits
<1>2. /\ page'.left = page.left
      /\ for # "exit" => page'.exit = page.exit
      /\ for \in {"", "enter", "finish", "exit"}
    BY <1>1, SavedIs DEF HeadFits
<1>3. for = "exit" =>
        /\ page.exit = "save" /\ patch.for = "exit"
        /\ page'.exit = "none" \/ (page'.exit = "flush" /\ row'.view = patch.view)
    BY <1>1, SavedOrNot DEF HeadFits, Awaited
<1> SUFFICES ASSUME page'.exit # "none", ~strayed' PROVE ViewFollows' /\ SavesFollow'
    BY DEF ExitFits
<1>4. ViewFollows /\ SavesFollow
    BY <1>2, <1>3 DEF Inv, ExitFits
<1>5. ViewFollows'
    BY <1>2, <1>4 DEF ViewFollows
<1>6. /\ patch = saves[1] /\ 1 \in DOMAIN saves
      /\ \A i \in DOMAIN saves' : i + 1 \in DOMAIN saves /\ saves'[i] = saves[i + 1] /\ i + 1 > 1
      /\ \A i, j \in DOMAIN saves' : j > i => j + 1 > i + 1
    BY DEF HeadFits
<1>7. CASE for = "exit"
    <2>1. page'.exit = "flush" /\ row'.view = patch.view
        BY <1>3, <1>7
    <2>2. /\ patch.view = page.left
          /\ \A j \in DOMAIN saves : j > 1 => AsFarAs(saves[j].view, page.left)
        BY <1>3, <1>4, <1>6, <1>7 DEF SavesFollow
    <2>3. AsFarAs(row'.view, page.left)
        BY <1>1, <2>1, <2>2, AsFarAsItself
    <2>4. \A i \in DOMAIN saves' : AsFarAs(saves'[i].view, page.left)
        BY <1>6, <2>2
    <2> QED
        BY <1>2, <1>5, <2>1, <2>3, <2>4 DEF SavesFollow
<1>8. CASE for # "exit"
    <2>1. page'.exit = page.exit
        BY <1>2, <1>8
    <2>2. ASSUME page'.exit = "save", NEW i \in DOMAIN saves', saves'[i].for = "exit"
          PROVE  /\ saves'[i].view = page.left
                 /\ \A j \in DOMAIN saves' : j > i => AsFarAs(saves'[j].view, page.left)
        <3>1. /\ saves[i + 1].view = page.left
              /\ \A j \in DOMAIN saves : j > i + 1 => AsFarAs(saves[j].view, page.left)
            BY <1>4, <1>6, <2>1, <2>2 DEF SavesFollow
        <3> QED
            BY <1>6, <3>1
    <2>3. ASSUME page'.exit = "flush"
          PROVE  /\ AsFarAs(row'.view, page.left)
                 /\ \A i \in DOMAIN saves' : AsFarAs(saves'[i].view, page.left)
        <3>1. AsFarAs(row.view, page.left) /\ \A i \in DOMAIN saves : AsFarAs(saves[i].view, page.left)
            BY <1>4, <2>1, <2>3 DEF SavesFollow
        <3> QED
            BY <1>6, <3>1
    <2> QED
        BY <1>2, <1>5, <2>2, <2>3 DEF SavesFollow
<1> QED
    BY <1>7, <1>8

LEMMA SendPatchInv == ASSUME Inv, SendPatch PROVE Inv'
<1> DEFINE patch == Head(saves)
           for == Heard(patch.for)
<1>1. /\ saves # <<>> /\ saves' = Tail(saves)
      /\ UNCHANGED <<view, grading, pending, tracked, recorded, reflected, historyVars, sets>>
    BY DEF SendPatch
<1>2. \/ /\ Write(patch) /\ Saved(for) /\ UNCHANGED faults
         /\ IF for = "exit" THEN Await("exit", pending) ELSE UNCHANGED flush
      \/ /\ Fault /\ NotSaved(for) /\ UNCHANGED flush
         /\ Write(patch) \/ UNCHANGED row
    BY Zenon DEF SendPatch
<1>3. HeadFits(patch, for)
    BY <1>1, HeadIs
<1>4. /\ TypeOK /\ page \in Page /\ sets \in Nat /\ faults \in 0..MaxFaults
      /\ row \in [status : {"active", "completed"}, view : View]
      /\ flush \in Flush /\ pending \in Pending
      /\ "reflection" \in Waiter \ {"exit"} /\ "exit" \in Waiter
    BY ViewsFit, FlushIs DEF Inv, TypeOK
<1>5. saves' \in Seq(Patch) /\ SaveViews' \subseteq SaveViews /\ patch.view \in SaveViews
    BY <1>1, <1>4, ShrunkViews
<1>6. UNCHANGED <<view, grading, pending, tracked, recorded, reflected, forgot, overtaken, strayed, sets>>
    BY <1>1 DEF historyVars
<1> HIDE DEF patch, for
<1>7. ASSUME Write(patch)
      PROVE  row'.view = patch.view /\ row' \in [status : {"active", "completed"}, view : View]
    <2>1. patch \in Patch
        BY <1>3 DEF HeadFits
    <2>2. row' = [status |-> IF patch.status = "" THEN row.status ELSE patch.status, view |-> patch.view]
        BY <1>7 DEF Write
    <2> QED
        BY <1>4, <2>1, <2>2, WrittenRow
<1>8. /\ row' \in [status : {"active", "completed"}, view : View]
      /\ \/ Saved(for) /\ row'.view = patch.view
         \/ NotSaved(for) /\ row'.view \in {row.view, patch.view}
    BY <1>2, <1>4, <1>7
<1>9. /\ page' \in Page
      /\ for = "" => page' = page
      /\ for \in {"enter", "finish"} => page'.work = "none" /\ page'.exit = page.exit
      /\ for = "exit" => page'.phase = page.phase /\ page'.work = page.work
    BY <1>3, <1>4, <1>8, SavedIs DEF HeadFits
<1>10. PageFits' /\ QueueFits'
    BY <1>3, <1>6, <1>8, SendPatchPage
<1>11. ExitFits'
    BY <1>3, <1>6, <1>8, SendPatchExit
<1>12. GradingFits' /\ GradingViews' = GradingViews
    BY <1>1, <1>4, GradingKept DEF Inv
<1>13. faults' \in 0..MaxFaults
    BY <1>2, <1>4, FaultFits
<1>14. /\ flush' \in Flush /\ flush'["reflection"] = flush["reflection"]
       /\ page'.exit = "flush" => flush'["exit"].failed \subseteq tracked
    <2>1. CASE Saved(for) /\ for = "exit" /\ Await("exit", pending)
        <3>1. /\ flush' \in Flush /\ flush'["exit"].failed = Those(pending, "failed")
              /\ \A u \in Waiter \ {"exit"} : flush'[u] = flush[u]
            BY <1>4, <2>1, AwaitIs
        <3>2. Those(pending, "failed") \subseteq tracked
            BY DEF Those, Inv, EventsFit
        <3> QED
            BY <1>4, <3>1, <3>2
    <2>2. CASE UNCHANGED flush /\ (NotSaved(for) \/ for # "exit")
        <3>1. page'.exit = "flush" => page.exit = "flush"
            <4>1. CASE for = "exit"
                BY <1>4, <2>2, <4>1, SavedOrNot
            <4>2. CASE for # "exit"
                BY <1>3, <1>9, <4>2 DEF HeadFits
            <4> QED
                BY <4>1, <4>2
        <3> QED
            BY <1>4, <2>2, <3>1 DEF Inv, EventsFit
    <2> QED
        BY <1>2, <2>1, <2>2
<1>15. EventsFit'
    <2>1. In("closed") => In("closed")'
        BY <1>3, <1>9 DEF HeadFits, In
    <2>2. page'.work \in {"flush", "maintain"} => page'.work = page.work
        BY <1>3, <1>9 DEF HeadFits
    <2> QED
        BY <1>6, <1>14, <2>1, <2>2 DEF Inv, EventsFit, Unsettled, Waited
<1>16. TypeOK'
    BY <1>4, <1>5, <1>6, <1>8, <1>9, <1>13, <1>14 DEF TypeOK, Flush
<1>17. row'.view \in {row.view} \union SaveViews
    BY <1>5, <1>8
<1>18. SnapshotsFit'
    <2>1. \A u \in Views' : u \in Views
        BY <1>5, <1>6, <1>12, <1>17 DEF Views
    <2> QED
        BY <1>4, <1>6, <2>1, SnapshotsKept DEF Inv
<1>19. VerdictsFit'
    <2>1. /\ recorded' \intersect Verdict \subseteq recorded \union tracked
          /\ tracked' \intersect Verdict = tracked \intersect Verdict
          /\ forgot' = forgot /\ overtaken \subseteq overtaken'
        BY <1>6
    <2>2. Ahead(view') \subseteq Ahead(view)
        BY <1>6
    <2>3. \A v \in {row'.view} \union GradingViews' \union SaveViews' : v \in Views
        BY <1>5, <1>12, <1>17 DEF Views
    <2> QED
        BY <2>1, <2>2, <2>3, VerdictsKept DEF Inv
<1> QED
    BY <1>10, <1>11, <1>12, <1>15, <1>16, <1>18, <1>19 DEF Inv

-----------------------------------------------------------------------------
(* What the handler knows that builds a round, or finishes.                *)

\* A step that leaves it, and the reflection, if there is one, as they are.
LEMMA HeldStays ==
    ASSUME HeldFits, page'.held = page.held, view' = view, strayed' = strayed,
           page'.work \in {"flush", "maintain"} => page.work \in {"flush", "maintain"}
    PROVE  HeldFits'
<1> DEFINE old == Ahead(view)
<1>1. Ahead(view') = old
    OBVIOUS
<1>2. page.work \in {"flush", "maintain"} => \A u \in page.held : u.question \notin old
    BY DEF HeldFits
<1> HIDE DEF old
<1>3. \A u \in page'.held : u.question.set <= view'.set
    BY DEF HeldFits
<1>4. page'.work \in {"flush", "maintain"} => (~strayed' => page'.held = view'.verdicts)
    BY DEF HeldFits
<1> QED
    BY <1>1, <1>2, <1>3, <1>4 DEF HeldFits

\* A step that does not reflect.
LEMMA HeldOutside ==
    ASSUME HeldFits, page'.held = page.held, view'.set = view.set,
           page'.work \notin {"flush", "maintain"}
    PROVE  HeldFits'
BY DEF HeldFits

\* A handler begins, or none is left.
LEMMA HeldAnew ==
    ASSUME Inv, view' = view, strayed' = strayed, page'.held = view.verdicts,
           Ahead(view') = Ahead(view)
    PROVE  HeldFits'
<1>1. \A u \in view.verdicts : u.question \in Judged(view)
    BY DEF Judged
<1>2. \A q \in Judged(view) : q.set <= view.set /\ q \notin Ahead(view)
    BY DEF Inv, SnapshotsFit, SnapshotFits, Views
<1>3. \A u \in page'.held : u.question.set <= view'.set /\ u.question \notin Ahead(view')
    BY <1>1, <1>2
<1> QED
    BY <1>3 DEF HeldFits

LEMMA HeldNothing == ASSUME page'.held = {}, page'.work \notin {"flush", "maintain"} PROVE HeldFits'
BY DEF HeldFits

LEMMA EnterHeld ==
    ASSUME Inv, NEW held \in SUBSET Verdict, EnterRound(held)
    PROVE  HeldFits'
<1> DEFINE none == {}
<1>1. page' = [page EXCEPT !.phase = "active", !.work = "enter", !.held = none] /\ page \in Page
    BY ViewsFit DEF EnterRound, Inv
<1>2. none \subseteq Verdict /\ none = {}
    OBVIOUS
<1> HIDE DEF none
<1>3. page'.held = {} /\ page'.work = "enter"
    BY <1>1, <1>2 DEF Page
<1> QED
    BY <1>3, HeldNothing

\* An answer is settled in a page that does not reflect; a grade, also in one that does.
LEMMA SettleHeld ==
    ASSUME Inv, HeldFits, NEW v, Judges(v), NEW as \in Answers \union {"skipped"}, Settle(v, as),
           strayed \/ v # view => strayed', v # view \/ page.work \notin {"flush", "maintain"}
    PROVE  HeldFits'
<1>1. /\ view' \in View /\ view'.set = view.set /\ view'.index = view.index /\ view'.confirmed
      /\ page' = page /\ view \in View
    BY SettleIs, ViewsFit DEF SettlesWith, Settle, Inv
<1>2. Ahead(view') \subseteq Ahead(view)
    BY <1>1, AheadSettled
<1>3. CASE page.work \notin {"flush", "maintain"}
    BY <1>1, <1>3, HeldOutside
<1>4. CASE page.work \in {"flush", "maintain"} /\ strayed'
    <2>1. \A u \in page.held : u.question.set <= view'.set /\ u.question \notin Ahead(view')
        BY <1>1, <1>2, <1>4 DEF HeldFits
    <2> QED
        BY <1>1, <1>4, <2>1 DEF HeldFits
<1> QED
    BY <1>3, <1>4

LEMMA EvaluatedHeld == ASSUME Inv, HeldFits, Evaluated PROVE HeldFits'
<1>1. PICK g \in InGrading :
        \/ /\ \E as \in Answers : Settle(grading.of[g], as)
           /\ strayed' = (strayed \/ (Current(grading.of[g]) \in overtaken /\ grading.of[g] # view))
        \/ UNCHANGED <<page, view, saves, eventVars, serverVars, forgot, strayed, sets, faults>>
    BY DEF Evaluated
<1> DEFINE v == grading.of[g]
<1>2. CASE /\ \E as \in Answers : Settle(v, as)
           /\ strayed' = (strayed \/ (Current(v) \in overtaken /\ v # view))
    <2>1. v \in GradingViews
        BY DEF GradingViews
    <2> HIDE DEF v
    <2>2. PICK as \in Answers \union {"skipped"} : Settle(v, as)
        BY <1>2
    <2>3. Judges(v) /\ ~v.confirmed /\ (Current(v) \notin overtaken => v = view)
        BY <2>1, GradingJudges DEF Inv, GradingFits, GradeFits
    <2>4. page.work \in {"flush", "maintain"} => view.confirmed
        BY DEF Inv, PageFits
    <2>5. strayed \/ v # view => strayed'
        BY <1>2, <2>3
    <2> QED
        BY <2>2, <2>3, <2>4, <2>5, SettleHeld
<1>3. CASE UNCHANGED <<page, view, saves, eventVars, serverVars, forgot, strayed, sets, faults>>
    BY <1>3, HeldStays
<1> QED
    BY <1>1, <1>2, <1>3

LEMMA ConfirmHeld == ASSUME Inv, HeldFits, Confirm PROVE HeldFits'
<1>1. MayJudge /\ strayed' = strayed
    BY DEF Confirm
<1>2. PICK as \in Answers \union {"skipped"} : Settle(view, as)
    BY DEF Confirm
<1>3. Judges(view) /\ page.work \notin {"flush", "maintain"}
    BY <1>1, PageJudges DEF MayJudge, Inv, PageFits, In
<1> QED
    BY <1>1, <1>2, <1>3, SettleHeld

LEMMA ReflectHeld == ASSUME Inv, Reflect PROVE HeldFits'
<1> DEFINE told == page.told \union {view.round}
<1>1. view \in View /\ page \in Page /\ view.round \in Rounds
    BY ViewsFit, ViewIs DEF Inv
<1>2. PICK goal \in {"next", "finish"} :
        page' = [page EXCEPT !.phase = "loading", !.work = "flush", !.goal = goal, !.told = told,
                             !.held = view.verdicts]
    BY DEF Reflect
<1>3. told \in SUBSET Rounds /\ view.verdicts \in SUBSET Verdict
    BY <1>1, PageIs, ViewIs
<1> HIDE DEF told
<1>4. page'.held = view.verdicts
    BY <1>1, <1>2, <1>3 DEF Page
<1>5. view' = view /\ strayed' = strayed
    BY DEF Reflect, historyVars
<1> QED
    BY <1>4, <1>5, HeldAnew

LEMMA BuildingHeld == ASSUME Inv, HeldFits, TryAgain \/ Generate PROVE HeldFits'
<1>1. page \in Page /\ view \in View /\ page.held \in SUBSET Verdict /\ view.verdicts \in SUBSET Verdict
    BY ViewsFit, PageIs, ViewIs DEF Inv
<1>2. CASE \E held \in {page.held, view.verdicts} : EnterRound(held)
    BY <1>1, <1>2, EnterHeld
<1>3. CASE /\ page' = [page EXCEPT !.phase = "loading", !.work = "generate", !.held = view.verdicts]
           /\ UNCHANGED <<view, grading, saves, eventVars, serverVars, historyVars, sets, faults>>
    <2>1. page'.held = view.verdicts
        BY <1>1, <1>3 DEF Page
    <2> QED
        BY <1>3, <2>1, HeldAnew DEF historyVars
<1>4. CASE /\ page' = [page EXCEPT !.phase = "generation_failed", !.work = "none"]
           /\ UNCHANGED <<view, grading, saves, eventVars, serverVars, historyVars, sets>>
    <2>1. page'.held = page.held /\ page'.work = "none"
        BY <1>1, <1>4 DEF Page
    <2> QED
        BY <1>4, <2>1, HeldOutside
<1> QED
    BY <1>2, <1>3, <1>4 DEF TryAgain, Generate

LEMMA MaintainHeld == ASSUME Inv, HeldFits, Maintain PROVE HeldFits'
<1> DEFINE next == view.round + 1
<1>1. page \in Page
    BY ViewsFit DEF Inv
<1>2. view' = view /\ \/ page' = [page EXCEPT !.work = "generate", !.round = next]
                      \/ page' = [page EXCEPT !.work = "complete"]
                      \/ page' = [page EXCEPT !.phase = "active", !.work = "none"]
    BY DEF Maintain, MaintainFails
<1> HIDE DEF next
<1>3. page'.held = page.held /\ page'.work \in {"generate", "complete", "none"}
    BY <1>1, <1>2 DEF Page
<1> QED
    BY <1>2, <1>3, HeldOutside

\* The other steps of the page.
LEMMA PageHeld ==
    ASSUME Inv, HeldFits, FlushRound \/ Exit \/ FlushExit \/ Reload \/ Open
    PROVE  HeldFits'
<1>1. page \in Page
    BY ViewsFit DEF Inv
<1>2. CASE FlushRound
    <2>1. \/ (page' = [page EXCEPT !.work = "maintain"]) /\ page.work = "flush"
          \/ page' = [page EXCEPT !.phase = "active", !.work = "none"]
        BY <1>2 DEF FlushRound
    <2>2. page'.held = page.held /\ ((page'.work = "maintain" /\ page.work = "flush") \/ page'.work = "none")
        BY <1>1, <2>1 DEF Page
    <2>3. view' = view /\ strayed' = strayed
        BY <1>2 DEF FlushRound, historyVars
    <2> QED
        BY <2>2, <2>3, HeldStays
<1>3. CASE Exit
    <2> DEFINE yes == TRUE
    <2>1. page' = [page EXCEPT !.exit = "save", !.exited = yes, !.left = view]
        BY <1>3 DEF Exit
    <2> HIDE DEF yes
    <2>2. page'.held = page.held /\ page'.work = page.work
        BY <1>1, <2>1 DEF Page
    <2>3. view' = view /\ strayed' = strayed
        BY <1>3 DEF Exit, historyVars
    <2> QED
        BY <2>2, <2>3, HeldStays
<1>4. CASE FlushExit
    <2>1. CASE page' = Closed
        BY <2>1, ClosedFits, HeldNothing
    <2>2. CASE page' = [page EXCEPT !.exit = "none"]
        <3>1. page'.held = page.held /\ page'.work = page.work
            BY <1>1, <2>2 DEF Page
        <3>2. view' = view /\ strayed' = strayed
            BY <1>4 DEF FlushExit, historyVars
        <3> QED
            BY <3>1, <3>2, HeldStays
    <2> QED
        BY <1>4, <2>1, <2>2 DEF FlushExit
<1>5. CASE Reload
    BY <1>5, ClosedFits, HeldNothing DEF Reload
<1>6. CASE Open
    <2> DEFINE phase == page'.phase
               work == page'.work
    <2>1. /\ page'.held = {}
          /\ page'.work \in {"generate", "none"}
        BY <1>6 DEF Open, Start, Resume, Closed
    <2> QED
        BY <2>1, HeldNothing
<1> QED
    BY <1>2, <1>3, <1>4, <1>5, <1>6

LEMMA SendPatchHeld == ASSUME Inv, HeldFits, SendPatch PROVE HeldFits'
<1> DEFINE for == Heard(Head(saves).for)
<1>1. page \in Page /\ saves \in Seq(Patch) /\ saves # <<>>
    BY ViewsFit DEF Inv, SendPatch
<1>2. (Saved(for) \/ NotSaved(for)) /\ view' = view /\ strayed' = strayed
    BY DEF SendPatch, historyVars
<1>3. Head(saves) \in Patch
    BY <1>1, TailIs
<1>4. for \in {"", "enter", "finish", "exit"}
    BY <1>3, PatchIs DEF Heard
<1> HIDE DEF for
<1>5. page'.held = page.held /\ page'.work \in {page.work, "none"}
    BY <1>1, <1>2, <1>4, SavedIs
<1> QED
    BY <1>2, <1>5, HeldStays

LEMMA HeldInv == ASSUME Inv, HeldFits, [Next]_marathonVars PROVE HeldFits'
<1>1. CASE UNCHANGED marathonVars
    BY <1>1, HeldStays DEF marathonVars, pageVars, historyVars
<1>2. CASE SaveDraft \/ Evaluate \/ SendEvent
    <2>1. page' = page /\ view' = view /\ strayed' = strayed
        BY <1>2 DEF SaveDraft, Evaluate, SendEvent, pageVars, historyVars
    <2> QED
        BY <2>1, HeldStays
<1>3. CASE NextQuestion
    <2>1. page' = page /\ In("active") /\ view \in View
        BY <1>3, ViewsFit DEF NextQuestion, Inv
    <2>2. view'.set = view.set
        BY <1>3, <2>1 DEF NextQuestion, View
    <2>3. page.work \notin {"flush", "maintain"}
        BY <2>1 DEF Inv, PageFits
    <2> QED
        BY <2>1, <2>2, <2>3, HeldOutside
<1>4. CASE Open \/ Exit \/ Reload \/ FlushRound \/ FlushExit
    BY <1>4, PageHeld
<1>5. CASE Confirm \/ TryAgain \/ Reflect
    BY <1>5, ConfirmHeld, BuildingHeld, ReflectHeld
<1>6. CASE Generate \/ Evaluated \/ Maintain \/ SendPatch
    BY <1>6, BuildingHeld, EvaluatedHeld, MaintainHeld, SendPatchHeld
<1> QED
    BY <1>1, <1>2, <1>3, <1>4, <1>5, <1>6 DEF Next, Learner, Server

-----------------------------------------------------------------------------
(* The theorems.                                                           *)

LEMMA NextInv == ASSUME Inv, HeldFits, [Next]_marathonVars PROVE Inv'
<1>1. CASE UNCHANGED marathonVars
    <2>1. /\ UNCHANGED <<view, saves, eventVars, serverVars, historyVars, sets>>
          /\ UNCHANGED <<page, grading, faults, forgot, strayed, row, reflected>>
        BY <1>1 DEF marathonVars, pageVars, historyVars, serverVars
    <2>2. page \in Page /\ faults \in 0..MaxFaults
        BY DEF Inv, TypeOK
    <2>3. PageFits' /\ QueueFits'
        BY ZenonT(60), <2>1 DEF Inv, PageFits, QueueFits, Awaited, In
    <2>4. ExitFits'
        <3>1. (ViewFollows => ViewFollows') /\ (SavesFollow => SavesFollow')
            BY <2>1 DEF ViewFollows, SavesFollow
        <3> QED
            BY <2>1, <3>1, ExitKept DEF Inv
    <2>5. In("closed") => In("closed")'
        BY <2>1 DEF In
    <2>6. GradingFits' /\ GradingStep
        BY <2>1, GradingKept DEF Inv
    <2> QED
        BY <2>1, <2>2, <2>3, <2>4, <2>5, <2>6, PageStep
<1>2. CASE Open
    BY <1>2, OpenInv
<1>3. CASE Learner
    BY <1>3, SaveDraftInv, ConfirmInv, EvaluateInv, NextQuestionInv, TryAgainInv, ReflectInv, ExitInv,
       ReloadInv DEF Learner
<1>4. CASE Server
    BY <1>4, GenerateInv, EvaluatedInv, FlushRoundInv, MaintainInv, FlushExitInv, SendPatchInv,
       SendEventInv DEF Server
<1> QED
    BY <1>1, <1>2, <1>3, <1>4 DEF Next

(***************************************************************************)
(* Every view of a run, on the page, in the session, in grading or on the  *)
(* way to the server, is of a round that the memory was brought up to.     *)
(* The page shows no question as open that has a verdict, unless an        *)
(* earlier page went before the verdict was saved (forgot) or the          *)
(* question's grading was overtaken; a grading that was not is about the   *)
(* question on the page, which waits for it; and what a handler saves when *)
(* it builds a round or finishes is of questions that were shown to it.    *)
(* MarathonPage.tsx, for any number of gradings at once, whatever is       *)
(* answered when.                                                          *)
(***************************************************************************)
THEOREM MarathonInvariant == Spec => [](Inv /\ HeldFits)
<1>1. Init => Inv /\ HeldFits
    BY InitInv, ClosedFits DEF Init, HeldFits
<1>2. Inv /\ HeldFits /\ [Next]_marathonVars => (Inv /\ HeldFits)'
    BY NextInv, HeldInv
<1> QED
    BY <1>1, <1>2, PTL DEF Spec

LEMMA RunFits == ASSUME Inv PROVE RunInv
<1>1. TypeOK
    BY DEF Inv
<1>2. RoundsAreReflected
    BY DEF Inv, SnapshotsFit, SnapshotFits, Views, RoundsAreReflected
<1>3. ReflectsOnAllEvents
    BY DEF Inv, EventsFit, ReflectsOnAllEvents
<1> QED
    BY <1>1, <1>2, <1>3 DEF RunInv

(***************************************************************************)
(* "Every write must settle successfully before the round-level memory     *)
(* refresh can run" (flushPendingMemoryEvents), for any number of rounds,  *)
(* failures and reloads, unless the grade of an overtaken question came    *)
(* after the page had gone on, since the page was opened; and no round is  *)
(* built ahead of the reflection on the one before.                        *)
(***************************************************************************)
THEOREM RunHolds == Spec => []RunInv
<1>1. Inv => RunInv
    BY RunFits
<1> QED
    BY <1>1, MarathonInvariant, PTL

LEMMA OneVerdictFits == ASSUME Inv PROVE OneVerdictPerQuestion
<1> DEFINE told == [type : {"started", "completed", "exited"}, round : Rounds]
<1> SUFFICES ASSUME NEW e \in recorded \ told, NEW f \in recorded \ told,
                    e.question = f.question, e # f
             PROVE  e.question \in Spared
    BY DEF OneVerdictPerQuestion, Spared
<1>1. recorded \subseteq Event
    BY DEF Inv, TypeOK
<1>2. e \in Verdict /\ f \in Verdict
    BY <1>1, EventIs
<1> QED
    BY <1>2 DEF Inv, VerdictsFit

(***************************************************************************)
(* The memory holds one verdict on a question of a marathon, for any       *)
(* overlap of answers, skips, grades, repeated writes and reopened pages,  *)
(* unless the page went before it had saved the first one, or the          *)
(* question's grading was overtaken by a new set or the end of another     *)
(* grading (handleConfirm, handleSkip, trackMcqEvent).                     *)
(***************************************************************************)
THEOREM OneVerdictHolds == Spec => []OneVerdictPerQuestion
<1>1. Inv => OneVerdictPerQuestion
    BY OneVerdictFits
<1> QED
    BY <1>1, MarathonInvariant, PTL

LEMMA ExitFollows == ASSUME Inv PROVE ExitSavesTheRun
BY DEF Inv, ExitFits, SavesFollow, ExitSavesTheRun

(***************************************************************************)
(* "An awaited Exit save cannot be overtaken by an older write"            *)
(* (saveQueueRef): when the exit goes on to its events, the session is not *)
(* behind what the learner left, for any queue of saves and any failures,  *)
(* unless the grade of an overtaken question came after the page had gone  *)
(* on, since the page was opened.                                          *)
(***************************************************************************)
THEOREM ExitSavesTheRunHolds == Spec => []ExitSavesTheRun
<1>1. Inv => ExitSavesTheRun
    BY ExitFollows
<1> QED
    BY <1>1, MarathonInvariant, PTL

=============================================================================
