----------------------------- MODULE SandboxProofs -----------------------------
(***************************************************************************)
(* Proofs about what runs in a sandbox.  The first part is about one run   *)
(* of submitted code (SandboxRuns): what is stored of it is what the code  *)
(* did.  Its inductive invariant, SandboxInv, says what the files tell     *)
(* once the code has ended, where the outcome comes from that the handler  *)
(* holds, and which sandboxes may still be there.                          *)
(*                                                                         *)
(* The second part is about the model calls that a sandbox makes           *)
(* (AgentRelay), for any finite set of slots, any ceiling and any cost of  *)
(* a call.  Everything there follows from RelayInv: what the budget has    *)
(* been charged, and what the calls that read a budget below its ceiling   *)
(* may still charge, stay within the bound.                                *)
(***************************************************************************)
EXTENDS AgentRelay, SandboxRuns, FiniteSetTheorems, SequenceTheorems, TLAPS

-----------------------------------------------------------------------------
(* Lines of a file, counted from the first.                                *)

UpTo(lines, i) == {j \in lines : j <= i}

LEMMA RankFits ==
    ASSUME NEW lines \in SUBSET Nat, IsFiniteSet(lines), NEW i \in lines
    PROVE  /\ IsFiniteSet(UpTo(lines, i))
           /\ Cardinality(UpTo(lines, i)) \in 1..Cardinality(lines)
<1>1. UpTo(lines, i) \in SUBSET lines /\ i \in UpTo(lines, i)
    BY DEF UpTo
<1>2. /\ IsFiniteSet(UpTo(lines, i))
      /\ Cardinality(UpTo(lines, i)) \in Nat /\ Cardinality(lines) \in Nat
      /\ Cardinality(UpTo(lines, i)) <= Cardinality(lines)
    BY <1>1, FS_Subset, FS_CardinalityType
<1>3. Cardinality(UpTo(lines, i)) # 0
    BY <1>1, <1>2, FS_EmptySet
<1> QED
    BY <1>2, <1>3

LEMMA RankGrows ==
    ASSUME NEW lines \in SUBSET Nat, IsFiniteSet(lines), NEW i \in lines, NEW k \in lines, i < k
    PROVE  Cardinality(UpTo(lines, i)) < Cardinality(UpTo(lines, k))
<1>1. /\ IsFiniteSet(UpTo(lines, k))
      /\ Cardinality(UpTo(lines, i)) \in Nat /\ Cardinality(UpTo(lines, k)) \in Nat
    BY RankFits
<1>2. UpTo(lines, i) \in SUBSET UpTo(lines, k) /\ k \in UpTo(lines, k) /\ k \notin UpTo(lines, i)
    <2>1. i \in Nat /\ k \in Nat /\ \A j \in lines : j \in Nat
        OBVIOUS
    <2>2. k \in UpTo(lines, k) /\ k \notin UpTo(lines, i)
        BY <2>1 DEF UpTo
    <2>3. ASSUME NEW j \in UpTo(lines, i) PROVE j \in UpTo(lines, k)
        BY <2>1 DEF UpTo
    <2> QED
        BY <2>2, <2>3
<1>3. /\ Cardinality(UpTo(lines, i)) <= Cardinality(UpTo(lines, k))
      /\ Cardinality(UpTo(lines, k)) # Cardinality(UpTo(lines, i))
    <2>1. /\ Cardinality(UpTo(lines, i)) <= Cardinality(UpTo(lines, k))
          /\ Cardinality(UpTo(lines, k)) = Cardinality(UpTo(lines, i)) => UpTo(lines, k) = UpTo(lines, i)
        BY <1>1, <1>2, FS_Subset
    <2> QED
        BY <1>2, <2>1
<1> QED
    BY <1>1, <1>3

\* Every count from 1 on belongs to a line: there are as many lines as counts.
LEMMA EveryRankIsThere ==
    ASSUME NEW lines \in SUBSET Nat, IsFiniteSet(lines), NEW n \in 1..Cardinality(lines)
    PROVE  \E i \in lines : Cardinality(UpTo(lines, i)) = n
<1> DEFINE size == Cardinality(lines)
           others == (1..size) \ {n}
           rank == [i \in lines |-> Cardinality(UpTo(lines, i))]
<1>1. size \in Nat
    BY FS_CardinalityType
<1>2. IsFiniteSet(others) /\ Cardinality(others) < size
    <2>1. IsFiniteSet(1..size) /\ Cardinality(1..size) = size
        BY <1>1, FS_Interval
    <2>2. IsFiniteSet(others) /\ Cardinality(others) = size - 1
        BY ZenonT(60), <2>1, FS_RemoveElement
    <2> QED
        BY <1>1, <2>2
<1> SUFFICES ASSUME \A i \in lines : Cardinality(UpTo(lines, i)) # n PROVE FALSE
    OBVIOUS
<1>3. rank \in [lines -> others]
    BY RankFits
<1>4. PICK i \in lines, k \in lines : i # k /\ rank[i] = rank[k]
    <2> HIDE DEF others, rank, size
    <2> QED
        BY <1>2, <1>3, FS_PigeonHole DEF size
<1>5. Cardinality(UpTo(lines, i)) = Cardinality(UpTo(lines, k))
    BY <1>4
<1>6. /\ Cardinality(UpTo(lines, i)) \in Nat
      /\ i \in Nat /\ k \in Nat
      /\ i < k => Cardinality(UpTo(lines, i)) < Cardinality(UpTo(lines, k))
      /\ k < i => Cardinality(UpTo(lines, k)) < Cardinality(UpTo(lines, i))
    BY RankFits, RankGrows
<1> QED
    BY <1>4, <1>5, <1>6

LEMMA NthIs ==
    ASSUME NEW lines \in SUBSET Nat, IsFiniteSet(lines), NEW n \in 1..Cardinality(lines)
    PROVE  Nth(n, lines) \in lines /\ Cardinality(UpTo(lines, Nth(n, lines))) = n
<1>1. \E i \in lines : Cardinality({j \in lines : j <= i}) = n
    BY EveryRankIsThere DEF UpTo
<1>2. /\ Nth(n, lines) \in lines
      /\ Cardinality({j \in lines : j <= Nth(n, lines)}) = n
    BY <1>1 DEF Nth
<1> QED
    BY <1>2 DEF UpTo

LEMMA NthGrows ==
    ASSUME NEW lines \in SUBSET Nat, IsFiniteSet(lines),
           NEW m \in 1..Cardinality(lines), NEW n \in 1..Cardinality(lines), m < n
    PROVE  Nth(m, lines) < Nth(n, lines)
<1> DEFINE i == Nth(m, lines)
           k == Nth(n, lines)
<1>1. /\ i \in lines /\ k \in lines
      /\ Cardinality(UpTo(lines, i)) = m /\ Cardinality(UpTo(lines, k)) = n
    BY NthIs
<1> HIDE DEF i, k
<1>2. i # k /\ ~(k < i)
    <2>1. k < i => n < m
        BY <1>1, RankGrows
    <2>2. m \in Int /\ n \in Int
        OBVIOUS
    <2> QED
        BY <1>1, <2>1, <2>2
<1>3. i \in Nat /\ k \in Nat
    BY <1>1
<1>4. i < k
    BY <1>2, <1>3
<1> QED
    BY <1>4 DEF i, k

\* ... and every line has its count.
LEMMA EveryLineIsNth ==
    ASSUME NEW lines \in SUBSET Nat, IsFiniteSet(lines), NEW i \in lines
    PROVE  \E n \in 1..Cardinality(lines) : Nth(n, lines) = i
<1> DEFINE n == Cardinality(UpTo(lines, i))
           k == Nth(n, lines)
<1>1. n \in 1..Cardinality(lines)
    BY RankFits
<1>2. k \in lines /\ Cardinality(UpTo(lines, k)) = Cardinality(UpTo(lines, i))
    <2> HIDE DEF n
    <2> QED
        BY <1>1, NthIs DEF n
<1> HIDE DEF k
<1>3. /\ Cardinality(UpTo(lines, i)) \in Nat
      /\ i \in Nat /\ k \in Nat
      /\ i < k => Cardinality(UpTo(lines, i)) < Cardinality(UpTo(lines, k))
      /\ k < i => Cardinality(UpTo(lines, k)) < Cardinality(UpTo(lines, i))
    BY <1>2, RankFits, RankGrows
<1>4. k = i
    BY <1>2, <1>3
<1> QED
    BY <1>1, <1>4 DEF k

-----------------------------------------------------------------------------
(* What the progress lines tell.                                           *)

LEMMA EventsAre ==
    ASSUME NEW e \in Event
    PROVE  /\ e.kind \in {"start", "result"} /\ e.case \in Case /\ e.case.name \in AnyName
           /\ CaseOf(e) \in Case
<1>1. e.kind \in {"start", "result"} /\ e.case \in Case
    BY DEF Event
<1>2. e.case.name \in AnyName /\ e.case.status \in {"pass", "fail", "other", "list"}
    BY <1>1 DEF Case
<1>3. Stored(e.case).duration \in {"ms", "wide"}
    BY DEF Stored
<1>4. CaseOf(e) \in Case
    BY <1>2, <1>3 DEF CaseOf, Case
<1> QED
    BY <1>1, <1>2, <1>4

\* An event that may be written is one.
LEMMA EventsOf ==
    ASSUME NEW events \in Seq(Events)
    PROVE  events \in Seq(Event)
    BY SandboxAssumption

\* A line that is written as the protocol wants it counts for both.
LEMMA MeantCounts ==
    ASSUME NEW e, NEW who \in Reader, AsMeant(e)
    PROVE  Counts(e, who)
<1>1. e.case.name # Number /\ e.case.name # Blank
    BY SandboxAssumption DEF AsMeant
<1>2. Valid(e.case) /\ Decodes(e.case) /\ who \in e.readers
    BY <1>1 DEF AsMeant, Valid, Decodes
<1>3. CASE who = "backend"
    BY <1>1, <1>2, <1>3 DEF Counts
<1>4. CASE who = "supervisor"
    BY <1>1, <1>2, <1>4 DEF Counts, AsMeant
<1> QED
    BY <1>3, <1>4 DEF Reader

\* What counts for the backend it can read again.
LEMMA CountedIsReadable ==
    ASSUME NEW e, e.kind = "result", Counts(e, "backend")
    PROVE  Readable(CaseOf(e))
<1>1. Valid(e.case)
    BY DEF Counts
<1>2. e.case.name # Blank /\ e.case.duration # "wide"
    BY <1>1 DEF Valid, Decodes
<1>3. Stored(e.case).duration = "ms"
    BY <1>2 DEF Stored
<1> QED
    BY <1>2, <1>3 DEF CaseOf, Readable

LEMMA LinesFit ==
    ASSUME NEW events \in Seq(Event), NEW who, NEW kind
    PROVE  /\ LinesOf(events, who, kind) \in SUBSET Nat
           /\ LinesOf(events, who, kind) \in SUBSET DOMAIN events
           /\ IsFiniteSet(LinesOf(events, who, kind))
           /\ Cardinality(LinesOf(events, who, kind)) \in Nat
<1> DEFINE lines == LinesOf(events, who, kind)
<1>1. DOMAIN events = 1..Len(events) /\ Len(events) \in Nat
    OBVIOUS
<1>2. lines \in SUBSET DOMAIN events /\ lines \in SUBSET Nat
    BY <1>1 DEF LinesOf, Heard
<1>3. IsFiniteSet(DOMAIN events)
    BY <1>1, FS_Interval
<1> HIDE DEF lines
<1>4. IsFiniteSet(lines) /\ Cardinality(lines) \in Nat
    BY <1>2, <1>3, FS_Subset, FS_CardinalityType
<1> QED
    BY <1>2, <1>4 DEF lines

(***************************************************************************)
(* The finished cases are cases that were written, in the order of their   *)
(* lines, and none is passed over that is as the protocol wants it.        *)
(***************************************************************************)
LEMMA FinishedFits ==
    ASSUME NEW events \in Seq(Event), NEW who \in Reader
    PROVE  /\ Finished(events, who) \in Seq(Case)
           /\ AreRead(Finished(events, who), events)
           /\ who = "backend" =>
                  \A n \in DOMAIN Finished(events, who) : Readable(Finished(events, who)[n])
<1> DEFINE lines == LinesOf(events, who, "result")
           size == Cardinality(lines)
           line == [n \in 1..size |-> Nth(n, lines)]
           cases == Finished(events, who)
<1>1. /\ lines \in SUBSET Nat /\ lines \in SUBSET DOMAIN events
      /\ IsFiniteSet(lines) /\ size \in Nat
    BY LinesFit
<1>2. cases = [n \in 1..size |-> CaseOf(events[Nth(n, lines)])]
    BY DEF Finished
<1>3. ASSUME NEW i \in lines
      PROVE  /\ i \in DOMAIN events /\ events[i] \in Event /\ events[i].kind = "result"
             /\ i \in Heard(events, who) /\ Counts(events[i], who)
    BY <1>1, <1>3 DEF LinesOf
<1>4. ASSUME NEW n \in 1..size
      PROVE  /\ Nth(n, lines) \in lines
             /\ cases[n] = CaseOf(events[Nth(n, lines)])
             /\ events[Nth(n, lines)].kind = "result"
             /\ cases[n] \in Case
             /\ who = "backend" => Readable(cases[n])
    <2>1. Nth(n, lines) \in lines
        <3> HIDE DEF lines
        <3> QED
            BY <1>1, NthIs
    <2>2. cases[n] = CaseOf(events[Nth(n, lines)])
        BY <1>2
    <2>3. events[Nth(n, lines)] \in Event /\ events[Nth(n, lines)].kind = "result"
          /\ Counts(events[Nth(n, lines)], who)
        BY <1>3, <2>1
    <2> HIDE DEF lines, cases, size
    <2> QED
        BY <2>1, <2>2, <2>3, EventsAre, CountedIsReadable
<1>5. DOMAIN cases = 1..size
    BY <1>2
<1>6. cases \in Seq(Case)
    <2> HIDE DEF size
    <2>1. cases \in [1..size -> Case]
        BY <1>2, <1>4
    <2> QED
        BY <1>1, <2>1
<1>7. line \in [DOMAIN cases -> DOMAIN events] /\ \A n \in 1..size : line[n] = Nth(n, lines)
    BY <1>1, <1>4, <1>5
<1>8. \A m, n \in 1..size : m < n => Nth(m, lines) < Nth(n, lines)
    <2> HIDE DEF lines
    <2> QED
        BY <1>1, NthGrows
<1>9. ASSUME NEW i \in DOMAIN events, NEW n \in 1..size, i < Nth(n, lines),
             events[i].kind = "result", AsMeant(events[i])
      PROVE  \E m \in 1..size : Nth(m, lines) = i
    <2>1. Nth(n, lines) \in Heard(events, who) /\ Nth(n, lines) \in DOMAIN events
        BY <1>3, <1>4
    <2>2. i \in Heard(events, who)
        <3> DEFINE k == Nth(n, lines)
        <3>1. k \in Nat /\ i \in Nat /\ i < k
            BY <1>9, <2>1
        <3>2. \A j \in 1..k : who \notin events[j].stops
            BY <2>1 DEF Heard
        <3> HIDE DEF k
        <3>3. \A j \in 1..i : j \in 1..k
            BY <3>1
        <3> QED
            BY <3>2, <3>3 DEF Heard
    <2>3. i \in lines
        BY <1>9, <2>2, MeantCounts DEF LinesOf
    <2> HIDE DEF lines
    <2> QED
        BY <1>1, <2>3, EveryLineIsNth
<1> HIDE DEF lines, size, line, cases
<1>10. AreRead(cases, events)
    <2>1. \A n \in DOMAIN cases : events[line[n]].kind = "result" /\ cases[n] = CaseOf(events[line[n]])
        BY <1>4, <1>5, <1>7
    <2>2. \A m, n \in DOMAIN cases : m < n => line[m] < line[n]
        BY <1>5, <1>7, <1>8
    <2>3. \A i \in DOMAIN events, n \in DOMAIN cases :
              i < line[n] /\ events[i].kind = "result" /\ AsMeant(events[i])
                  => \E m \in DOMAIN cases : line[m] = i
        BY <1>5, <1>7, <1>9
    <2> QED
        BY <1>7, <2>1, <2>2, <2>3 DEF AreRead
<1> QED
    BY <1>4, <1>5, <1>6, <1>10 DEF cases

LEMMA UnfinishedFits ==
    ASSUME NEW events \in Seq(Event), NEW who
    PROVE  Unfinished(events, who) \in AnyName
<1>1. \A i \in LinesOf(events, who, "start") : events[i].case.name \in AnyName
    <2>1. \A i \in LinesOf(events, who, "start") : events[i] \in Event
        BY LinesFit
    <2> QED
        BY <2>1, EventsAre
<1>2. Number \in AnyName
    BY DEF AnyName
<1> DEFINE starts == LinesOf(events, who, "start")
           IsLast(i) ==
               /\ \A j \in starts : j <= i
               /\ \A j \in LinesOf(events, who, "result") :
                     events[j].case.name = events[i].case.name => j < i
<1>3. Unfinished(events, who) =
        IF \E i \in starts : IsLast(i) THEN events[CHOOSE i \in starts : IsLast(i)].case.name ELSE Number
    BY DEF Unfinished
<1>4. CASE \E i \in starts : IsLast(i)
    <2>1. (CHOOSE i \in starts : IsLast(i)) \in starts
        <3> HIDE DEF IsLast, starts
        <3> QED
            BY <1>4
    <2> QED
        BY <1>1, <1>3, <1>4, <2>1
<1>5. CASE ~\E i \in starts : IsLast(i)
    BY <1>2, <1>3, <1>5
<1> QED
    BY <1>4, <1>5
-----------------------------------------------------------------------------
(* The protocol of the supervisor and of the backend.                      *)

LEMMA ProgressFits ==
    ASSUME NEW events \in Seq(Event), NEW who \in Reader, NEW death \in Death
    PROVE  /\ FromProgress(death, Progress(events, who)) \in JudgeResult
           /\ FromProgress(death, Progress(events, who)).status = death
           /\ FromProgress(death, Progress(events, who)).cases = Finished(events, who)
           /\ FromProgress(death, Progress(events, who)).compile = "none"
<1> DEFINE p == Progress(events, who)
<1>1. p.cases = Finished(events, who) /\ p.during = Unfinished(events, who)
    BY DEF Progress
<1>2. p.cases \in Seq(Case) /\ p.during \in AnyName
    BY <1>1, FinishedFits, UnfinishedFits
<1> HIDE DEF p
<1>3. FromProgress(death, p) \in JudgeResult
    BY <1>2 DEF FromProgress, JudgeResult
<1>4. /\ FromProgress(death, p).status = death /\ FromProgress(death, p).cases = p.cases
      /\ FromProgress(death, p).compile = "none"
    BY DEF FromProgress
<1> QED
    BY <1>1, <1>3, <1>4 DEF p

\* The cases of a verdict as they are kept.
Kept(v) == [i \in DOMAIN v.cases |-> Stored(v.cases[i])]

LEMMA FromVerdictFits ==
    ASSUME NEW v \in Verdict, v.status # "list"
    PROVE  /\ FromVerdict(v) \in JudgeResult
           /\ FromVerdict(v).status = v.status /\ FromVerdict(v).cases = Kept(v)
           /\ FromVerdict(v).compile = v.compile
           /\ v.status \in {"passed", "failed"}
<1>1. /\ v.status \in {"passed", "failed"} /\ v.cases \in Seq(Case)
      /\ v.compile \in {"none", "text", "other"}
    BY DEF Verdict
<1>2. \A c \in Case : Stored(c) \in Case
    BY DEF Stored, Case
<1>3. Kept(v) \in Seq(Case)
    <2>1. DOMAIN v.cases = 1..Len(v.cases) /\ Len(v.cases) \in Nat
        BY <1>1
    <2>2. Kept(v) \in [1..Len(v.cases) -> Case]
        BY <1>1, <1>2, <2>1 DEF Kept
    <2> QED
        BY <2>1, <2>2
<1>4. FromVerdict(v) = [status |-> v.status, cases |-> Kept(v), compile |-> v.compile, during |-> Number]
    BY DEF FromVerdict, Kept
<1>5. Number \in AnyName
    BY DEF AnyName
<1> QED
    BY <1>1, <1>3, <1>4, <1>5 DEF JudgeResult

\* The verdict that counts, of the two that the code may write.
Told(verdict, line) == IF NormalVerdict(verdict) THEN verdict ELSE line

\* What is kept of it is what is told.
Tells(v, status, cases) ==
    (NormalVerdict(v) \/ LegacyLine(v)) /\ v.status = status /\ cases = Kept(v)

\* What can be in the two files.
LEMMA WrittenFits ==
    ASSUME NEW verdict \in Verdicts \union {Absent}, NEW line \in Lines \union {Absent}
    PROVE  /\ NormalVerdict(verdict) => verdict \in Verdict /\ verdict.status # "list"
           /\ LegacyLine(line) => line \in Verdict /\ line.status # "list"
<1>1. ~NormalVerdict(Absent) /\ ~LegacyLine(Absent)
    BY DEF NormalVerdict, LegacyLine, Absent
<1>2. line # Absent => line \in Verdict /\ line.status = LineStatus(line)
    BY SandboxAssumption DEF IsLine
<1>3. LineStatus(line) # "list"
    BY DEF LineStatus
<1> QED
    BY <1>1, <1>2, <1>3, SandboxAssumption DEF NormalVerdict

LEMMA CrashIs ==
    /\ Crash \in JudgeResult /\ Crash.status = "crashed" /\ Crash.cases = <<>>
    /\ Crash.compile = "none"
<1>1. <<>> \in Seq(Case) /\ Number \in AnyName /\ "crashed" \in Death
    BY DEF AnyName, Death
<1> QED
    BY <1>1 DEF Crash, Nothing, JudgeResult

\* No case is a recovery of nothing.
LEMMA NoneIsRead ==
    ASSUME NEW events
    PROVE  AreRead(<<>>, events)
<1> DEFINE line == [n \in {} |-> 0]
<1>1. DOMAIN <<>> = {} /\ line \in [{} -> DOMAIN events]
    OBVIOUS
<1> QED
    BY <1>1 DEF AreRead

LEMMA JudgeFits ==
    ASSUME NEW verdict \in Verdicts \union {Absent}, NEW line \in Lines \union {Absent},
           NEW events \in Seq(Event), NEW death \in Death
    PROVE  LET result == Judge(verdict, line, events, death)
           IN /\ result \in JudgeResult
              /\ result.status \in {"passed", "failed"} =>
                     Tells(Told(verdict, line), result.status, result.cases)
              /\ result.status = "timeout" => death = "timeout"
              /\ result.status \in Death => AreRead(result.cases, events)
<1> DEFINE result == Judge(verdict, line, events, death)
<1>1. CASE Raises(verdict, line, events)
    <2>1. result = Crash
        BY <1>1 DEF Judge
    <2> QED
        BY <2>1, CrashIs, NoneIsRead
<1>2. CASE ~Raises(verdict, line, events) /\ NormalVerdict(verdict)
    <2>1. result = FromVerdict(verdict) /\ Told(verdict, line) = verdict
        BY <1>2 DEF Judge, Told
    <2>2. /\ result \in JudgeResult /\ result.status = verdict.status /\ result.cases = Kept(verdict)
          /\ result.status \in {"passed", "failed"}
        BY <1>2, <2>1, FromVerdictFits, WrittenFits
    <2> QED
        BY <1>2, <2>1, <2>2 DEF Death, Tells
<1>3. CASE ~Raises(verdict, line, events) /\ ~NormalVerdict(verdict) /\ LegacyLine(line)
    <2>1. result = FromVerdict(line) /\ Told(verdict, line) = line
        BY <1>3 DEF Judge, Told
    <2>2. /\ result \in JudgeResult /\ result.status = line.status /\ result.cases = Kept(line)
          /\ result.status \in {"passed", "failed"}
        BY <1>3, <2>1, FromVerdictFits, WrittenFits
    <2> QED
        BY <1>3, <2>1, <2>2 DEF Death, Tells
<1>4. CASE ~Raises(verdict, line, events) /\ ~NormalVerdict(verdict) /\ ~LegacyLine(line)
    <2>1. result = FromProgress(death, Progress(events, "supervisor"))
        BY <1>4 DEF Judge
    <2>2. "supervisor" \in Reader
        BY DEF Reader
    <2>3. /\ result \in JudgeResult /\ result.status = death
          /\ result.cases = Finished(events, "supervisor")
        BY <2>1, <2>2, ProgressFits
    <2>4. AreRead(Finished(events, "supervisor"), events)
        BY <2>2, FinishedFits
    <2> QED
        BY <2>3, <2>4 DEF Death
<1> QED
    BY <1>1, <1>2, <1>3, <1>4

\* What the backend reads back of a run that was cut off.
LEMMA TimeoutFits ==
    ASSUME NEW events \in Seq(Event)
    PROVE  /\ TimeoutOutcome(events) \in JudgeResult
           /\ TimeoutOutcome(events).status = "timeout"
           /\ TimeoutOutcome(events).cases = Finished(events, "backend")
           /\ \A n \in DOMAIN TimeoutOutcome(events).cases : Readable(TimeoutOutcome(events).cases[n])
           /\ AreRead(TimeoutOutcome(events).cases, events)
<1>1. ~WellFormed(Absent)
    BY DEF WellFormed, Absent
<1>2. TimeoutOutcome(events) = FromProgress("timeout", Progress(events, "backend"))
    BY <1>1 DEF TimeoutOutcome, Reconstruct
<1>3. "backend" \in Reader /\ "timeout" \in Death
    BY DEF Reader, Death
<1>4. /\ TimeoutOutcome(events) \in JudgeResult
      /\ TimeoutOutcome(events).status = "timeout"
      /\ TimeoutOutcome(events).cases = Finished(events, "backend")
    BY <1>2, <1>3, ProgressFits
<1>5. /\ AreRead(Finished(events, "backend"), events)
      /\ \A n \in DOMAIN Finished(events, "backend") : Readable(Finished(events, "backend")[n])
    BY <1>3, FinishedFits
<1> QED
    BY <1>4, <1>5

\* When none of it can be read there is no case.
LEMMA NothingIsRead ==
    ASSUME NEW events \in Seq(Event)
    PROVE  TimeoutOutcome(<<>>).cases = <<>> /\ AreRead(<<>>, events)
<1>1. <<>> \in Seq(Event) /\ "backend" \in Reader
    BY DEF Reader
<1>2. Finished(<<>>, "backend") = <<>>
    <2>1. LinesOf(<<>>, "backend", "result") = {}
        BY DEF LinesOf, Heard
    <2>2. Cardinality({}) = 0
        BY FS_EmptySet
    <2>3. DOMAIN Finished(<<>>, "backend") = 1..0
        BY <2>1, <2>2 DEF Finished
    <2>4. Finished(<<>>, "backend") \in Seq(Case)
        BY <1>1, FinishedFits
    <2> QED
        BY <2>3, <2>4
<1> QED
    BY <1>1, <1>2, TimeoutFits, NoneIsRead

(***************************************************************************)
(* The supervisor and the backend tell the same of the same files, if      *)
(* nothing is written in a form that they read differently.                *)
(***************************************************************************)
LEMMA CasesAlike ==
    ASSUME NEW c \in Case, CaseAlike(c)
    PROVE  /\ c.duration \notin {"absent", "null"} => (NormalCase(c) <=> Valid(c))
           /\ c.name # Number /\ c.duration # "null" /\ c.error = "text" => (LegacyCase(c) <=> Valid(c))
<1>1. c.duration \in {"ms", "absent", "null", "negative", "fraction", "wide"}
    BY DEF Case
<1> QED
    BY <1>1 DEF CaseAlike, NormalCase, LegacyCase, Valid, Decodes

LEMMA VerdictsAgree ==
    ASSUME NEW v \in Verdict \union {Absent}, v.readers \in {{}, Reader}, VerdictAlike(v)
    PROVE  (NormalVerdict(v) <=> WellFormed(v)) /\ ~VerdictRaises(v)
<1>1. CASE v.readers = {}
    BY <1>1 DEF NormalVerdict, WellFormed, VerdictRaises
<1>2. CASE v.readers = Reader
    <2>1. v.cases \in Seq(Case) /\ "supervisor" \in v.readers /\ "backend" \in v.readers
        <3>1. v # Absent
            BY <1>2 DEF Absent, Reader
        <3> QED
            BY <1>2, <3>1 DEF Verdict, Reader
    <2>2. /\ v.status # "list" /\ HasContent(v)
          /\ \A i \in DOMAIN v.cases :
                CaseAlike(v.cases[i]) /\ v.cases[i].duration \notin {"absent", "null"}
        BY <1>2 DEF VerdictAlike
    <2>3. \A i \in DOMAIN v.cases : v.cases[i] \in Case
        BY <2>1
    <2>4. \A i \in DOMAIN v.cases : NormalCase(v.cases[i]) <=> Valid(v.cases[i])
        BY <2>2, <2>3, CasesAlike
    <2>5. \A i \in DOMAIN v.cases : v.cases[i].status # "list"
        BY <2>2 DEF CaseAlike
    <2> QED
        BY <2>1, <2>2, <2>4, <2>5 DEF NormalVerdict, WellFormed, VerdictRaises
<1> QED
    BY <1>1, <1>2

LEMMA LinesAgree ==
    ASSUME NEW v \in Lines \union {Absent}, v.readers \in {{}, Reader}, LineAlike(v)
    PROVE  (LegacyLine(v) <=> WellFormed(v)) /\ ~LineRaises(v)
<1>1. CASE v.readers = {}
    BY <1>1 DEF LegacyLine, WellFormed, LineRaises
<1>2. CASE v.readers = Reader
    <2>1. /\ v.cases \in Seq(Case) /\ "supervisor" \in v.readers /\ "backend" \in v.readers
          /\ v.status # "list"
        <3>1. v # Absent
            BY <1>2 DEF Absent, Reader
        <3>2. v \in Verdict /\ v.status = LineStatus(v)
            BY <3>1, SandboxAssumption DEF IsLine
        <3> QED
            BY <1>2, <3>2 DEF Verdict, Reader, LineStatus
    <2>2. /\ v.compile # "other"
          /\ \A i \in DOMAIN v.cases :
                /\ CaseAlike(v.cases[i])
                /\ v.cases[i].name # Number /\ v.cases[i].duration # "null" /\ v.cases[i].error = "text"
        BY <1>2 DEF LineAlike
    <2>3. \A i \in DOMAIN v.cases : v.cases[i] \in Case
        BY <2>1
    <2>4. \A i \in DOMAIN v.cases : LegacyCase(v.cases[i]) <=> Valid(v.cases[i])
        BY <2>2, <2>3, CasesAlike
    <2>5. \A i \in DOMAIN v.cases : v.cases[i].status # "list"
        BY <2>2 DEF CaseAlike
    <2> QED
        BY <2>1, <2>2, <2>4, <2>5 DEF LegacyLine, WellFormed, LineRaises
<1> QED
    BY <1>1, <1>2

LEMMA EventsAgree ==
    ASSUME NEW e \in Event, e.readers \in {{}, Reader}, EventAlike(e)
    PROVE  /\ Counts(e, "supervisor") <=> Counts(e, "backend")
           /\ "supervisor" \in e.readers => e.case.status # "list"
<1>1. CASE e.readers = {}
    BY <1>1 DEF Counts
<1>2. CASE e.readers = Reader
    <2>1. "supervisor" \in e.readers /\ "backend" \in e.readers
        BY <1>2 DEF Reader
    <2>2. /\ e.case.name # Blank /\ e.case.status # "list"
          /\ e.case.duration \in {"ms", "absent", "null"} /\ e.case.error = "text"
        BY <1>2 DEF EventAlike, CaseAlike
    <2>3. /\ Decodes(e.case) <=> e.case.name # Number
          /\ Valid(e.case) <=> e.case.name # Number /\ e.case.status \in {"pass", "fail"}
        BY <2>2 DEF Decodes, Valid
    <2>4. Counts(e, "supervisor") <=>
              e.case.name # Number /\ (e.kind = "result" => e.case.status \in {"pass", "fail"})
        BY <2>1 DEF Counts
    <2>5. Counts(e, "backend") <=>
              Decodes(e.case) /\ e.case.name # Blank /\ (e.kind = "result" => Valid(e.case))
        BY <2>1 DEF Counts
    <2> QED
        BY <2>2, <2>3, <2>4, <2>5
<1> QED
    BY <1>1, <1>2

LEMMA ProtocolsAgree ==
    ASSUME NEW verdict \in Verdict \union {Absent}, NEW line \in Lines \union {Absent},
           NEW events \in Seq(Event), NEW death \in Death,
           verdict.readers \in {{}, Reader}, VerdictAlike(verdict),
           line.readers \in {{}, Reader}, LineAlike(line),
           \A i \in DOMAIN events : events[i].readers \in {{}, Reader} /\ EventAlike(events[i])
    PROVE  Judge(verdict, line, events, death) = Reconstruct(verdict, line, events, death)
<1>1. ASSUME NEW i \in DOMAIN events
      PROVE  /\ events[i].stops = {}
             /\ Counts(events[i], "supervisor") <=> Counts(events[i], "backend")
             /\ "supervisor" \in events[i].readers => events[i].case.status # "list"
    <2>1. events[i] \in Event
        OBVIOUS
    <2> QED
        BY <2>1, EventsAgree DEF EventAlike
<1>2. Heard(events, "supervisor") = DOMAIN events /\ Heard(events, "backend") = DOMAIN events
    <2>1. ASSUME NEW i \in DOMAIN events, NEW j \in 1..i
          PROVE  j \in DOMAIN events
        OBVIOUS
    <2> QED
        BY <1>1, <2>1 DEF Heard
<1>3. ASSUME NEW kind
      PROVE  LinesOf(events, "supervisor", kind) = LinesOf(events, "backend", kind)
    BY <1>1, <1>2 DEF LinesOf
<1>4. Finished(events, "supervisor") = Finished(events, "backend")
    BY <1>3 DEF Finished
<1>5. Unfinished(events, "supervisor") = Unfinished(events, "backend")
    <2> DEFINE last(starts, results) ==
                   LET IsLast(i) ==
                         /\ \A j \in starts : j <= i
                         /\ \A j \in results : events[j].case.name = events[i].case.name => j < i
                   IN IF \E i \in starts : IsLast(i)
                      THEN events[CHOOSE i \in starts : IsLast(i)].case.name ELSE Number
    <2>1. \A who \in Reader :
              Unfinished(events, who) = last(LinesOf(events, who, "start"), LinesOf(events, who, "result"))
        BY DEF Unfinished
    <2>2. /\ LinesOf(events, "supervisor", "start") = LinesOf(events, "backend", "start")
          /\ LinesOf(events, "supervisor", "result") = LinesOf(events, "backend", "result")
        BY <1>3
    <2> HIDE DEF last
    <2> QED
        BY <2>1, <2>2 DEF Reader
<1>6. Progress(events, "supervisor") = Progress(events, "backend")
    BY <1>4, <1>5 DEF Progress
<1>7. ~ProgressRaises(events)
    BY <1>1, <1>2 DEF ProgressRaises
<1>8. ~Raises(verdict, line, events)
    BY <1>7, VerdictsAgree, LinesAgree DEF Raises
<1>9. (NormalVerdict(verdict) <=> WellFormed(verdict)) /\ (LegacyLine(line) <=> WellFormed(line))
    BY VerdictsAgree, LinesAgree
<1> QED
    BY <1>6, <1>8, <1>9 DEF Judge, Reconstruct
-----------------------------------------------------------------------------
(* The inductive invariant.                                                *)

\* What result.json says of the other files, once the supervisor has ended.
FilesFit ==
    /\ child.reaped => child.state # "running"
    /\ child.reaped /\ files.result = NoResult => "supervisor" \in faults
    /\ files.result # NoResult =>
           /\ child.reaped
           /\ \/ files.result = Judge(files.verdict, files.line, files.events, DeathStatus)
              \/ files.result = Crash /\ "supervisor" \in faults

\* What is known where the handler is.
PointFits ==
    /\ at = "download" => child.reaped
    /\ at = "readback" => ctx = "expired" \/ "slow" \in faults
    /\ at \in {"delete", "save"} => outcome # NoResult
    /\ at \notin {"delete", "save", "ended"} => outcome = NoResult
    /\ \/ row.status \in {"absent", "queued", "running"}
       \/ at = "ended" /\ row.status = outcome.status /\ row.cases = outcome.cases

AllReadable(cases) == \A n \in DOMAIN cases : Readable(cases[n])

\* Where the outcome comes from.
OutcomeFits ==
    /\ outcome.status \in {"passed", "failed"} =>
           Tells(Told(files.verdict, files.line), outcome.status, outcome.cases)
    /\ outcome.status \in Death => AllReadable(outcome.cases) /\ AreRead(outcome.cases, files.events)
    /\ BlameIsRight

Excused(b) ==
    \/ b # Held
    \/ outcome.status = "error" /\ (faults \cap {"create", "delete"} # {} \/ ctx # "live")

\* Which sandboxes may be there.
BoxesFit ==
    /\ at \in {"new", "claim"} => \A b \in Sandboxes : boxes[b] # "live"
    /\ at \notin {"new", "claim", "ended"} => attempt \in Sandboxes
    /\ at = "create" => boxes[attempt] # "live"
    /\ at = "backoff" \/ (at = "create" /\ attempt = 1) => attempt = 1 /\ boxes[2] # "live"
    /\ at \in {"save", "ended"} => \A b \in Sandboxes : boxes[b] = "live" => Excused(b)

SandboxInv == TypeOK /\ FilesFit /\ PointFits /\ OutcomeFits /\ BoxesFit

-----------------------------------------------------------------------------
(* What keeps each part of it.                                             *)

LEMMA Statuses ==
    /\ NoResult.status = "none" /\ Error.status = "error" /\ Crash.status = "crashed"
    /\ NoResult.cases = <<>> /\ Error.cases = <<>> /\ Crash.cases = <<>>
    /\ Crash \in JudgeResult /\ Error # NoResult /\ NoResult \notin JudgeResult
<1>1. /\ NoResult.status = "none" /\ Error.status = "error" /\ Crash.status = "crashed"
      /\ NoResult.cases = <<>> /\ Error.cases = <<>> /\ Crash.cases = <<>>
    BY DEF NoResult, Error, Crash, Nothing
<1>2. NoResult \notin JudgeResult
    BY <1>1 DEF JudgeResult, Death
<1> QED
    BY <1>1, <1>2, CrashIs

LEMMA FilesKept ==
    ASSUME FilesFit, UNCHANGED <<files, child>>, faults \subseteq faults'
    PROVE  FilesFit'
    BY DEF FilesFit, DeathStatus

LEMMA NoOutcomeFits ==
    ASSUME outcome' = NoResult
    PROVE  OutcomeFits'
    BY Statuses DEF OutcomeFits, BlameIsRight, Death

LEMMA ErrorFits ==
    ASSUME outcome' = Error,
           faults' # {} \/ ctx' # "live" \/ Unreadable'
    PROVE  OutcomeFits'
    BY Statuses DEF OutcomeFits, BlameIsRight, Death

LEMMA OutcomeKept ==
    ASSUME OutcomeFits, UNCHANGED <<outcome, files, child>>, faults \subseteq faults',
           ctx # "live" => ctx' # "live", ctx = "expired" => ctx' = "expired"
    PROVE  OutcomeFits'
<1>1. Unreadable' = Unreadable
    BY DEF Unreadable
<1> QED
    BY <1>1 DEF OutcomeFits, BlameIsRight

\* A call that may fail adds the fault to those that happened.
LEMMA FaultGrows ==
    ASSUME TypeOK, NEW f \in {"create", "sandbox", "exec", "slow", "delete", "store", "supervisor"},
           Fault(f) \/ UNCHANGED faults
    PROVE  /\ faults \subseteq faults'
           /\ faults' \subseteq {"create", "sandbox", "exec", "slow", "delete", "store", "supervisor"}
           /\ Fault(f) => f \in faults'
    BY DEF Fault, TypeOK
Rows == [status : {"absent", "queued", "running", "passed", "failed", "error"} \union Death,
         cases : Seq(Case)]

\* What a step of the handler has to show: it writes no file and ends no process.
LEMMA HandlerKeeps ==
    ASSUME SandboxInv, UNCHANGED <<files, child, client, ctx>>, faults \subseteq faults',
           faults' \subseteq {"create", "sandbox", "exec", "slow", "delete", "store", "supervisor"},
           row' \in Rows, at' \in Points, attempt' \in 0..2,
           boxes' \in [Sandboxes -> {"none", "live", "deleted"}],
           outcome' \in JudgeResult \union {NoResult, Error},
           PointFits', OutcomeFits', BoxesFit'
    PROVE  SandboxInv'
<1>1. TypeOK'
    BY DEF SandboxInv, TypeOK, Rows
<1>2. FilesFit'
    BY FilesKept DEF SandboxInv
<1> QED
    BY <1>1, <1>2 DEF SandboxInv

\* The same when its outcome is that of before.
LEMMA HandlerGoesOn ==
    ASSUME SandboxInv, UNCHANGED <<files, child, client, ctx, outcome>>, faults \subseteq faults',
           faults' \subseteq {"create", "sandbox", "exec", "slow", "delete", "store", "supervisor"},
           row' \in Rows, at' \in Points, attempt' \in 0..2,
           boxes' \in [Sandboxes -> {"none", "live", "deleted"}],
           PointFits', BoxesFit'
    PROVE  SandboxInv'
<1>1. outcome' \in JudgeResult \union {NoResult, Error}
    BY DEF SandboxInv, TypeOK
<1>2. OutcomeFits'
    BY OutcomeKept DEF SandboxInv
<1> QED
    BY <1>1, <1>2, HandlerKeeps

-----------------------------------------------------------------------------
(* The steps of SubmitRun.                                                 *)

\* A call of the store moves the handler on with the new row, or ends it with the old one.
LEMMA StoreStep ==
    ASSUME TypeOK, NEW new \in Rows, NEW next, Store(new, next)
    PROVE  /\ faults \subseteq faults'
           /\ faults' \subseteq {"create", "sandbox", "exec", "slow", "delete", "store", "supervisor"}
           /\ (row' = new /\ at' = next) \/ (row' = row /\ at' = "ended")
<1>1. Fault("store") \/ UNCHANGED faults
    BY DEF Store
<1>2. /\ faults \subseteq faults'
      /\ faults' \subseteq {"create", "sandbox", "exec", "slow", "delete", "store", "supervisor"}
    BY <1>1, FaultGrows
<1>3. (row' = new /\ at' = next) \/ (row' = row /\ at' = "ended")
    BY DEF Store
<1> QED
    BY <1>2, <1>3

LEMMA CreateRunStep ==
    ASSUME SandboxInv, CreateRun
    PROVE  SandboxInv'
<1>0. TypeOK /\ PointFits /\ BoxesFit /\ row \in Rows
    BY DEF SandboxInv, TypeOK, Rows
<1> DEFINE new == [row EXCEPT !.status = "queued"]
<1>1. new \in Rows /\ new.status = "queued"
    BY <1>0 DEF Rows
<1>2. /\ at = "new" /\ Store(new, "claim")
      /\ UNCHANGED <<attempt, boxes, ctx, client, outcome, files, child>>
    BY DEF CreateRun
<1> HIDE DEF new
<1>3. /\ faults \subseteq faults'
      /\ faults' \subseteq {"create", "sandbox", "exec", "slow", "delete", "store", "supervisor"}
      /\ (row' = new /\ at' = "claim") \/ (row' = row /\ at' = "ended")
    BY <1>0, <1>1, <1>2, StoreStep
<1>4. PointFits'
    BY <1>0, <1>1, <1>2, <1>3 DEF PointFits
<1>5. BoxesFit'
    BY <1>0, <1>2, <1>3 DEF BoxesFit
<1> QED
    BY <1>0, <1>1, <1>2, <1>3, <1>4, <1>5, HandlerGoesOn DEF TypeOK, Points

LEMMA StartRunStep ==
    ASSUME SandboxInv, StartRun
    PROVE  SandboxInv'
<1>0. TypeOK /\ PointFits /\ BoxesFit /\ row \in Rows
    BY DEF SandboxInv, TypeOK, Rows
<1> DEFINE new == [row EXCEPT !.status = "running"]
<1>1. new \in Rows /\ new.status = "running"
    BY <1>0 DEF Rows
<1>2. /\ at = "claim" /\ Store(new, "create") /\ attempt' = 1
      /\ UNCHANGED <<boxes, ctx, client, outcome, files, child>>
    BY DEF StartRun
<1> HIDE DEF new
<1>3. /\ faults \subseteq faults'
      /\ faults' \subseteq {"create", "sandbox", "exec", "slow", "delete", "store", "supervisor"}
      /\ (row' = new /\ at' = "create") \/ (row' = row /\ at' = "ended")
    BY <1>0, <1>1, <1>2, StoreStep
<1>4. PointFits'
    BY <1>0, <1>1, <1>2, <1>3 DEF PointFits
<1>5. BoxesFit'
    BY <1>0, <1>2, <1>3 DEF BoxesFit, Sandboxes
<1> QED
    BY <1>0, <1>1, <1>2, <1>3, <1>4, <1>5, HandlerGoesOn DEF TypeOK, Points

\* The row takes the outcome as it is.
LEMMA SaveRunStep ==
    ASSUME SandboxInv, SaveRun
    PROVE  SandboxInv'
<1>0. TypeOK /\ PointFits /\ BoxesFit /\ row \in Rows
    BY DEF SandboxInv, TypeOK, Rows
<1> DEFINE new == [status |-> outcome.status, cases |-> outcome.cases]
<1>1. new \in Rows /\ new.status = outcome.status /\ new.cases = outcome.cases
    <2>1. at = "save" /\ outcome \in JudgeResult \union {Error}
        BY <1>0 DEF SaveRun, PointFits, TypeOK
    <2>2. CASE outcome \in JudgeResult
        BY <2>2 DEF JudgeResult, Rows
    <2>3. CASE outcome = Error
        BY <2>3, Statuses DEF Rows
    <2> QED
        BY <2>1, <2>2, <2>3
<1>2. /\ at = "save" /\ Store(new, "ended")
      /\ UNCHANGED <<attempt, boxes, ctx, client, outcome, files, child>>
    BY DEF SaveRun
<1> HIDE DEF new
<1>3. /\ faults \subseteq faults'
      /\ faults' \subseteq {"create", "sandbox", "exec", "slow", "delete", "store", "supervisor"}
      /\ row' = new \/ row' = row
      /\ at' = "ended"
    BY <1>0, <1>1, <1>2, StoreStep
<1>4. PointFits'
    BY <1>0, <1>1, <1>2, <1>3 DEF PointFits
<1>5. BoxesFit'
    BY <1>0, <1>2, <1>3 DEF BoxesFit, Excused, Held
<1> QED
    BY <1>0, <1>1, <1>2, <1>3, <1>4, <1>5, HandlerGoesOn DEF TypeOK, Points
-----------------------------------------------------------------------------
(* The steps of Run.                                                       *)

(***************************************************************************)
(* A step of Run leaves the row alone.  It holds no outcome yet, or one    *)
(* that is accounted for and that it returns.                              *)
(***************************************************************************)
LEMMA RunMoves ==
    ASSUME SandboxInv, at # "ended", UNCHANGED <<row, files, child, client, ctx>>,
           faults \subseteq faults',
           faults' \subseteq {"create", "sandbox", "exec", "slow", "delete", "store", "supervisor"},
           at' \in Points \ {"new", "claim", "ended"}, attempt' \in Sandboxes,
           boxes' \in [Sandboxes -> {"none", "live", "deleted"}],
           \/ outcome' = NoResult /\ at' \notin {"delete", "save"}
           \/ outcome' \in JudgeResult \union {Error} /\ at' \in {"delete", "save"} /\ OutcomeFits',
           at' = "download" => child.reaped,
           at' = "readback" => ctx = "expired" \/ "slow" \in faults',
           BoxesFit'
    PROVE  SandboxInv'
<1>1. row.status \in {"absent", "queued", "running"} /\ row \in Rows
    BY DEF SandboxInv, TypeOK, PointFits, Rows
<1>2. outcome' \in JudgeResult \union {NoResult, Error} /\ OutcomeFits'
    BY NoOutcomeFits
<1>3. at' \in {"delete", "save"} => outcome' # NoResult
    BY Statuses
<1>4. PointFits'
    BY <1>1, <1>3 DEF PointFits
<1>5. attempt' \in 0..2
    BY DEF Sandboxes
<1> QED
    BY <1>1, <1>2, <1>4, <1>5, HandlerKeeps

LEMMA CreateStep ==
    ASSUME SandboxInv, Create
    PROVE  SandboxInv'
<1>0. /\ TypeOK /\ PointFits /\ BoxesFit /\ at = "create"
      /\ UNCHANGED <<row, attempt, ctx, client, files, child>>
    BY DEF SandboxInv, Create
<1>1. /\ attempt \in Sandboxes /\ boxes[attempt] # "live" /\ (attempt = 1 => boxes[2] # "live")
      /\ boxes \in [Sandboxes -> {"none", "live", "deleted"}]
    BY <1>0 DEF BoxesFit, TypeOK
<1> DEFINE there == [boxes EXCEPT ![attempt] = "live"]
<1>2. /\ there \in [Sandboxes -> {"none", "live", "deleted"}]
      /\ \A b \in Sandboxes : b # attempt => there[b] = boxes[b]
    BY <1>1
<1> HIDE DEF there
<1>3. CASE /\ boxes' = there /\ outcome' = NoResult /\ at' = "upload" /\ UNCHANGED faults
    <2>1. BoxesFit'
        BY <1>0, <1>1, <1>3 DEF BoxesFit
    <2> QED
        BY <1>0, <1>1, <1>2, <1>3, <2>1, RunMoves DEF TypeOK, Points
<1>4. CASE /\ boxes' \in {boxes, there}
           /\ IF attempt = 1 THEN Return(NoResult, "backoff") ELSE Return(Error, "save")
           /\ IF ctx = "live" THEN Fault("create") ELSE UNCHANGED faults
    <2>1. /\ faults \subseteq faults'
          /\ faults' \subseteq {"create", "sandbox", "exec", "slow", "delete", "store", "supervisor"}
        BY <1>0, <1>4, FaultGrows DEF TypeOK
    <2>2. "create" \in faults' \/ ctx # "live"
        BY <1>4 DEF Fault
    <2>3. boxes' \in [Sandboxes -> {"none", "live", "deleted"}]
        BY <1>1, <1>2, <1>4
    <2>4. CASE attempt = 1
        <3>1. outcome' = NoResult /\ at' = "backoff" /\ boxes'[2] # "live"
            BY <1>1, <1>2, <1>4, <2>4 DEF Return, Sandboxes
        <3>2. BoxesFit'
            BY <1>0, <1>1, <2>4, <3>1 DEF BoxesFit
        <3> QED
            BY <1>0, <1>1, <2>1, <2>3, <3>1, <3>2, RunMoves DEF Points
    <2>5. CASE attempt # 1
        <3>1. outcome' = Error /\ at' = "save"
            BY <1>4, <2>5 DEF Return
        <3>2. OutcomeFits'
            BY <1>0, <2>2, <3>1, ErrorFits
        <3>3. BoxesFit'
            BY <1>0, <1>1, <2>2, <3>1, Statuses DEF BoxesFit, Excused
        <3> QED
            BY <1>0, <1>1, <2>1, <2>3, <3>1, <3>2, <3>3, RunMoves DEF Points
    <2> QED
        BY <2>4, <2>5
<1> QED
    BY <1>3, <1>4 DEF Create, Return, there

LEMMA BackoffStep ==
    ASSUME SandboxInv, Backoff
    PROVE  SandboxInv'
<1>0. /\ TypeOK /\ PointFits /\ BoxesFit /\ at = "backoff"
      /\ UNCHANGED <<row, boxes, ctx, client, files, child, faults>>
    BY DEF SandboxInv, Backoff
<1>1. /\ attempt = 1 /\ boxes[2] # "live" /\ 1 \in Sandboxes /\ 2 \in Sandboxes
    BY <1>0 DEF BoxesFit, Sandboxes
<1>2. CASE attempt' = 2 /\ Return(NoResult, "create")
    <2>1. BoxesFit'
        BY <1>0, <1>1, <1>2 DEF BoxesFit, Return
    <2> QED
        BY <1>0, <1>1, <1>2, <2>1, RunMoves DEF TypeOK, Points, Return
<1>3. CASE ctx # "live" /\ Return(Error, "save") /\ UNCHANGED attempt
    <2>1. OutcomeFits'
        BY <1>0, <1>3, ErrorFits DEF Return
    <2>2. BoxesFit'
        BY <1>0, <1>1, <1>3, Statuses DEF BoxesFit, Excused, Return
    <2> QED
        BY <1>0, <1>1, <1>3, <2>1, <2>2, RunMoves DEF TypeOK, Points, Return
<1> QED
    BY <1>2, <1>3 DEF Backoff

LEMMA UploadStep ==
    ASSUME SandboxInv, Upload
    PROVE  SandboxInv'
<1>0. /\ TypeOK /\ PointFits /\ BoxesFit /\ at = "upload"
      /\ UNCHANGED <<row, attempt, boxes, ctx, client, files, child>>
    BY DEF SandboxInv, Upload
<1>1. attempt \in Sandboxes /\ boxes \in [Sandboxes -> {"none", "live", "deleted"}]
    BY <1>0 DEF BoxesFit, TypeOK
<1>2. CASE Return(NoResult, "exec") /\ UNCHANGED faults
    <2>1. BoxesFit'
        BY <1>0, <1>1, <1>2 DEF BoxesFit, Return
    <2> QED
        BY <1>0, <1>1, <1>2, <2>1, RunMoves DEF TypeOK, Points, Return
<1>3. CASE UploadFails /\ (IF ctx = "live" THEN Fault("sandbox") ELSE UNCHANGED faults)
    <2>1. /\ faults \subseteq faults'
          /\ faults' \subseteq {"create", "sandbox", "exec", "slow", "delete", "store", "supervisor"}
        BY <1>0, <1>3, FaultGrows DEF TypeOK
    <2>2. faults' # {} \/ ctx # "live"
        BY <1>3 DEF Fault
    <2>3. outcome' = Error /\ at' = "delete"
        BY <1>3 DEF UploadFails, Return
    <2>4. OutcomeFits'
        BY <1>0, <2>2, <2>3, ErrorFits
    <2>5. BoxesFit'
        BY <1>0, <1>1, <2>3 DEF BoxesFit
    <2> QED
        BY <1>0, <1>1, <2>1, <2>3, <2>4, <2>5, RunMoves DEF Points
<1> QED
    BY <1>2, <1>3 DEF Upload

LEMMA ExecEndsStep ==
    ASSUME SandboxInv, ExecEnds
    PROVE  SandboxInv'
<1>0. /\ TypeOK /\ BoxesFit /\ at = "exec" /\ child.reaped
      /\ outcome' = NoResult /\ at' = "download"
      /\ UNCHANGED <<row, attempt, boxes, ctx, client, files, child, faults>>
    BY DEF SandboxInv, ExecEnds, Return
<1>1. attempt \in Sandboxes /\ BoxesFit'
    BY <1>0 DEF BoxesFit
<1> QED
    BY <1>0, <1>1, RunMoves DEF TypeOK, Points

\* The command is given up: what was written is read back, or the run is an error.
LEMMA ExecFailsStep ==
    ASSUME SandboxInv, NEW slow \in BOOLEAN, ExecFails(slow)
    PROVE  SandboxInv'
<1>0. /\ TypeOK /\ PointFits /\ BoxesFit /\ at = "exec"
      /\ UNCHANGED <<row, attempt, boxes, ctx, client, files, child>>
    BY DEF SandboxInv, ExecFails
<1>1. attempt \in Sandboxes
    BY <1>0 DEF BoxesFit
<1>2. /\ faults \subseteq faults'
      /\ faults' \subseteq {"create", "sandbox", "exec", "slow", "delete", "store", "supervisor"}
    BY <1>0, FaultGrows DEF ExecFails, TypeOK
<1>3. CASE DeadlineExceeded(slow) /\ Return(NoResult, "readback")
    <2>1. ctx = "expired" \/ "slow" \in faults'
        BY <1>3 DEF ExecFails, DeadlineExceeded, Fault
    <2>2. BoxesFit'
        BY <1>0, <1>1, <1>3 DEF BoxesFit, Return
    <2> QED
        BY <1>0, <1>1, <1>2, <1>3, <2>1, <2>2, RunMoves DEF TypeOK, Points, Return
<1>4. CASE ~DeadlineExceeded(slow) /\ Return(Error, "delete")
    <2>1. faults' # {} \/ ctx # "live"
        BY <1>4 DEF ExecFails, DeadlineExceeded, Fault
    <2>2. OutcomeFits'
        BY <1>0, <1>4, <2>1, ErrorFits DEF Return
    <2>3. BoxesFit'
        BY <1>0, <1>1, <1>4 DEF BoxesFit, Return
    <2> QED
        BY <1>0, <1>1, <1>2, <1>4, <2>2, <2>3, RunMoves DEF TypeOK, Points, Return
<1> QED
    BY <1>3, <1>4 DEF ExecFails
(***************************************************************************)
(* What the supervisor lets pass and the backend does not take was written *)
(* by the code.                                                            *)
(***************************************************************************)
LEMMA KeptIsReadable ==
    ASSUME NEW c, c.name # Blank, c.duration # "wide", c.error # "other"
    PROVE  Readable(Stored(c))
    BY DEF Readable, Stored

LEMMA OddResultIsWritten ==
    ASSUME files.verdict \in Verdicts \union {Absent}, files.line \in Lines \union {Absent},
           files.events \in Seq(Event), NEW death \in Death,
           NEW result, result = Judge(files.verdict, files.line, files.events, death),
           result.compile = "other" \/ ~AllReadable(result.cases)
    PROVE  Unreadable
<1> DEFINE verdict == files.verdict
           line == files.line
           events == files.events
<1>1. CASE Raises(verdict, line, events)
    <2>1. result = Crash
        BY <1>1 DEF Judge
    <2> QED
        BY <2>1, CrashIs DEF AllReadable
<1>2. CASE ~Raises(verdict, line, events) /\ NormalVerdict(verdict)
    <2>1. result = FromVerdict(verdict)
        BY <1>2 DEF Judge
    <2>2. result.compile # "other" /\ result.cases = Kept(verdict)
        BY <1>2, <2>1, FromVerdictFits, WrittenFits DEF NormalVerdict
    <2>3. PICK i \in DOMAIN verdict.cases : ~Readable(Stored(verdict.cases[i]))
        BY <2>2 DEF AllReadable, Kept
    <2>4. verdict.cases[i].error = "text"
        BY <1>2 DEF NormalVerdict, NormalCase
    <2>5. verdict.cases[i].name = Blank \/ verdict.cases[i].duration = "wide"
        BY <2>3, <2>4, KeptIsReadable
    <2> QED
        BY <2>5 DEF Unreadable
<1>3. CASE ~Raises(verdict, line, events) /\ ~NormalVerdict(verdict) /\ LegacyLine(line)
    <2>1. result = FromVerdict(line)
        BY <1>3 DEF Judge
    <2>2. result.compile = line.compile /\ result.cases = Kept(line)
        BY <1>3, <2>1, FromVerdictFits, WrittenFits
    <2>3. CASE line.compile = "other"
        BY <2>3 DEF Unreadable
    <2>4. CASE line.compile # "other"
        <3>1. PICK i \in DOMAIN line.cases : ~Readable(Stored(line.cases[i]))
            BY <2>2, <2>4 DEF AllReadable, Kept
        <3>2. \/ line.cases[i].name = Blank \/ line.cases[i].duration = "wide"
              \/ line.cases[i].error = "other"
            BY <3>1, KeptIsReadable
        <3> QED
            BY <3>2 DEF Unreadable
    <2> QED
        BY <2>3, <2>4
<1>4. CASE ~Raises(verdict, line, events) /\ ~NormalVerdict(verdict) /\ ~LegacyLine(line)
    <2>1. result = FromProgress(death, Progress(events, "supervisor"))
        BY <1>4 DEF Judge
    <2>2. /\ result.compile = "none" /\ result.cases = Finished(events, "supervisor")
          /\ AreRead(Finished(events, "supervisor"), events)
        BY <2>1, ProgressFits, FinishedFits DEF Reader
    <2>3. PICK n \in DOMAIN result.cases : ~Readable(result.cases[n])
        BY <2>2 DEF AllReadable
    <2>4. PICK i \in DOMAIN events : result.cases[n] = CaseOf(events[i])
        BY <2>2, <2>3 DEF AreRead
    <2>5. events[i].case.name = Blank \/ events[i].case.duration = "wide"
        BY <2>3, <2>4 DEF CaseOf, Readable, Stored
    <2> QED
        BY <2>5 DEF Unreadable
<1> QED
    BY <1>1, <1>2, <1>3, <1>4

(***************************************************************************)
(* What the supervisor concluded is the outcome, unless the backend cannot *)
(* read it.                                                                *)
(***************************************************************************)
LEMMA ParsedResultFits ==
    ASSUME SandboxInv, files.result # NoResult, outcome' = Parse(files.result),
           UNCHANGED <<ctx, files, child, faults>>
    PROVE  outcome' \in JudgeResult \union {Error} /\ OutcomeFits'
<1>0. /\ TypeOK /\ FilesFit /\ files.events \in Seq(Event) /\ files.result \in JudgeResult
      /\ files.verdict \in Verdicts \union {Absent} /\ files.line \in Lines \union {Absent}
    BY EventsOf DEF SandboxInv, TypeOK
<1> DEFINE result == files.result
<1>1. DeathStatus \in Death
    BY DEF DeathStatus, Death
<1>2. CASE result.compile = "other" \/ ~AllReadable(result.cases)
    <2>1. outcome' = Error
        BY <1>2 DEF Parse, AllReadable
    <2>2. result # Crash
        BY <1>2, CrashIs DEF AllReadable
    <2>3. result = Judge(files.verdict, files.line, files.events, DeathStatus)
        BY <1>0, <2>2 DEF FilesFit
    <2> HIDE DEF result
    <2>4. Unreadable
        BY <1>0, <1>1, <1>2, <2>3, OddResultIsWritten
    <2>5. Unreadable'
        BY <2>4 DEF Unreadable
    <2>6. OutcomeFits'
        BY <2>1, <2>5, ErrorFits
    <2> QED
        BY <2>1, <2>6
<1>3. CASE result.compile # "other" /\ AllReadable(result.cases) /\ result = Crash
    <2>1. outcome' = Crash
        BY <1>3 DEF Parse, AllReadable
    <2>2. AllReadable(<<>>) /\ AreRead(<<>>, files.events)
        BY NoneIsRead DEF AllReadable
    <2>3. OutcomeFits'
        BY <2>1, <2>2, Statuses DEF OutcomeFits, BlameIsRight
    <2> QED
        BY <2>1, <2>3, Statuses
<1>4. CASE /\ result.compile # "other" /\ AllReadable(result.cases)
           /\ result = Judge(files.verdict, files.line, files.events, DeathStatus)
    <2>1. outcome' = result
        BY <1>4 DEF Parse, AllReadable
    <2> DEFINE told == Told(files.verdict, files.line)
    <2>2. /\ result \in JudgeResult
          /\ result.status \in {"passed", "failed"} => Tells(told, result.status, result.cases)
          /\ result.status = "timeout" => DeathStatus = "timeout"
          /\ result.status \in Death => AreRead(result.cases, files.events)
        BY <1>0, <1>1, <1>4, JudgeFits
    <2> HIDE DEF told, result
    <2>3. result.status = "timeout" => child.timed \/ child.state = "alarm"
        BY <2>2 DEF DeathStatus
    <2>4. result.status # "error"
        BY <2>2 DEF JudgeResult, Death
    <2>5. BlameIsRight'
        BY <2>1, <2>3, <2>4 DEF BlameIsRight
    <2>6. OutcomeFits'
        BY <1>4, <2>1, <2>2, <2>5 DEF OutcomeFits, told
    <2> QED
        BY <2>1, <2>2, <2>6
<1> QED
    BY <1>0, <1>2, <1>3, <1>4 DEF FilesFit

LEMMA DownloadStep ==
    ASSUME SandboxInv, Download
    PROVE  SandboxInv'
<1>0. /\ TypeOK /\ FilesFit /\ PointFits /\ BoxesFit /\ at = "download" /\ child.reaped
      /\ UNCHANGED <<row, attempt, boxes, ctx, client, files, child>>
    BY DEF SandboxInv, Download, PointFits
<1>1. attempt \in Sandboxes
    BY <1>0 DEF BoxesFit
<1>2. CASE files.result # NoResult /\ Return(Parse(files.result), "delete") /\ UNCHANGED faults
    <2>1. outcome' \in JudgeResult \union {Error} /\ OutcomeFits'
        BY <1>0, <1>2, ParsedResultFits DEF Return
    <2>2. at' = "delete" /\ BoxesFit'
        BY <1>0, <1>1, <1>2 DEF BoxesFit, Return
    <2> QED
        BY <1>0, <1>1, <1>2, <2>1, <2>2, RunMoves DEF TypeOK, Points
<1>3. CASE /\ Return(Error, "delete")
           /\ IF ctx = "live" /\ files.result # NoResult THEN Fault("sandbox") ELSE UNCHANGED faults
    <2>1. /\ faults \subseteq faults'
          /\ faults' \subseteq {"create", "sandbox", "exec", "slow", "delete", "store", "supervisor"}
        BY <1>0, <1>3, FaultGrows DEF TypeOK
    <2>2. faults' # {} \/ ctx # "live"
        BY <1>0, <1>3 DEF Fault, FilesFit
    <2>3. outcome' = Error /\ at' = "delete"
        BY <1>3 DEF Return
    <2>4. OutcomeFits'
        BY <1>0, <2>2, <2>3, ErrorFits
    <2>5. BoxesFit'
        BY <1>0, <1>1, <2>3 DEF BoxesFit
    <2> QED
        BY <1>0, <1>1, <2>1, <2>3, <2>4, <2>5, RunMoves DEF TypeOK, Points
<1> QED
    BY <1>2, <1>3 DEF Download

LEMMA ReadBackStep ==
    ASSUME SandboxInv, ReadBack
    PROVE  SandboxInv'
<1>0. /\ TypeOK /\ PointFits /\ BoxesFit /\ at = "readback" /\ files.events \in Seq(Event)
      /\ UNCHANGED <<row, attempt, boxes, ctx, client, files, child, faults>>
    BY EventsOf DEF SandboxInv, ReadBack, TypeOK
<1>1. attempt \in Sandboxes
    BY <1>0 DEF BoxesFit
<1>2. PICK events \in {files.events, <<>>} : outcome' = TimeoutOutcome(events) /\ at' = "delete"
    BY DEF ReadBack, Return
<1>3. /\ outcome' \in JudgeResult /\ outcome'.status = "timeout"
      /\ AllReadable(outcome'.cases) /\ AreRead(outcome'.cases, files.events)
    <2>1. events \in Seq(Event)
        <3>1. <<>> \in Seq(Event)
            OBVIOUS
        <3> QED
            BY <1>0, <1>2, <3>1
    <2>2. CASE events = files.events
        BY <1>2, <2>1, <2>2, TimeoutFits DEF AllReadable
    <2>3. CASE events = <<>>
        BY <1>0, <1>2, <2>1, <2>3, TimeoutFits, NothingIsRead DEF AllReadable
    <2> QED
        BY <1>2, <2>2, <2>3
<1>4. OutcomeFits'
    BY <1>0, <1>3 DEF OutcomeFits, BlameIsRight, PointFits
<1>5. BoxesFit'
    BY <1>0, <1>1, <1>2 DEF BoxesFit
<1> QED
    BY <1>0, <1>1, <1>2, <1>3, <1>4, <1>5, RunMoves DEF TypeOK, Points

LEMMA DeleteStep ==
    ASSUME SandboxInv, Delete
    PROVE  SandboxInv'
<1>0. /\ TypeOK /\ PointFits /\ OutcomeFits /\ BoxesFit /\ at = "delete" /\ at' = "save"
      /\ UNCHANGED <<row, attempt, ctx, client, files, child>>
    BY DEF SandboxInv, Delete
<1>1. /\ attempt \in Sandboxes /\ boxes \in [Sandboxes -> {"none", "live", "deleted"}]
      /\ outcome \in JudgeResult \union {Error}
    BY <1>0 DEF BoxesFit, PointFits, TypeOK
<1>2. CASE boxes' = [boxes EXCEPT ![Held] = "deleted"] /\ UNCHANGED <<outcome, faults>>
    <2>1. /\ boxes' \in [Sandboxes -> {"none", "live", "deleted"}] /\ boxes'[attempt] # "live"
        BY <1>1, <1>2 DEF Held
    <2>2. BoxesFit'
        BY <1>0, <1>1, <2>1 DEF BoxesFit, Excused, Held
    <2>3. OutcomeFits'
        BY <1>0, <1>2, OutcomeKept
    <2> QED
        BY <1>0, <1>1, <1>2, <2>1, <2>2, <2>3, RunMoves DEF TypeOK, Points
<1>3. CASE outcome' = DeleteFails /\ Fault("delete") /\ UNCHANGED boxes
    <2>1. /\ faults \subseteq faults' /\ "delete" \in faults'
          /\ faults' \subseteq {"create", "sandbox", "exec", "slow", "delete", "store", "supervisor"}
        BY <1>0, <1>3, FaultGrows
    <2>2. outcome' = Error
        BY <1>3 DEF DeleteFails
    <2>3. OutcomeFits'
        BY <2>1, <2>2, ErrorFits
    <2>4. BoxesFit'
        BY <1>0, <1>1, <2>1, <2>2, Statuses DEF BoxesFit, Excused
    <2> QED
        BY <1>0, <1>1, <1>3, <2>1, <2>2, <2>3, <2>4, RunMoves DEF Points
<1> QED
    BY <1>2, <1>3 DEF Delete
-----------------------------------------------------------------------------
(* The steps in the sandbox, and those of the contexts.                    *)

(***************************************************************************)
(* While the code runs or its supervisor does, the handler waits and holds *)
(* no outcome: such a step only has to leave the files as they should be.  *)
(***************************************************************************)
LEMMA SandboxMoves ==
    ASSUME SandboxInv, at \in {"exec", "readback"},
           UNCHANGED <<row, at, attempt, boxes, ctx, client, outcome>>,
           faults \subseteq faults',
           faults' \subseteq {"create", "sandbox", "exec", "slow", "delete", "store", "supervisor"},
           TypeOK', FilesFit'
    PROVE  SandboxInv'
<1>1. PointFits /\ BoxesFit
    BY DEF SandboxInv
<1>2. PointFits'
    BY <1>1 DEF PointFits
<1>3. OutcomeFits'
    BY <1>1, NoOutcomeFits DEF PointFits
<1>4. BoxesFit'
    BY <1>1 DEF BoxesFit
<1> QED
    BY <1>2, <1>3, <1>4 DEF SandboxInv

\* A step of the process: it has not been reaped, so there is no result yet.
LEMMA ProcessMoves ==
    ASSUME SandboxInv, at \in {"exec", "readback"}, ~child.reaped,
           UNCHANGED <<row, at, attempt, boxes, ctx, client, outcome, files, faults>>,
           NEW state \in {"running", "exited", "noisy", "alarm", "kill"}, NEW timed \in BOOLEAN,
           child' = [child EXCEPT !.state = state, !.timed = timed]
    PROVE  SandboxInv'
<1>1. TypeOK /\ FilesFit
    BY DEF SandboxInv
<1>2. child' \in [state : {"none", "running", "exited", "noisy", "alarm", "kill"},
                  timed : BOOLEAN, reaped : BOOLEAN]
    BY <1>1 DEF TypeOK
<1>3. child'.reaped = child.reaped
    BY <1>1 DEF TypeOK
<1>4. TypeOK'
    BY <1>1, <1>2 DEF TypeOK
<1>5. FilesFit'
    BY <1>1, <1>3 DEF FilesFit
<1> QED
    BY <1>4, <1>5, SandboxMoves DEF SandboxInv, TypeOK

LEMMA SpawnStep ==
    ASSUME SandboxInv, Spawn
    PROVE  SandboxInv'
<1>1. child.timed \in BOOLEAN /\ child' = [child EXCEPT !.state = "running", !.timed = child.timed]
    BY DEF SandboxInv, TypeOK, Spawn
<1> QED
    BY <1>1, ProcessMoves DEF Spawn

LEMMA ChildDiesStep ==
    ASSUME SandboxInv, ChildDies
    PROVE  SandboxInv'
<1>1. PICK how \in {"exited", "noisy", "alarm", "kill"} : child' = [child EXCEPT !.state = how]
    BY DEF ChildDies
<1>2. child.timed \in BOOLEAN /\ child' = [child EXCEPT !.state = how, !.timed = child.timed]
    BY <1>1 DEF SandboxInv, TypeOK
<1>3. ~child.reaped /\ at \in {"exec", "readback"}
    BY DEF SandboxInv, FilesFit, ChildDies, Running
<1> QED
    BY <1>2, <1>3, ProcessMoves DEF ChildDies

LEMMA KillChildStep ==
    ASSUME SandboxInv, KillChild
    PROVE  SandboxInv'
<1>1. ~child.reaped /\ at \in {"exec", "readback"}
    BY DEF SandboxInv, FilesFit, KillChild, Running
<1> QED
    BY <1>1, ProcessMoves DEF KillChild

(***************************************************************************)
(* A write of the code under test: it still runs, so there is no result.   *)
(***************************************************************************)
LEMMA WritesStep ==
    ASSUME SandboxInv, NEW f, Writes(f), f.result = files.result, Len(f.events) <= MaxEvents,
           f \in [events : Seq(Events), verdict : Verdicts \union {Absent},
                  line : Lines \union {Absent}, result : JudgeResult \union {NoResult}]
    PROVE  SandboxInv'
<1>1. /\ TypeOK /\ FilesFit /\ at \in {"exec", "readback"} /\ ~child.reaped /\ files' = f
      /\ UNCHANGED <<row, at, attempt, boxes, ctx, client, outcome, child, faults>>
    BY DEF SandboxInv, Writes, Running, FilesFit
<1>2. TypeOK'
    BY <1>1 DEF TypeOK
<1>3. FilesFit'
    BY <1>1 DEF FilesFit
<1> QED
    BY <1>1, <1>2, <1>3, SandboxMoves DEF TypeOK

LEMMA CodeStep ==
    ASSUME SandboxInv, Code
    PROVE  SandboxInv'
<1>0. /\ files \in [events : Seq(Events), verdict : Verdicts \union {Absent},
                    line : Lines \union {Absent}, result : JudgeResult \union {NoResult}]
      /\ Len(files.events) <= MaxEvents
    BY DEF SandboxInv, TypeOK
<1>1. CASE WriteEvent
    <2>1. PICK e \in Events : Writes([files EXCEPT !.events = Append(@, e)])
        BY <1>1 DEF WriteEvent
    <2>2. /\ Append(files.events, e) \in Seq(Events)
          /\ Len(Append(files.events, e)) = Len(files.events) + 1
          /\ Len(files.events) \in Nat
        BY <1>0
    <2>3. Len(Append(files.events, e)) <= MaxEvents
        BY <1>1, <2>2, SandboxAssumption DEF WriteEvent
    <2> QED
        BY <1>0, <2>1, <2>2, <2>3, WritesStep
<1>2. CASE WriteLine
    <2>1. PICK l \in Lines : Writes([files EXCEPT !.line = l])
        BY <1>2 DEF WriteLine
    <2> QED
        BY <1>0, <2>1, WritesStep
<1>3. CASE WriteVerdict
    <2>1. PICK v \in Verdicts : Writes([files EXCEPT !.verdict = v])
        BY <1>3 DEF WriteVerdict
    <2> QED
        BY <1>0, <2>1, WritesStep
<1>4. CASE ChildDies
    BY <1>4, ChildDiesStep
<1> QED
    BY <1>1, <1>2, <1>3, <1>4 DEF Code
\* The result is what the supervisor makes of the other files, or its own failure.
LEMMA ResultStep ==
    ASSUME SandboxInv, at \in {"exec", "readback"}, ~child.reaped, child.state # "running",
           child' = [child EXCEPT !.reaped = TRUE],
           UNCHANGED <<row, at, attempt, boxes, ctx, client, outcome>>,
           faults \subseteq faults',
           faults' \subseteq {"create", "sandbox", "exec", "slow", "delete", "store", "supervisor"},
           NEW result \in JudgeResult \union {NoResult}, files' = [files EXCEPT !.result = result],
           \/ result = Judge(files.verdict, files.line, files.events, DeathStatus) /\ result # NoResult
           \/ result \in {NoResult, Crash} /\ "supervisor" \in faults'
    PROVE  SandboxInv'
<1>1. TypeOK
    BY DEF SandboxInv
<1>2. /\ child' \in [state : {"none", "running", "exited", "noisy", "alarm", "kill"},
                     timed : BOOLEAN, reaped : BOOLEAN]
      /\ child'.reaped /\ child'.state = child.state /\ child'.timed = child.timed
    BY <1>1 DEF TypeOK
<1>3. /\ files' \in [events : Seq(Events), verdict : Verdicts \union {Absent},
                     line : Lines \union {Absent}, result : JudgeResult \union {NoResult}]
      /\ files'.events = files.events /\ files'.verdict = files.verdict /\ files'.line = files.line
      /\ files'.result = result
    BY <1>1 DEF TypeOK
<1>4. DeathStatus' = DeathStatus
    BY <1>2 DEF DeathStatus
<1>5. TypeOK'
    BY <1>1, <1>2, <1>3 DEF TypeOK
<1>6. FilesFit'
    BY <1>2, <1>3, <1>4 DEF FilesFit
<1> QED
    BY <1>5, <1>6, SandboxMoves

LEMMA WriteResultStep ==
    ASSUME SandboxInv, WriteResult
    PROVE  SandboxInv'
<1> DEFINE result == Judge(files.verdict, files.line, files.events, DeathStatus)
<1>1. /\ at \in {"exec", "readback"} /\ ~child.reaped /\ child.state # "running"
      /\ child' = [child EXCEPT !.reaped = TRUE] /\ files' = [files EXCEPT !.result = result]
      /\ UNCHANGED <<row, at, attempt, boxes, ctx, client, outcome, faults>>
    BY DEF WriteResult, Running, Dead
<1>2. result \in JudgeResult
    <2>1. /\ files.events \in Seq(Event) /\ files.verdict \in Verdicts \union {Absent}
          /\ files.line \in Lines \union {Absent}
        BY EventsOf DEF SandboxInv, TypeOK
    <2>2. DeathStatus \in Death
        BY DEF DeathStatus, Death
    <2> QED
        BY <2>1, <2>2, JudgeFits
<1>3. result # NoResult
    BY <1>2, Statuses
<1>4. faults \subseteq faults'
      /\ faults' \subseteq {"create", "sandbox", "exec", "slow", "delete", "store", "supervisor"}
    BY <1>1 DEF SandboxInv, TypeOK
<1> HIDE DEF result
<1> QED
    BY <1>1, <1>2, <1>3, <1>4, ResultStep DEF result

LEMMA SupervisorFailsStep ==
    ASSUME SandboxInv, SupervisorFails
    PROVE  SandboxInv'
<1>1. /\ at \in {"exec", "readback"} /\ ~child.reaped /\ child.state # "running"
      /\ child' = [child EXCEPT !.reaped = TRUE] /\ Fault("supervisor")
      /\ files' \in {files, [files EXCEPT !.result = Crash]}
      /\ UNCHANGED <<row, at, attempt, boxes, ctx, client, outcome>>
    BY DEF SupervisorFails, Running, Dead
<1>2. /\ faults \subseteq faults' /\ "supervisor" \in faults'
      /\ faults' \subseteq {"create", "sandbox", "exec", "slow", "delete", "store", "supervisor"}
    BY <1>1, FaultGrows DEF SandboxInv
<1>3. files.result = NoResult
    BY <1>1 DEF SandboxInv, FilesFit
<1>4. PICK result \in {NoResult, Crash} : files' = [files EXCEPT !.result = result]
    <2>1. files = [files EXCEPT !.result = NoResult]
        BY <1>3 DEF SandboxInv, TypeOK
    <2> QED
        BY <1>1, <2>1
<1> QED
    BY <1>1, <1>2, <1>4, Statuses, ResultStep

\* The context of Run is over, or its client is gone.
LEMMA ContextStep ==
    ASSUME SandboxInv, Expire \/ Leave
    PROVE  SandboxInv'
<1>1. /\ TypeOK /\ FilesFit /\ PointFits /\ OutcomeFits /\ BoxesFit
    BY DEF SandboxInv
<1>2. /\ UNCHANGED <<row, at, attempt, boxes, outcome, files, child, faults>>
      /\ client' \in BOOLEAN /\ ctx' \in {"live", "expired", "cancelled"}
      /\ ctx # "live" => ctx' = ctx
    BY <1>1 DEF Expire, Leave, TypeOK
<1>3. TypeOK'
    BY <1>1, <1>2 DEF TypeOK
<1>4. FilesFit'
    BY <1>1, <1>2, FilesKept
<1>5. PointFits'
    BY <1>1, <1>2 DEF PointFits
<1>6. OutcomeFits'
    BY <1>1, <1>2, OutcomeKept
<1>7. BoxesFit'
    BY <1>1, <1>2 DEF BoxesFit, Excused, Held
<1> QED
    BY <1>3, <1>4, <1>5, <1>6, <1>7 DEF SandboxInv

-----------------------------------------------------------------------------

LEMMA SandboxInit == Init => SandboxInv
<1> SUFFICES ASSUME Init PROVE SandboxInv
    OBVIOUS
<1>1. TypeOK
    <2>1. <<>> \in Seq(Case) /\ <<>> \in Seq(Events) /\ Len(<<>>) = 0
        OBVIOUS
    <2> QED
        BY <2>1, SandboxAssumption DEF Init, TypeOK, NoFiles, Points
<1>2. FilesFit /\ PointFits
    BY DEF Init, FilesFit, PointFits, NoFiles
<1>3. OutcomeFits
    BY Statuses DEF Init, OutcomeFits, BlameIsRight, Death
<1>4. BoxesFit
    BY DEF Init, BoxesFit
<1> QED
    BY <1>1, <1>2, <1>3, <1>4 DEF SandboxInv

LEMMA SandboxNext == SandboxInv /\ [Next]_runVars => SandboxInv'
<1> SUFFICES ASSUME SandboxInv, [Next]_runVars PROVE SandboxInv'
    OBVIOUS
<1>1. CASE Handle
    BY <1>1, CreateRunStep, StartRunStep, CreateStep, BackoffStep, UploadStep, ExecEndsStep,
       DownloadStep, ReadBackStep, DeleteStep, SaveRunStep, ExecFailsStep DEF Handle
<1>2. CASE Code
    BY <1>2, CodeStep
<1>3. CASE Supervise
    BY <1>3, SpawnStep, KillChildStep, WriteResultStep DEF Supervise
<1>4. CASE SupervisorFails
    BY <1>4, SupervisorFailsStep
<1>5. CASE Expire \/ Leave
    BY <1>5, ContextStep
<1>6. ASSUME NEW slow \in BOOLEAN, ExecFails(slow) PROVE SandboxInv'
    BY <1>6, ExecFailsStep
<1>7. CASE UNCHANGED runVars
    <2>1. UNCHANGED <<row, at, attempt, boxes, ctx, client, outcome, files, child, faults>>
        BY <1>7 DEF runVars
    <2>2. FilesFit' /\ OutcomeFits'
        BY <2>1, FilesKept, OutcomeKept DEF SandboxInv
    <2>3. PointFits'
        BY <2>1 DEF SandboxInv, PointFits
    <2>4. BoxesFit'
        BY <2>1 DEF SandboxInv, BoxesFit, Excused, Held
    <2>5. TypeOK'
        BY <2>1 DEF SandboxInv, TypeOK
    <2> QED
        BY <2>2, <2>3, <2>4, <2>5 DEF SandboxInv
<1> QED
    BY <1>1, <1>2, <1>3, <1>4, <1>5, <1>6, <1>7 DEF Next

(***************************************************************************)
(* SandboxInv holds in every state, for any set of names, any files that   *)
(* the code may write and any number of lines and of faults.               *)
(***************************************************************************)
THEOREM SandboxInvariant == Spec => []SandboxInv
BY SandboxInit, SandboxNext, PTL DEF Spec

(***************************************************************************)
(* What is stored of a run is what its code did: a verdict that it wrote,  *)
(* or the cases that it did finish, in their order.                        *)
(***************************************************************************)
THEOREM VerdictsAreReal == Spec => []VerdictInv
<1>1. SandboxInv => VerdictInv
    <2> SUFFICES ASSUME SandboxInv PROVE VerdictInv
        OBVIOUS
    <2>1. /\ TypeOK /\ OutcomeFits
          /\ row.status \in {"absent", "queued", "running"}
                \/ (row.status = outcome.status /\ row.cases = outcome.cases)
        BY DEF SandboxInv, PointFits
    <2>2. VerdictsAreWritten
        BY <2>1 DEF VerdictsAreWritten, OutcomeFits, Told, Tells, Kept
    <2>3. RecoveredCasesAreReal
        BY <2>1 DEF RecoveredCasesAreReal, OutcomeFits, Death, AllReadable
    <2> QED
        BY <2>1, <2>2, <2>3 DEF VerdictInv
<1> QED
    BY <1>1, SandboxInvariant, PTL

(***************************************************************************)
(* The supervisor and the backend read the same out of the same files,     *)
(* whatever is missing, broken or invalid in them, but for the forms that  *)
(* ReadAlike names.                                                        *)
(***************************************************************************)
THEOREM SupervisorFollowsProtocol == Spec => []SupervisorAgrees
<1>1. SandboxInv => SupervisorAgrees
    <2> SUFFICES ASSUME SandboxInv,
                        files.result # NoResult, "supervisor" \notin faults,
                        ReadAlike
                 PROVE  files.result = Reconstruct(files.verdict, files.line, files.events, DeathStatus)
        BY DEF SupervisorAgrees
    <2>1. files.result = Judge(files.verdict, files.line, files.events, DeathStatus)
        BY DEF SandboxInv, FilesFit
    <2>2. /\ files.events \in Seq(Event) /\ files.line \in Lines \union {Absent}
          /\ files.verdict \in Verdict \union {Absent}
        BY EventsOf, SandboxAssumption DEF SandboxInv, TypeOK
    <2>3. DeathStatus \in Death
        BY DEF DeathStatus, Death
    <2>4. /\ files.verdict.readers \in {{}, Reader} /\ files.line.readers \in {{}, Reader}
          /\ VerdictAlike(files.verdict) /\ LineAlike(files.line)
          /\ \A i \in DOMAIN files.events :
                files.events[i].readers \in {{}, Reader} /\ EventAlike(files.events[i])
        BY DEF ReadAlike
    <2> QED
        BY <2>1, <2>2, <2>3, <2>4, ProtocolsAgree
<1> QED
    BY <1>1, SandboxInvariant, PTL

(***************************************************************************)
(* A run is blamed on its time only when time ran out, and on the platform *)
(* only when the platform failed, or the code wrote what the supervisor    *)
(* lets pass and the backend cannot read.                                  *)
(***************************************************************************)
THEOREM BlameRight == Spec => []BlameIsRight
<1>1. SandboxInv => BlameIsRight
    BY DEF SandboxInv, OutcomeFits
<1> QED
    BY <1>1, SandboxInvariant, PTL

(***************************************************************************)
(* No sandbox that a run held is left at the provider when the run is      *)
(* over, unless it is an error that says so.                               *)
(***************************************************************************)
THEOREM NoSandboxStranded == Spec => []NoStrandedSandbox
<1>1. SandboxInv => NoStrandedSandbox
    BY DEF SandboxInv, BoxesFit, NoStrandedSandbox, Excused
<1> QED
    BY <1>1, SandboxInvariant, PTL

-----------------------------------------------------------------------------
(* The model calls of a sandbox.                                           *)

USE RelayAssumption

\* What RelayInv says of one slot.
Sound(c) ==
    /\ Admitted(c) => WithinCeilings(c)
    /\ At(c, "record") => call[c].charged
    /\ call[c].late => ended \/ ~WithinCeilings(c) \/ call[c].at = "idle"
    /\ call[c].late /\ At(c, "idle") => call[c].result = "refused"
    /\ call[c].late => ~Admitted(c) /\ call[c].result \in {"none", "refused"}
    /\ call[c].result = "answered" /\ ~call[c].stream => call[c].charged

LEMMA NoCallIsCall == NoCall \in Call
    BY DEF NoCall, Call

LEMMA InvIsSound == RelayInv <=> RelayTypeOK /\ OvershootInv /\ \A c \in Slots : Sound(c)
    BY DEF RelayInv, AdmissionInv, LateCallsAreRefused, PlainAnswersAreCharged, Sound

-----------------------------------------------------------------------------
(* Counting the calls that may charge.                                     *)

LEMMA MayChargeCount ==
    /\ IsFiniteSet(MayCharge)
    /\ Cardinality(MayCharge) \in Nat
    /\ Cardinality(Slots) \in Nat
    /\ Cardinality(MayCharge) <= Cardinality(Slots)
<1>1. MayCharge \in SUBSET Slots
    BY DEF MayCharge
<1> QED
    BY <1>1, FS_Subset, FS_CardinalityType

LEMMA TimesMonotone ==
    ASSUME NEW m \in Nat, NEW a \in Nat, NEW b \in Nat, a <= b
    PROVE  m * a <= m * b
<1>1. PICK d \in Nat : b = a + d
    <2>1. b - a \in Nat /\ b = a + (b - a)
        OBVIOUS
    <2> QED
        BY <2>1
<1>2. m * b = m * a + m * d /\ m * d \in Nat /\ m * a \in Nat
    BY <1>1
<1> QED
    BY <1>2

(***************************************************************************)
(* A step that charges nothing and lets no other call charge keeps the     *)
(* budget within its bound.                                                *)
(***************************************************************************)
LEMMA NobodyJoins ==
    ASSUME RelayTypeOK, OvershootInv, budget'.used = budget.used, MayCharge' \subseteq MayCharge
    PROVE  OvershootInv'
<1>1. MayCharge' \in SUBSET MayCharge /\ IsFiniteSet(MayCharge)
    BY MayChargeCount
<1>2. IsFiniteSet(MayCharge') /\ Cardinality(MayCharge') <= Cardinality(MayCharge)
    BY <1>1, FS_Subset
<1>3. Cardinality(MayCharge') \in Nat /\ Cardinality(MayCharge) \in Nat /\ Cardinality(Slots) \in Nat
    BY <1>2, MayChargeCount, FS_CardinalityType
<1>4. MaxUse * Cardinality(MayCharge') <= MaxUse * Cardinality(MayCharge)
    BY <1>2, <1>3, TimesMonotone
<1>5. /\ MaxUse * Cardinality(MayCharge') \in Nat
      /\ MaxUse * Cardinality(MayCharge) \in Nat
      /\ MaxUse * Cardinality(Slots) \in Nat
    BY <1>3
<1>6. budget.used \in Nat
    BY DEF RelayTypeOK, Budget
<1>7. budget.used + MaxUse * Cardinality(MayCharge) < Ceiling + MaxUse * Cardinality(Slots)
    BY DEF OvershootInv
<1>8. budget.used + MaxUse * Cardinality(MayCharge') < Ceiling + MaxUse * Cardinality(Slots)
    BY <1>4, <1>5, <1>6, <1>7
<1> QED
    BY <1>8 DEF OvershootInv

(***************************************************************************)
(* A call that reads a budget below its ceiling joins those that may       *)
(* charge, but there are no more of them than slots.                       *)
(***************************************************************************)
LEMMA BelowCeiling ==
    ASSUME RelayTypeOK, budget'.used = budget.used, budget.used < Ceiling
    PROVE  OvershootInv'
<1>1. MayCharge' \in SUBSET Slots
    BY DEF MayCharge
<1>2. Cardinality(MayCharge') <= Cardinality(Slots) /\ IsFiniteSet(MayCharge')
    BY <1>1, FS_Subset
<1>3. Cardinality(MayCharge') \in Nat /\ Cardinality(Slots) \in Nat
    BY <1>2, FS_CardinalityType
<1>4. MaxUse * Cardinality(MayCharge') <= MaxUse * Cardinality(Slots)
    BY <1>2, <1>3, TimesMonotone
<1>5. MaxUse * Cardinality(MayCharge') \in Nat /\ MaxUse * Cardinality(Slots) \in Nat
    BY <1>3
<1>6. budget.used \in Nat
    BY DEF RelayTypeOK, Budget
<1>7. budget.used + MaxUse * Cardinality(MayCharge') < Ceiling + MaxUse * Cardinality(Slots)
    BY <1>4, <1>5, <1>6
<1> QED
    BY <1>7 DEF OvershootInv

\* A call that charges leaves those that may, and pays no more than it was counted for.
LEMMA OneCharges ==
    ASSUME RelayTypeOK, OvershootInv, NEW c \in MayCharge, NEW use \in 0..MaxUse,
           budget'.used = budget.used + use, MayCharge' = MayCharge \ {c}
    PROVE  OvershootInv'
<1> DEFINE n == Cardinality(MayCharge)
<1>1. n \in Nat /\ Cardinality(Slots) \in Nat /\ IsFiniteSet(MayCharge)
    BY MayChargeCount
<1>2. Cardinality(MayCharge') = n - 1 /\ IsFiniteSet(MayCharge')
    BY <1>1, FS_RemoveElement
<1>3. n - 1 \in Nat
    BY <1>2, FS_CardinalityType
<1>4. MaxUse * n = MaxUse * (n - 1) + MaxUse
    BY <1>1, <1>3
<1>5. MaxUse * (n - 1) \in Nat /\ MaxUse * Cardinality(Slots) \in Nat
    BY <1>1, <1>3
<1>6. budget.used \in Nat /\ use \in Nat /\ use <= MaxUse
    BY DEF RelayTypeOK, Budget
<1>7. budget.used + MaxUse * n < Ceiling + MaxUse * Cardinality(Slots)
    BY DEF OvershootInv
<1> HIDE DEF n
<1>8. budget.used + use + MaxUse * (n - 1) < Ceiling + MaxUse * Cardinality(Slots)
    BY <1>4, <1>5, <1>6, <1>7
<1> QED
    BY <1>2, <1>8 DEF OvershootInv

-----------------------------------------------------------------------------
(* The invariant holds at first and every step keeps it.                   *)

LEMMA RelayInitInv == RelayInit => RelayInv
<1> SUFFICES ASSUME RelayInit PROVE RelayInv
    OBVIOUS
<1>1. RelayTypeOK
    BY NoCallIsCall DEF RelayInit, RelayTypeOK, Budget
<1>2. OvershootInv
    <2>1. Cardinality(MayCharge) = 0
        <3>1. MayCharge = {}
            BY DEF MayCharge, RelayInit, NoCall
        <3> QED
            BY <3>1, FS_EmptySet
    <2>2. Cardinality(Slots) \in Nat
        BY FS_CardinalityType
    <2>3. MaxUse * 0 = 0 /\ MaxUse * Cardinality(Slots) \in Nat
        BY <2>2
    <2> QED
        BY <2>1, <2>3 DEF OvershootInv, RelayInit
<1>3. ASSUME NEW c \in Slots PROVE Sound(c)
    BY DEF RelayInit, NoCall, Sound, Admitted, At
<1> QED
    BY <1>1, <1>2, <1>3, InvIsSound

(***************************************************************************)
(* A step that moves one call keeps the invariant if it leaves that call   *)
(* sound and the budget within its bound.                                  *)
(***************************************************************************)
LEMMA OneCallMoves ==
    ASSUME RelayInv, NEW c \in Slots, NEW me \in Call, call' = [call EXCEPT ![c] = me],
           budget' \in Budget, UNCHANGED <<ended, overdue>>, Sound(c)', OvershootInv'
    PROVE  RelayInv'
<1>0. RelayTypeOK /\ \A x \in Slots : Sound(x)
    BY InvIsSound
<1>1. RelayTypeOK'
    BY <1>0 DEF RelayTypeOK
<1>2. ASSUME NEW x \in Slots PROVE Sound(x)'
    <2>1. CASE x = c
        BY <2>1
    <2>2. CASE x # c
        <3>1. call'[x] = call[x] /\ Sound(x)
            BY <1>0, <2>2 DEF RelayTypeOK
        <3> QED
            BY <3>1 DEF Sound, Admitted, At, WithinCeilings
    <2> QED
        BY <2>1, <2>2
<1> QED
    BY <1>1, <1>2 DEF RelayInv, AdmissionInv, LateCallsAreRefused, PlainAnswersAreCharged, Sound

\* The same when the step charges nothing and its call cannot charge what it could not before.
LEMMA OneCallGoesOn ==
    ASSUME RelayInv, NEW c \in Slots, NEW me \in Call, call' = [call EXCEPT ![c] = me],
           budget' \in Budget, budget'.used = budget.used, UNCHANGED <<ended, overdue>>, Sound(c)',
           me.at \in {"check", "request", "charge"} /\ me.seen < Ceiling => c \in MayCharge
    PROVE  RelayInv'
<1>1. RelayTypeOK /\ OvershootInv
    BY DEF RelayInv
<1>2. MayCharge' \subseteq MayCharge
    BY <1>1 DEF MayCharge, RelayTypeOK
<1>3. OvershootInv'
    BY <1>1, <1>2, NobodyJoins
<1> QED
    BY <1>3, OneCallMoves

\* The same when no call moves.
LEMMA NoCallMoves ==
    ASSUME RelayInv, UNCHANGED call, budget' \in Budget, budget'.used = budget.used,
           ended' \in BOOLEAN, overdue' \in BOOLEAN, ended => ended'
    PROVE  RelayInv'
<1>0. RelayTypeOK /\ OvershootInv /\ \A x \in Slots : Sound(x)
    BY InvIsSound
<1>1. RelayTypeOK'
    BY <1>0 DEF RelayTypeOK
<1>2. MayCharge' \subseteq MayCharge
    BY DEF MayCharge
<1>3. OvershootInv'
    BY <1>0, <1>2, NobodyJoins
<1>4. ASSUME NEW x \in Slots PROVE Sound(x)'
    BY <1>0 DEF Sound, Admitted, At, WithinCeilings
<1> QED
    BY <1>1, <1>3, <1>4 DEF RelayInv, AdmissionInv, LateCallsAreRefused, PlainAnswersAreCharged, Sound

LEMMA EnvironmentStep ==
    ASSUME RelayInv, Environment
    PROVE  RelayInv'
<1>0. budget \in Budget /\ ended \in BOOLEAN /\ overdue \in BOOLEAN
    BY DEF RelayInv, RelayTypeOK
<1>1. CASE EndOperation
    BY <1>0, <1>1, NoCallMoves DEF EndOperation
<1>2. CASE CheckBeforeIssue
    BY <1>0, <1>2, NoCallMoves DEF CheckBeforeIssue, Budget
<1>3. CASE Issue
    BY <1>0, <1>3, NoCallMoves DEF Issue, Budget
<1>4. CASE RevokeToken
    BY <1>0, <1>4, NoCallMoves DEF RevokeToken, RevokeRow, Budget
<1>5. CASE DeadlinePasses
    BY <1>0, <1>5, NoCallMoves DEF DeadlinePasses
<1> QED
    BY <1>1, <1>2, <1>3, <1>4, <1>5 DEF Environment

(***************************************************************************)
(* Authenticate.                                                           *)
(***************************************************************************)
LEMMA ReadBudgetStep ==
    ASSUME RelayInv, NEW c \in Slots, ReadBudget(c)
    PROVE  RelayInv'
<1>0. RelayTypeOK /\ OvershootInv /\ Sound(c)
    BY InvIsSound
<1>1. PICK stream \in BOOLEAN :
        call' = [call EXCEPT ![c] =
                   IF budget.revoked
                   THEN [NoCall EXCEPT !.result = "refused", !.stream = stream, !.late = TRUE]
                   ELSE [NoCall EXCEPT !.at = "check", !.seen = budget.used, !.expired = overdue,
                                       !.stream = stream, !.late = MustBeRefused]]
    BY DEF ReadBudget
<1>2. UNCHANGED <<ended, overdue, budget>> /\ At(c, "idle")
    BY DEF ReadBudget
<1>3. CASE budget.revoked
    <2> DEFINE me == [NoCall EXCEPT !.result = "refused", !.stream = stream, !.late = TRUE]
    <2>1. me \in Call
        BY NoCallIsCall DEF Call
    <2>2. call' = [call EXCEPT ![c] = me]
        BY <1>1, <1>3
    <2>3. me.at = "idle" /\ me.result = "refused"
        BY DEF NoCall
    <2>4. call'[c] = me
        BY <1>0, <2>2 DEF RelayTypeOK
    <2> HIDE DEF me
    <2>5. Sound(c)'
        BY <2>3, <2>4 DEF Sound, Admitted, At, WithinCeilings
    <2> QED
        BY <1>0, <1>2, <2>1, <2>2, <2>3, <2>5, OneCallGoesOn DEF RelayTypeOK
<1>4. CASE ~budget.revoked
    <2> DEFINE me == [NoCall EXCEPT !.at = "check", !.seen = budget.used, !.expired = overdue,
                                    !.stream = stream, !.late = MustBeRefused]
    <2>0. MustBeRefused \in BOOLEAN /\ (MustBeRefused => ended \/ overdue \/ budget.used >= Ceiling)
        BY <1>0, <1>4 DEF MustBeRefused, RelayTypeOK, Budget
    <2>1. me \in Call
        <3>1. budget.used \in Nat /\ overdue \in BOOLEAN
            BY <1>0 DEF RelayTypeOK, Budget
        <3> QED
            BY <2>0, <3>1, NoCallIsCall DEF Call
    <2>2. call' = [call EXCEPT ![c] = me]
        BY <1>1, <1>4
    <2>3. /\ me.at = "check" /\ me.seen = budget.used /\ me.expired = overdue
          /\ me.late = MustBeRefused /\ me.result = "none" /\ ~me.charged
        BY DEF NoCall
    <2>4. call'[c] = me
        BY <1>0, <2>2 DEF RelayTypeOK
    <2> HIDE DEF me
    <2>5. Sound(c)'
        <3>1. ~(budget.used < Ceiling) <=> budget.used >= Ceiling
            BY <1>0 DEF RelayTypeOK, Budget
        <3> QED
            BY <1>2, <2>0, <2>3, <2>4, <3>1 DEF Sound, Admitted, At, WithinCeilings
    <2>6. CASE budget.used < Ceiling
        BY <1>0, <1>2, <2>1, <2>2, <2>5, <2>6, BelowCeiling, OneCallMoves DEF RelayTypeOK
    <2>7. CASE ~(budget.used < Ceiling)
        BY <1>0, <1>2, <2>1, <2>2, <2>3, <2>5, <2>7, OneCallGoesOn DEF RelayTypeOK
    <2> QED
        BY <2>6, <2>7
<1> QED
    BY <1>3, <1>4

\* A call that moves to another point keeps all the rest.
LEMMA GotoStep ==
    ASSUME RelayInv, NEW c \in Slots, NEW point \in {"revoke_ended", "request", "revoke"},
           Goto(c, point), UNCHANGED <<ended, overdue, budget>>,
           call[c].at \in {"check", "request", "charge", "record"},
           point = "revoke_ended" => ended,
           point = "request" => At(c, "check") /\ ~ended /\ WithinCeilings(c),
           point = "revoke" => Admitted(c)
    PROVE  RelayInv'
<1> DEFINE me == [call[c] EXCEPT !.at = point]
<1>0. RelayTypeOK /\ Sound(c) /\ call[c] \in Call
    BY InvIsSound DEF RelayTypeOK
<1>1. me \in Call
    BY <1>0 DEF Call
<1>2. call' = [call EXCEPT ![c] = me]
    BY DEF Goto
<1>3. /\ me.at = point /\ me.seen = call[c].seen /\ me.expired = call[c].expired
      /\ me.late = call[c].late /\ me.result = call[c].result
      /\ me.charged = call[c].charged /\ me.stream = call[c].stream
    BY <1>0 DEF Call
<1>4. call'[c] = me
    BY <1>0, <1>2 DEF RelayTypeOK
<1> HIDE DEF me
<1>5. Sound(c)'
    BY <1>0, <1>3, <1>4 DEF Sound, Admitted, At, WithinCeilings
<1>6. me.at \in {"check", "request", "charge"} /\ me.seen < Ceiling => c \in MayCharge
    BY <1>3 DEF MayCharge, At
<1> QED
    BY <1>0, <1>1, <1>2, <1>5, <1>6, OneCallGoesOn DEF RelayTypeOK

(***************************************************************************)
(* A call that is over: it was refused for a reason, or it was admitted    *)
(* and so is not late, and a plain answer has been charged.                *)
(***************************************************************************)
LEMMA FinishStep ==
    ASSUME RelayInv, NEW c \in Slots, NEW result \in {"refused", "failed", "answered", "broken"},
           Finish(c, result), UNCHANGED <<ended, overdue>>,
           budget' \in Budget, budget'.used = budget.used,
           result # "refused" => Admitted(c),
           result = "answered" /\ ~call[c].stream => call[c].charged
    PROVE  RelayInv'
<1> DEFINE me == [NoCall EXCEPT !.result = result, !.stream = call[c].stream,
                                !.late = call[c].late, !.charged = call[c].charged]
<1>0. RelayTypeOK /\ Sound(c) /\ call[c] \in Call
    BY InvIsSound DEF RelayTypeOK
<1>1. me \in Call
    <2>1. call[c].stream \in BOOLEAN /\ call[c].late \in BOOLEAN /\ call[c].charged \in BOOLEAN
        BY <1>0 DEF Call
    <2> QED
        BY <2>1, NoCallIsCall DEF Call
<1>2. call' = [call EXCEPT ![c] = me]
    BY DEF Finish
<1>3. /\ me.at = "idle" /\ me.result = result /\ me.late = call[c].late
      /\ me.charged = call[c].charged /\ me.stream = call[c].stream
    BY DEF NoCall
<1>4. call'[c] = me
    BY <1>0, <1>2 DEF RelayTypeOK
<1> HIDE DEF me
<1>5. call[c].late => result = "refused"
    BY <1>0 DEF Sound
<1>6. Sound(c)'
    BY <1>3, <1>4, <1>5 DEF Sound, Admitted, At, WithinCeilings
<1> QED
    BY <1>0, <1>1, <1>2, <1>3, <1>6, OneCallGoesOn


LEMMA ProviderAnswersStep ==
    ASSUME RelayInv, NEW c \in Slots, ProviderAnswers(c)
    PROVE  RelayInv'
<1>0. RelayTypeOK /\ Sound(c) /\ call[c] \in Call
    BY InvIsSound DEF RelayTypeOK
<1>1. PICK use \in 1..MaxUse : call' = [call EXCEPT ![c].at = "charge", ![c].use = use]
    BY DEF ProviderAnswers
<1> DEFINE me == [call[c] EXCEPT !.at = "charge", !.use = use]
<1>2. me \in Call
    <2>1. use \in 0..MaxUse
        OBVIOUS
    <2> QED
        BY <1>0, <2>1 DEF Call
<1>3. call' = [call EXCEPT ![c] = me]
    BY <1>0, <1>1 DEF RelayTypeOK
<1>4. /\ me.at = "charge" /\ me.seen = call[c].seen /\ me.expired = call[c].expired
      /\ me.late = call[c].late /\ me.result = call[c].result
      /\ me.charged = call[c].charged /\ me.stream = call[c].stream
    BY <1>0 DEF Call
<1>5. call'[c] = me
    BY <1>0, <1>3 DEF RelayTypeOK
<1> HIDE DEF me
<1>6. At(c, "request") /\ UNCHANGED <<ended, overdue, budget>>
    BY DEF ProviderAnswers
<1>7. Sound(c)'
    BY <1>0, <1>4, <1>5, <1>6 DEF Sound, Admitted, At, WithinCeilings
<1>8. me.seen < Ceiling => c \in MayCharge
    BY <1>4, <1>6 DEF MayCharge, At
<1> QED
    BY <1>0, <1>2, <1>3, <1>6, <1>7, <1>8, OneCallGoesOn DEF RelayTypeOK

(***************************************************************************)
(* A charge: the call was admitted, so it is one of those counted.         *)
(***************************************************************************)
LEMMA ChargeStep ==
    ASSUME RelayInv, NEW c \in Slots, Charge(c)
    PROVE  RelayInv'
<1>0. RelayTypeOK /\ OvershootInv /\ Sound(c) /\ call[c] \in Call /\ budget \in Budget
    BY InvIsSound DEF RelayTypeOK
<1>1. /\ At(c, "charge") /\ UNCHANGED <<ended, overdue>>
      /\ budget' = [budget EXCEPT !.used = @ + call[c].use]
      /\ call' = [call EXCEPT ![c].at = "record", ![c].charged = TRUE]
    BY DEF Charge
<1> DEFINE me == [call[c] EXCEPT !.at = "record", !.charged = TRUE]
<1>2. me \in Call
    BY <1>0 DEF Call
<1>3. call' = [call EXCEPT ![c] = me]
    BY <1>0, <1>1 DEF RelayTypeOK
<1>4. /\ me.at = "record" /\ me.seen = call[c].seen /\ me.expired = call[c].expired
      /\ me.late = call[c].late /\ me.result = call[c].result /\ me.charged
    BY <1>0 DEF Call
<1>5. call'[c] = me /\ \A x \in Slots \ {c} : call'[x] = call[x]
    BY <1>0, <1>3 DEF RelayTypeOK
<1> HIDE DEF me
<1>6. Sound(c)'
    BY <1>0, <1>1, <1>4, <1>5 DEF Sound, Admitted, At, WithinCeilings
<1>7. call[c].use \in 0..MaxUse /\ budget.used \in Nat
    BY <1>0 DEF Call, Budget
<1>8. budget' \in Budget /\ budget'.used = budget.used + call[c].use
    BY <1>0, <1>1, <1>7 DEF Budget
<1>9. c \in MayCharge
    BY <1>0, <1>1 DEF MayCharge, Sound, Admitted, At, WithinCeilings
<1>10. MayCharge' = MayCharge \ {c}
    BY <1>4, <1>5 DEF MayCharge
<1>11. OvershootInv'
    BY <1>0, <1>7, <1>8, <1>9, <1>10, OneCharges
<1> QED
    BY <1>1, <1>2, <1>3, <1>6, <1>8, <1>11, OneCallMoves

LEMMA CallStepInv ==
    ASSUME RelayInv, NEW c \in Slots, CallStep(c)
    PROVE  RelayInv'
<1>0. RelayTypeOK /\ Sound(c) /\ budget \in Budget
    BY InvIsSound DEF RelayTypeOK
<1>1. CASE ReadBudget(c)
    BY <1>1, ReadBudgetStep
<1>2. CASE CheckOperation(c)
    <2>1. At(c, "check") /\ UNCHANGED <<ended, overdue, budget>>
        BY <1>2 DEF CheckOperation
    <2>2. CASE ended /\ Goto(c, "revoke_ended")
        BY <2>1, <2>2, GotoStep DEF At
    <2>3. CASE ~ended /\ WithinCeilings(c) /\ Goto(c, "request")
        BY <2>1, <2>3, GotoStep DEF At
    <2>4. CASE Finish(c, "refused")
        BY <1>0, <2>1, <2>4, FinishStep
    <2> QED
        BY <1>2, <2>2, <2>3, <2>4 DEF CheckOperation
<1>3. CASE RevokeEnded(c)
    <2>1. budget' \in Budget /\ budget'.used = budget.used
        BY <1>0, <1>3 DEF RevokeEnded, RevokeRow, Budget
    <2> QED
        BY <1>3, <2>1, FinishStep DEF RevokeEnded
<1>4. CASE ProviderFails(c)
    BY <1>0, <1>4, FinishStep DEF ProviderFails, Admitted, At
<1>5. CASE ProviderAnswers(c)
    BY <1>5, ProviderAnswersStep
<1>6. CASE UsageIsMissing(c)
    BY <1>6, GotoStep DEF UsageIsMissing, Admitted, At
<1>7. CASE StreamBreaks(c)
    BY <1>0, <1>7, FinishStep DEF StreamBreaks, Admitted, At
<1>8. CASE Charge(c)
    BY <1>8, ChargeStep
<1>9. CASE Record(c)
    BY <1>0, <1>9, FinishStep DEF Record, Admitted, At, Sound
<1>10. CASE AccountingFails(c)
    BY <1>10, GotoStep DEF AccountingFails, Admitted, At
<1>11. CASE RevokeAfterFailure(c)
    <2>1. budget' \in Budget /\ budget'.used = budget.used
        BY <1>0, <1>11 DEF RevokeAfterFailure, RevokeRow, Budget
    <2>2. CASE call[c].stream
        BY <1>11, <2>1, <2>2, FinishStep DEF RevokeAfterFailure, Admitted, At
    <2>3. CASE ~call[c].stream
        BY <1>11, <2>1, <2>3, FinishStep DEF RevokeAfterFailure, Admitted, At
    <2> QED
        BY <2>2, <2>3
<1> QED
    BY <1>1, <1>2, <1>3, <1>4, <1>5, <1>6, <1>7, <1>8, <1>9, <1>10, <1>11 DEF CallStep

(***************************************************************************)
(* RelayInv holds in every state, for any number of slots, any ceiling and *)
(* any cost of a call.                                                     *)
(***************************************************************************)
THEOREM RelayInvariant == RelaySpec => []RelayInv
<1>1. RelayInv /\ [RelayNext]_relayVars => RelayInv'
    <2> SUFFICES ASSUME RelayInv, [RelayNext]_relayVars PROVE RelayInv'
        OBVIOUS
    <2>1. CASE Environment
        BY <2>1, EnvironmentStep
    <2>2. ASSUME NEW c \in Slots, CallStep(c) PROVE RelayInv'
        BY <2>2, CallStepInv
    <2>3. CASE UNCHANGED relayVars
        BY <2>3, NoCallMoves DEF relayVars, RelayInv, RelayTypeOK
    <2> QED
        BY <2>1, <2>2, <2>3 DEF RelayNext
<1> QED
    BY <1>1, RelayInitInv, PTL DEF RelaySpec

(***************************************************************************)
(* However many calls a sandbox makes, several at a time, what they cost   *)
(* together stays below the ceiling and one call for each slot.            *)
(***************************************************************************)
THEOREM OvershootBound == RelaySpec => []OvershootIsBounded
<1>1. RelayInv => OvershootIsBounded
    <2> SUFFICES ASSUME RelayInv PROVE OvershootIsBounded
        OBVIOUS
    <2>1. Cardinality(MayCharge) \in Nat /\ Cardinality(Slots) \in Nat
        BY MayChargeCount
    <2>2. MaxUse * Cardinality(MayCharge) \in Nat /\ MaxUse * Cardinality(Slots) \in Nat
        BY <2>1
    <2>3. budget.used \in Nat
        BY DEF RelayInv, RelayTypeOK, Budget
    <2> QED
        BY <2>2, <2>3 DEF RelayInv, OvershootInv, OvershootIsBounded
<1> QED
    BY <1>1, RelayInvariant, PTL

(***************************************************************************)
(* A call that starts after the operation ended, the deadline passed, the  *)
(* token was revoked or the ceiling was reached is never forwarded.        *)
(***************************************************************************)
THEOREM LateCallsRefused == RelaySpec => []LateCallsAreRefused
<1>1. RelayInv => LateCallsAreRefused
    BY DEF RelayInv
<1> QED
    BY <1>1, RelayInvariant, PTL

\* A plain answer is handed out only after its charge.
THEOREM PlainAnswersCharged == RelaySpec => []PlainAnswersAreCharged
<1>1. RelayInv => PlainAnswersAreCharged
    BY DEF RelayInv
<1> QED
    BY <1>1, RelayInvariant, PTL

=============================================================================
