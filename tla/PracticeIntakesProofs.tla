------------------------- MODULE PracticeIntakesProofs -------------------------
(***************************************************************************)
(* Proofs about PracticeIntakes for any pages, records, questions and      *)
(* drafts.  IntakeWhole says of every page what it holds at each point of  *)
(* its request, races or not; Undisturbed says what more is true as long   *)
(* as no two requests have worked on one record at the same time: what a   *)
(* page holds is then still in the store.                                  *)
(***************************************************************************)
EXTENDS PracticeIntakes, SequenceTheorems, TLAPS

USE IntakeAssumption

-----------------------------------------------------------------------------
(* The invariant.                                                          *)

\* A row fit for the generation; a draft that failed has no questions.
RowFits(row) ==
    /\ row.answers \subseteq QuestionsOf(row.draft)
    /\ row.status = "completed" => row.draft # 0 /\ row.answers = QuestionsOf(row.draft)
    /\ row.error => row.draft = 0

\* The points at which a page is bound to a stored record, and those before it is.
Bound == {"draft", "shown", "get", "put", "launched"}

\* What a page holds at each point of its request.
PageFits(p) ==
    /\ RowFits(p.row)
    /\ p.at \in Bound => p.id \in Records
    /\ p.at \in {"form", "check", "create"} => p.id = None
    /\ p.at = "draft" => p.row.status = "pending" /\ p.row.draft = 0
    /\ p.at = "put" => p.row.status # "absent"
    /\ p.at = "get" => p.ask # "none" /\ (p.ask = "answer" => p.question \in QuestionIds)

IntakeWhole ==
    /\ TypeOK
    /\ \A i \in Records : RowFits(records[i])
    /\ \A t \in Tabs : PageFits(page[t])
    /\ \A t \in Tabs : page[t].at \in Bound => records[page[t].id] # Absent

\* What a page holds agrees with the record of its id as it is stored.
PageAgrees(p, row) ==
    /\ p.at \in {"form", "find", "check", "create", "draft", "launched"} => p.chosen = {}
    /\ p.at \in {"shown", "get"} /\ ~(p.row.status = "pending" /\ p.row.draft # 0) => p.chosen = {}
    /\ p.at \in {"shown", "get", "put"} => p.chosen \subseteq row.answers
    /\ p.at = "launched" => row.status \in Closed
    /\ p.at = "draft" => row = p.row
    /\ p.at = "put" =>
           row.status = "pending" /\ p.row.draft = row.draft /\ row.answers \subseteq p.row.answers

Writing(p, i) == p.at \in {"draft", "put"} /\ p.id = i

Undisturbed ==
    ~raced =>
        /\ \A t \in Tabs : PageAgrees(page[t], records[page[t].id])
        /\ \A i \in Records, t, u \in Tabs : Writing(page[t], i) /\ Writing(page[u], i) => t = u

Inv == IntakeWhole /\ Undisturbed

LEMMA FormFits == Form \in Page /\ PageFits(Form) /\ \A row : PageAgrees(Form, row)
<1>1. Absent \in Record /\ RowFits(Absent)
    BY DEF Absent, Record, RowFits
<1>2. Form \in Page
    BY <1>1 DEF Form, Page, Points
<1> QED
    BY <1>1, <1>2 DEF Form, PageFits, PageAgrees, Bound

LEMMA FreshFits ==
    /\ Fresh \in Record /\ RowFits(Fresh) /\ Fresh # Absent
    /\ Fresh.status = "pending" /\ Fresh.draft = 0 /\ Fresh.answers = {}
<1>1. Absent \in Record /\ Absent.draft = 0 /\ Absent.answers = {} /\ ~Absent.error /\ Absent.status = "absent"
    BY DEF Absent, Record
<1>2. /\ Fresh \in Record /\ Fresh.draft = 0 /\ Fresh.answers = {} /\ ~Fresh.error
      /\ Fresh.status = "pending"
    BY <1>1 DEF Fresh, Record
<1> QED
    BY <1>1, <1>2 DEF RowFits

LEMMA InitInv == Init => Inv
<1> SUFFICES ASSUME Init PROVE Inv
    OBVIOUS
<1>1. Absent \in Record /\ RowFits(Absent)
    BY DEF Absent, Record, RowFits
<1>2. TypeOK
    <2>1. Range(recent) = {i \in Records : records[i] # Absent}
        BY DEF Init, Range
    <2>2. recent \in Seq(Records)
        BY EmptySeq DEF Init
    <2>3. records \in [Records -> Record] /\ page \in [Tabs -> Page]
        BY <1>1, FormFits DEF Init
    <2>4. drafts \in 0..MaxDrafts
        BY DEF Init
    <2>5. familiar \in BOOLEAN /\ raced \in BOOLEAN
        BY DEF Init
    <2> QED
        BY <2>1, <2>2, <2>3, <2>4, <2>5 DEF TypeOK
<1>3. IntakeWhole
    BY <1>1, <1>2, FormFits DEF Init, IntakeWhole, Form, Bound
<1>4. Undisturbed
    BY FormFits DEF Init, Undisturbed, Writing, Form
<1> QED
    BY <1>3, <1>4 DEF Inv

-----------------------------------------------------------------------------
(* The store.                                                              *)

LEMMA ComesToFront ==
    ASSUME NEW s \in Seq(Records), NEW i \in Records
    PROVE  <<i>> \o s \in Seq(Records) /\ Range(<<i>> \o s) = {i} \union Range(s)
<1> DEFINE one == <<i>>
<1>1. one \in Seq(Records) /\ Range(one) = {i}
    BY DEF Range
<1> HIDE DEF one
<1>2. one \o s \in Seq(Records) /\ Range(one \o s) = {i} \union Range(s)
    BY <1>1, ConcatProperties, RangeConcatenation
<1> QED
    BY <1>2 DEF one

\* A record that is written moves to the front.
LEMMA MovesToFront ==
    ASSUME NEW s \in Seq(Records), NEW k \in DOMAIN s
    PROVE  /\ <<s[k]>> \o RemoveAt(s, k) \in Seq(Records)
           /\ Range(<<s[k]>> \o RemoveAt(s, k)) = Range(s)
<1> DEFINE n == Len(s)
           before == SubSeq(s, 1, k - 1)
           after == SubSeq(s, k + 1, n)
<1>1. n \in Nat /\ k \in 1..n /\ \A j \in 1..n : s[j] \in Records
    OBVIOUS
<1>2. /\ before \in Seq(Records)
      /\ Len(before) = k - 1
      /\ \A j \in 1..(k - 1) : before[j] = s[j]
    <2>1. 1 \in Int /\ k - 1 \in Int /\ \A j \in 1..(k - 1) : s[j] \in Records
        BY <1>1
    <2>2. /\ before \in Seq(Records)
          /\ Len(before) = IF 1 <= k - 1 THEN (k - 1) - 1 + 1 ELSE 0
          /\ \A j \in 1..((k - 1) - 1 + 1) : before[j] = s[1 + j - 1]
        BY <2>1, SubSeqProperties
    <2> HIDE DEF before
    <2> QED
        BY <1>1, <2>2
<1>3. /\ after \in Seq(Records)
      /\ Len(after) = n - k
      /\ \A j \in 1..(n - k) : after[j] = s[k + j]
    <2>1. k + 1 \in Int /\ n \in Int /\ \A j \in (k + 1)..n : s[j] \in Records
        BY <1>1
    <2>2. /\ after \in Seq(Records)
          /\ Len(after) = IF k + 1 <= n THEN n - (k + 1) + 1 ELSE 0
          /\ \A j \in 1..(n - (k + 1) + 1) : after[j] = s[(k + 1) + j - 1]
        BY <2>1, SubSeqProperties
    <2> HIDE DEF after
    <2> QED
        BY <1>1, <2>2
<1> HIDE DEF before, after
<1>4. Range(before) = {s[j] : j \in 1..(k - 1)}
    BY <1>1, <1>2, RangeEquality
<1>5. Range(after) = {s[j] : j \in (k + 1)..n}
    <2>1. Range(after) = {after[j] : j \in 1..(n - k)}
        BY <1>3, RangeEquality
    <2>2. \A j \in (k + 1)..n : j - k \in 1..(n - k) /\ s[j] = after[j - k]
        BY SMTT(60), <1>1, <1>3
    <2>3. \A j \in 1..(n - k) : k + j \in (k + 1)..n /\ after[j] = s[k + j]
        BY <1>1, <1>3
    <2>4. \A x : x \in Range(after) => x \in {s[j] : j \in (k + 1)..n}
        BY <2>1, <2>3
    <2>5. \A x : x \in {s[j] : j \in (k + 1)..n} => x \in Range(after)
        BY <2>1, <2>2
    <2> QED
        BY <2>4, <2>5
<1>6. RemoveAt(s, k) = before \o after
    BY DEF RemoveAt, before, after
<1>7. before \o after \in Seq(Records) /\ Range(before \o after) = Range(before) \union Range(after)
    BY <1>2, <1>3, ConcatProperties, RangeConcatenation
<1>8. s[k] \in Records
    BY <1>1
<1>9. /\ <<s[k]>> \o (before \o after) \in Seq(Records)
      /\ Range(<<s[k]>> \o (before \o after)) = {s[k]} \union (Range(before) \union Range(after))
    BY <1>7, <1>8, ComesToFront
<1>10. Range(s) = {s[j] : j \in 1..n}
    BY RangeEquality
<1>11. 1..n = {k} \union 1..(k - 1) \union (k + 1)..n
    BY <1>1
<1> QED
    BY <1>4, <1>5, <1>6, <1>9, <1>10, <1>11

\* What Create and Update leave in the store.
LEMMA WriteStores ==
    ASSUME TypeOK, NEW i \in Records, NEW row \in Record, row # Absent, Write(i, row)
    PROVE  /\ records' \in [Records -> Record]
           /\ recent' \in Seq(Records)
           /\ Range(recent') = {j \in Records : records'[j] # Absent}
           /\ records'[i] = row
           /\ \A j \in Records \ {i} : records'[j] = records[j]
<1>1. records \in [Records -> Record] /\ records' = [records EXCEPT ![i] = row]
    BY DEF TypeOK, Write
<1>2. recent \in Seq(Records) /\ Range(recent) = {j \in Records : records[j] # Absent}
    BY DEF TypeOK
<1>3. recent' \in Seq(Records) /\ Range(recent') = {i} \union Range(recent)
    <2>1. CASE i \in Range(recent)
        <3>1. PICK k \in DOMAIN recent : recent[k] = i /\ recent' = <<i>> \o RemoveAt(recent, k)
            BY <2>1 DEF Write
        <3>2. recent' \in Seq(Records) /\ Range(recent') = Range(recent)
            BY <1>2, <3>1, MovesToFront
        <3> QED
            BY <2>1, <3>2
    <2>2. CASE i \notin Range(recent)
        <3>1. recent' = <<i>> \o recent
            BY <2>2 DEF Write
        <3> QED
            BY <1>2, <3>1, ComesToFront
    <2> QED
        BY <2>1, <2>2
<1> QED
    BY <1>1, <1>2, <1>3

-----------------------------------------------------------------------------
(* The shape of a step.                                                    *)

\* The page t moves to p; the store may have a new record, or a new row for the record
\* that t was writing, whose answers the new row keeps.
LEMMA StepKeeps ==
    ASSUME Inv, NEW t \in Tabs, NEW p \in Page, page' = [page EXCEPT ![t] = p],
           records' \in [Records -> Record],
           recent' \in Seq(Records), Range(recent') = {i \in Records : records'[i] # Absent},
           drafts' \in 0..MaxDrafts, familiar' \in BOOLEAN, raced' \in BOOLEAN, raced => raced',
           PageFits(p), p.at \in Bound => records'[p.id] # Absent,
           \A i \in Records : RowFits(records'[i]),
           \A i \in Records : records[i] # Absent => records'[i] # Absent,
           ~raced' => PageAgrees(p, records'[p.id]),
           ~raced' => \A i \in Records :
               \/ records'[i] = records[i]
               \/ records[i] = Absent
               \/ Writing(page[t], i) /\ records[i].answers \subseteq records'[i].answers,
           ~raced' => \A i \in Records :
               Writing(p, i) => Writing(page[t], i) \/ \A u \in Tabs \ {t} : ~Writing(page[u], i)
    PROVE  Inv'
<1>0. page \in [Tabs -> Page] /\ records \in [Records -> Record]
    BY DEF Inv, IntakeWhole, TypeOK
<1>1. page' \in [Tabs -> Page] /\ page'[t] = p /\ \A u \in Tabs \ {t} : page'[u] = page[u]
    BY <1>0
<1>2. TypeOK'
    BY <1>1 DEF TypeOK
<1>3. \A u \in Tabs : PageFits(page'[u])
    BY <1>1 DEF Inv, IntakeWhole
<1>4. ASSUME NEW u \in Tabs, page'[u].at \in Bound
      PROVE  records'[page'[u].id] # Absent
    <2>1. CASE u = t
        BY <1>1, <1>4, <2>1
    <2>2. CASE u # t
        <3>1. page[u].at \in Bound /\ page'[u] = page[u]
            BY <1>1, <1>4, <2>2
        <3>2. page[u].id \in Records /\ records[page[u].id] # Absent
            BY <3>1 DEF Inv, IntakeWhole, PageFits
        <3> QED
            BY <3>1, <3>2
    <2> QED
        BY <2>1, <2>2
<1>5. IntakeWhole'
    BY <1>2, <1>3, <1>4 DEF IntakeWhole
<1>6. ASSUME ~raced', NEW u \in Tabs
      PROVE  PageAgrees(page'[u], records'[page'[u].id])
    <2>1. CASE u = t
        BY <1>1, <1>6, <2>1
    <2>2. CASE u # t
        <3> DEFINE o == page[u]
        <3>1. page'[u] = o
            BY <1>1, <2>2
        <3>2. PageAgrees(o, records[o.id])
            BY <1>6 DEF Inv, Undisturbed
        <3>3. CASE o.at \notin Bound
            BY <3>1, <3>2, <3>3 DEF PageAgrees, Bound
        <3>4. CASE o.at \in Bound
            <4>1. o.id \in Records /\ records[o.id] # Absent
                BY <3>4 DEF Inv, IntakeWhole, PageFits
            <4>2. CASE records'[o.id] = records[o.id]
                BY <3>1, <3>2, <4>2
            <4>3. CASE /\ Writing(page[t], o.id)
                       /\ records[o.id].answers \subseteq records'[o.id].answers
                <5>1. ~Writing(o, o.id)
                    BY <1>6, <2>2, <4>1, <4>3 DEF Inv, Undisturbed
                <5>2. records[o.id].status = "pending"
                    <6>1. PageAgrees(page[t], records[page[t].id]) /\ PageFits(page[t])
                        BY <1>6 DEF Inv, Undisturbed, IntakeWhole
                    <6> QED
                        BY <4>3, <6>1 DEF PageAgrees, PageFits, Writing
                <5>3. o.at \in {"shown", "get"}
                    BY <3>2, <3>4, <5>1, <5>2 DEF Writing, Bound, PageAgrees, Closed
                <5> HIDE DEF o
                <5> QED
                    BY <3>1, <3>2, <4>3, <5>3 DEF PageAgrees
            <4> HIDE DEF o
            <4> QED
                BY <1>6, <4>1, <4>2, <4>3
        <3> QED
            BY <3>3, <3>4
    <2> QED
        BY <2>1, <2>2
<1>7. ASSUME ~raced', NEW i \in Records, NEW u \in Tabs, NEW v \in Tabs,
             Writing(page'[u], i), Writing(page'[v], i)
      PROVE  u = v
    <2>1. \A x, y \in Tabs : Writing(page[x], i) /\ Writing(page[y], i) => x = y
        BY <1>7 DEF Inv, Undisturbed
    <2>2. \A x \in Tabs \ {t} : Writing(page'[x], i) => Writing(page[x], i)
        BY <1>1
    <2>3. Writing(page'[t], i) =>
              Writing(page[t], i) \/ \A x \in Tabs \ {t} : ~Writing(page[x], i)
        BY <1>1, <1>7
    <2> QED
        BY <1>7, <2>1, <2>2, <2>3
<1>8. Undisturbed'
    BY <1>6, <1>7 DEF Undisturbed
<1> QED
    BY <1>5, <1>8 DEF Inv

\* A step that leaves the store alone.
LEMMA QuietStep ==
    ASSUME Inv, NEW t \in Tabs, NEW p \in Page, page' = [page EXCEPT ![t] = p],
           UNCHANGED <<records, recent, drafts, familiar>>, raced' \in BOOLEAN, raced => raced',
           PageFits(p), p.at \in Bound => records[p.id] # Absent,
           ~raced' => PageAgrees(p, records[p.id]),
           ~raced' => \A i \in Records :
               Writing(p, i) => Writing(page[t], i) \/ \A u \in Tabs \ {t} : ~Writing(page[u], i)
    PROVE  Inv'
<1>1. /\ records' = records /\ recent' = recent /\ drafts' = drafts /\ familiar' = familiar
      /\ records \in [Records -> Record] /\ recent \in Seq(Records)
      /\ Range(recent) = {i \in Records : records[i] # Absent}
      /\ drafts \in 0..MaxDrafts /\ familiar \in BOOLEAN
      /\ \A i \in Records : RowFits(records[i])
    BY DEF Inv, IntakeWhole, TypeOK
<1> QED
    BY <1>1, StepKeeps

\* What a step starts from.
LEMMA InvGives ==
    ASSUME Inv, NEW t \in Tabs
    PROVE  /\ TypeOK /\ page \in [Tabs -> Page] /\ records \in [Records -> Record]
           /\ page[t] \in Page /\ PageFits(page[t]) /\ page[t].row \in Record
           /\ page[t].at \in Bound => page[t].id \in Records /\ records[page[t].id] # Absent
           /\ \A i \in Records : RowFits(records[i])
           /\ raced \in BOOLEAN /\ drafts \in 0..MaxDrafts
           /\ ~raced => PageAgrees(page[t], records[page[t].id])
    BY DEF Inv, IntakeWhole, TypeOK, Undisturbed, PageFits, Page

\* The page that an answer leads to.
AnsweredPage(t, i, row) ==
    IF row.status \in Closed /\ page[t].ask # "answer"
    THEN [Form EXCEPT !.at = "launched", !.id = i, !.row = row]
    ELSE Shown(t, i, row)

LEMMA ShownFits ==
    ASSUME NEW t \in Tabs, page[t] \in Page, NEW i \in Records, NEW row \in Record, RowFits(row)
    PROVE  /\ Shown(t, i, row) \in Page /\ PageFits(Shown(t, i, row))
           /\ Shown(t, i, row).at = "shown" /\ Shown(t, i, row).id = i
           /\ page[t].chosen \subseteq row.answers => PageAgrees(Shown(t, i, row), row)
<1> DEFINE p == page[t]
           chosen == IF row.status = "pending" /\ row.draft # 0 THEN p.chosen \union row.answers ELSE {}
           q == [p EXCEPT !.at = "shown", !.id = i, !.row = row, !.ask = "none", !.question = None,
                          !.restart = FALSE, !.chosen = chosen]
<1>1. Shown(t, i, row) = q
    BY DEF Shown, Page
<1>2. chosen \in SUBSET QuestionIds
    BY DEF Page, Record
<1> HIDE DEF chosen
<1>3. /\ q \in Page /\ q.at = "shown" /\ q.id = i /\ q.row = row /\ q.chosen = chosen
    BY <1>2 DEF Page, Points
<1>4. ASSUME p.chosen \subseteq row.answers
      PROVE  chosen \subseteq row.answers /\ (~(row.status = "pending" /\ row.draft # 0) => chosen = {})
    BY <1>4 DEF chosen
<1> HIDE DEF q
<1> QED
    BY <1>1, <1>3, <1>4 DEF PageFits, PageAgrees, Bound

LEMMA AnsweredFits ==
    ASSUME NEW t \in Tabs, page[t] \in Page, NEW i \in Records, NEW row \in Record, RowFits(row),
           Answered(t, i, row)
    PROVE  \E p \in Page :
               /\ page' = [page EXCEPT ![t] = p]
               /\ PageFits(p) /\ p.id = i /\ p.at \in {"shown", "launched"}
               /\ page[t].chosen \subseteq row.answers => PageAgrees(p, row)
<1>1. CASE row.status \in Closed /\ page[t].ask # "answer"
    <2> DEFINE p == [Form EXCEPT !.at = "launched", !.id = i, !.row = row]
    <2>1. page' = [page EXCEPT ![t] = p]
        BY <1>1 DEF Answered
    <2>2. /\ p \in Page /\ p.at = "launched" /\ p.id = i /\ p.row = row /\ p.chosen = {}
        BY FormFits DEF Form, Page, Points
    <2> HIDE DEF p
    <2> QED
        BY <1>1, <2>1, <2>2 DEF PageFits, PageAgrees, Bound
<1>2. CASE ~(row.status \in Closed /\ page[t].ask # "answer")
    <2>1. page' = [page EXCEPT ![t] = Shown(t, i, row)]
        BY <1>2 DEF Answered
    <2> QED
        BY <2>1, ShownFits
<1> QED
    BY <1>1, <1>2

\* An answer whose row is in the store already.
LEMMA AnsweredQuietly ==
    ASSUME Inv, NEW t \in Tabs, NEW i \in Records, records[i] # Absent,
           Answered(t, i, records[i]), UNCHANGED <<records, recent, drafts, familiar, raced>>,
           ~raced => page[t].chosen \subseteq records[i].answers
    PROVE  Inv'
<1>0. page[t] \in Page /\ records[i] \in Record /\ RowFits(records[i]) /\ raced \in BOOLEAN
    BY InvGives
<1>1. PICK p \in Page :
          /\ page' = [page EXCEPT ![t] = p]
          /\ PageFits(p) /\ p.id = i /\ p.at \in {"shown", "launched"}
          /\ page[t].chosen \subseteq records[i].answers => PageAgrees(p, records[i])
    BY <1>0, AnsweredFits
<1>2. \A j : ~Writing(p, j)
    BY <1>1 DEF Writing
<1> QED
    BY <1>0, <1>1, <1>2, QuietStep

\* A request that writes its row and is answered with it.
LEMMA WrittenAndAnswered ==
    ASSUME Inv, NEW t \in Tabs, NEW i \in Records, NEW row \in Record, RowFits(row), row # Absent,
           Write(i, row), Answered(t, i, row),
           drafts' \in 0..MaxDrafts, UNCHANGED <<familiar, raced>>,
           ~raced => \/ records[i] = Absent
                     \/ Writing(page[t], i) /\ records[i].answers \subseteq row.answers,
           ~raced => page[t].chosen \subseteq row.answers
    PROVE  Inv'
<1>0. TypeOK /\ page[t] \in Page /\ raced \in BOOLEAN /\ familiar \in BOOLEAN
      /\ \A j \in Records : RowFits(records[j])
    BY InvGives DEF TypeOK
<1>1. PICK p \in Page :
          /\ page' = [page EXCEPT ![t] = p]
          /\ PageFits(p) /\ p.id = i /\ p.at \in {"shown", "launched"}
          /\ page[t].chosen \subseteq row.answers => PageAgrees(p, row)
    BY <1>0, AnsweredFits
<1>2. /\ records' \in [Records -> Record]
      /\ recent' \in Seq(Records)
      /\ Range(recent') = {j \in Records : records'[j] # Absent}
      /\ records'[i] = row
      /\ \A j \in Records \ {i} : records'[j] = records[j]
    BY <1>0, WriteStores
<1>3. \A j \in Records : RowFits(records'[j]) /\ (records[j] # Absent => records'[j] # Absent)
    BY <1>0, <1>2
<1>4. \A j : ~Writing(p, j)
    BY <1>1 DEF Writing
<1>5. ~raced' => PageAgrees(p, records'[p.id])
    BY <1>1, <1>2
<1>6. ~raced' => \A j \in Records :
          \/ records'[j] = records[j]
          \/ records[j] = Absent
          \/ Writing(page[t], j) /\ records[j].answers \subseteq records'[j].answers
    BY <1>2
<1>7. p.at \in Bound => records'[p.id] # Absent
    BY <1>1, <1>2
<1> QED
    BY <1>0, <1>1, <1>2, <1>3, <1>4, <1>5, <1>6, <1>7, StepKeeps

-----------------------------------------------------------------------------
(* The steps.                                                              *)

LEMMA RestoreKeeps ==
    ASSUME Inv, NEW t \in Tabs, Restore(t)
    PROVE  Inv'
<1>1. PICK i \in Records :
          IsLatestPending(i) /\ page' = [page EXCEPT ![t] = Shown(t, i, records[i])]
    BY DEF Restore
<1>2. records[i].status = "pending"
    BY <1>1 DEF IsLatestPending
<1>3. records[i] # Absent
    BY <1>2 DEF Absent
<1>4. page[t] \in Page /\ records[i] \in Record /\ RowFits(records[i]) /\ raced \in BOOLEAN
    BY InvGives
<1>5. ~raced => page[t].chosen = {}
    BY InvGives DEF Restore, At, PageAgrees
<1>6. /\ Shown(t, i, records[i]) \in Page /\ PageFits(Shown(t, i, records[i]))
      /\ Shown(t, i, records[i]).at = "shown" /\ Shown(t, i, records[i]).id = i
      /\ ~raced => PageAgrees(Shown(t, i, records[i]), records[i])
    BY <1>4, <1>5, ShownFits
<1>7. \A j : ~Writing(Shown(t, i, records[i]), j)
    BY <1>6 DEF Writing
<1>8. UNCHANGED <<records, recent, drafts, familiar, raced>>
    BY DEF Restore
<1> QED
    BY <1>1, <1>3, <1>4, <1>6, <1>7, <1>8, QuietStep

LEMMA LeaveKeeps ==
    ASSUME Inv, NEW t \in Tabs, Leave(t)
    PROVE  Inv'
<1>1. page' = [page EXCEPT ![t] = Form] /\ UNCHANGED <<records, recent, drafts, familiar, raced>>
    BY DEF Leave
<1>2. Form.at \notin Bound /\ \A i : ~Writing(Form, i)
    BY DEF Form, Bound, Writing
<1> QED
    BY <1>1, <1>2, FormFits, InvGives, QuietStep

LEMMA PrepareKeeps ==
    ASSUME Inv, NEW t \in Tabs, Prepare(t)
    PROVE  Inv'
<1>0. page \in [Tabs -> Page] /\ page[t] \in Page /\ PageFits(page[t]) /\ raced \in BOOLEAN
    BY InvGives
<1>1. PICK restart \in BOOLEAN : page' = [page EXCEPT ![t].at = "find", ![t].restart = restart]
    BY DEF Prepare
<1> DEFINE p == [page[t] EXCEPT !.at = "find", !.restart = restart]
<1>2. page' = [page EXCEPT ![t] = p]
    BY <1>0, <1>1
<1>3. p \in Page /\ p.at = "find" /\ p.row = page[t].row /\ p.chosen = page[t].chosen
    BY <1>0 DEF Page, Points
<1>4. ~raced => page[t].chosen = {}
    BY InvGives DEF Prepare, ModalOpen, PageAgrees, PageFits, RowFits
<1> HIDE DEF p
<1>5. PageFits(p) /\ p.at \notin Bound /\ (~raced => PageAgrees(p, records[p.id]))
    BY <1>0, <1>3, <1>4 DEF PageFits, PageAgrees, Bound
<1>6. \A i : ~Writing(p, i)
    BY <1>3 DEF Writing
<1>7. UNCHANGED <<records, recent, drafts, familiar, raced>>
    BY DEF Prepare
<1> QED
    BY <1>0, <1>2, <1>3, <1>5, <1>6, <1>7, QuietStep

\* A request that starts to work on the record i tells whether another one works on it.
LEMMA RaceIsNoted ==
    ASSUME Inv, NEW t \in Tabs, NEW i, NoteRace(t, i)
    PROVE  /\ raced' \in BOOLEAN /\ (raced => raced')
           /\ ~raced' => ~raced /\ \A u \in Tabs \ {t} : ~Writing(page[u], i)
<1>1. raced \in BOOLEAN
    BY InvGives
<1>2. raced' = (raced \/ \E u \in Tabs \ {t} : Holds(u, i))
    BY DEF NoteRace
<1>3. \A u : Writing(page[u], i) => Holds(u, i)
    BY DEF Writing, Holds
<1> QED
    BY <1>1, <1>2, <1>3

LEMMA FindKeeps ==
    ASSUME Inv, NEW t \in Tabs, FindLatest(t)
    PROVE  Inv'
<1> DEFINE i == Latest
<1>0. /\ TypeOK /\ page \in [Tabs -> Page] /\ page[t] \in Page /\ PageFits(page[t])
      /\ raced \in BOOLEAN /\ UNCHANGED <<records, recent, drafts, familiar>> /\ page[t].at = "find"
    BY InvGives DEF FindLatest, At
<1>a. ~raced => page[t].chosen = {}
    BY <1>0, InvGives DEF PageAgrees
<1>b. i # None => i \in Records /\ records[i] # Absent /\ records[i] \in Record /\ RowFits(records[i])
    <2> SUFFICES ASSUME i # None
                 PROVE  i \in Records /\ records[i] # Absent
        BY InvGives
    <2>1. recent \in Seq(Records) /\ recent # <<>> /\ i = Head(recent)
        BY <1>0 DEF Latest, TypeOK
    <2>2. i \in Range(recent)
        <3>1. 1 \in DOMAIN recent /\ i = recent[1]
            BY <2>1
        <3> QED
            BY <3>1 DEF Range
    <2> QED
        BY <1>0, <2>2 DEF TypeOK
<1>1. CASE (page[t].restart \/ i = None) /\ StartAnew(t)
    <2> DEFINE at == IF page[t].restart THEN "create" ELSE "check"
               p == [page[t] EXCEPT !.id = None, !.row = Absent, !.at = at]
    <2>1. page' = [page EXCEPT ![t] = p]
        BY <1>0, <1>1 DEF StartAnew
    <2>2. Absent \in Record /\ RowFits(Absent)
        BY DEF Absent, Record, RowFits
    <2>3. /\ p \in Page /\ p.at \in {"create", "check"} /\ p.row = Absent /\ p.id = None
          /\ p.chosen = page[t].chosen
        BY <1>0, <2>2 DEF Page, Points
    <2> HIDE DEF p
    <2>4. raced' \in BOOLEAN /\ (raced => raced')
        BY <1>0, <1>1, RaceIsNoted DEF StartAnew
    <2>5. PageFits(p) /\ p.at \notin Bound /\ (~raced' => PageAgrees(p, records[p.id]))
        BY <1>0, <1>a, <2>2, <2>3, <2>4 DEF PageFits, PageAgrees, Bound
    <2>6. \A j : ~Writing(p, j)
        BY <2>3 DEF Writing
    <2> QED
        BY <1>0, <2>1, <2>3, <2>4, <2>5, <2>6, QuietStep
<1>2. CASE i # None /\ Answered(t, i, records[i]) /\ UNCHANGED raced
    BY <1>0, <1>a, <1>b, <1>2, AnsweredQuietly
<1>3. CASE /\ i # None /\ records[i].status = "pending" /\ records[i].draft = 0
           /\ page' = [page EXCEPT ![t].at = "draft", ![t].id = i, ![t].row = records[i]]
           /\ NoteRace(t, i)
    <2> DEFINE p == [page[t] EXCEPT !.at = "draft", !.id = i, !.row = records[i]]
    <2>1. page' = [page EXCEPT ![t] = p]
        BY <1>0, <1>3
    <2>2. /\ p \in Page /\ p.at = "draft" /\ p.row = records[i] /\ p.id = i
          /\ p.chosen = page[t].chosen
        BY <1>0, <1>b, <1>3 DEF Page, Points
    <2> HIDE DEF p, i
    <2>3. /\ raced' \in BOOLEAN /\ (raced => raced')
          /\ ~raced' => ~raced /\ \A u \in Tabs \ {t} : ~Writing(page[u], i)
        BY <1>3, RaceIsNoted
    <2>4. PageFits(p) /\ records[p.id] # Absent
        BY <1>b, <1>3, <2>2 DEF PageFits, Bound
    <2>5. ~raced' => PageAgrees(p, records[p.id])
        BY <1>a, <2>2, <2>3 DEF PageAgrees
    <2>6. ~raced' => \A j \in Records :
              Writing(p, j) => Writing(page[t], j) \/ \A u \in Tabs \ {t} : ~Writing(page[u], j)
        BY <2>2, <2>3 DEF Writing
    <2> QED
        BY <1>0, <2>1, <2>2, <2>3, <2>4, <2>5, <2>6, QuietStep
<1> QED
    BY <1>1, <1>2, <1>3 DEF FindLatest

LEMMA CheckKeeps ==
    ASSUME Inv, NEW t \in Tabs, CheckFamiliar(t)
    PROVE  Inv'
<1>0. /\ page \in [Tabs -> Page] /\ page[t] \in Page /\ PageFits(page[t]) /\ page[t].at = "check"
      /\ raced \in BOOLEAN /\ drafts \in 0..MaxDrafts /\ UNCHANGED <<drafts, familiar, raced>>
    BY InvGives DEF CheckFamiliar, At
<1>1. ~raced => page[t].chosen = {}
    BY <1>0, InvGives DEF PageAgrees
<1>2. CASE familiar
    <2> DEFINE row == [Fresh EXCEPT !.status = "skipped"]
    <2>1. PICK i \in Records : records[i] = Absent /\ Write(i, row) /\ Answered(t, i, row)
        BY <1>2 DEF CheckFamiliar
    <2>2. row \in Record /\ row.status = "skipped" /\ row.answers = {} /\ row.error = Fresh.error /\ row.draft = Fresh.draft
        BY FreshFits DEF Record, Closed
    <2> HIDE DEF row
    <2>3. row # Absent /\ RowFits(row)
        BY <2>2, FreshFits DEF Absent, RowFits
    <2> QED
        BY <1>0, <1>1, <2>1, <2>2, <2>3, WrittenAndAnswered
<1>3. CASE ~familiar
    <2> DEFINE p == [page[t] EXCEPT !.at = "create"]
    <2>1. page' = [page EXCEPT ![t] = p] /\ UNCHANGED <<records, recent>>
        BY <1>0, <1>3 DEF CheckFamiliar, Goto
    <2>2. /\ p \in Page /\ p.at = "create" /\ p.row = page[t].row /\ p.id = page[t].id
          /\ p.chosen = page[t].chosen
        BY <1>0 DEF Page, Points
    <2> HIDE DEF p
    <2>3. PageFits(p) /\ p.at \notin Bound /\ (~raced => PageAgrees(p, records[p.id]))
        BY <1>0, <1>1, <2>2 DEF PageFits, PageAgrees, Bound
    <2>4. \A j : ~Writing(p, j)
        BY <2>2 DEF Writing
    <2> QED
        BY <1>0, <2>1, <2>2, <2>3, <2>4, QuietStep
<1> QED
    BY <1>2, <1>3

LEMMA CreateKeeps ==
    ASSUME Inv, NEW t \in Tabs, CreateRecord(t)
    PROVE  Inv'
<1>0. /\ TypeOK /\ page \in [Tabs -> Page] /\ page[t] \in Page /\ page[t].at = "create"
      /\ raced \in BOOLEAN /\ drafts \in 0..MaxDrafts /\ UNCHANGED <<drafts, familiar, raced>>
      /\ \A j \in Records : RowFits(records[j])
    BY InvGives DEF CreateRecord, At
<1>1. PICK i \in Records :
          /\ records[i] = Absent /\ Write(i, Fresh)
          /\ page' = [page EXCEPT ![t].at = "draft", ![t].id = i, ![t].row = Fresh]
    BY DEF CreateRecord
<1> DEFINE p == [page[t] EXCEPT !.at = "draft", !.id = i, !.row = Fresh]
<1>2. page' = [page EXCEPT ![t] = p]
    BY <1>0, <1>1
<1>3. p \in Page /\ p.at = "draft" /\ p.id = i /\ p.row = Fresh /\ p.chosen = page[t].chosen
    BY <1>0, FreshFits DEF Page, Points
<1> HIDE DEF p
<1>4. ~raced => page[t].chosen = {}
    BY <1>0, InvGives DEF PageAgrees
<1>5. /\ records' \in [Records -> Record]
      /\ recent' \in Seq(Records)
      /\ Range(recent') = {j \in Records : records'[j] # Absent}
      /\ records'[i] = Fresh
      /\ \A j \in Records \ {i} : records'[j] = records[j]
    BY <1>0, <1>1, FreshFits, WriteStores
<1>6. \A j \in Records : RowFits(records'[j]) /\ (records[j] # Absent => records'[j] # Absent)
    BY <1>0, <1>5, FreshFits
<1>7. PageFits(p) /\ records'[p.id] # Absent /\ (~raced' => PageAgrees(p, records'[p.id]))
    BY <1>0, <1>3, <1>4, <1>5, FreshFits DEF PageFits, PageAgrees, Bound
<1>8. ASSUME NEW j \in Records, Writing(p, j), NEW u \in Tabs \ {t}
      PROVE  ~Writing(page[u], j)
    <2>1. j = i
        BY <1>3, <1>8 DEF Writing
    <2>2. page[u].at \in Bound => records[page[u].id] # Absent
        BY InvGives
    <2> QED
        BY <1>1, <2>1, <2>2 DEF Writing, Bound
<1>9. familiar' \in BOOLEAN /\ raced' = raced /\ drafts' \in 0..MaxDrafts /\ raced' \in BOOLEAN
    BY <1>0 DEF TypeOK
<1>10. ~raced' => \A j \in Records :
           \/ records'[j] = records[j]
           \/ records[j] = Absent
           \/ Writing(page[t], j) /\ records[j].answers \subseteq records'[j].answers
    BY <1>1, <1>5
<1>11. ~raced' => \A j \in Records :
           Writing(p, j) => Writing(page[t], j) \/ \A u \in Tabs \ {t} : ~Writing(page[u], j)
    BY <1>8
<1>12. p \in Page /\ (p.at \in Bound => records'[p.id] # Absent) /\ (raced => raced')
    BY <1>3, <1>7, <1>9
<1> QED
    BY <1>2, <1>5, <1>6, <1>7, <1>9, <1>10, <1>11, <1>12, StepKeeps

LEMMA DraftKeeps ==
    ASSUME Inv, NEW t \in Tabs, WriteDraft(t)
    PROVE  Inv'
<1> DEFINE i == page[t].id
           old == page[t].row
<1>0. /\ page[t] \in Page /\ PageFits(page[t]) /\ page[t].at = "draft" /\ old \in Record
      /\ raced \in BOOLEAN /\ drafts \in 0..MaxDrafts /\ UNCHANGED <<familiar, raced>>
      /\ MaxDrafts \in Nat
    BY InvGives DEF WriteDraft, At
<1>1. i \in Records /\ old.status = "pending" /\ old.draft = 0 /\ old.answers = {}
    <2>1. i \in Records /\ old.status = "pending" /\ old.draft = 0 /\ RowFits(old)
        BY <1>0 DEF PageFits, Bound
    <2>2. old.answers \subseteq QuestionIds /\ old.answers \subseteq QuestionsOf(0)
        BY <1>0, <2>1 DEF Record, RowFits
    <2>3. QuestionIds \intersect QuestionsOf(0) = {}
        BY DEF QuestionIds, QuestionsOf
    <2> QED
        BY <2>1, <2>2, <2>3
<1>2. ~raced => page[t].chosen = {} /\ records[i] = old /\ Writing(page[t], i)
    BY <1>0, InvGives DEF PageAgrees, Writing
<1>3. ASSUME NEW row \in Record, row.status = "pending", row.answers = {}, row.error => row.draft = 0,
             Write(i, row), Answered(t, i, row), drafts' \in 0..MaxDrafts
      PROVE  Inv'
    <2>1. row # Absent /\ RowFits(row)
        BY <1>3 DEF Absent, RowFits
    <2>2. ~raced => records[i].answers \subseteq row.answers /\ page[t].chosen \subseteq row.answers
        BY <1>1, <1>2
    <2> HIDE DEF i, old
    <2> QED
        BY <1>0, <1>1, <1>2, <1>3, <2>1, <2>2, WrittenAndAnswered DEF i
<1>4. CASE /\ drafts < MaxDrafts /\ drafts' = drafts + 1
           /\ Write(i, [old EXCEPT !.draft = drafts + 1, !.error = FALSE])
           /\ Answered(t, i, [old EXCEPT !.draft = drafts + 1, !.error = FALSE])
    <2> DEFINE row == [old EXCEPT !.draft = drafts + 1, !.error = FALSE]
    <2>1. drafts + 1 \in 0..MaxDrafts
        BY <1>0, <1>4
    <2>2. row \in Record /\ row.status = old.status /\ row.answers = old.answers /\ row.error = FALSE
        BY <1>0, <2>1 DEF Record
    <2> HIDE DEF row, old, i
    <2> QED
        BY <1>1, <1>3, <1>4, <2>1, <2>2 DEF row
<1>5. CASE /\ drafts' = drafts
           /\ Write(i, [old EXCEPT !.error = TRUE])
           /\ Answered(t, i, [old EXCEPT !.error = TRUE])
    <2> DEFINE row == [old EXCEPT !.error = TRUE]
    <2>1. row \in Record /\ row.status = old.status /\ row.answers = old.answers /\ row.draft = old.draft
        BY <1>0 DEF Record
    <2> HIDE DEF row, old, i
    <2> QED
        BY <1>0, <1>1, <1>3, <1>5, <2>1 DEF row
<1> QED
    BY <1>4, <1>5 DEF WriteDraft

LEMMA AskKeeps ==
    ASSUME Inv, NEW t \in Tabs, Ask(t)
    PROVE  Inv'
<1>0. /\ page \in [Tabs -> Page] /\ page[t] \in Page /\ PageFits(page[t]) /\ page[t].at = "shown"
      /\ raced \in BOOLEAN /\ UNCHANGED <<records, recent, drafts, familiar, raced>>
      /\ page[t].row \in Record /\ page[t].id \in Records /\ records[page[t].id] # Absent
    BY InvGives DEF Ask, At, Bound
<1>1. PICK ask \in {"answer", "completed", "skipped"}, question \in QuestionIds \union {None} :
          /\ page' = [page EXCEPT ![t].at = "get", ![t].ask = ask, ![t].question = question]
          /\ ask = "answer" => question \in QuestionIds
    <2>1. page[t].row.draft # 0 => QuestionsOf(page[t].row.draft) \subseteq QuestionIds
        BY <1>0 DEF QuestionsOf, QuestionIds, Record
    <2> QED
        BY <2>1 DEF Ask
<1> DEFINE p == [page[t] EXCEPT !.at = "get", !.ask = ask, !.question = question]
<1>2. page' = [page EXCEPT ![t] = p]
    BY <1>0, <1>1
<1>3. /\ p \in Page /\ p.at = "get" /\ p.ask = ask /\ p.question = question
      /\ p.id = page[t].id /\ p.row = page[t].row /\ p.chosen = page[t].chosen
    BY <1>0, <1>1 DEF Page, Points, Closed
<1> HIDE DEF p
<1>4. PageFits(p) /\ records[p.id] # Absent
    BY <1>0, <1>1, <1>3 DEF PageFits, Bound
<1>5. ~raced => PageAgrees(p, records[p.id])
    BY <1>0, <1>3, InvGives DEF PageAgrees
<1>6. \A j : ~Writing(p, j)
    BY <1>3 DEF Writing
<1> QED
    BY <1>0, <1>2, <1>3, <1>4, <1>5, <1>6, QuietStep

LEMMA GetKeeps ==
    ASSUME Inv, NEW t \in Tabs, GetRecord(t)
    PROVE  Inv'
<1> DEFINE i == page[t].id
           ask == page[t].ask
           question == page[t].question
           row == records[i]
<1>0. /\ page \in [Tabs -> Page] /\ page[t] \in Page /\ PageFits(page[t]) /\ page[t].at = "get"
      /\ raced \in BOOLEAN /\ UNCHANGED <<records, recent, drafts, familiar>>
      /\ i \in Records /\ row # Absent /\ row \in Record /\ RowFits(row)
    BY InvGives DEF GetRecord, At, Bound
<1>1. ~raced => page[t].chosen \subseteq row.answers
    BY <1>0, InvGives DEF PageAgrees
<1>2. CASE Answered(t, i, row) /\ UNCHANGED raced
    BY <1>0, <1>1, <1>2, AnsweredQuietly
<1>3. CASE /\ row.status = "pending" /\ Valid(ask, question, row)
           /\ page' = [page EXCEPT ![t].at = "put",
                          ![t].row = IF ask = "answer"
                                     THEN [row EXCEPT !.answers = @ \union {question}]
                                     ELSE [row EXCEPT !.status = ask]]
           /\ NoteRace(t, i)
    <2> DEFINE next == IF ask = "answer"
                       THEN [row EXCEPT !.answers = @ \union {question}]
                       ELSE [row EXCEPT !.status = ask]
               p == [page[t] EXCEPT !.at = "put", !.row = next]
    <2>1. /\ next \in Record /\ RowFits(next) /\ next.status # "absent"
          /\ next.draft = row.draft /\ row.answers \subseteq next.answers
        <3>1. CASE ask = "answer"
            <4>1. question \in QuestionIds
                BY <1>0, <3>1 DEF PageFits
            <4>2. question \in QuestionsOf(row.draft)
                BY <1>3, <3>1 DEF Valid
            <4>3. /\ next \in Record /\ next.answers = row.answers \union {question}
                  /\ next.status = row.status /\ next.draft = row.draft /\ next.error = row.error
                BY <1>0, <3>1, <4>1 DEF Record
            <4> HIDE DEF next, row, question
            <4> QED
                BY <1>0, <1>3, <4>2, <4>3 DEF RowFits
        <3>2. CASE ask # "answer"
            <4>1. ask \in {"completed", "skipped"}
                BY <1>0, <3>2 DEF PageFits, Page, Closed
            <4>2. ask = "completed" => row.draft # 0 /\ row.answers = QuestionsOf(row.draft)
                BY <1>3 DEF Valid
            <4>3. /\ next \in Record /\ next.answers = row.answers
                  /\ next.status = ask /\ next.draft = row.draft /\ next.error = row.error
                BY <1>0, <3>2, <4>1 DEF Record, Closed
            <4> HIDE DEF next, row, ask
            <4> QED
                BY <1>0, <4>1, <4>2, <4>3 DEF RowFits
        <3> QED
            BY <3>1, <3>2
    <2>2. page' = [page EXCEPT ![t] = p]
        BY <1>0, <1>3
    <2> HIDE DEF next
    <2>3. p \in Page /\ p.at = "put" /\ p.id = i /\ p.row = next /\ p.chosen = page[t].chosen
        BY <1>0, <2>1 DEF Page, Points
    <2>4. /\ raced' \in BOOLEAN /\ (raced => raced')
          /\ ~raced' => ~raced /\ \A u \in Tabs \ {t} : ~Writing(page[u], i)
        BY <1>3, RaceIsNoted
    <2> HIDE DEF p, i, row
    <2>5. PageFits(p) /\ records[p.id] # Absent
        BY <1>0, <2>1, <2>3 DEF PageFits, row
    <2>6. ~raced' => PageAgrees(p, records[p.id])
        BY <1>1, <1>3, <2>1, <2>3, <2>4 DEF PageAgrees, row
    <2>7. ~raced' => \A j \in Records :
              Writing(p, j) => Writing(page[t], j) \/ \A u \in Tabs \ {t} : ~Writing(page[u], j)
        BY <2>3, <2>4 DEF Writing
    <2> QED
        BY <1>0, <2>2, <2>3, <2>4, <2>5, <2>6, <2>7, QuietStep
<1>4. CASE /\ page' = [page EXCEPT ![t].at = "shown", ![t].ask = "none", ![t].question = None]
           /\ row.status = "pending"
           /\ UNCHANGED raced
    <2> DEFINE p == [page[t] EXCEPT !.at = "shown", !.ask = "none", !.question = None]
    <2>1. page' = [page EXCEPT ![t] = p]
        BY <1>0, <1>4
    <2>2. p \in Page /\ p.at = "shown" /\ p.id = i /\ p.row = page[t].row /\ p.chosen = page[t].chosen
        BY <1>0 DEF Page, Points
    <2> HIDE DEF p
    <2>3. PageFits(p)
        BY <1>0, <2>2 DEF PageFits, Bound
    <2>4. ~raced => PageAgrees(p, row)
        BY <1>0, <1>1, <2>2, InvGives DEF PageAgrees
    <2>5. \A j : ~Writing(p, j)
        BY <2>2 DEF Writing
    <2> HIDE DEF i, row
    <2> QED
        BY <1>0, <1>4, <2>1, <2>2, <2>3, <2>4, <2>5, QuietStep DEF row
<1> QED
    BY <1>2, <1>3, <1>4 DEF GetRecord

LEMMA PutKeeps ==
    ASSUME Inv, NEW t \in Tabs, PutRecord(t)
    PROVE  Inv'
<1> DEFINE i == page[t].id
           row == page[t].row
<1>0. /\ page[t] \in Page /\ page[t].at = "put" /\ raced \in BOOLEAN /\ drafts \in 0..MaxDrafts
      /\ Write(i, row) /\ Answered(t, i, row) /\ UNCHANGED <<drafts, familiar, raced>>
      /\ i \in Records /\ row \in Record /\ PageFits(page[t])
    BY InvGives DEF PutRecord, At, Bound
<1>1. RowFits(row) /\ row # Absent
    BY <1>0 DEF PageFits, Absent
<1>2. ~raced => /\ Writing(page[t], i) /\ records[i].answers \subseteq row.answers
                /\ page[t].chosen \subseteq row.answers
    BY <1>0, InvGives DEF PageAgrees, Writing
<1> HIDE DEF i, row
<1> QED
    BY <1>0, <1>1, <1>2, WrittenAndAnswered

LEMMA NextKeepsInv == Inv /\ [Next]_intakeVars => Inv'
<1> SUFFICES ASSUME Inv, [Next]_intakeVars PROVE Inv'
    OBVIOUS
<1>1. CASE BecomeFamiliar
    <2>1. UNCHANGED <<records, recent, drafts, page, raced>> /\ familiar' = TRUE
        BY <1>1 DEF BecomeFamiliar
    <2>2. TypeOK'
        BY <2>1 DEF Inv, IntakeWhole, TypeOK
    <2> QED
        BY <2>1, <2>2 DEF Inv, IntakeWhole, Undisturbed
<1>2. CASE UNCHANGED intakeVars
    <2>1. UNCHANGED <<records, recent, drafts, familiar, page, raced>>
        BY <1>2 DEF intakeVars
    <2>2. TypeOK'
        BY <2>1 DEF Inv, IntakeWhole, TypeOK
    <2> QED
        BY <2>1, <2>2 DEF Inv, IntakeWhole, Undisturbed
<1>3. ASSUME NEW t \in Tabs, PageStep(t)
      PROVE  Inv'
    BY <1>3, RestoreKeeps, LeaveKeeps, PrepareKeeps, FindKeeps, CheckKeeps, CreateKeeps, DraftKeeps,
       AskKeeps, GetKeeps, PutKeeps DEF PageStep
<1> QED
    BY <1>1, <1>2, <1>3 DEF Next

-----------------------------------------------------------------------------
(* The properties.                                                         *)

LEMMA InvHolds == Spec => []Inv
    BY InitInv, NextKeepsInv, PTL DEF Spec

(***************************************************************************)
(* Whatever requests write over each other, every record is well typed and *)
(* fit for the generation: its answers are to its questions, and a         *)
(* completed one has them all (Prepare, retryGeneration, Update).          *)
(***************************************************************************)
THEOREM BaselinesAreFit == Spec => []IntakeInv
<1>1. Inv => IntakeInv
    BY DEF Inv, IntakeWhole, RowFits, IntakeInv, AnswersFit
<1> QED
    BY <1>1, InvHolds, PTL

(***************************************************************************)
(* Unless two requests worked on one record at a time, an answer that a    *)
(* page was told is saved is in the record, and a page that starts a       *)
(* practice names a closed baseline.                                       *)
(***************************************************************************)
THEOREM PagesAreRightHolds == Spec => []PagesAreRight
<1>1. Inv => PagesAreRight
    BY DEF Inv, Undisturbed, PageAgrees, PagesAreRight, AnswersAreKept, LaunchedWithBaseline, At
<1> QED
    BY <1>1, InvHolds, PTL

LEMMA WriteSparesClosed ==
    ASSUME Inv, ~raced, NEW t \in Tabs, PageStep(t),
           NEW i \in Records, records[i].status \in Closed
    PROVE  records'[i] = records[i]
<1>0. /\ records \in [Records -> Record] /\ PageFits(page[t]) /\ PageAgrees(page[t], records[page[t].id])
      /\ records[i] # Absent
    <2>1. records[i] # Absent
        BY DEF Absent, Closed
    <2> QED
        BY <2>1, InvGives
<1>1. ASSUME NEW j \in Records, j # i, NEW row, Write(j, row)
      PROVE  records'[i] = records[i]
    BY <1>0, <1>1 DEF Write
<1>2. CASE WriteDraft(t) \/ PutRecord(t)
    <2>1. page[t].at \in {"draft", "put"}
        BY <1>2 DEF WriteDraft, PutRecord, At
    <2>2. page[t].id \in Records /\ page[t].id # i
        BY <1>0, <2>1 DEF PageFits, PageAgrees, Bound, Closed
    <2>3. \E row : Write(page[t].id, row)
        BY <1>2 DEF WriteDraft, PutRecord
    <2> QED
        BY <1>1, <2>2, <2>3
<1>3. CASE CheckFamiliar(t) \/ CreateRecord(t)
    <2>1. records' = records \/ \E j \in Records : \E row : records[j] = Absent /\ Write(j, row)
        BY <1>3 DEF CheckFamiliar, CreateRecord
    <2> QED
        BY <1>0, <1>1, <2>1
<1> QED
    BY <1>2, <1>3 DEF PageStep, Restore, Leave, Prepare, FindLatest, Ask, GetRecord

(***************************************************************************)
(* Completion and Skip are for good, whatever pages come later, unless two *)
(* requests worked on one record at a time (Update returns a record that   *)
(* is closed, and writes none).                                            *)
(***************************************************************************)
THEOREM ClosedForGoodHolds == Spec => ClosedForGood
<1>1. Inv /\ [Next]_intakeVars =>
          [\A i \in Records : ~raced /\ records[i].status \in Closed => records'[i] = records[i]]_intakeVars
    BY WriteSparesClosed DEF Next, BecomeFamiliar
<1> QED
    BY <1>1, InvHolds, PTL DEF Spec, ClosedForGood

=============================================================================
