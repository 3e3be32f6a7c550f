----------------------------- MODULE ProfileNotes -----------------------------
(***************************************************************************)
(* What a refresh of the learner's profile does with its content           *)
(* (generation/profile.go, notes.go): the model proposes changes of the    *)
(* notes, which are applied to a copy, deduplicated, capped and validated  *)
(* against the notes they began with; then it proposes a summary and       *)
(* skills.  ProblemPipeline is the job that asks, saves and is retried;    *)
(* CompletionMemory follows which completions were folded in.              *)
(***************************************************************************)
EXTENDS Naturals, Sequences, FiniteSets

CONSTANTS
    NoteIds,    \* ids of notes, in their order
    Problems,   \* problems that notes are about
    Titles,     \* titles of notes, which are their concepts
    Topics,     \* skills
    Lengths,    \* lengths of texts, in runes
    Changes,    \* the changes of notes that the model may propose
    MaxChanges, \* how many it may propose at once (maxNoteActions, 10 in the code)
    Slug,       \* for every title, the id of a note that is created without one
    maxNotes,   \* the cap on the notes (20 in the code)
    Nothing     \* no problem, title or id

ASSUME NotesAssumption ==
    /\ NoteIds \subseteq Nat /\ IsFiniteSet(NoteIds)
    /\ Lengths \subseteq Nat \ {0}
    /\ Slug \in [Titles -> NoteIds]
    /\ Problems \intersect Titles = {}
    /\ Nothing \notin NoteIds \union Problems \union Titles
    /\ maxNotes \in Nat /\ MaxChanges \in Nat

VARIABLES
    book,       \* the content of the stored profile
    practised,  \* the skills that the events of the memory tell of
    upkeep      \* the refresh that is under way

notesVars == <<book, practised, upkeep>>

-----------------------------------------------------------------------------

\* A text of some length is a living document, which must not collapse.
minLivingNoteRunes == 80
minLivingSummaryRunes == 200
maxProfileNoteRunes == 800

Regresses(before, after, living) == before >= living /\ after * 2 < before

\* A note while it is changed; a length of 0 is an empty text, created is a time.
Note ==
    [problem : Problems \union {Nothing}, title : Titles \union {Nothing},
     length : Lengths \union {0}, action : {"none", "keep", "review"}, created : Nat]

NoNote == [problem |-> Nothing, title |-> Nothing, length |-> 0, action |-> "absent", created |-> 0]

Notes == [NoteIds -> Note \union {NoNote}]

IdsOf(notes) == {i \in NoteIds : notes[i] # NoNote}

\* noteConceptKeys.
Concepts(note) == {note.problem, note.title} \ {Nothing}

\* validateMaintainedNotes, of each note and of the whole.
Complete(note, now) ==
    /\ note.title # Nothing /\ note.length \in 1..maxProfileNoteRunes
    /\ note.action \in {"keep", "review"}
    /\ note.created <= now

Distinct(notes) ==
    \A i, j \in IdsOf(notes) : i # j => Concepts(notes[i]) \intersect Concepts(notes[j]) = {}

Tidy(notes, now) ==
    /\ Cardinality(IdsOf(notes)) <= maxNotes
    /\ \A i \in IdsOf(notes) : Complete(notes[i], now)
    /\ Distinct(notes)

\* ... and against the notes before: an id that stays keeps its time and its text.
Keeps(before, after) ==
    \A i \in IdsOf(before) \intersect IdsOf(after) :
        /\ after[i].created = before[i].created
        /\ ~Regresses(before[i].length, after[i].length, minLivingNoteRunes)

\* A coding completion writes only notes of its problem, or of the one they had.
Minds(before, after, problem) ==
    \A i \in IdsOf(after) : after[i] # before[i] =>
        /\ after[i].problem # Nothing
        /\ after[i].problem \in {before[i].problem, problem}

-----------------------------------------------------------------------------

Change ==
    [op : {"create", "update", "prune"}, id : NoteIds \union {Nothing},
     problem : Problems \union {Nothing}, title : Titles \union {Nothing},
     length : Lengths \union {0}, action : {"none", "keep", "review", "prune"}]

ASSUME ChangesAssumption == Changes \subseteq Change

\* ParseNoteActionsStrict and validateNoteActionReferences: all changes are, or none is applied.
Acceptable(change, held) ==
    \/ /\ change.op = "create"
       /\ change.title # Nothing /\ change.length > 0
       /\ change.action \in {"keep", "review"}
    \/ /\ change.op = "update"
       /\ change.id \in IdsOf(held)
       /\ change.action # "prune"
       /\ \/ change.title # Nothing \/ change.problem # Nothing
          \/ change.length > 0 \/ change.action # "none"
    \/ change.op = "prune" /\ change.id \in IdsOf(held)

(***************************************************************************)
(* The note that a change is about.  owner is byConcept: whom a concept    *)
(* belonged to last; pruning a note does not clear it.                     *)
(***************************************************************************)
Owned(concept, owner) == concept # Nothing /\ owner[concept] # Nothing

Target(change, notes, owner) ==
    LET given == IF change.id = Nothing THEN Slug[change.title] ELSE change.id
    IN  IF given \in IdsOf(notes) THEN given
        ELSE IF Owned(change.problem, owner) THEN owner[change.problem]
        ELSE IF Owned(change.title, owner) THEN owner[change.title]
        ELSE given

Merged(note, change) ==
    [problem |-> IF change.problem = Nothing THEN note.problem ELSE change.problem,
     title   |-> IF change.title = Nothing THEN note.title ELSE change.title,
     length  |-> IF change.length = 0 THEN note.length ELSE change.length,
     action  |-> IF change.action = "none" THEN note.action ELSE change.action,
     created |-> note.created]

Blank(now) == [NoNote EXCEPT !.action = "none", !.created = now]

(***************************************************************************)
(* A refresh.  now and version are when it began and what it read; held    *)
(* and before are the notes and the summary it read; fresh are the ids     *)
(* that it has created, in their order.                                    *)
(***************************************************************************)
Sources == {"none", "mcq", "coding", "interview"}

Upkeep ==
    [source : Sources, problem : Problems \union {Nothing}, now : Nat, version : Nat,
     topics : SUBSET Topics, held : Notes, before : Nat, changes : Nat, drafted : BOOLEAN,
     notes : Notes, owner : [Problems \union Titles -> NoteIds \union {Nothing}],
     fresh : Seq(NoteIds), summary : Nat, skills : SUBSET Topics]

NoNotes == [i \in NoteIds |-> NoNote]

NoOwners == [c \in Problems \union Titles |-> Nothing]

NewUpkeep(source, problem) ==
    [source |-> source, problem |-> problem, now |-> 0, version |-> 0, topics |-> {},
     held |-> NoNotes, before |-> 0, changes |-> 0, drafted |-> FALSE, notes |-> NoNotes,
     owner |-> NoOwners, fresh |-> <<>>, summary |-> 0, skills |-> {}]

Book == [notes : Notes, summary : Nat, skills : SUBSET Topics]

NotesTypeOK == book \in Book /\ practised \in SUBSET Topics /\ upkeep \in Upkeep

\* A concept belongs to the one note of it that was read.
OwnersOf(notes) ==
    [c \in Problems \union Titles |->
        IF \E i \in IdsOf(notes) : c \in Concepts(notes[i])
        THEN CHOOSE i \in IdsOf(notes) : c \in Concepts(notes[i]) ELSE Nothing]

\* Only a practice that ended with evidence of its own has notes to maintain.
Loaded(u, version) ==
    [u EXCEPT !.version = version, !.held = book.notes, !.notes = book.notes,
              !.before = book.summary, !.owner = OwnersOf(book.notes), !.fresh = <<>>,
              !.changes = 0, !.drafted = (u.source = "none")]

(***************************************************************************)
(* ApplyNoteActions: the loop over the changes, one at a time.             *)
(***************************************************************************)
Applied(change, u) ==
    LET i     == Target(change, u.notes, u.owner)
        known == i \in IdsOf(u.notes)
        note  == Merged(IF known THEN u.notes[i] ELSE Blank(u.now), change)
    IN  IF change.op = "prune"
        THEN [u EXCEPT !.changes = @ + 1, !.notes = [@ EXCEPT ![i] = NoNote]]
        ELSE [u EXCEPT !.changes = @ + 1, !.notes = [@ EXCEPT ![i] = note],
                       !.owner = [c \in DOMAIN @ |-> IF c \in Concepts(note) THEN i ELSE @[c]],
                       !.fresh = IF known \/ i \in IdsOf(u.held) THEN @ ELSE Append(@, i)]

\* orderedIDs: the notes that were read, newest first, and then those that were created.
Newer(i, j, notes) ==
    \/ notes[i].created > notes[j].created
    \/ notes[i].created = notes[j].created /\ i < j

Precedes(i, j, u) ==
    \/ i \in IdsOf(u.held) /\ (j \in IdsOf(u.held) => Newer(i, j, u.held))
    \/ \E m, n \in DOMAIN u.fresh : m < n /\ u.fresh[m] = i /\ u.fresh[n] = j

(***************************************************************************)
(* What is left of the notes: of those that share a concept the first, and *)
(* of these the newest maxNotes.                                           *)
(***************************************************************************)
IsDeduplicated(kept, u) ==
    \A i \in IdsOf(u.notes) :
        i \in kept <=> \A j \in kept :
            Precedes(j, i, u) => Concepts(u.notes[i]) \intersect Concepts(u.notes[j]) = {}

IsCapped(top, kept, notes) ==
    IF Cardinality(kept) <= maxNotes THEN top = kept
    ELSE Cardinality(top) = maxNotes /\ \A i \in top, j \in kept \ top : Newer(i, j, notes)

Only(top, notes) == [i \in NoteIds |-> IF i \in top THEN notes[i] ELSE NoNote]

\* validateMaintainedNotes.
Valid(notes, u) ==
    /\ Tidy(notes, u.now)
    /\ Keeps(u.held, notes)
    /\ u.source = "coding" => Minds(u.held, notes, u.problem)

Remnants(u) ==
    {top \in SUBSET IdsOf(u.notes) :
        \E kept \in SUBSET IdsOf(u.notes) :
            top \subseteq kept /\ IsDeduplicated(kept, u) /\ IsCapped(top, kept, u.notes)}

(***************************************************************************)
(* ParseCuratedProfile: the summary must not collapse, and only skills     *)
(* with evidence are taken.  The notes that come with it are not used.     *)
(***************************************************************************)
Curated(u, summary, claimed) ==
    [u EXCEPT !.summary = summary, !.skills = claimed \intersect u.topics]
=============================================================================
