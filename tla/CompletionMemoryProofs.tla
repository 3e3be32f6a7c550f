----------------------- MODULE CompletionMemoryProofs -----------------------
(***************************************************************************)
(* Proofs about CompletionMemory for any set of submissions and of other   *)
(* processes.  Everything follows from one inductive invariant, MemoryInv. *)
(***************************************************************************)
EXTENDS CompletionMemory, TLAPS

USE CompletionAssumption

Points == {"idle", "done", "dead"} \union ActivePoints

(***************************************************************************)
(* MemoryInv as what it says of one worker and of the rest.                *)
(***************************************************************************)
Sound(w) ==
    /\ Role(w)
    /\ Based(w)
    /\ Configured /\ KnowsSynced(w) => worker[w].sub \in marked
    /\ Configured /\ "tab" \notin HelperKinds /\ At(w, "write_session") => TrueOf(worker[w].copy)

SoundSession == Configured /\ "tab" \notin HelperKinds => TrueOf(session)

LEMMA InvIsSound ==
    MemoryInv <=> TypeOK /\ ProfileIsLedger /\ SoundSession /\ \A w \in Workers : Sound(w)
    BY DEF MemoryInv, Roles, Bases, KnowledgeIsTrue, SessionsAreTrue, Sound, SoundSession

LEMMA InitInv == Init => MemoryInv
<1> SUFFICES ASSUME Init PROVE MemoryInv
    OBVIOUS
<1>1. NoProfile \in Profile
    BY DEF NoProfile, Profile
<1>2. NewSession \in Session
    BY DEF NewSession, Session, MemoryStatus, Owner
<1>3. \A w \in Workers : worker[w] \in Worker
    BY <1>1, <1>2 DEF Init, Fresh, Worker, Workers, Owner, Kinds, Outcome
<1>4. TypeOK
    BY <1>1, <1>2, <1>3 DEF Init, TypeOK
<1>5. ProfileIsLedger
    BY DEF Init, ProfileIsLedger, Folded, NoProfile
<1>6. SoundSession
    BY DEF Init, SoundSession, TrueOf, NewSession
<1>7. ASSUME NEW w \in Workers PROVE Sound(w)
    BY DEF Init, Fresh, Sound, Role, Based, KnowsSynced, At, Is, Workers, RefreshPoints
<1> QED
    BY <1>4, <1>5, <1>6, <1>7, InvIsSound

(***************************************************************************)
(* A step that writes neither the profile nor a marker preserves the       *)
(* invariant if it leaves the session and the one worker it moves sound.   *)
(***************************************************************************)
LEMMA OneWorkerMoves ==
    ASSUME MemoryInv, NEW w \in Workers, NEW me \in Worker,
           worker' = [worker EXCEPT ![w] = me],
           session' \in Session, SoundSession', Sound(w)',
           verdict' \in [Submissions -> {"none", "pass", "fail"}],
           evidence' \in SUBSET Submissions,
           UNCHANGED <<profile, marked>>
    PROVE  MemoryInv'
<1>0. TypeOK /\ ProfileIsLedger /\ \A x \in Workers : Sound(x)
    BY InvIsSound
<1>1. TypeOK'
    BY <1>0 DEF TypeOK
<1>2. ProfileIsLedger'
    BY <1>0 DEF ProfileIsLedger, Folded
<1>3. ASSUME NEW x \in Workers PROVE Sound(x)'
    <2>1. CASE x = w
        BY <2>1
    <2>2. CASE x # w
        <3>1. worker'[x] = worker[x] /\ Sound(x)
            BY <1>0, <2>2 DEF TypeOK
        <3> QED
            BY <3>1 DEF Sound, Role, Based, KnowsSynced, At, Is, UpToDate, TrueOf
    <2> QED
        BY <2>1, <2>2
<1> QED
    BY <1>1, <1>2, <1>3
       DEF MemoryInv, Roles, Bases, KnowledgeIsTrue, SessionsAreTrue, Sound, SoundSession

(***************************************************************************)
(* The same for a step that only moves the worker to another point, with   *)
(* nothing known there that was not known before.                          *)
(***************************************************************************)
LEMMA OneWorkerGoes ==
    ASSUME MemoryInv, NEW w \in Workers, NEW point \in Points, Goto(w, point)
    PROVE  /\ [worker[w] EXCEPT !.at = point] \in Worker
           /\ worker' = [worker EXCEPT ![w] = [worker[w] EXCEPT !.at = point]]
           /\ worker'[w] = [worker[w] EXCEPT !.at = point]
    BY DEF MemoryInv, TypeOK, Goto, Points, Worker


LEMMA WorkerTyped ==
    ASSUME MemoryInv, NEW w \in Workers
    PROVE  /\ worker[w] \in Worker /\ Sound(w) /\ SoundSession
           /\ session \in Session /\ profile \in Profile
    BY InvIsSound DEF TypeOK

(***************************************************************************)
(* The steps of a Submit call, one lemma each.                             *)
(***************************************************************************)
LEMMA GradedInv ==
    ASSUME MemoryInv, NEW w \in Workers, Graded(w)
    PROVE  MemoryInv'
<1>1. Goto(w, "record") /\ w \in Submissions
    BY DEF Graded
<1>2. verdict' \in [Submissions -> {"none", "pass", "fail"}]
    BY DEF Graded, MemoryInv, TypeOK
<1>3. worker'[w] = [worker[w] EXCEPT !.at = "record"]
    BY <1>1, OneWorkerGoes DEF Points, ActivePoints
<1>4. Sound(w)'
    BY <1>1, <1>3, WorkerTyped
       DEF Graded, At, Sound, Role, Based, KnowsSynced, Is, RefreshPoints, Worker
<1>5. SoundSession'
    BY WorkerTyped DEF Graded, SoundSession, TrueOf
<1> QED
    BY ZenonT(60), <1>1, <1>2, <1>4, <1>5, WorkerTyped, OneWorkerGoes, OneWorkerMoves
       DEF Graded, Points, ActivePoints, MemoryInv, TypeOK

LEMMA StartsInv ==
    ASSUME MemoryInv, NEW w \in Workers, Start(w)
    PROVE  MemoryInv'
<1>1. PICK kind \in HelperKinds, sub \in Owner, point \in ActivePoints :
        /\ Starts(w, kind, sub, point)
        /\ kind \in {"daily", "tab"} <=> sub = NoSubmission
        /\ \/ kind = "daily" /\ point = "read_evidence"
           \/ kind = "tab" /\ point = "load"
           \/ kind = "maintain" /\ point = "claim"
           \/ kind = "replay" /\ point \in {"read_session", "report"}
    BY DEF Start, StartDaily, OpenTab, StartReplay, StartMaintain, Starts, AfterGrade, Owner,
           ActivePoints, RefreshPoints
<1> DEFINE me == Fresh(kind, sub, point)
<1>2. me \in Worker
    BY <1>1 DEF Fresh, Worker, NewSession, Session, MemoryStatus, Owner, NoProfile, Profile,
                Outcome, Kinds
<1>3. worker' = [worker EXCEPT ![w] = me] /\ worker'[w] = me /\ w \in Helpers
    BY <1>1 DEF Starts, MemoryInv, TypeOK
<1>4. /\ me.kind = kind /\ me.sub = sub /\ me.at = point
      /\ me.reply = "none" /\ me.outcome = "none"
    BY DEF Fresh
<1> HIDE DEF me
<1>5. Sound(w)' /\ SoundSession'
    BY <1>1, <1>3, <1>4, WorkerTyped
       DEF Starts, At, ActivePoints, RefreshPoints, Sound, Role, Based, KnowsSynced, Is,
           SoundSession, TrueOf, Kinds
<1> QED
    BY <1>1, <1>2, <1>3, <1>5, WorkerTyped, OneWorkerMoves DEF Starts, MemoryInv, TypeOK

LEMMA RecordEvidenceInv ==
    ASSUME MemoryInv, NEW w \in Workers, RecordEvidence(w)
    PROVE  MemoryInv'
<1>0. worker[w].at = "record" /\ UNCHANGED <<profile, marked>>
    BY DEF RecordEvidence, At
<1>1. PICK outcome \in {"none", "failed"} :
        worker' = [worker EXCEPT ![w].at = AfterGrade(w, "claim"), ![w].outcome = outcome]
    BY DEF RecordEvidence
<1>2. w \in Submissions
    BY WorkerTyped DEF RecordEvidence, At, Sound, Role, Workers
<1> DEFINE me == [worker[w] EXCEPT !.at = AfterGrade(w, "claim"), !.outcome = outcome]
<1>3. worker[w] \in Worker /\ AfterGrade(w, "claim") \in {"read_session", "claim"}
    BY WorkerTyped DEF AfterGrade
<1>31. me \in Worker
    BY <1>3 DEF Worker, ActivePoints, Outcome
<1>4. worker' = [worker EXCEPT ![w] = me] /\ worker'[w] = me
    BY <1>1 DEF MemoryInv, TypeOK
<1>41. /\ me.at \in {"read_session", "claim"} /\ me.outcome = outcome
       /\ me.kind = worker[w].kind /\ me.sub = worker[w].sub /\ me.reply = worker[w].reply
       /\ me.base = worker[w].base
    BY <1>3 DEF Worker
<1> HIDE DEF me
<1>42. Sound(w)'
    BY <1>0, <1>2, <1>4, <1>41, WorkerTyped
       DEF At, RefreshPoints, Sound, Role, Based, KnowsSynced, Is
<1>5. Sound(w)' /\ SoundSession'
    BY <1>42, WorkerTyped DEF RecordEvidence, SoundSession, TrueOf
<1>6. evidence' \in SUBSET Submissions /\ UNCHANGED <<session, verdict, profile, marked>>
    BY <1>2 DEF RecordEvidence, MemoryInv, TypeOK
<1> QED
    BY <1>31, <1>4, <1>5, <1>6, WorkerTyped, OneWorkerMoves DEF MemoryInv, TypeOK

LEMMA ReadSessionInv ==
    ASSUME MemoryInv, NEW w \in Workers, ReadSession(w)
    PROVE  MemoryInv'
<1> DEFINE me == [worker[w] EXCEPT !.at = "write_session", !.copy = session]
<1>1. me \in Worker
    <2>1. worker[w] \in Worker /\ session \in Session
        BY WorkerTyped
    <2> QED
        BY <2>1 DEF Worker, ActivePoints
<1>2. worker' = [worker EXCEPT ![w] = me] /\ worker'[w] = me
    BY DEF ReadSession, MemoryInv, TypeOK
<1>3. /\ me.at = "write_session" /\ me.copy = session /\ me.outcome = worker[w].outcome
      /\ me.kind = worker[w].kind /\ me.sub = worker[w].sub /\ me.reply = worker[w].reply
    BY WorkerTyped DEF Worker
<1> HIDE DEF me
<1>4. Sound(w)'
    BY <1>2, <1>3, WorkerTyped
       DEF ReadSession, At, RefreshPoints, Sound, Role, Based, KnowsSynced, Is, SoundSession, TrueOf
<1>5. SoundSession'
    BY WorkerTyped DEF ReadSession, SoundSession, TrueOf
<1> QED
    BY <1>1, <1>2, <1>4, <1>5, WorkerTyped, OneWorkerMoves DEF ReadSession, MemoryInv, TypeOK

LEMMA WriteSessionInv ==
    ASSUME MemoryInv, NEW w \in Workers, WriteSession(w)
    PROVE  MemoryInv'
<1> DEFINE point == IF Is(w, "owner") THEN "claim" ELSE "report"
           me == [worker[w] EXCEPT !.at = point, !.copy = NewSession]
<1>1. me \in Worker
    <2>1. worker[w] \in Worker /\ NewSession \in Session /\ point \in {"claim", "report"}
        BY WorkerTyped DEF NewSession, Session, MemoryStatus, Owner
    <2> QED
        BY <2>1 DEF Worker, ActivePoints
<1>2. worker' = [worker EXCEPT ![w] = me] /\ worker'[w] = me
    BY DEF WriteSession, MemoryInv, TypeOK
<1>3. /\ me.at = point /\ me.outcome = worker[w].outcome
      /\ me.kind = worker[w].kind /\ me.sub = worker[w].sub /\ me.reply = worker[w].reply
      /\ worker[w].copy \in Session
    BY WorkerTyped DEF Worker
<1> HIDE DEF me
<1>4. Sound(w)'
    BY <1>2, <1>3, WorkerTyped
       DEF WriteSession, At, RefreshPoints, Sound, Role, Based, KnowsSynced, Is
<1>5. session' \in Session
    BY <1>3 DEF WriteSession, Session
<1>6. SoundSession'
    BY <1>3, WorkerTyped DEF WriteSession, SoundSession, Sound, TrueOf, Session, At
<1> QED
    BY <1>1, <1>2, <1>4, <1>5, <1>6, OneWorkerMoves DEF WriteSession, MemoryInv, TypeOK

LEMMA ReportInv ==
    ASSUME MemoryInv, NEW w \in Workers, Report(w)
    PROVE  MemoryInv'
<1>1. PICK status \in {"none", "synced", "failed"} :
        worker' = [worker EXCEPT ![w].at = "done", ![w].reply = status]
    BY WorkerTyped DEF Report, Session, MemoryStatus
<1> DEFINE me == [worker[w] EXCEPT !.at = "done", !.reply = status]
<1>2. me \in Worker
    <2>1. worker[w] \in Worker
        BY WorkerTyped
    <2> QED
        BY <2>1 DEF Worker
<1>3. worker' = [worker EXCEPT ![w] = me] /\ worker'[w] = me
    BY <1>1 DEF MemoryInv, TypeOK
<1>4. /\ me.at = "done" /\ me.outcome = worker[w].outcome
      /\ me.kind = worker[w].kind /\ me.sub = worker[w].sub
    BY WorkerTyped DEF Worker
<1> HIDE DEF me
<1>5. Sound(w)'
    BY <1>3, <1>4, WorkerTyped
       DEF Report, At, RefreshPoints, Sound, Role, Based, KnowsSynced, Is
<1>6. SoundSession'
    BY WorkerTyped DEF Report, SoundSession, TrueOf
<1> QED
    BY <1>2, <1>3, <1>5, <1>6, WorkerTyped, OneWorkerMoves DEF Report, MemoryInv, TypeOK

(***************************************************************************)
(* The locked writes of the session's memory status.                       *)
(***************************************************************************)
LEMMA StampedRow ==
    ASSUME MemoryInv, NEW s \in Submissions, NEW status \in MemoryStatus,
           session' \in {session, Stamped(s, status)}, UNCHANGED marked,
           Configured /\ status = "synced" => s \in marked
    PROVE  session' \in Session /\ SoundSession'
<1>1. SoundSession /\ session \in Session
    BY InvIsSound DEF TypeOK
<1>2. CASE session' = session
    BY <1>1, <1>2 DEF SoundSession, TrueOf
<1>3. CASE session' = Stamped(s, status)
    <2>1. session' \in Session /\ session'.memory = status /\ session'.owner = s
        BY <1>1, <1>3 DEF Stamped, Session, Owner
    <2> QED
        BY <2>1 DEF SoundSession, TrueOf
<1> QED
    BY <1>2, <1>3

LEMMA ClaimInv ==
    ASSUME MemoryInv, NEW w \in Workers, Claim(w)
    PROVE  MemoryInv'
<1>1. PICK point \in {"settle", "read_evidence"} :
        Goto(w, point) /\ (point = "settle" => worker[w].outcome = "failed")
    BY DEF Claim
<1>2. w \in Submissions
    BY WorkerTyped DEF Claim, Sound, Role, Is, Workers
<1>3. session' \in Session /\ SoundSession'
    BY <1>2, StampedRow DEF Claim, MemoryStatus
<1>4. worker'[w] = [worker[w] EXCEPT !.at = point]
    BY <1>1, OneWorkerGoes DEF Points, ActivePoints, RefreshPoints
<1>5. Sound(w)'
    BY <1>1, <1>2, <1>4, WorkerTyped
       DEF Claim, At, Sound, Role, Based, KnowsSynced, Is, RefreshPoints, Worker
<1> QED
    BY ZenonT(60), <1>1, <1>3, <1>5, OneWorkerGoes, OneWorkerMoves
       DEF Claim, Points, ActivePoints, RefreshPoints, MemoryInv, TypeOK

LEMMA SetPendingInv ==
    ASSUME MemoryInv, NEW w \in Workers, SetPending(w)
    PROVE  MemoryInv'
<1>1. Goto(w, "read_evidence")
    BY DEF SetPending
<1>2. worker[w].sub \in Submissions
    BY WorkerTyped DEF SetPending, Sound, Role, Is, Worker, Owner
<1>3. session' \in Session /\ SoundSession'
    BY <1>2, StampedRow DEF SetPending, MemoryStatus
<1>4. worker'[w] = [worker[w] EXCEPT !.at = "read_evidence"]
    BY <1>1, OneWorkerGoes DEF Points, ActivePoints, RefreshPoints
<1>5. Sound(w)'
    BY <1>4, WorkerTyped
       DEF SetPending, At, Sound, Role, Based, KnowsSynced, Is, RefreshPoints, Worker
<1> QED
    BY <1>1, <1>3, <1>5, OneWorkerGoes, OneWorkerMoves
       DEF SetPending, Points, ActivePoints, RefreshPoints, MemoryInv, TypeOK

LEMMA SettlesInv ==
    ASSUME MemoryInv, NEW w \in Workers, Settle(w) \/ SettleFails(w)
    PROVE  MemoryInv'
<1> DEFINE s == worker[w].sub
           status == StatusOf(worker[w].outcome)
<1>1. PICK reply \in {status, "none", "failed"} :
        worker' = [worker EXCEPT ![w].at = "done", ![w].reply = reply]
    BY DEF Settle, SettleFails
<1>2. /\ worker[w].at = "settle" /\ UNCHANGED <<verdict, evidence, profile, marked>>
      /\ session' \in {session, Stamped(s, status)}
    BY DEF Settle, SettleFails, At
<1>3. worker[w].kind \in {"owner", "maintain"} /\ s \in Submissions /\ worker[w] \in Worker
    BY <1>2, WorkerTyped DEF Sound, Role, Worker, Owner
<1>4. status \in {"synced", "failed"} /\ (status = "synced" => worker[w].outcome = "synced")
    BY <1>2, <1>3, WorkerTyped DEF StatusOf, Worker, Outcome, Sound, Role
<1>5. Configured /\ status = "synced" => s \in marked
    BY <1>2, <1>4, WorkerTyped DEF Sound, KnowsSynced, At
<1> HIDE DEF s, status
<1>6. session' \in Session /\ SoundSession'
    BY <1>2, <1>3, <1>4, <1>5, StampedRow DEF MemoryStatus
<1> DEFINE me == [worker[w] EXCEPT !.at = "done", !.reply = reply]
<1>7. me \in Worker
    BY <1>3, <1>4 DEF Worker
<1>8. worker' = [worker EXCEPT ![w] = me] /\ worker'[w] = me
    BY <1>1 DEF MemoryInv, TypeOK
<1>9. /\ me.at = "done" /\ me.reply = reply
      /\ me.kind = worker[w].kind /\ me.sub = s
    BY <1>3 DEF Worker, s
<1> HIDE DEF me
<1>10. Sound(w)'
    BY <1>2, <1>3, <1>4, <1>5, <1>8, <1>9, WorkerTyped
       DEF At, RefreshPoints, Sound, Role, Based, KnowsSynced, Is, s
<1> QED
    BY <1>2, <1>6, <1>7, <1>8, <1>10, OneWorkerMoves DEF MemoryInv, TypeOK

(***************************************************************************)
(* The steps of a refresh.                                                 *)
(***************************************************************************)
\* The record that Finish leaves, and what it says.
Finished(w, outcome) ==
    [worker[w] EXCEPT !.at = IF Is(w, "daily") THEN "done" ELSE "settle",
                      !.outcome = outcome, !.seen = {}, !.base = NoProfile]

LEMMA FinishRecord ==
    ASSUME MemoryInv, NEW w \in Workers, NEW outcome \in {"synced", "failed", "missing"},
           Finish(w, outcome), worker[w].at \in RefreshPoints
    PROVE  /\ Finished(w, outcome) \in Worker
           /\ worker' = [worker EXCEPT ![w] = Finished(w, outcome)]
           /\ worker'[w] = Finished(w, outcome)
           /\ worker'[w].at = IF worker[w].kind = "daily" THEN "done" ELSE "settle"
           /\ worker'[w].outcome = outcome
           /\ worker'[w].kind = worker[w].kind
           /\ worker'[w].sub = worker[w].sub
           /\ worker[w].reply = "none" /\ worker'[w].reply = "none"
           /\ worker[w].kind \in {"owner", "maintain", "daily"}
<1>1. worker[w] \in Worker /\ NoProfile \in Profile
    BY WorkerTyped DEF NoProfile, Profile
<1>2. Finished(w, outcome) \in Worker
    BY <1>1 DEF Finished, Worker, ActivePoints, Outcome
<1>3. worker' = [worker EXCEPT ![w] = Finished(w, outcome)]
    BY DEF Finish, Finished
<1>4. worker'[w] = Finished(w, outcome)
    BY <1>3 DEF MemoryInv, TypeOK
<1>5. /\ Finished(w, outcome).at = IF worker[w].kind = "daily" THEN "done" ELSE "settle"
      /\ Finished(w, outcome).outcome = outcome
      /\ Finished(w, outcome).kind = worker[w].kind
      /\ Finished(w, outcome).sub = worker[w].sub
      /\ Finished(w, outcome).reply = worker[w].reply
    BY <1>1 DEF Finished, Worker, Is
<1>6. worker[w].reply = "none" /\ worker[w].kind \in {"owner", "maintain", "daily"}
    BY WorkerTyped DEF Sound, Role, RefreshPoints
<1> QED
    BY <1>2, <1>3, <1>4, <1>5, <1>6

LEMMA FinishInv ==
    ASSUME MemoryInv, NEW w \in Workers, NEW outcome \in {"synced", "failed", "missing"},
           Finish(w, outcome), worker[w].at \in RefreshPoints,
           Configured /\ outcome = "synced" /\ worker[w].kind # "daily" => worker[w].sub \in marked,
           UNCHANGED <<session, verdict, evidence, profile, marked>>
    PROVE  MemoryInv'
<1>1. Sound(w)'
    BY FinishRecord, WorkerTyped
       DEF Sound, Role, Based, KnowsSynced, Is, At, RefreshPoints
<1>2. SoundSession'
    BY WorkerTyped DEF SoundSession, TrueOf
<1> QED
    BY <1>1, <1>2, FinishRecord, WorkerTyped, OneWorkerMoves DEF MemoryInv, TypeOK

LEMMA ReadEvidenceInv ==
    ASSUME MemoryInv, NEW w \in Workers, ReadEvidence(w)
    PROVE  MemoryInv'
<1> DEFINE me == [worker[w] EXCEPT !.at = "read_profile", !.seen = evidence]
<1>1. worker[w] \in Worker /\ evidence \in SUBSET Submissions
    BY WorkerTyped DEF MemoryInv, TypeOK
<1>2. me \in Worker
    BY <1>1 DEF Worker, ActivePoints, RefreshPoints
<1>3. worker' = [worker EXCEPT ![w] = me] /\ worker'[w] = me
    BY DEF ReadEvidence, MemoryInv, TypeOK
<1>4. /\ me.at = "read_profile" /\ me.outcome = worker[w].outcome
      /\ me.kind = worker[w].kind /\ me.sub = worker[w].sub /\ me.reply = worker[w].reply
    BY <1>1 DEF Worker
<1> HIDE DEF me
<1>5. Sound(w)'
    BY <1>3, <1>4, WorkerTyped
       DEF ReadEvidence, At, RefreshPoints, Sound, Role, Based, KnowsSynced, Is
<1>6. SoundSession'
    BY WorkerTyped DEF ReadEvidence, SoundSession, TrueOf
<1> QED
    BY <1>2, <1>3, <1>5, <1>6, WorkerTyped, OneWorkerMoves DEF ReadEvidence, MemoryInv, TypeOK

LEMMA ReadProfileInv ==
    ASSUME MemoryInv, NEW w \in Workers, ReadProfile(w)
    PROVE  MemoryInv'
<1> DEFINE me == [worker[w] EXCEPT !.at = "check", !.base = profile]
<1>1. worker[w] \in Worker /\ profile \in Profile
    BY WorkerTyped
<1>2. me \in Worker
    BY <1>1 DEF Worker, ActivePoints, RefreshPoints
<1>3. worker' = [worker EXCEPT ![w] = me] /\ worker'[w] = me
    BY DEF ReadProfile, MemoryInv, TypeOK
<1>4. /\ me.at = "check" /\ me.outcome = worker[w].outcome /\ me.base = profile
      /\ me.kind = worker[w].kind /\ me.sub = worker[w].sub /\ me.reply = worker[w].reply
    BY <1>1 DEF Worker
<1> HIDE DEF me
<1>5. Sound(w)'
    <2>1. profile.version <= profile.version
        BY <1>1 DEF Profile
    <2> QED
        BY <1>3, <1>4, <2>1, WorkerTyped
           DEF ReadProfile, At, RefreshPoints, Sound, Role, Based, KnowsSynced, Is, UpToDate
<1>6. SoundSession'
    BY WorkerTyped DEF ReadProfile, SoundSession, TrueOf
<1> QED
    BY <1>2, <1>3, <1>5, <1>6, WorkerTyped, OneWorkerMoves DEF ReadProfile, MemoryInv, TypeOK

\* A refresh that goes on with the profile it has read.
LEMMA GoesOnInv ==
    ASSUME MemoryInv, NEW w \in Workers, NEW point \in {"generate", "save"},
           worker[w].at \in {"check", "generate"}, Goto(w, point),
           UNCHANGED <<session, verdict, evidence, profile, marked>>
    PROVE  MemoryInv'
<1>1. point \in Points
    BY DEF Points, ActivePoints, RefreshPoints
<1>2. worker'[w] = [worker[w] EXCEPT !.at = point]
    BY <1>1, OneWorkerGoes
<1>3. Sound(w)'
    BY <1>2, WorkerTyped
       DEF At, RefreshPoints, Sound, Role, Based, KnowsSynced, Is, UpToDate, Worker
<1>4. SoundSession'
    BY WorkerTyped DEF SoundSession, TrueOf
<1> QED
    BY ZenonT(60), <1>1, <1>3, <1>4, WorkerTyped, OneWorkerGoes, OneWorkerMoves DEF MemoryInv, TypeOK

LEMMA ChecksInv ==
    ASSUME MemoryInv, NEW w \in Workers, CheckCompletion(w) \/ CheckDigest(w) \/ Generate(w)
    PROVE  MemoryInv'
<1>1. CASE CheckCompletion(w)
    <2>1. /\ worker[w].at = "check" /\ worker[w].kind # "daily"
          /\ UNCHANGED <<session, verdict, evidence, profile, marked>>
          /\ \/ Finish(w, "synced") /\ (Configured => worker[w].sub \in marked)
             \/ Finish(w, "missing")
             \/ Goto(w, "generate")
        BY <1>1 DEF CheckCompletion, At, Is
    <2> QED
        BY <2>1, FinishInv, GoesOnInv DEF RefreshPoints
<1>2. CASE CheckDigest(w)
    <2>1. /\ worker[w].at = "check" /\ worker[w].kind = "daily"
          /\ UNCHANGED <<session, verdict, evidence, profile, marked>>
          /\ Finish(w, "synced") \/ Goto(w, "generate")
        BY <1>2 DEF CheckDigest, At, Is
    <2> QED
        BY <2>1, FinishInv, GoesOnInv DEF RefreshPoints
<1>3. CASE Generate(w)
    BY <1>3, GoesOnInv DEF Generate, At
<1> QED
    BY <1>1, <1>2, <1>3

LEMMA RefreshFailsInv ==
    ASSUME MemoryInv, NEW w \in Workers, RefreshFails(w)
    PROVE  MemoryInv'
    BY FinishInv DEF RefreshFails

LEMMA SaveFindsMarkerInv ==
    ASSUME MemoryInv, NEW w \in Workers, SaveFindsMarker(w)
    PROVE  MemoryInv'
    BY FinishInv DEF SaveFindsMarker, At, RefreshPoints

LEMMA SaveIsStaleInv ==
    ASSUME MemoryInv, NEW w \in Workers, SaveIsStale(w)
    PROVE  MemoryInv'
<1>1. /\ worker[w].at = "save" /\ UNCHANGED <<session, verdict, evidence, profile, marked>>
      /\ worker[w] \in Worker /\ NoProfile \in Profile
    BY WorkerTyped DEF SaveIsStale, At, NoProfile, Profile
<1>2. CASE Finish(w, "failed")
    BY <1>1, <1>2, FinishInv DEF RefreshPoints
<1>3. CASE worker' = [worker EXCEPT ![w].at = "read_evidence", ![w].attempt = 2,
                                    ![w].seen = {}, ![w].base = NoProfile]
    <2> DEFINE me == [worker[w] EXCEPT !.at = "read_evidence", !.attempt = 2,
                                       !.seen = {}, !.base = NoProfile]
    <2>1. me \in Worker
        <3>1. 2 \in 1..2 /\ {} \in SUBSET Submissions /\ "read_evidence" \in Points
            BY DEF Points, ActivePoints, RefreshPoints
        <3> QED
            BY <1>1, <3>1 DEF Worker, Points
    <2>2. worker' = [worker EXCEPT ![w] = me] /\ worker'[w] = me
        BY <1>3 DEF MemoryInv, TypeOK
    <2>3. /\ me.at = "read_evidence" /\ me.outcome = worker[w].outcome
          /\ me.kind = worker[w].kind /\ me.sub = worker[w].sub /\ me.reply = worker[w].reply
        BY <1>1 DEF Worker
    <2> HIDE DEF me
    <2>4. Sound(w)'
        BY <1>1, <2>2, <2>3, WorkerTyped
           DEF At, RefreshPoints, Sound, Role, Based, KnowsSynced, Is
    <2>5. SoundSession'
        BY <1>1, WorkerTyped DEF SoundSession, TrueOf
    <2> QED
        BY <1>1, <2>1, <2>2, <2>4, <2>5, WorkerTyped, OneWorkerMoves DEF MemoryInv, TypeOK
<1> QED
    BY <1>2, <1>3 DEF SaveIsStale

(***************************************************************************)
(* The step that writes the profile.                                       *)
(***************************************************************************)
LEMMA SaveCommitsWrites ==
    ASSUME MemoryInv, NEW w \in Workers, SaveCommits(w)
    PROVE  /\ worker[w].at = "save" /\ worker[w].sub \notin marked
           /\ profile' \in Profile
           /\ profile'.version = profile.version + 1
           /\ \E outcome \in {"synced", "failed"} : Finish(w, outcome)
           /\ UNCHANGED <<session, verdict, evidence>>
           /\ \/ /\ worker[w].kind = "daily"
                 /\ profile'.folded = profile.folded /\ marked' = marked
              \/ /\ worker[w].kind # "daily" /\ worker[w].sub \in Submissions
                 /\ profile'.folded = Append(profile.folded, worker[w].sub)
                 /\ marked' = marked \union {worker[w].sub}
<1>1. /\ worker[w].at = "save" /\ worker[w].sub \notin marked /\ UpToDate(w)
      /\ \E outcome \in {"synced", "failed"} : Finish(w, outcome)
      /\ UNCHANGED <<session, verdict, evidence>>
    BY DEF SaveCommits, At
<1>2. worker[w] \in Worker /\ profile \in Profile /\ Role(w) /\ Based(w)
    BY WorkerTyped DEF Sound
<1>3. worker[w].base.folded = profile.folded /\ worker[w].base.version = profile.version
    BY <1>1, <1>2 DEF Based, UpToDate
<1>4. /\ profile.version + 1 \in Nat /\ profile.folded \in Seq(Submissions)
      /\ worker[w].seen \in SUBSET Submissions
    BY <1>2 DEF Profile, Worker
<1>5. worker[w].kind # "daily" => worker[w].sub \in Submissions
    BY <1>1, <1>2 DEF Role, Worker, Owner, RefreshPoints
<1> DEFINE notes == IF Is(w, "daily") THEN profile.folded ELSE Append(profile.folded, worker[w].sub)
<1>6. notes \in Seq(Submissions)
    BY <1>4, <1>5 DEF Is
<1>7. profile' = [version |-> profile.version + 1, folded |-> notes, digest |-> worker[w].seen]
    BY <1>3 DEF SaveCommits
<1>8. marked' = IF Is(w, "daily") THEN marked ELSE marked \union {worker[w].sub}
    BY DEF SaveCommits
<1> HIDE DEF notes
<1>9. /\ profile' \in Profile /\ profile'.version = profile.version + 1
      /\ profile'.folded = notes
    BY <1>4, <1>6, <1>7 DEF Profile
<1> QED
    BY <1>1, <1>5, <1>8, <1>9 DEF notes, Is

LEMMA SaveCommitsLedger ==
    ASSUME MemoryInv, NEW w \in Workers, SaveCommits(w)
    PROVE  ProfileIsLedger'
<1>1. ProfileIsLedger /\ profile.folded \in Seq(Submissions)
    BY WorkerTyped, InvIsSound DEF Profile
<1>2. CASE profile'.folded = profile.folded /\ marked' = marked
    BY <1>1, <1>2 DEF ProfileIsLedger, Folded
<1>3. ASSUME NEW s \in Submissions, s \notin marked,
             profile'.folded = Append(profile.folded, s), marked' = marked \union {s}
      PROVE  ProfileIsLedger'
    <2> DEFINE old == profile.folded
               new == profile'.folded
    <2>1. /\ Len(new) = Len(old) + 1
          /\ DOMAIN old = 1..Len(old) /\ DOMAIN new = 1..(Len(old) + 1)
          /\ new[Len(old) + 1] = s /\ Len(old) \in Nat
          /\ \A i \in 1..Len(old) : new[i] = old[i]
        BY <1>1, <1>3
    <2>2. \A i \in 1..Len(old) : old[i] \in marked
        BY <1>1, <2>1 DEF ProfileIsLedger, Folded
    <2>3. \A x : x \in marked <=> \E i \in 1..Len(old) : old[i] = x
        BY <1>1, <2>1 DEF ProfileIsLedger, Folded
    <2>4. \A i \in DOMAIN new : i = Len(old) + 1 \/ i \in 1..Len(old)
        BY <2>1
    <2>5. Folded' = marked'
        <3>1. \A x : x \in Folded' <=> \E i \in DOMAIN new : new[i] = x
            BY DEF Folded
        <3>2. \A i \in 1..Len(old) : i \in DOMAIN new
            BY <2>1
        <3>3. Len(old) + 1 \in DOMAIN new
            BY <2>1
        <3> HIDE DEF old, new
        <3>4. \A x : (\E i \in DOMAIN new : new[i] = x) <=> (x \in marked \/ x = s)
            BY <2>1, <2>3, <2>4, <3>2, <3>3
        <3> QED
            BY <1>3, <3>1, <3>4
    <2>6. \A i, j \in 1..Len(old) : old[i] = old[j] => i = j
        BY <1>1, <2>1 DEF ProfileIsLedger
    <2>7. \A i, j \in DOMAIN new : new[i] = new[j] => i = j
        <3> HIDE DEF old, new
        <3> QED
            BY <1>3, <2>1, <2>2, <2>4, <2>6
    <2> QED
        BY <2>5, <2>7 DEF ProfileIsLedger
<1> QED
    BY <1>2, <1>3, SaveCommitsWrites

LEMMA SaveCommitsInv ==
    ASSUME MemoryInv, NEW w \in Workers, SaveCommits(w)
    PROVE  MemoryInv'
<1>1. PICK outcome \in {"synced", "failed"} : Finish(w, outcome)
    BY SaveCommitsWrites
<1>2. worker[w].at \in RefreshPoints
    BY SaveCommitsWrites DEF RefreshPoints
<1>3. /\ worker' = [worker EXCEPT ![w] = Finished(w, outcome)]
      /\ Finished(w, outcome) \in Worker
    BY <1>1, <1>2, FinishRecord
<1>4. /\ marked \subseteq marked' /\ marked' \in SUBSET Submissions
      /\ worker[w].kind # "daily" => worker[w].sub \in marked'
    BY SaveCommitsWrites DEF MemoryInv, TypeOK
<1>5. TypeOK'
    BY <1>3, <1>4, SaveCommitsWrites DEF MemoryInv, TypeOK
<1>6. Sound(w)'
    BY <1>1, <1>2, <1>4, FinishRecord, WorkerTyped
       DEF Sound, Role, Based, KnowsSynced, Is, At, RefreshPoints
<1>7. ASSUME NEW x \in Workers \ {w} PROVE Sound(x)'
    <2>1. worker'[x] = worker[x] /\ Sound(x) /\ worker[x] \in Worker /\ profile \in Profile
        BY <1>3, WorkerTyped DEF MemoryInv, TypeOK
    <2>2. Role(x)'
        BY <2>1 DEF Sound, Role
    <2>3. Based(x)'
        <3>1. worker[x].base.version \in Nat /\ profile.version \in Nat
            BY <2>1 DEF Worker, Profile
        <3> QED
            BY <2>1, <3>1, SaveCommitsWrites DEF Sound, Based, UpToDate
    <2> QED
        BY <1>4, <2>1, <2>2, <2>3 DEF Sound, KnowsSynced, At, Is, TrueOf
<1>8. SoundSession'
    BY <1>4, WorkerTyped, SaveCommitsWrites DEF SoundSession, TrueOf
<1> QED
    BY <1>5, <1>6, <1>7, <1>8, SaveCommitsLedger
       DEF MemoryInv, Roles, Bases, KnowledgeIsTrue, SessionsAreTrue, Sound, SoundSession

(***************************************************************************)
(* The steps of a browser tab: only where tabs may be opened.              *)
(***************************************************************************)
LEMMA TabMoves ==
    ASSUME MemoryInv, NEW w \in Workers, NEW me \in Worker,
           worker[w].at \in {"load", "edit", "patch"},
           me.kind = worker[w].kind, me.sub = worker[w].sub, me.reply = worker[w].reply,
           me.at \in {"edit", "patch", "done"},
           worker' = [worker EXCEPT ![w] = me], session' \in Session,
           UNCHANGED <<verdict, evidence, profile, marked>>
    PROVE  MemoryInv'
<1>1. "tab" \in HelperKinds /\ worker[w].kind = "tab" /\ worker[w].reply = "none"
    BY WorkerTyped DEF Sound, Role
<1>2. worker'[w] = me
    BY DEF MemoryInv, TypeOK
<1>3. Sound(w)'
    BY <1>1, <1>2, WorkerTyped
       DEF Sound, Role, Based, KnowsSynced, Is, At, RefreshPoints
<1>4. SoundSession'
    BY <1>1 DEF SoundSession
<1> QED
    BY <1>3, <1>4, OneWorkerMoves DEF MemoryInv, TypeOK

LEMMA TabInv ==
    ASSUME MemoryInv, NEW w \in Workers,
           LoadTab(w) \/ MergeAnswer(w) \/ ReadForPatch(w) \/ WritePatch(w)
    PROVE  MemoryInv'
<1>0. worker[w] \in Worker /\ session \in Session
    BY WorkerTyped
<1>1. CASE LoadTab(w)
    <2> DEFINE others == {x \in Workers : ~At(x, "idle")}
               me == [worker[w] EXCEPT !.at = "edit", !.copy = session, !.foreign = others]
    <2>1. me \in Worker
        BY <1>0 DEF Worker, ActivePoints
    <2>2. worker' = [worker EXCEPT ![w] = me]
        BY <1>1 DEF LoadTab
    <2>3. me.kind = worker[w].kind /\ me.sub = worker[w].sub /\ me.reply = worker[w].reply
          /\ me.at = "edit"
        BY <1>0 DEF Worker
    <2> HIDE DEF me
    <2> QED
        BY <1>0, <1>1, <2>1, <2>2, <2>3, TabMoves DEF LoadTab, At
<1>2. CASE MergeAnswer(w)
    <2>1. PICK x \in Workers :
            /\ worker[x].kind \in {"owner", "replay"}
            /\ worker' = [worker EXCEPT
                            ![w].foreign = @ \union {x},
                            ![w].copy.owner = worker[x].sub,
                            ![w].copy.memory = IF worker[x].reply = "none" THEN @
                                               ELSE worker[x].reply]
        BY <1>2 DEF MergeAnswer
    <2> DEFINE row == [worker[w].copy EXCEPT
                         !.owner = worker[x].sub,
                         !.memory = IF worker[x].reply = "none" THEN @ ELSE worker[x].reply]
               me == [worker[w] EXCEPT !.foreign = @ \union {x}, !.copy = row]
    <2>2. worker[x] \in Worker
        BY WorkerTyped
    <2>3. row \in Session
        BY <1>0, <2>2 DEF Worker, Session, MemoryStatus
    <2>4. me \in Worker
        <3> HIDE DEF row
        <3> QED
            BY <1>0, <2>3 DEF Worker
    <2>5. worker' = [worker EXCEPT ![w] = me]
        BY ZenonT(60), <1>0, <2>1 DEF Worker, Session
    <2>6. /\ me.kind = worker[w].kind /\ me.sub = worker[w].sub
          /\ me.reply = worker[w].reply /\ me.at = worker[w].at
        BY <1>0 DEF Worker
    <2> HIDE DEF me
    <2> QED
        BY <1>0, <1>2, <2>4, <2>5, <2>6, TabMoves DEF MergeAnswer, At
<1>3. CASE ReadForPatch(w)
    <2> DEFINE row == [worker[w].copy EXCEPT !.status = session.status]
               me == [worker[w] EXCEPT !.at = "patch", !.copy = row]
    <2>1. row \in Session
        BY <1>0 DEF Worker, Session
    <2>2. me \in Worker
        <3> HIDE DEF row
        <3> QED
            BY <1>0, <2>1 DEF Worker, ActivePoints
    <2>3. worker' = [worker EXCEPT ![w] = me]
        BY <1>0, <1>3 DEF ReadForPatch, Worker, Session
    <2>4. /\ me.kind = worker[w].kind /\ me.sub = worker[w].sub
          /\ me.reply = worker[w].reply /\ me.at = "patch"
        BY <1>0 DEF Worker
    <2> HIDE DEF me
    <2> QED
        BY <1>0, <1>3, <2>2, <2>3, <2>4, TabMoves DEF ReadForPatch, At
<1>4. CASE WritePatch(w)
    <2> DEFINE me == [worker[w] EXCEPT !.at = "done", !.copy = NewSession, !.foreign = {}]
    <2>1. NewSession \in Session
        BY DEF NewSession, Session, MemoryStatus, Owner
    <2>2. me \in Worker
        BY <1>0, <2>1 DEF Worker
    <2>3. worker' = [worker EXCEPT ![w] = me]
        BY <1>4 DEF WritePatch
    <2>4. /\ me.kind = worker[w].kind /\ me.sub = worker[w].sub
          /\ me.reply = worker[w].reply /\ me.at = "done"
          /\ worker[w].copy \in Session
        BY <1>0 DEF Worker
    <2> HIDE DEF me
    <2> QED
        BY <1>4, <2>2, <2>3, <2>4, TabMoves DEF WritePatch, At
<1> QED
    BY <1>1, <1>2, <1>3, <1>4

LEMMA AbortInv ==
    ASSUME MemoryInv, NEW w \in Workers, Abort(w)
    PROVE  MemoryInv'
<1> DEFINE me == Fresh(worker[w].kind, worker[w].sub, "dead")
<1>1. worker[w] \in Worker
    BY WorkerTyped
<1>2. me \in Worker
    BY <1>1 DEF Fresh, Worker, NewSession, Session, MemoryStatus, Owner, NoProfile, Profile,
                Outcome
<1>3. worker' = [worker EXCEPT ![w] = me] /\ worker'[w] = me
    BY DEF Abort, MemoryInv, TypeOK
<1>4. /\ me.kind = worker[w].kind /\ me.sub = worker[w].sub /\ me.at = "dead"
      /\ me.reply = "none"
    BY DEF Fresh
<1> HIDE DEF me
<1>5. Sound(w)'
    BY <1>3, <1>4, WorkerTyped
       DEF Sound, Role, Based, KnowsSynced, Is, At, RefreshPoints
<1>6. SoundSession'
    BY WorkerTyped DEF Abort, SoundSession, TrueOf
<1> QED
    BY <1>2, <1>3, <1>5, <1>6, WorkerTyped, OneWorkerMoves DEF Abort, MemoryInv, TypeOK

(***************************************************************************)
(* The invariant is inductive.                                             *)
(***************************************************************************)
LEMMA NextInv == MemoryInv /\ [Next]_memoryVars => MemoryInv'
<1> SUFFICES ASSUME MemoryInv, [Next]_memoryVars PROVE MemoryInv'
    OBVIOUS
<1>1. CASE UNCHANGED memoryVars
    BY <1>1 DEF memoryVars, MemoryInv, TypeOK, Roles, Role, Bases, Based, UpToDate,
                ProfileIsLedger, Folded, KnowledgeIsTrue, KnowsSynced, At, Is, SessionsAreTrue,
                TrueOf
<1>2. ASSUME NEW w \in Workers, Graded(w) \/ Start(w) PROVE MemoryInv'
    BY <1>2, GradedInv, StartsInv
<1>3. ASSUME NEW w \in Workers, Step(w) PROVE MemoryInv'
    BY <1>3, RecordEvidenceInv, ReadSessionInv, WriteSessionInv, ReportInv, ClaimInv,
       SetPendingInv, SettlesInv, ReadEvidenceInv, ReadProfileInv, ChecksInv,
       SaveFindsMarkerInv, SaveIsStaleInv, SaveCommitsInv, TabInv
       DEF Step, Refresh
<1>4. ASSUME NEW w \in Workers, Fail(w) PROVE MemoryInv'
    BY <1>4, RefreshFailsInv, SettlesInv, AbortInv DEF Fail
<1> QED
    BY <1>1, <1>2, <1>3, <1>4 DEF Next

(***************************************************************************)
(* The invariant holds, for any submissions and processes, whether tabs    *)
(* may be opened or not.                                                   *)
(***************************************************************************)
THEOREM MemoryInvariant == Spec => []MemoryInv
    BY InitInv, NextInv, PTL DEF Spec

\* Every variable keeps its type.
THEOREM MemoryTypesCorrect == Spec => []TypeOK
<1>1. MemoryInv => TypeOK
    BY DEF MemoryInv
<1> QED
    BY <1>1, MemoryInvariant, PTL

(***************************************************************************)
(* However many refreshes race, fail and are retried, the notes hold each  *)
(* marked completion exactly once, and no other.                           *)
(***************************************************************************)
THEOREM ProfileStaysLedger == Spec => []ProfileIsLedger
<1>1. MemoryInv => ProfileIsLedger
    BY DEF MemoryInv
<1> QED
    BY <1>1, MemoryInvariant, PTL

(***************************************************************************)
(* Where no browser tab writes the session's state, a session that says    *)
(* synced for a submission had it folded into the profile.                 *)
(***************************************************************************)
THEOREM SyncedStaysTrue ==
    ASSUME "tab" \notin HelperKinds
    PROVE  Spec => []SyncedIsRecorded
<1>1. MemoryInv => SyncedIsRecorded
    BY DEF MemoryInv, SessionsAreTrue, SyncedIsRecorded, TrueOf
<1> QED
    BY <1>1, MemoryInvariant, PTL

-----------------------------------------------------------------------------

(***************************************************************************)
(* The refinement: what the abstract ledger sees of a state.               *)
(***************************************************************************)
told == IF Configured THEN ToldSynced ELSE {}

IsTold(w) == ~Is(w, "replay") /\ worker[w].reply = "synced"

LEMMA ToldMembers == \A s : s \in ToldSynced <=> \E w \in Workers : IsTold(w) /\ worker[w].sub = s
    BY DEF ToldSynced, IsTold

LEMMA LedgerInit == Init => Ledger!Init
<1> SUFFICES ASSUME Init PROVE Ledger!Init
    OBVIOUS
<1>1. \A w \in Workers : worker[w].reply = "none"
    BY DEF Init, Fresh
<1>2. ToldSynced = {}
    BY <1>1 DEF ToldSynced
<1> QED
    BY <1>2 DEF Init, Ledger!Init, NoProfile

(***************************************************************************)
(* A step in which nobody is told anything is invisible to the answers.    *)
(***************************************************************************)
LEMMA NobodyTold ==
    ASSUME NEW w \in Workers,
           \A x \in Workers \ {w} : worker'[x] = worker[x],
           ~IsTold(w), ~IsTold(w)'
    PROVE  told' = told
<1>1. ASSUME NEW x \in Workers
      PROVE  (IsTold(x) <=> IsTold(x)') /\ (IsTold(x) => worker'[x].sub = worker[x].sub)
    BY DEF IsTold, Is
<1>2. ToldSynced' = {worker'[x].sub : x \in {y \in Workers : IsTold(y)'}}
    BY DEF ToldSynced, IsTold
<1>3. ToldSynced = {worker[x].sub : x \in {y \in Workers : IsTold(y)}}
    BY DEF ToldSynced, IsTold
<1>4. \A s : s \in ToldSynced' <=> s \in ToldSynced
    BY <1>1, <1>2, <1>3
<1>5. ToldSynced' = ToldSynced
    BY <1>4
<1> QED
    BY <1>5 DEF told

LEMMA OneTold ==
    ASSUME NEW w \in Workers,
           \A x \in Workers \ {w} : worker'[x] = worker[x],
           ~IsTold(w), IsTold(w)', Configured
    PROVE  told' = told \union {worker'[w].sub}
<1>1. ASSUME NEW x \in Workers, x # w
      PROVE  (IsTold(x) <=> IsTold(x)') /\ worker'[x].sub = worker[x].sub
    BY <1>1 DEF IsTold, Is
<1>2. ToldSynced' = {worker'[x].sub : x \in {y \in Workers : IsTold(y)'}}
    BY DEF ToldSynced, IsTold
<1>3. ToldSynced = {worker[x].sub : x \in {y \in Workers : IsTold(y)}}
    BY DEF ToldSynced, IsTold
<1>4. \A s : s \in ToldSynced' <=> s \in ToldSynced \/ s = worker'[w].sub
    BY <1>1, <1>2, <1>3
<1>5. ToldSynced' = ToldSynced \union {worker'[w].sub}
    BY <1>4
<1> QED
    BY <1>5 DEF told

\* Nobody who is not done has been told anything.
LEMMA NotYetTold ==
    ASSUME MemoryInv, NEW w \in Workers, worker[w].at # "done"
    PROVE  ~IsTold(w)
    BY WorkerTyped DEF Sound, Role, IsTold

(***************************************************************************)
(* The steps that tell nobody.                                             *)
(***************************************************************************)
LEMMA QuietSteps ==
    ASSUME MemoryInv, NEW w \in Workers,
           \/ Graded(w) \/ Start(w) \/ RecordEvidence(w) \/ ReadSession(w) \/ WriteSession(w)
           \/ Claim(w) \/ SetPending(w) \/ ReadEvidence(w) \/ ReadProfile(w) \/ Generate(w)
           \/ SettleFails(w)
           \/ LoadTab(w) \/ MergeAnswer(w) \/ ReadForPatch(w) \/ WritePatch(w) \/ Abort(w)
    PROVE  UNCHANGED <<profile.folded, told>>
<1>0. worker \in [Workers -> Worker] /\ worker[w] \in Worker
    BY WorkerTyped DEF MemoryInv, TypeOK
<1>1. worker[w].at # "done" /\ UNCHANGED profile
    BY DEF Graded, Start, StartDaily, OpenTab, StartReplay, StartMaintain, Starts,
           RecordEvidence, ReadSession, WriteSession, Claim, SetPending, ReadEvidence,
           ReadProfile, Generate, SettleFails, LoadTab, MergeAnswer, ReadForPatch, WritePatch,
           Abort, At, ActivePoints, RefreshPoints
<1>2. worker[w].reply = "none" /\ ~IsTold(w)
    BY <1>1, WorkerTyped, NotYetTold DEF Sound, Role
<1>3. \A x \in Workers \ {w} : worker'[x] = worker[x]
    BY <1>0
       DEF Graded, Start, StartDaily, OpenTab, StartReplay, StartMaintain, Starts,
           RecordEvidence, ReadSession, WriteSession, Claim, SetPending, ReadEvidence,
           ReadProfile, Generate, SettleFails, LoadTab, MergeAnswer, ReadForPatch, WritePatch,
           Abort, Goto
<1>4. worker'[w].reply \in {"none", "failed"}
    <2>1. CASE Start(w) \/ Abort(w)
        BY <1>0, <2>1
           DEF Start, StartDaily, OpenTab, StartReplay, StartMaintain, Starts, Abort, Fresh
    <2>2. CASE Graded(w) \/ Claim(w) \/ SetPending(w) \/ Generate(w)
        BY <1>0, <1>2, <2>2 DEF Graded, Claim, SetPending, Generate, Goto, Worker
    <2>3. CASE RecordEvidence(w) \/ ReadSession(w) \/ WriteSession(w)
        BY <1>0, <1>2, <2>3 DEF RecordEvidence, ReadSession, WriteSession, Worker
    <2>4. CASE ReadEvidence(w) \/ ReadProfile(w) \/ SettleFails(w)
        BY <1>0, <1>2, <2>4 DEF ReadEvidence, ReadProfile, SettleFails, Worker
    <2>5. CASE LoadTab(w) \/ ReadForPatch(w) \/ WritePatch(w)
        BY <1>0, <1>2, <2>5 DEF LoadTab, ReadForPatch, WritePatch, Worker
    <2>6. CASE MergeAnswer(w)
        <3>1. PICK x \in Workers :
                worker' = [worker EXCEPT
                             ![w].foreign = @ \union {x},
                             ![w].copy.owner = worker[x].sub,
                             ![w].copy.memory = IF worker[x].reply = "none" THEN @
                                                ELSE worker[x].reply]
            BY <2>6 DEF MergeAnswer
        <3> DEFINE row == [worker[w].copy EXCEPT
                             !.owner = worker[x].sub,
                             !.memory = IF worker[x].reply = "none" THEN @ ELSE worker[x].reply]
                   me == [worker[w] EXCEPT !.foreign = @ \union {x}, !.copy = row]
        <3>2. worker' = [worker EXCEPT ![w] = me]
            BY ZenonT(60), <1>0, <3>1 DEF Worker, Session
        <3>3. me.reply = worker[w].reply
            BY <1>0 DEF Worker
        <3> HIDE DEF me
        <3> QED
            BY <1>0, <1>2, <3>2, <3>3
    <2> QED
        BY <2>1, <2>2, <2>3, <2>4, <2>5, <2>6
<1>5. ~IsTold(w)'
    BY <1>4 DEF IsTold
<1> QED
    BY <1>1, <1>2, <1>3, <1>5, NobodyTold

LEMMA QuietFinish ==
    ASSUME MemoryInv, NEW w \in Workers, NEW outcome \in {"synced", "failed", "missing"},
           Finish(w, outcome), worker[w].at \in RefreshPoints
    PROVE  told' = told
<1>1. worker[w].at # "done"
    BY DEF RefreshPoints
<1>2. ~IsTold(w) /\ ~IsTold(w)'
    BY <1>1, FinishRecord, NotYetTold DEF IsTold
<1>3. \A x \in Workers \ {w} : worker'[x] = worker[x]
    BY DEF Finish, MemoryInv, TypeOK
<1> QED
    BY <1>2, <1>3, NobodyTold

LEMMA QuietRefresh ==
    ASSUME MemoryInv, NEW w \in Workers,
           \/ CheckCompletion(w) \/ CheckDigest(w) \/ RefreshFails(w)
           \/ SaveFindsMarker(w) \/ SaveIsStale(w)
    PROVE  UNCHANGED <<profile.folded, told>>
<1>1. worker[w].at \in RefreshPoints /\ UNCHANGED profile
    BY DEF CheckCompletion, CheckDigest, RefreshFails, SaveFindsMarker, SaveIsStale, At,
           RefreshPoints
<1>2. \/ \E outcome \in {"synced", "failed", "missing"} : Finish(w, outcome)
      \/ Goto(w, "generate")
      \/ worker' = [worker EXCEPT ![w].at = "read_evidence", ![w].attempt = 2,
                                  ![w].seen = {}, ![w].base = NoProfile]
    BY DEF CheckCompletion, CheckDigest, RefreshFails, SaveFindsMarker, SaveIsStale
<1>3. CASE \E outcome \in {"synced", "failed", "missing"} : Finish(w, outcome)
    BY <1>1, <1>3, QuietFinish
<1>4. CASE \/ Goto(w, "generate")
           \/ worker' = [worker EXCEPT ![w].at = "read_evidence", ![w].attempt = 2,
                                       ![w].seen = {}, ![w].base = NoProfile]
    <2>1. worker \in [Workers -> Worker] /\ worker[w] \in Worker
        BY WorkerTyped DEF MemoryInv, TypeOK
    <2>2. ~IsTold(w) /\ worker[w].reply = "none"
        BY <1>1, WorkerTyped, NotYetTold DEF Sound, Role, RefreshPoints
    <2>3. \A x \in Workers \ {w} : worker'[x] = worker[x]
        BY <1>4, <2>1 DEF Goto
    <2>4. worker'[w].reply = "none"
        BY <1>4, <2>1, <2>2 DEF Goto, Worker
    <2> QED
        BY <1>1, <2>2, <2>3, <2>4, NobodyTold DEF IsTold
<1> QED
    BY <1>2, <1>3, <1>4

\* A replay is told the session's status, not its completion's.
LEMMA QuietReport ==
    ASSUME MemoryInv, NEW w \in Workers, Report(w)
    PROVE  UNCHANGED <<profile.folded, told>>
<1>1. worker[w].at = "report" /\ UNCHANGED profile
    BY DEF Report, At
<1>2. worker[w].kind = "replay" /\ worker[w] \in Worker /\ ~IsTold(w)
    BY <1>1, WorkerTyped, NotYetTold DEF Sound, Role
<1>3. worker'[w].kind = "replay" /\ \A x \in Workers \ {w} : worker'[x] = worker[x]
    BY <1>2 DEF Report, MemoryInv, TypeOK, Worker
<1> QED
    BY <1>1, <1>2, <1>3, NobodyTold DEF IsTold, Is

(***************************************************************************)
(* The steps that tell and that fold.                                      *)
(***************************************************************************)
LEMMA SettleTells ==
    ASSUME MemoryInv, NEW w \in Workers, Settle(w)
    PROVE  [Ledger!Next]_(Ledger!ledgerVars)
<1> DEFINE s == worker[w].sub
           status == StatusOf(worker[w].outcome)
<1>1. PICK reply \in {status, "none"} :
        worker' = [worker EXCEPT ![w].at = "done", ![w].reply = reply]
    BY DEF Settle
<1>2. worker[w].at = "settle" /\ UNCHANGED <<profile, marked>>
    BY DEF Settle, At
<1>3. /\ worker[w] \in Worker /\ worker[w].kind \in {"owner", "maintain"} /\ ~IsTold(w)
      /\ s \in Submissions
    BY <1>2, WorkerTyped, NotYetTold DEF Sound, Role, Worker, Owner
<1>4. /\ worker'[w].reply = reply /\ worker'[w].sub = s /\ worker'[w].kind = worker[w].kind
      /\ \A x \in Workers \ {w} : worker'[x] = worker[x]
    BY <1>1, <1>3 DEF MemoryInv, TypeOK, Worker
<1>5. CASE reply = "synced" /\ Configured
    <2>1. worker[w].outcome = "synced"
        BY <1>5 DEF StatusOf
    <2>2. s \in marked
        BY <1>2, <1>5, <2>1, WorkerTyped DEF Sound, KnowsSynced, At
    <2>3. \E i \in DOMAIN profile.folded : profile.folded[i] = s
        BY <2>2, InvIsSound DEF ProfileIsLedger, Folded
    <2>4. told' = told \union {s}
        BY <1>3, <1>4, <1>5, OneTold DEF IsTold, Is
    <2> HIDE DEF s
    <2>5. Ledger!Tell(s)
        BY <1>2, <2>3, <2>4 DEF Ledger!Tell, Ledger!InLedger, told
    <2> QED
        BY <1>3, <2>5 DEF Ledger!Next
<1>6. CASE ~(reply = "synced" /\ Configured)
    <2>1. told' = told
        <3>1. CASE ~Configured
            BY <3>1 DEF told
        <3>2. CASE reply # "synced"
            BY <1>3, <1>4, <3>2, NobodyTold DEF IsTold
        <3> QED
            BY <1>6, <3>1, <3>2
    <2> QED
        BY <1>2, <2>1 DEF Ledger!ledgerVars, told
<1> QED
    BY <1>5, <1>6

LEMMA SaveFolds ==
    ASSUME MemoryInv, NEW w \in Workers, SaveCommits(w)
    PROVE  [Ledger!Next]_(Ledger!ledgerVars)
<1> DEFINE s == worker[w].sub
<1>1. told' = told
    BY SaveCommitsWrites, QuietFinish DEF RefreshPoints
<1>2. CASE profile'.folded = profile.folded
    BY <1>1, <1>2 DEF Ledger!ledgerVars, told
<1>3. CASE /\ s \in Submissions /\ s \notin marked
           /\ profile'.folded = Append(profile.folded, s)
    <2>1. ~\E i \in DOMAIN profile.folded : profile.folded[i] = s
        BY <1>3, InvIsSound DEF ProfileIsLedger, Folded
    <2> HIDE DEF s
    <2>2. Ledger!Fold(s)
        BY <1>1, <1>3, <2>1 DEF Ledger!Fold, Ledger!InLedger, told
    <2> QED
        BY <1>3, <2>2 DEF Ledger!Next
<1> QED
    BY <1>2, <1>3, SaveCommitsWrites

LEMMA LedgerStep ==
    MemoryInv /\ [Next]_memoryVars => [Ledger!Next]_(Ledger!ledgerVars)
<1> SUFFICES ASSUME MemoryInv, [Next]_memoryVars
             PROVE  [Ledger!Next]_(Ledger!ledgerVars)
    OBVIOUS
<1>1. CASE UNCHANGED <<profile.folded, told>>
    BY <1>1 DEF Ledger!ledgerVars, told
<1>2. CASE UNCHANGED memoryVars
    BY <1>2 DEF memoryVars, Ledger!ledgerVars, ToldSynced, Is
<1>3. ASSUME NEW w \in Workers, Graded(w) \/ Start(w) \/ Step(w) \/ Fail(w)
      PROVE  [Ledger!Next]_(Ledger!ledgerVars)
    BY <1>1, <1>3, QuietSteps, QuietRefresh, QuietReport, SettleTells, SaveFolds
       DEF Step, Refresh, Fail
<1> QED
    BY <1>2, <1>3 DEF Next

(***************************************************************************)
(* Refreshes that read, generate, save and retry implement the ledger.     *)
(***************************************************************************)
THEOREM RefreshesImplementLedger == Spec => ImplementsLedger
    BY LedgerInit, LedgerStep, MemoryInvariant, PTL
       DEF Spec, ImplementsLedger, Ledger!Spec
=============================================================================
