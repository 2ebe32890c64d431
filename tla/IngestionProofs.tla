-------------------------- MODULE IngestionProofs --------------------------
(***************************************************************************)
(* Proofs about Ingestion.  The inductive invariant says of every task     *)
(* what it has written and reported at each step, and of every seeding     *)
(* that the journey it seeds is there and that only one at a time holds it.*)
(***************************************************************************)
EXTENDS Ingestion, FiniteSetTheorems, TLAPS

NotAnalyzed == [summary |-> FALSE, chapters |-> <<>>]

\* Until the commit nothing is known outside, and after it there is a result.
Stage(t) ==
  /\ step[t] \in {"new", "queued", "journey", "chapters", "commit", "failing"} =>
       journey[t] = None /\ result[t] = None
  /\ step[t] \in {"new", "queued", "journey", "failing"} => analyzed[t] = NotAnalyzed
  /\ step[t] \in {"chapters", "commit"} => analyzed[t].summary
  /\ step[t] \in {"seed", "report"} => result[t] # None /\ result[t].stored

TaskInv(t) == Stage(t) /\ Agrees(t) /\ Complete(t) /\ demo[t].learners = demo[t].notes

\* An open seeding: its journey is committed, and a task seeds its own.
SeedingInv(s) ==
  seeding[s] # None =>
    /\ journey[seeding[s].journey] # None
    /\ s \in Tasks =>
         /\ seeding[s].journey = s
         /\ step[s] = IF seeding[s].turn = "left" THEN "report" ELSE "seed"
    /\ seeding[s].turn = "left" => s \in Tasks
    /\ seeding[s].turn = "holds" => seeding[s].replaces = demo[seeding[s].journey].notes

OneHolder ==
  \A s, r \in Seeders : \A j \in Tasks : Holds(s, j) /\ Holds(r, j) => s = r

Inv ==
  /\ TypeOK
  /\ \A t \in Tasks : TaskInv(t)
  /\ \A s \in Seeders : SeedingInv(s)
  /\ OneHolder

-----------------------------------------------------------------------------

LEMMA InvInit == Init => Inv
<1> SUFFICES ASSUME Init PROVE Inv
  OBVIOUS
<1>1. TypeOK
  <2>1. <<>> \in Seq(BOOLEAN) /\ IsSequence(<<>>)
    BY DEF IsSequence
  <2>2. analyzed \in [Tasks -> [summary : BOOLEAN, chapters : Seq(BOOLEAN)]]
    BY <2>1 DEF Init
  <2>3. \A t \in Tasks : IsSequence(hierarchy[t])
    BY <2>1, Zenon DEF Init
  <2> QED BY <2>2, <2>3 DEF Init, TypeOK, Steps
<1>2. \A t \in Tasks : TaskInv(t)
  BY DEF Init, TaskInv, Stage, Agrees, Complete, NotAnalyzed
<1>3. (\A s \in Seeders : SeedingInv(s)) /\ OneHolder
  BY DEF Init, SeedingInv, OneHolder, Holds
<1> QED BY <1>1, <1>2, <1>3 DEF Inv

\* The chapters with content from the LLM are counted alike as long as none of them
\* changes.
LEMMA SameCount ==
  ASSUME NEW t \in Tasks,
         DOMAIN journey'[t].chapters = DOMAIN journey[t].chapters,
         \A i \in DOMAIN journey[t].chapters :
           journey'[t].chapters[i] = "llm" <=> journey[t].chapters[i] = "llm"
  PROVE  CountOf(t, "llm")' = CountOf(t, "llm")
<1>1. {i \in DOMAIN journey'[t].chapters : journey'[t].chapters[i] = "llm"}
        = {i \in DOMAIN journey[t].chapters : journey[t].chapters[i] = "llm"}
  OBVIOUS
<1> QED BY <1>1 DEF CountOf

\* A step that does not touch a task.
LEMMA TaskFrame ==
  ASSUME NEW t \in Tasks, TaskInv(t),
         step'[t] = step[t], hierarchy'[t] = hierarchy[t], analyzed'[t] = analyzed[t],
         journey'[t] = journey[t], demo'[t] = demo[t], state'[t] = state[t],
         result'[t] = result[t], cache'[t] = cache[t]
  PROVE  TaskInv(t)'
<1>1. CountOf(t, "llm")' = CountOf(t, "llm")
  BY SameCount
<1>2. Stage(t)' BY DEF TaskInv, Stage
<1>3. Agrees(t)' BY <1>1 DEF TaskInv, Agrees
<1>4. Complete(t)' BY DEF TaskInv, Complete
<1> QED BY <1>2, <1>3, <1>4 DEF TaskInv

\* What is written has the type of a journey and as many chapters as the file.
LEMMA WrittenType ==
  ASSUME TypeOK, NEW t \in Tasks
  PROVE  /\ Written(t) \in Journeys
         /\ DOMAIN Written(t).chapters = DOMAIN hierarchy[t]
         /\ Len(hierarchy[t]) \in Nat
<1>1. PICK n \in Nat : n = Len(hierarchy[t]) /\ DOMAIN hierarchy[t] = 1 .. n
  BY DEF TypeOK, IsSequence
<1> DEFINE c == [i \in 1 .. n |-> IF LLMAnswered(t, i) THEN "llm" ELSE "none"]
<1>2. c \in [1 .. n -> Sources]
  BY DEF Sources
<1>3. c \in Seq(Sources)
  BY <1>2
<1>4. Written(t).chapters = c
  BY <1>1 DEF Written
<1> HIDE DEF c
<1>5. Written(t) \in Journeys
  BY <1>1, <1>3, <1>4 DEF Written, Journeys, Sources
<1> QED BY <1>1, <1>2, <1>4, <1>5

-----------------------------------------------------------------------------
(* A step of one task, with no seeding involved: what it must show of that  *)
(* task for the invariant to hold afterwards.                              *)

OnlyTouches(t) ==
  \A u \in Tasks \ {t} :
    /\ step'[u] = step[u] /\ hierarchy'[u] = hierarchy[u] /\ analyzed'[u] = analyzed[u]
    /\ journey'[u] = journey[u] /\ demo'[u] = demo[u] /\ state'[u] = state[u]
    /\ result'[u] = result[u] /\ cache'[u] = cache[u]

LEMMA StepOfTask ==
  ASSUME Inv, NEW t \in Tasks, TypeOK', OnlyTouches(t), UNCHANGED demo,
         \/ UNCHANGED seeding /\ step[t] \notin {"seed", "report"}
         \/ UNCHANGED <<seeding, step>>
         \/ seeding' = [seeding EXCEPT ![t] = None],
         journey[t] # None => journey'[t] # None,
         TaskInv(t)'
  PROVE  Inv'
<1>1. \A u \in Tasks \ {t} : TaskInv(u)'
  BY TaskFrame DEF Inv, OnlyTouches
<1>2. ASSUME NEW s \in Seeders PROVE SeedingInv(s)'
  <2>1. seeding[s] # None => seeding[s].journey \in Tasks
    BY DEF Inv, TypeOK, Seedings
  <2>2. SeedingInv(s)
    BY DEF Inv
  <2>3. \A u \in Tasks : journey[u] # None => journey'[u] # None
    BY DEF OnlyTouches
  <2>4. s = t \/ (seeding'[s] = seeding[s] /\ (s \in Tasks => step'[s] = step[s]))
    BY DEF Inv, TypeOK, OnlyTouches
  <2>5. CASE s = t
    <3>1. \/ seeding'[s] = None
          \/ seeding'[s] = seeding[s] /\ step'[s] = step[s]
          \/ seeding'[s] = seeding[s] /\ step[s] \notin {"seed", "report"}
      BY <2>5 DEF Inv, TypeOK
    <3> QED BY <2>1, <2>2, <2>3, <2>5, <3>1 DEF SeedingInv
  <2>6. CASE s # t
    BY <2>1, <2>2, <2>3, <2>4, <2>6 DEF SeedingInv
  <2> QED BY <2>5, <2>6
<1>3. OneHolder'
  <2>1. \A s \in Seeders : seeding'[s] # None => seeding'[s] = seeding[s]
    BY DEF Inv, TypeOK
  <2> QED BY <2>1 DEF Inv, OneHolder, Holds
<1> QED BY <1>1, <1>2, <1>3 DEF Inv

LEMMA UploadKeeps ==
  ASSUME Inv, NEW t \in Tasks, Upload(t) PROVE Inv'
<1>1. PICK u \in Uploads :
        /\ upload' = [upload EXCEPT ![t] = u]
        /\ hierarchy' = [hierarchy EXCEPT ![t] = ChaptersOf[u.file]]
  BY DEF Upload
<1>2. TypeOK'
  <2>1. \A v \in Tasks : IsSequence(hierarchy'[v])
    BY <1>1, Parameters DEF Inv, TypeOK, Uploads, IsSequence
  <2> QED BY <1>1, <2>1 DEF Inv, TypeOK, Upload, Steps
<1>3. TaskInv(t)'
  BY DEF Inv, TypeOK, TaskInv, Upload, Stage, Agrees, Complete
<1>4. OnlyTouches(t)
  BY <1>1 DEF Inv, TypeOK, Upload, OnlyTouches
<1> QED BY <1>2, <1>3, <1>4, StepOfTask DEF Upload

LEMMA BeginKeeps ==
  ASSUME Inv, NEW t \in Tasks, Begin(t) PROVE Inv'
<1>1. Returned("failed", FALSE, 0, 0) \in Results
  BY DEF Returned, Results
<1>2. TypeOK'
  BY <1>1 DEF Inv, TypeOK, Begin, Steps
<1>3. TaskInv(t)'
  <2>1. journey[t] = None /\ result[t] = None /\ cache[t] = None /\ state[t] # "SUCCESS"
    BY DEF Inv, TaskInv, Stage, Agrees, Begin
  <2>2. Complete(t)' /\ demo'[t].learners = demo'[t].notes
    BY <2>1 DEF Inv, TaskInv, Complete, Begin
  <2>3. CASE hierarchy[t] = <<>>
    <3>1. step'[t] = "ended" /\ result'[t] = Returned("failed", FALSE, 0, 0)
      BY <2>3 DEF Inv, TypeOK, Begin
    <3>2. journey'[t] = None /\ cache'[t] = None
      BY <2>1 DEF Begin
    <3>3. result'[t] # None
      BY <1>1, <3>1, Parameters
    <3>4. Stage(t)'
      BY <3>1 DEF Stage
    <3>5. Agrees(t)'
      BY <3>1, <3>2, <3>3 DEF Agrees, Returned
    <3> QED BY <2>2, <3>4, <3>5 DEF TaskInv
  <2>4. CASE hierarchy[t] # <<>>
    <3>1. step'[t] = "journey" /\ state'[t] # "SUCCESS"
      BY <2>1, <2>4 DEF Inv, TypeOK, Begin
    <3>2. UNCHANGED <<journey, result, cache, analyzed>>
      BY <2>4 DEF Begin
    <3>3. Stage(t)'
      BY <2>1, <3>1, <3>2 DEF Inv, TaskInv, Stage, Begin
    <3>4. Agrees(t)'
      BY <2>1, <3>1, <3>2 DEF Agrees
    <3> QED BY <2>2, <3>3, <3>4 DEF TaskInv
  <2> QED BY <2>3, <2>4
<1>4. OnlyTouches(t)
  BY DEF Inv, TypeOK, Begin, OnlyTouches
<1> QED BY <1>2, <1>3, <1>4, StepOfTask DEF Begin

LEMMA ParsingFailsKeeps ==
  ASSUME Inv, NEW t \in Tasks, ParsingFails(t) PROVE Inv'
<1>1. TypeOK'
  BY DEF Inv, TypeOK, ParsingFails, Steps
<1>2. TaskInv(t)'
  <2>1. step'[t] = "ended" /\ state'[t] = "FAILURE"
    BY DEF Inv, TypeOK, ParsingFails
  <2>2. journey[t] = None /\ result[t] = None /\ cache[t] = None
    BY DEF Inv, TaskInv, Stage, Agrees, ParsingFails
  <2> QED BY <2>1, <2>2 DEF Inv, TaskInv, Stage, Agrees, Complete, ParsingFails
<1>3. OnlyTouches(t)
  BY DEF Inv, TypeOK, ParsingFails, OnlyTouches
<1> QED BY <1>1, <1>2, <1>3, StepOfTask DEF ParsingFails

LEMMA AnalyzeJourneyKeeps ==
  ASSUME Inv, NEW t \in Tasks, AnalyzeJourney(t) \/ AnalyzeJourneyFails(t) PROVE Inv'
<1>1. TypeOK'
  <2>1. CASE AnalyzeJourney(t)
    <3>1. analyzed' \in [Tasks -> [summary : BOOLEAN, chapters : Seq(BOOLEAN)]]
      BY <2>1 DEF Inv, TypeOK, AnalyzeJourney
    <3> QED BY <2>1, <3>1 DEF Inv, TypeOK, AnalyzeJourney, Steps
  <2>2. CASE AnalyzeJourneyFails(t)
    BY <2>2 DEF Inv, TypeOK, AnalyzeJourneyFails, Steps
  <2> QED BY <2>1, <2>2
<1>2. TaskInv(t)'
  <2>1. journey[t] = None /\ result[t] = None /\ cache[t] = None /\ state[t] # "SUCCESS"
    BY DEF Inv, TaskInv, Stage, Agrees, AnalyzeJourney, AnalyzeJourneyFails
  <2>2. UNCHANGED <<journey, result, cache, state, demo>>
    BY DEF AnalyzeJourney, AnalyzeJourneyFails
  <2>3. Agrees(t)' /\ Complete(t)' /\ demo'[t].learners = demo'[t].notes
    BY <2>1, <2>2 DEF Inv, TaskInv, Agrees, Complete
  <2>4. CASE AnalyzeJourney(t)
    <3>1. step'[t] = "chapters" /\ analyzed'[t].summary
      BY <2>4 DEF Inv, TypeOK, AnalyzeJourney
    <3> QED BY <2>1, <2>2, <2>3, <3>1 DEF TaskInv, Stage
  <2>5. CASE AnalyzeJourneyFails(t)
    <3>1. step'[t] = "failing" /\ analyzed'[t] = NotAnalyzed
      BY <2>5 DEF Inv, TypeOK, TaskInv, Stage, AnalyzeJourneyFails
    <3> QED BY <2>1, <2>2, <2>3, <3>1 DEF TaskInv, Stage
  <2> QED BY <2>4, <2>5
<1>3. OnlyTouches(t)
  BY DEF Inv, TypeOK, AnalyzeJourney, AnalyzeJourneyFails, OnlyTouches
<1> QED BY <1>1, <1>2, <1>3, StepOfTask DEF AnalyzeJourney, AnalyzeJourneyFails

LEMMA AnalyzeChapterKeeps ==
  ASSUME Inv, NEW t \in Tasks, NEW ok \in BOOLEAN, AnalyzeChapter(t, ok) PROVE Inv'
<1>1. TypeOK'
  <2>1. analyzed[t].chapters \in Seq(BOOLEAN)
    BY DEF Inv, TypeOK
  <2>2. Append(analyzed[t].chapters, ok) \in Seq(BOOLEAN)
    BY <2>1
  <2>3. analyzed' \in [Tasks -> [summary : BOOLEAN, chapters : Seq(BOOLEAN)]]
    BY <2>2 DEF Inv, TypeOK, AnalyzeChapter
  <2> QED BY <2>3 DEF Inv, TypeOK, AnalyzeChapter, Steps
<1>2. TaskInv(t)'
  BY DEF Inv, TypeOK, TaskInv, AnalyzeChapter, Stage, Agrees, Complete
<1>3. OnlyTouches(t)
  BY DEF Inv, TypeOK, AnalyzeChapter, OnlyTouches
<1> QED BY <1>1, <1>2, <1>3, StepOfTask DEF AnalyzeChapter

-----------------------------------------------------------------------------

LEMMA WrittenIsComplete ==
  ASSUME Inv, NEW t \in Tasks, step[t] \in {"commit", "failing"}
  PROVE  /\ Written(t) \in Journeys
         /\ Written(t).status = "active" <=> step[t] = "commit"
         /\ DOMAIN Written(t).chapters = DOMAIN hierarchy[t]
         /\ Written(t).status = "active" =>
              Written(t).summary = "llm" /\ Written(t).total = Len(hierarchy[t])
<1>1. step[t] = "commit" => analyzed[t].summary
  BY DEF Inv, TaskInv, Stage
<1>2. Written(t) \in Journeys /\ DOMAIN Written(t).chapters = DOMAIN hierarchy[t]
  BY WrittenType DEF Inv
<1> QED BY <1>1, <1>2 DEF Written

\* The number of chapters that is reported is the number of those with content.
LEMMA WrittenCount ==
  ASSUME NEW t \in Tasks, journey'[t] = Written(t)
  PROVE  CountOf(t, "llm")' = AnalyzedCount(t)
<1>1. journey'[t].chapters =
        [i \in DOMAIN hierarchy[t] |-> IF LLMAnswered(t, i) THEN "llm" ELSE "none"]
  BY DEF Written
<1>2. {i \in DOMAIN journey'[t].chapters : journey'[t].chapters[i] = "llm"}
        = {i \in DOMAIN hierarchy[t] : LLMAnswered(t, i)}
  BY <1>1
<1> QED BY <1>2 DEF CountOf, AnalyzedCount

LEMMA AnalyzedCountType ==
  ASSUME TypeOK, NEW t \in Tasks PROVE AnalyzedCount(t) \in Nat
<1>1. PICK n \in Nat : DOMAIN hierarchy[t] = 1 .. n
  BY DEF TypeOK, IsSequence
<1>2. IsFiniteSet(1 .. n)
  BY FS_Interval
<1>3. IsFiniteSet({i \in DOMAIN hierarchy[t] : LLMAnswered(t, i)})
  BY <1>1, <1>2, FS_Subset
<1> QED BY <1>3, FS_CardinalityType DEF AnalyzedCount

LEMMA CommitKeeps ==
  ASSUME Inv, NEW t \in Tasks, Commit(t) PROVE Inv'
<1>1. step[t] \in {"commit", "failing"}
  BY DEF Commit
<1>2. journey' = [journey EXCEPT ![t] = Written(t)] /\ journey'[t] = Written(t)
  BY DEF Inv, TypeOK, Commit
<1>3. /\ result'[t] = IF step[t] = "commit"
                        THEN Returned("complete", TRUE, AnalyzedCount(t), Len(hierarchy[t]))
                        ELSE Returned("failed", TRUE, 0, 0)
      /\ result' = [result EXCEPT ![t] = result'[t]]
  BY DEF Inv, TypeOK, Commit
<1>4. result'[t] \in Results
  <2>1. AnalyzedCount(t) \in Nat /\ Len(hierarchy[t]) \in Nat
    BY AnalyzedCountType DEF Inv, TypeOK, IsSequence
  <2> QED BY <1>3, <2>1 DEF Returned, Results
<1>5. journey'[t] # None /\ result'[t] # None
  BY <1>1, <1>2, <1>4, WrittenIsComplete, Parameters
<1>6. TypeOK'
  <2>1. journey' \in [Tasks -> Journeys \cup {None}]
    BY <1>1, <1>2, WrittenIsComplete DEF Inv, TypeOK
  <2>2. result' \in [Tasks -> Results \cup {None}]
    BY <1>3, <1>4 DEF Inv, TypeOK
  <2> QED BY <2>1, <2>2 DEF Inv, TypeOK, Commit, Steps
<1>7. TaskInv(t)'
  <2>1. step'[t] = "seed" /\ result'[t].stored
    BY <1>3 DEF Inv, TypeOK, Commit, Returned
  <2>2. Stage(t)'
    BY <1>5, <2>1 DEF Stage
  <2>3. Complete(t)'
    BY <1>1, <1>2, WrittenIsComplete DEF Complete, Commit
  <2>4. cache'[t] = None
    BY <1>1 DEF Inv, TaskInv, Stage, Agrees, Commit
  <2>5. Agrees(t)'
    <3>1. result'[t].status = "complete" <=> journey'[t].status = "active"
      BY <1>1, <1>2, <1>3, WrittenIsComplete DEF Returned
    <3>2. result'[t].analyzed = CountOf(t, "llm")'
      <4>1. CASE step[t] = "commit"
        BY <1>2, <1>3, <4>1, WrittenCount DEF Returned
      <4>2. CASE step[t] = "failing"
        <5>1. AnalyzedCount(t) = 0
          <6>1. {i \in DOMAIN hierarchy[t] : LLMAnswered(t, i)} = {}
            BY <4>2 DEF Inv, TaskInv, Stage, NotAnalyzed, LLMAnswered
          <6> QED BY <6>1, FS_EmptySet DEF AnalyzedCount
        <5> QED BY <1>2, <1>3, <4>2, <5>1, WrittenCount DEF Returned
      <4> QED BY <1>1, <4>1, <4>2
    <3>3. result'[t].total = journey'[t].total
      BY <1>1, <1>2, <1>3 DEF Returned, Written
    <3>4. ~result'[t].seeded
      BY <1>3 DEF Returned
    <3> QED BY <1>5, <2>1, <2>4, <3>1, <3>2, <3>3, <3>4 DEF Agrees
  <2>6. demo'[t].learners = demo'[t].notes
    BY DEF Inv, TaskInv, Commit
  <2> QED BY <2>2, <2>3, <2>5, <2>6 DEF TaskInv
<1>8. OnlyTouches(t)
  BY DEF Inv, TypeOK, Commit, OnlyTouches
<1> QED BY <1>1, <1>5, <1>6, <1>7, <1>8, StepOfTask DEF Commit

LEMMA DatabaseFailsKeeps ==
  ASSUME Inv, NEW t \in Tasks, NEW kept \in BOOLEAN, DatabaseFails(t, kept) PROVE Inv'
<1>1. kept => step[t] \in {"commit", "failing"}
  BY DEF DatabaseFails
<1>2. journey'[t] = IF kept THEN Written(t) ELSE None
  BY DEF Inv, TypeOK, TaskInv, Stage, DatabaseFails
<1>3. TypeOK'
  <2>1. journey' \in [Tasks -> Journeys \cup {None}]
    BY <1>1, WrittenIsComplete DEF Inv, TypeOK, DatabaseFails
  <2> QED BY <2>1 DEF Inv, TypeOK, DatabaseFails, Steps
<1>4. TaskInv(t)'
  <2>1. step'[t] = "ended" /\ state'[t] = "FAILURE"
    BY DEF Inv, TypeOK, DatabaseFails
  <2>2. result'[t] = None /\ cache'[t] = None /\ demo'[t].learners = demo'[t].notes
    BY DEF Inv, TaskInv, Stage, Agrees, DatabaseFails
  <2>3. Complete(t)'
    BY <1>1, <1>2, WrittenIsComplete DEF Complete, DatabaseFails
  <2> QED BY <2>1, <2>2, <2>3 DEF TaskInv, Stage, Agrees
<1>5. OnlyTouches(t)
  BY DEF Inv, TypeOK, DatabaseFails, OnlyTouches
<1>6. journey[t] # None => journey'[t] # None
  BY DEF Inv, TaskInv, Stage, DatabaseFails
<1> QED BY <1>3, <1>4, <1>5, <1>6, StepOfTask DEF DatabaseFails

LEMMA ReportKeeps ==
  ASSUME Inv, NEW t \in Tasks, NEW cached \in BOOLEAN, Report(t) \/ ReportFails(t, cached)
  PROVE  Inv'
<1>1. step[t] = "report" /\ result[t] # None /\ result[t].stored
  BY DEF Inv, TaskInv, Stage, Report, ReportFails
<1>2. /\ cache'[t] = None \/ cache'[t] = cache[t] \/ cache'[t] = result[t].status
      /\ cache' = [cache EXCEPT ![t] = cache'[t]]
  BY DEF Inv, TypeOK, Report, ReportFails
<1>3. TypeOK'
  <2>1. result[t].status \in {"complete", "failed"}
    BY <1>1 DEF Inv, TypeOK, Results
  <2>2. cache' \in [Tasks -> {"complete", "failed", None}]
    BY <1>2, <2>1 DEF Inv, TypeOK
  <2>3. t \in Seeders /\ seeding' = [seeding EXCEPT ![t] = None]
    BY DEF Report, ReportFails, Seeders
  <2> QED BY <2>2, <2>3 DEF Inv, TypeOK, Report, ReportFails, Steps
<1>4. TaskInv(t)'
  <2>1. step'[t] = "ended"
    BY DEF Inv, TypeOK, Report, ReportFails
  <2>2. UNCHANGED <<journey, demo, result, hierarchy>>
    BY DEF Report, ReportFails
  <2>3. CountOf(t, "llm")' = CountOf(t, "llm")
    BY <2>2 DEF CountOf
  <2>4. Agrees(t)'
    BY <1>1, <1>2, <2>2, <2>3 DEF Inv, TaskInv, Agrees
  <2>5. Complete(t)'
    BY <2>2 DEF Inv, TaskInv, Complete
  <2> QED BY <2>1, <2>2, <2>4, <2>5 DEF Inv, TaskInv, Stage
<1>5. OnlyTouches(t)
  BY <1>2 DEF Inv, TypeOK, Report, ReportFails, OnlyTouches
<1> QED BY <1>1, <1>3, <1>4, <1>5, StepOfTask DEF Report, ReportFails

LEMMA ExpireKeeps ==
  ASSUME Inv, NEW t \in Tasks, Expire(t) PROVE Inv'
<1>1. TypeOK'
  BY DEF Inv, TypeOK, Expire
<1>2. CountOf(t, "llm")' = CountOf(t, "llm")
  BY DEF CountOf, Expire
<1>3. TaskInv(t)'
  BY <1>2 DEF Inv, TypeOK, TaskInv, Stage, Agrees, Complete, Expire
<1>4. OnlyTouches(t)
  BY DEF Inv, TypeOK, Expire, OnlyTouches
<1> QED BY <1>1, <1>3, <1>4, StepOfTask DEF Expire

-----------------------------------------------------------------------------
(* Seedings. *)

LEMMA BeginSeedingKeeps ==
  ASSUME Inv, NEW s \in Seeders, NEW j \in Tasks, BeginSeeding(s, j) PROVE Inv'
<1> DEFINE new == [journey |-> j, turn |-> TurnAt(j), replaces |-> demo[j].notes]
<1>1. seeding' = [seeding EXCEPT ![s] = new] /\ new \in Seedings
  BY DEF Inv, TypeOK, BeginSeeding, TurnAt, Seedings
<1>2. journey[j] # None
  BY DEF Inv, TaskInv, Stage, Agrees, BeginSeeding
<1>3. TypeOK'
  BY <1>1 DEF Inv, TypeOK, BeginSeeding
<1>4. ASSUME NEW t \in Tasks PROVE TaskInv(t)'
  BY TaskFrame DEF Inv, BeginSeeding
<1>5. ASSUME NEW r \in Seeders PROVE SeedingInv(r)'
  <2>1. CASE r = s
    <3>1. seeding'[s] = new /\ new.turn # "left"
      BY <1>1 DEF Inv, TypeOK, TurnAt
    <3>2. s \in Tasks => s = j /\ step[s] = "seed"
      BY DEF BeginSeeding
    <3>3. UNCHANGED <<journey, demo, step>>
      BY DEF BeginSeeding
    <3> QED BY <1>2, <2>1, <3>1, <3>2, <3>3 DEF SeedingInv
  <2>2. CASE r # s
    BY <1>1, <2>2 DEF Inv, TypeOK, SeedingInv, BeginSeeding
  <2> QED BY <2>1, <2>2
<1>6. OneHolder'
  <2>1. TurnAt(j) = "holds" => Free(j)
    BY DEF TurnAt
  <2>2. \A r \in Seeders \ {s} : seeding'[r] = seeding[r]
    BY <1>1 DEF Inv, TypeOK
  <2>3. seeding'[s] = new
    BY <1>1 DEF Inv, TypeOK
  <2>4. \A k \in Tasks : Holds(s, k)' => k = j /\ Free(j)
    BY <2>1, <2>3 DEF Holds, TurnAt
  <2> QED BY <2>2, <2>4 DEF Inv, OneHolder, Free, Holds
<1> QED BY <1>3, <1>4, <1>5, <1>6 DEF Inv

LEMMA TakeTurnKeeps ==
  ASSUME Inv, NEW s \in Seeders, TakeTurn(s) PROVE Inv'
<1> DEFINE j == seeding[s].journey
           new == [journey |-> j, turn |-> "holds", replaces |-> demo[j].notes]
<1>1. seeding[s] \in Seedings /\ j \in Tasks
  BY DEF Inv, TypeOK, TakeTurn, Seedings
<1>2. seeding' = [seeding EXCEPT ![s] = new] /\ new \in Seedings
  <2>1. new \in Seedings
    BY <1>1 DEF Inv, TypeOK, Seedings
  <2>2. /\ seeding' \in [Seeders -> Seedings \cup {None}]
        /\ seeding'[s] = new
        /\ \A r \in Seeders \ {s} : seeding'[r] = seeding[r]
    BY <1>1, <2>1 DEF Inv, TypeOK, TakeTurn, Seedings
  <2> QED BY <2>1, <2>2 DEF Inv, TypeOK
<1>3. TypeOK'
  BY <1>2 DEF Inv, TypeOK, TakeTurn
<1>4. ASSUME NEW t \in Tasks PROVE TaskInv(t)'
  BY TaskFrame DEF Inv, TakeTurn
<1>5. ASSUME NEW r \in Seeders PROVE SeedingInv(r)'
  <2>1. CASE r = s
    <3>1. seeding'[s] = new
      BY <1>2 DEF Inv, TypeOK
    <3>2. journey[j] # None /\ (s \in Tasks => step[s] = "seed" /\ j = s)
      BY DEF Inv, SeedingInv, TakeTurn
    <3>3. UNCHANGED <<journey, demo, step>>
      BY DEF TakeTurn
    <3> QED BY <2>1, <3>1, <3>2, <3>3 DEF SeedingInv
  <2>2. CASE r # s
    BY <1>2, <2>2 DEF Inv, TypeOK, SeedingInv, TakeTurn
  <2> QED BY <2>1, <2>2
<1>6. OneHolder'
  <2>1. \A r \in Seeders \ {s} : seeding'[r] = seeding[r]
    BY <1>2 DEF Inv, TypeOK
  <2>2. seeding'[s] = new
    BY <1>2 DEF Inv, TypeOK
  <2>3. \A k \in Tasks : Holds(s, k)' => k = j /\ Free(j)
    BY <2>2 DEF Holds, TakeTurn
  <2> QED BY <2>1, <2>3 DEF Inv, OneHolder, Free, Holds
<1> QED BY <1>3, <1>4, <1>5, <1>6 DEF Inv

\* Seedings that are closed or left, together with their tasks, leave an invariant state.
LEMMA ClosingKeeps ==
  ASSUME Inv, TypeOK', UNCHANGED <<hierarchy, analyzed, journey, demo, result, cache>>,
         \A s \in Seeders :
           \/ seeding'[s] = None
           \/ seeding'[s] = seeding[s] /\ (s \in Tasks => step'[s] = step[s])
           \/ /\ s \in Tasks /\ step'[s] = "report"
              /\ seeding[s] # None /\ seeding[s].turn = "holds"
              /\ seeding'[s] = [seeding[s] EXCEPT !.turn = "left"],
         \A t \in Tasks :
           \/ step'[t] = step[t]
           \/ step'[t] = "ended"
           \/ step[t] = "seed" /\ step'[t] = "report",
         \A t \in Tasks : state'[t] = state[t] \/ state'[t] \in {"UNKNOWN", "FAILURE"}
  PROVE  Inv'
<1>1. ASSUME NEW t \in Tasks PROVE TaskInv(t)'
  <2>1. CountOf(t, "llm")' = CountOf(t, "llm")
    BY DEF CountOf
  <2>2. Agrees(t)'
    BY <2>1 DEF Inv, TaskInv, Agrees
  <2>3. Complete(t)'
    BY DEF Inv, TaskInv, Complete
  <2>4. Stage(t)'
    BY DEF Inv, TaskInv, Stage
  <2> QED BY <2>2, <2>3, <2>4 DEF Inv, TaskInv
<1>2. ASSUME NEW s \in Seeders PROVE SeedingInv(s)'
  <2>1. SeedingInv(s) /\ (seeding[s] # None => seeding[s] \in Seedings)
    BY DEF Inv, TypeOK
  <2> QED BY <2>1 DEF SeedingInv, Seedings
<1>3. OneHolder'
  <2>1. ASSUME NEW s \in Seeders, NEW j \in Tasks, Holds(s, j)' PROVE Holds(s, j)
    <3>1. seeding[s] # None => seeding[s] \in Seedings
      BY DEF Inv, TypeOK
    <3> QED BY <2>1, <3>1 DEF Holds, Seedings
  <2> QED BY <2>1 DEF Inv, OneHolder
<1> QED BY <1>1, <1>2, <1>3 DEF Inv

LEMMA SeedingFailsKeeps ==
  ASSUME Inv, NEW s \in Seeders, SeedingFails(s) PROVE Inv'
<1>1. seeding[s] \in Seedings /\ seeding[s] # None /\ seeding[s].turn # "left"
  BY DEF Inv, TypeOK, SeedingFails
<1>2. /\ \A r \in Seeders \ {s} : seeding'[r] = seeding[r]
      /\ \/ seeding'[s] = None
         \/ /\ s \in Tasks /\ seeding[s].turn = "holds"
            /\ seeding'[s] = [seeding[s] EXCEPT !.turn = "left"]
      /\ seeding' \in [Seeders -> Seedings \cup {None}]
  <2>1. [seeding[s] EXCEPT !.turn = "left"] \in Seedings
    BY <1>1 DEF Seedings
  <2> QED BY <2>1 DEF Inv, TypeOK, SeedingFails
<1>3. s \in Tasks => step[s] = "seed"
  BY <1>1 DEF Inv, SeedingInv
<1>4. TypeOK'
  BY <1>2 DEF Inv, TypeOK, SeedingFails, GoOn, Steps
<1>5. \A t \in Tasks : IF t = s THEN step'[t] = "report" ELSE step'[t] = step[t]
  <2>1. step \in [Tasks -> Steps] /\ GoOn(s)
    BY DEF Inv, TypeOK, SeedingFails
  <2> QED BY <2>1 DEF GoOn
<1> QED BY <1>1, <1>2, <1>3, <1>4, <1>5, ClosingKeeps DEF SeedingFails

LEMMA RestartKeeps == ASSUME Inv, Restart PROVE Inv'
<1>1. RunBy("portal") \subseteq Tasks
  BY DEF RunBy
<1>2. TypeOK'
  BY DEF Inv, TypeOK, Restart, Steps
<1>3. ASSUME NEW s \in Seeders
      PROVE  seeding'[s] = None \/ (seeding'[s] = seeding[s] /\ (s \in Tasks => step'[s] = step[s]))
  BY DEF Restart, Seeders
<1>4. ASSUME NEW t \in Tasks PROVE step'[t] = step[t] \/ step'[t] = "ended"
  BY DEF Restart
<1>5. ASSUME NEW t \in Tasks PROVE state'[t] = state[t] \/ state'[t] = "UNKNOWN"
  BY DEF Restart
<1> QED BY <1>2, <1>3, <1>4, <1>5, ClosingKeeps DEF Restart

LEMMA WorkerKilledKeeps ==
  ASSUME Inv, NEW t \in Tasks, WorkerKilled(t) PROVE Inv'
<1>1. t \in Seeders /\ seeding' = [seeding EXCEPT ![t] = None]
  BY DEF WorkerKilled, Seeders
<1>2. TypeOK'
  BY <1>1 DEF Inv, TypeOK, WorkerKilled, Steps
<1>3. ASSUME NEW u \in Tasks
      PROVE  IF u = t THEN step'[u] = "ended" ELSE step'[u] = step[u]
  BY DEF Inv, TypeOK, WorkerKilled
<1>4. ASSUME NEW u \in Tasks PROVE state'[u] = state[u] \/ state'[u] = "FAILURE"
  BY DEF Inv, TypeOK, WorkerKilled
<1>5. ASSUME NEW s \in Seeders
      PROVE  seeding'[s] = None \/ (seeding'[s] = seeding[s] /\ (s \in Tasks => step'[s] = step[s]))
  BY <1>1, <1>3 DEF Inv, TypeOK
<1> QED BY <1>2, <1>3, <1>4, <1>5, ClosingKeeps DEF WorkerKilled

\* A committed seeding fills the journey and leaves its status and what the LLM wrote.
LEMMA CommitSeedingFills ==
  ASSUME Inv, NEW s \in Seeders, NEW told \in BOOLEAN, CommitSeeding(s, told),
         NEW j \in Tasks, j = seeding[s].journey
  PROVE  /\ journey' = [journey EXCEPT ![j] = journey'[j]]
         /\ journey[j] # None /\ journey'[j] \in Journeys
         /\ journey'[j].status = journey[j].status
         /\ journey'[j].total = journey[j].total
         /\ journey[j].summary # "none" => journey'[j].summary = journey[j].summary
         /\ DOMAIN journey'[j].chapters = DOMAIN journey[j].chapters
         /\ \A i \in DOMAIN journey[j].chapters :
              /\ journey'[j].chapters[i] # "none"
              /\ journey'[j].chapters[i] = "llm" <=> journey[j].chapters[i] = "llm"
              /\ journey[j].chapters[i] # "none" =>
                   journey'[j].chapters[i] = journey[j].chapters[i]
<1> DEFINE filled == [i \in DOMAIN journey[j].chapters |-> Fill(journey[j].chapters[i])]
<1>1. journey[j] \in Journeys /\ journey[j] # None
  BY DEF Inv, TypeOK, SeedingInv, CommitSeeding
<1>2. PICK n \in Nat : journey[j].chapters \in [1 .. n -> Sources]
  <2>1. journey[j].chapters \in Seq(Sources)
    BY <1>1 DEF Journeys
  <2> QED BY <2>1
<1>3. \A source \in Sources : Fill(source) \in Sources
  BY DEF Fill, Sources
<1>4. filled \in [1 .. n -> Sources]
  BY <1>2, <1>3
<1>5. filled \in Seq(Sources)
  BY <1>4
<1>6. journey' = [journey EXCEPT ![j].summary = Fill(@), ![j].chapters = filled]
  BY DEF CommitSeeding
<1> HIDE DEF filled
<1>7. /\ journey'[j] = [journey[j] EXCEPT !.summary = Fill(@), !.chapters = filled]
      /\ \A t \in Tasks \ {j} : journey'[t] = journey[t]
      /\ journey' \in [Tasks -> Journeys \cup {None}]
  <2>1. [journey[j] EXCEPT !.summary = Fill(@), !.chapters = filled] \in Journeys
    BY <1>1, <1>3, <1>5 DEF Journeys
  <2>2. journey' = [journey EXCEPT ![j] =
                      [journey[j] EXCEPT !.summary = Fill(@), !.chapters = filled]]
    BY <1>6 DEF Inv, TypeOK
  <2> QED BY <2>1, <2>2 DEF Inv, TypeOK
<1>8. journey'[j] \in Journeys /\ journey' = [journey EXCEPT ![j] = journey'[j]]
  <2>1. [journey[j] EXCEPT !.summary = Fill(@), !.chapters = filled] \in Journeys
    BY <1>1, <1>3, <1>5 DEF Journeys
  <2>2. journey \in [Tasks -> Journeys \cup {None}]
    BY DEF Inv, TypeOK
  <2> QED BY <1>7, <2>1, <2>2
<1>9. /\ journey'[j].status = journey[j].status
      /\ journey'[j].total = journey[j].total
      /\ journey'[j].summary = Fill(journey[j].summary)
      /\ journey'[j].chapters = filled
  BY <1>1, <1>7 DEF Journeys
<1>10. /\ DOMAIN filled = DOMAIN journey[j].chapters
       /\ \A i \in DOMAIN journey[j].chapters :
            /\ filled[i] # "none" /\ (filled[i] = "llm" <=> journey[j].chapters[i] = "llm")
            /\ journey[j].chapters[i] # "none" => filled[i] = journey[j].chapters[i]
  BY DEF filled, Fill
<1> QED BY <1>1, <1>8, <1>9, <1>10 DEF Fill

LEMMA CommitSeedingKeeps ==
  ASSUME Inv, NEW s \in Seeders, NEW told \in BOOLEAN, CommitSeeding(s, told) PROVE Inv'
<1> DEFINE j == seeding[s].journey
           row == [learners |-> 1, notes |-> demo[j].notes - seeding[s].replaces + 1]
<1>1. seeding[s] \in Seedings /\ j \in Tasks /\ seeding[s].turn = "holds"
  BY DEF Inv, TypeOK, CommitSeeding, Seedings
<1>2. demo' = [demo EXCEPT ![j] = row] /\ row = [learners |-> 1, notes |-> 1]
  <2>1. seeding[s].replaces = demo[j].notes /\ demo[j].notes \in Nat
    BY <1>1 DEF Inv, TypeOK, SeedingInv, CommitSeeding
  <2>2. row = [learners |-> 1, notes |-> 1]
    BY <2>1
  <2> QED BY <2>2 DEF CommitSeeding
<1>3. \A r \in Seeders :
        \/ seeding'[r] = None
        \/ r # s /\ seeding'[r] = seeding[r]
             /\ ~(seeding[r] # None /\ seeding[r].journey = j /\ seeding[r].turn = "waits")
        \/ /\ r # s /\ seeding[r] # None /\ seeding[r].turn = "waits"
           /\ seeding'[r] = [seeding[r] EXCEPT !.turn = "late"]
  BY DEF CommitSeeding
<1>4. s \in Tasks => s = j /\ step[s] = "seed" /\ result[s] # None /\ result[s].stored
  BY DEF Inv, TaskInv, Stage, SeedingInv, CommitSeeding
<1>5. /\ s \in Tasks => /\ result' = [result EXCEPT ![s].seeded = told]
                        /\ step' = [step EXCEPT ![s] = "report"]
      /\ s \notin Tasks => result' = result /\ step' = step
  BY DEF CommitSeeding, GoOn
<1>6. s \in Tasks =>
        /\ result'[s] \in Results /\ result'[s] # None
        /\ result'[s] = [result[s] EXCEPT !.seeded = told]
        /\ result' = [result EXCEPT ![s] = result'[s]]
  <2> SUFFICES ASSUME s \in Tasks
      PROVE  /\ result'[s] \in Results /\ result'[s] # None
             /\ result'[s] = [result[s] EXCEPT !.seeded = told]
             /\ result' = [result EXCEPT ![s] = result'[s]]
    OBVIOUS
  <2>1. result[s] \in Results
    BY <1>4 DEF Inv, TypeOK
  <2>2. result' = [result EXCEPT ![s] = [result[s] EXCEPT !.seeded = told]]
    BY <1>5 DEF Inv, TypeOK
  <2>3. result'[s] = [result[s] EXCEPT !.seeded = told]
    BY <2>2 DEF Inv, TypeOK
  <2>4. [result[s] EXCEPT !.seeded = told] \in Results
    BY <2>1 DEF Results
  <2> QED BY <2>2, <2>3, <2>4, Parameters
<1>7. TypeOK'
  <2>1. journey' \in [Tasks -> Journeys \cup {None}]
    <3>1. journey' = [journey EXCEPT ![j] = journey'[j]] /\ journey'[j] \in Journeys
      BY <1>1, CommitSeedingFills
    <3>2. journey \in [Tasks -> Journeys \cup {None}]
      BY DEF Inv, TypeOK
    <3> QED BY <1>1, <3>1, <3>2
  <2>2. result' \in [Tasks -> Results \cup {None}]
    BY <1>5, <1>6 DEF Inv, TypeOK
  <2>3. seeding' \in [Seeders -> Seedings \cup {None}]
    <3>1. ASSUME NEW r \in Seeders PROVE seeding'[r] \in Seedings \cup {None}
      <4>1. seeding[r] # None => [seeding[r] EXCEPT !.turn = "late"] \in Seedings
        BY DEF Inv, TypeOK, Seedings
      <4> QED BY <1>3, <4>1 DEF Inv, TypeOK
    <3> QED BY <3>1 DEF CommitSeeding
  <2>4. demo' \in [Tasks -> [learners : 0 .. 1, notes : Nat]]
    BY <1>1, <1>2 DEF Inv, TypeOK
  <2>5. step' \in [Tasks -> Steps]
    BY <1>5 DEF Inv, TypeOK, Steps
  <2> QED BY <2>1, <2>2, <2>3, <2>4, <2>5 DEF Inv, TypeOK, CommitSeeding
<1>8. UNCHANGED <<hierarchy, analyzed, state, cache>>
  BY DEF CommitSeeding
<1>9. ASSUME NEW t \in Tasks PROVE TaskInv(t)'
  <2>1. CASE t # j
    <3>1. step'[t] = step[t] /\ result'[t] = result[t]
      BY <1>4, <1>5, <2>1 DEF Inv, TypeOK
    <3>2. journey'[t] = journey[t] /\ demo'[t] = demo[t]
      BY <1>1, <1>2, <2>1, CommitSeedingFills DEF Inv, TypeOK
    <3> QED BY <1>8, <3>1, <3>2, TaskFrame DEF Inv
  <2>2. CASE t = j
    <3>1. demo'[t] = [learners |-> 1, notes |-> 1]
      BY <1>1, <1>2, <2>2 DEF Inv, TypeOK
    <3>2. journey[t] # None /\ journey'[t] # None
      BY <1>1, <2>2, CommitSeedingFills, Parameters
    <3>3. CountOf(t, "llm")' = CountOf(t, "llm")
      BY <1>1, <2>2, CommitSeedingFills, SameCount
    <3>4. \/ result'[t] = result[t] /\ step'[t] = step[t]
          \/ /\ result[t] # None /\ result[t].stored
             /\ result'[t] = [result[t] EXCEPT !.seeded = told]
             /\ step[t] = "seed" /\ step'[t] = "report" /\ result'[t] # None
      <4>1. CASE s \in Tasks
        <5>1. s = t
          BY <1>4, <2>2, <4>1
        <5>2. step \in [Tasks -> Steps] /\ step' = [step EXCEPT ![t] = "report"]
          BY <1>5, <4>1, <5>1 DEF Inv, TypeOK
        <5>3. step'[t] = "report"
          BY <5>2
        <5> QED BY <1>4, <1>6, <4>1, <5>1, <5>3
      <4>2. CASE s \notin Tasks
        BY <1>5, <4>2
      <4> QED BY <4>1, <4>2
    <3>5. /\ result'[t] = None <=> result[t] = None
          /\ result[t] # None =>
               /\ result'[t].stored = result[t].stored
               /\ result'[t].status = result[t].status
               /\ result'[t].analyzed = result[t].analyzed
               /\ result'[t].total = result[t].total
      BY <3>4 DEF Inv, TypeOK, Results
    <3>6. Stage(t)'
      BY <1>8, <3>2, <3>4, <3>5 DEF Inv, TaskInv, Stage
    <3>7. Agrees(t)'
      <4>1. \A i \in DOMAIN journey'[t].chapters : journey'[t].chapters[i] # "none"
        BY <1>1, <2>2, CommitSeedingFills
      <4>2. journey'[t].status = journey[t].status /\ journey'[t].total = journey[t].total
        BY <1>1, <2>2, CommitSeedingFills
      <4>3. Agrees(t)
        BY DEF Inv, TaskInv
      <4> QED BY <1>8, <3>1, <3>2, <3>3, <3>5, <4>1, <4>2, <4>3 DEF Agrees
    <3>8. Complete(t)'
      BY <1>1, <1>8, <2>2, <3>2, CommitSeedingFills DEF Inv, TaskInv, Complete
    <3> QED BY <3>1, <3>6, <3>7, <3>8 DEF TaskInv
  <2> QED BY <2>1, <2>2
<1>10. ASSUME NEW r \in Seeders PROVE SeedingInv(r)'
  <2>1. seeding'[r] # None =>
          /\ r # s /\ seeding[r] # None
          /\ seeding'[r].journey = seeding[r].journey
          /\ seeding'[r].replaces = seeding[r].replaces
          /\ seeding'[r].turn = "holds" => seeding[r].turn = "holds"
          /\ seeding'[r].turn = "left" <=> seeding[r].turn = "left"
    <3>1. seeding[r] # None => seeding[r] \in Seedings
      BY DEF Inv, TypeOK
    <3> QED BY <1>3, <3>1 DEF Seedings
  <2>2. seeding'[r] # None /\ seeding'[r].turn = "holds" => seeding[r].journey # j
    BY <1>1, <2>1 DEF Inv, OneHolder, Holds, CommitSeeding
  <2>3. seeding[r] # None => seeding[r].journey \in Tasks
    BY DEF Inv, TypeOK, Seedings
  <2>4. \A t \in Tasks : journey[t] # None => journey'[t] # None
    <3>1. journey' = [journey EXCEPT ![j] = journey'[j]] /\ journey'[j] # None
      BY <1>1, CommitSeedingFills, Parameters
    <3>2. journey \in [Tasks -> Journeys \cup {None}]
      BY DEF Inv, TypeOK
    <3> QED BY <3>1, <3>2
  <2>5. \A t \in Tasks : t # j => demo'[t] = demo[t]
    BY <1>2 DEF Inv, TypeOK
  <2>6. r \in Tasks /\ r # s => step'[r] = step[r]
    BY <1>5 DEF Inv, TypeOK
  <2>7. SeedingInv(r)
    BY DEF Inv
  <2> QED BY <2>1, <2>2, <2>3, <2>4, <2>5, <2>6, <2>7 DEF SeedingInv
<1>11. OneHolder'
  <2>1. ASSUME NEW r \in Seeders, NEW k \in Tasks, Holds(r, k)' PROVE Holds(r, k)
    <3>1. seeding[r] # None => seeding[r] \in Seedings
      BY DEF Inv, TypeOK
    <3> QED BY <1>3, <2>1, <3>1 DEF Holds, Seedings
  <2> QED BY <2>1 DEF Inv, OneHolder
<1> QED BY <1>7, <1>9, <1>10, <1>11 DEF Inv

-----------------------------------------------------------------------------

LEMMA InvNext == Inv /\ [Next]_vars => Inv'
<1> SUFFICES ASSUME Inv, [Next]_vars PROVE Inv'
  OBVIOUS
<1>1. ASSUME NEW t \in Tasks, TaskStep(t) PROVE Inv'
  <2>1. t \in Seeders
    BY DEF Seeders
  <2> QED BY <1>1, <2>1, BeginKeeps, ParsingFailsKeeps, AnalyzeJourneyKeeps, AnalyzeChapterKeeps, CommitKeeps,
             DatabaseFailsKeeps, BeginSeedingKeeps, ReportKeeps DEF TaskStep
<1>2. ASSUME NEW s \in Seeders, SeederStep(s) PROVE Inv'
  BY <1>2, CommitSeedingKeeps, SeedingFailsKeeps DEF SeederStep
<1>3. ASSUME NEW s \in Requests, NEW j \in Tasks, BeginSeeding(s, j) PROVE Inv'
  BY <1>3, BeginSeedingKeeps DEF Seeders
<1>4. CASE UNCHANGED vars
  <2>1. UNCHANGED <<upload, step, hierarchy, analyzed, journey>>
    BY <1>4 DEF vars
  <2>2. UNCHANGED <<demo, seeding, state, result, cache>>
    BY <1>4 DEF vars
  <2>3. TypeOK'
    BY <2>1, <2>2 DEF Inv, TypeOK
  <2> QED BY <2>1, <2>2, <2>3, ClosingKeeps
<1> QED BY <1>1, <1>2, <1>3, <1>4, UploadKeeps, TakeTurnKeeps, ExpireKeeps,
           WorkerKilledKeeps, RestartKeeps DEF Next

LEMMA InvAlways == Spec => []Inv
BY InvInit, InvNext, PTL DEF Spec

\* Type correctness of ingestion, for any number of uploads, requests and files.
THEOREM TypeCorrect == Spec => []TypeOK
<1>1. Inv => TypeOK
  BY DEF Inv
<1> QED BY <1>1, InvAlways, PTL

\* What a task reports of its journey is what the database holds, whatever fails or
\* is killed, and however often the journey is seeded.
THEOREM ReportsAreTrue == Spec => []ReportsAgree
<1>1. Inv => ReportsAgree
  BY DEF Inv, TaskInv, ReportsAgree
<1> QED BY <1>1, InvAlways, PTL

\* An active journey has the chapters of its file and a summary of the LLM.
THEOREM ActiveJourneysComplete == Spec => []ActiveIsComplete
<1>1. Inv => ActiveIsComplete
  BY DEF Inv, TaskInv, ActiveIsComplete
<1> QED BY <1>1, InvAlways, PTL

\* Seedings that overlap leave the rows of one of them.
THEOREM DemoSetsWhole == Spec => []DemoIsOneSet
<1>1. Inv => DemoIsOneSet
  BY DEF Inv, TaskInv, DemoIsOneSet
<1> QED BY <1>1, InvAlways, PTL

LEMMA StepKeeps == Inv /\ [Next]_vars => \A t \in Tasks : Kept(t)
<1> SUFFICES ASSUME Inv, [Next]_vars, NEW t \in Tasks, journey[t] # None PROVE Kept(t)
  BY DEF Kept
<1>1. CASE UNCHANGED journey
  BY <1>1 DEF Kept
<1>2. ASSUME NEW u \in Tasks, Commit(u) \/ (\E kept \in BOOLEAN : DatabaseFails(u, kept))
      PROVE  Kept(t)
  <2>1. journey[u] = None
    BY <1>2 DEF Inv, TaskInv, Stage, Commit, DatabaseFails
  <2>2. journey'[t] = journey[t]
    BY <1>2, <2>1 DEF Inv, TypeOK, Commit, DatabaseFails
  <2> QED BY <2>2 DEF Kept
<1>3. ASSUME NEW s \in Seeders, NEW told \in BOOLEAN, CommitSeeding(s, told)
      PROVE  Kept(t)
  <2>1. PICK j \in Tasks : j = seeding[s].journey
    BY <1>3 DEF Inv, TypeOK, Seedings, CommitSeeding
  <2>2. CASE t = j
    BY <1>3, <2>1, <2>2, CommitSeedingFills, Parameters DEF Kept
  <2>3. CASE t # j
    <3>1. journey' = [journey EXCEPT ![j] = journey'[j]]
      BY <1>3, <2>1, CommitSeedingFills
    <3> QED BY <2>3, <3>1 DEF Inv, TypeOK, Kept
  <2> QED BY <2>2, <2>3
<1>4. \/ UNCHANGED journey
      \/ \E u \in Tasks : Commit(u) \/ (\E kept \in BOOLEAN : DatabaseFails(u, kept))
      \/ \E s \in Seeders, told \in BOOLEAN : CommitSeeding(s, told)
  BY DEF Next, TaskStep, SeederStep, vars, Upload, Begin, ParsingFails, AnalyzeJourney,
         AnalyzeJourneyFails, AnalyzeChapter, BeginSeeding, TakeTurn, SeedingFails, Report,
         ReportFails, Expire, WorkerKilled, Restart
<1> QED BY <1>1, <1>2, <1>3, <1>4

\* No step, of a retry, a seeding or a failure, takes away what the LLM wrote.
THEOREM LLMContentStays == Spec => AnalysisIsKept
<1>1. Inv /\ [Next]_vars => [\A t \in Tasks : Kept(t)]_vars
  BY StepKeeps
<1> QED BY <1>1, InvAlways, PTL DEF Spec, AnalysisIsKept

-----------------------------------------------------------------------------
(* The file of a task. *)

\* From the upload on the chapters are those of the file, and there are some as soon
\* as anything is written.
FromFile(t) ==
  /\ step[t] = "new" => upload[t] = None
  /\ step[t] # "new" => upload[t] \in Uploads
  /\ upload[t] # None => hierarchy[t] = ChaptersOf[upload[t].file]
  /\ step[t] \in {"journey", "chapters", "commit", "failing"} \/ journey[t] # None =>
       upload[t] # None /\ hierarchy[t] # <<>>

AllFromFiles == DOMAIN hierarchy = Tasks /\ \A t \in Tasks : FromFile(t)

LEMMA FromFileInit == Init => AllFromFiles
<1> SUFFICES ASSUME Init, NEW t \in Tasks PROVE FromFile(t)
  BY DEF Init, AllFromFiles
<1>1. step[t] = "new" /\ upload[t] = None /\ journey[t] = None
  BY DEF Init
<1> QED BY <1>1 DEF FromFile

LEMMA FromFileKeeps ==
  ASSUME Inv, AllFromFiles, [Next]_vars, NEW t \in Tasks PROVE FromFile(t)'
<1>0. FromFile(t)
  BY DEF AllFromFiles
<1>1. ASSUME NEW u \in Tasks, Upload(u) PROVE FromFile(t)'
  <2>1. PICK v \in Uploads : /\ upload' = [upload EXCEPT ![u] = v]
                             /\ hierarchy' = [hierarchy EXCEPT ![u] = ChaptersOf[v.file]]
    BY <1>1 DEF Upload
  <2>2. CASE t = u
    <3>1. hierarchy'[t] = ChaptersOf[v.file]
      BY <2>1, <2>2 DEF AllFromFiles
    <3>2. journey'[t] = None /\ upload'[t] = v /\ step'[t] = "queued"
      BY <1>1, <2>1, <2>2 DEF Inv, TypeOK, TaskInv, Stage, Upload
    <3> QED BY <2>1, <3>1, <3>2 DEF FromFile
  <2>3. CASE t # u
    BY <1>0, <1>1, <2>1, <2>3 DEF Inv, TypeOK, Upload, FromFile
  <2> QED BY <2>2, <2>3
<1>2. ASSUME NEW u \in Tasks,
             \/ AnalyzeJourney(u) \/ AnalyzeJourneyFails(u)
             \/ \E ok \in BOOLEAN : AnalyzeChapter(u, ok)
             \/ Report(u) \/ \E cached \in BOOLEAN : ReportFails(u, cached)
      PROVE  FromFile(t)'
  BY <1>0, <1>2 DEF Inv, TypeOK, AnalyzeJourney, AnalyzeJourneyFails, AnalyzeChapter, Report,
                    ReportFails, FromFile
<1>3. ASSUME NEW u \in Tasks, Begin(u) PROVE FromFile(t)'
  <2>1. /\ step[u] = "queued"
        /\ step' = [step EXCEPT ![u] = IF hierarchy[u] = <<>> THEN "ended" ELSE "journey"]
        /\ UNCHANGED <<upload, hierarchy, journey>>
    BY <1>3 DEF Begin
  <2>2. CASE t = u
    <3>1. step'[t] = IF hierarchy[t] = <<>> THEN "ended" ELSE "journey"
      BY <2>1, <2>2 DEF Inv, TypeOK
    <3>2. upload[t] \in Uploads /\ upload[t] # None
      BY <1>0, <2>1, <2>2, Parameters DEF FromFile
    <3> QED BY <1>0, <2>1, <3>1, <3>2 DEF FromFile
  <2>3. CASE t # u
    <3>1. step'[t] = step[t]
      BY <2>1, <2>3 DEF Inv, TypeOK
    <3> QED BY <1>0, <2>1, <3>1 DEF FromFile
  <2> QED BY <2>2, <2>3
<1>9. ASSUME NEW u \in Tasks, ParsingFails(u) PROVE FromFile(t)'
  BY <1>0, <1>9 DEF Inv, TypeOK, ParsingFails, FromFile
<1>4. ASSUME NEW u \in Tasks, Commit(u) \/ \E kept \in BOOLEAN : DatabaseFails(u, kept)
      PROVE  FromFile(t)'
  BY <1>0, <1>4 DEF Inv, TypeOK, Commit, DatabaseFails, FromFile
<1>5. ASSUME NEW s \in Seeders, NEW told \in BOOLEAN, CommitSeeding(s, told)
      PROVE  FromFile(t)'
  <2>1. journey'[t] # None => journey[t] # None
    BY <1>5 DEF Inv, TypeOK, SeedingInv, CommitSeeding
  <2>2. step'[t] = step[t] \/ (step[t] = "seed" /\ step'[t] = "report")
    <3>0. step \in [Tasks -> Steps]
      BY DEF Inv, TypeOK
    <3>1. s \in Tasks => step[s] = "seed"
      BY <1>5 DEF Inv, SeedingInv, CommitSeeding
    <3>2. step' = IF s \in Tasks THEN [step EXCEPT ![s] = "report"] ELSE step
      BY <1>5 DEF CommitSeeding, GoOn
    <3> QED BY <3>0, <3>1, <3>2
  <2> QED BY <1>0, <1>5, <2>1, <2>2 DEF CommitSeeding, FromFile
<1>6. ASSUME NEW s \in Seeders, SeedingFails(s) PROVE FromFile(t)'
  <2>1. step'[t] = step[t] \/ (step[t] = "seed" /\ step'[t] = "report")
    <3>0. step \in [Tasks -> Steps]
      BY DEF Inv, TypeOK
    <3>1. s \in Tasks => step[s] = "seed"
      BY <1>6 DEF Inv, SeedingInv, SeedingFails
    <3>2. step' = IF s \in Tasks THEN [step EXCEPT ![s] = "report"] ELSE step
      BY <1>6 DEF SeedingFails, GoOn
    <3> QED BY <3>0, <3>1, <3>2
  <2> QED BY <1>0, <1>6, <2>1 DEF SeedingFails, FromFile
<1>7. ASSUME \/ \E s \in Seeders : TakeTurn(s)
             \/ \E s \in Seeders, j \in Tasks : BeginSeeding(s, j)
             \/ \E u \in Tasks : Expire(u)
             \/ UNCHANGED vars
      PROVE  FromFile(t)'
  BY <1>0, <1>7 DEF TakeTurn, BeginSeeding, Expire, vars, FromFile
<1>8. CASE Restart \/ \E u \in Tasks : WorkerKilled(u)
  BY <1>0, <1>8 DEF Inv, TypeOK, Restart, WorkerKilled, RunBy, FromFile
<1> QED BY <1>1, <1>2, <1>3, <1>4, <1>5, <1>6, <1>7, <1>8, <1>9
        DEF Next, TaskStep, SeederStep, Seeders

LEMMA AllFromFilesNext == Inv /\ AllFromFiles /\ [Next]_vars => AllFromFiles'
<1> SUFFICES ASSUME Inv, AllFromFiles, [Next]_vars PROVE AllFromFiles'
  OBVIOUS
<1>1. ASSUME NEW u \in Tasks, Upload(u)
      PROVE  \E h : hierarchy' = [hierarchy EXCEPT ![u] = h]
  BY <1>1 DEF Upload
<1>2. UNCHANGED hierarchy \/ \E u \in Tasks : Upload(u)
  BY DEF Next, TaskStep, SeederStep, vars, Begin, ParsingFails, AnalyzeJourney, AnalyzeJourneyFails,
         AnalyzeChapter, Commit, DatabaseFails, BeginSeeding, TakeTurn, CommitSeeding,
         SeedingFails, Report, ReportFails, Expire, WorkerKilled, Restart
<1>3. DOMAIN hierarchy' = Tasks
  BY <1>1, <1>2 DEF AllFromFiles
<1> QED BY <1>3, FromFileKeeps DEF AllFromFiles

-----------------------------------------------------------------------------
(* Refinement of StoredJourney. *)

\* What a task commits is a journey of its file: active or failed as a whole.
LEMMA WrittenIsStored ==
  ASSUME Inv, AllFromFiles, NEW t \in Tasks, step[t] \in {"commit", "failing"},
         journey' = [journey EXCEPT ![t] = Written(t)], demo' = demo
  PROVE  Stored!Store(t)
<1> DEFINE n == Len(hierarchy[t])
           file == upload[t].file
<1>1. /\ file \in Files /\ ChaptersOf[file] # <<>>
      /\ hierarchy[t] = ChaptersOf[file]
  BY DEF AllFromFiles, FromFile, Uploads
<1>2. n \in {Len(ChaptersOf[f]) : f \in {g \in Files : ChaptersOf[g] # <<>>}}
  BY <1>1
<1>3. DOMAIN hierarchy[t] = 1 .. n /\ n \in Nat
  BY DEF Inv, TypeOK, IsSequence
<1> DEFINE c == [i \in 1 .. n |-> IF LLMAnswered(t, i) THEN "llm" ELSE "none"]
<1>4. Written(t).chapters = c
  BY <1>3 DEF Written
<1>5. c \in [1 .. n -> {"llm", "none"}]
  OBVIOUS
<1>6. step[t] = "failing" => c \in [1 .. n -> {"none"}]
  BY DEF Inv, TaskInv, Stage, NotAnalyzed, LLMAnswered
<1>7. Written(t) = [status |-> Written(t).status, total |-> Written(t).total,
                    summary |-> Written(t).summary, chapters |-> c]
  BY <1>4 DEF Written
<1> HIDE DEF c
<1>8. CASE step[t] = "commit"
  <2>1. analyzed[t].summary
    BY <1>8 DEF Inv, TaskInv, Stage
  <2>2. Written(t).status = "active" /\ Written(t).total = n /\ Written(t).summary = "llm"
    BY <1>8, <2>1 DEF Written
  <2> HIDE DEF n
  <2>3. Written(t) \in Stored!Active(n)
    BY <1>5, <1>7, <2>2 DEF Stored!Active
  <2> QED BY <1>2, <2>3, <1>8 DEF Stored!Store, Inv, TaskInv, Stage
<1>9. CASE step[t] = "failing"
  <2>1. ~analyzed[t].summary
    BY <1>9 DEF Inv, TaskInv, Stage, NotAnalyzed
  <2>2. Written(t).status = "failed" /\ Written(t).total = 0 /\ Written(t).summary = "none"
    BY <1>9, <2>1 DEF Written
  <2> HIDE DEF n
  <2>3. Written(t) \in Stored!Failed(n)
    BY <1>6, <1>7, <1>9, <2>2 DEF Stored!Failed
  <2> QED BY <1>2, <2>3, <1>9 DEF Stored!Store, Inv, TaskInv, Stage
<1> QED BY <1>8, <1>9

\* A seeding replaces exactly the demo rows that are there.
LEMMA SeedingIsSeed ==
  ASSUME Inv, NEW s \in Seeders, NEW told \in BOOLEAN, CommitSeeding(s, told)
  PROVE  \E t \in Tasks : Stored!Seed(t)
<1> DEFINE j == seeding[s].journey
<1>1. j \in Tasks /\ journey[j] # None /\ seeding[s].replaces = demo[j].notes
  BY DEF Inv, TypeOK, Seedings, SeedingInv, CommitSeeding
<1>2. demo[j].notes \in Nat
  BY <1>1 DEF Inv, TypeOK
<1>3. demo' = [demo EXCEPT ![j] = [learners |-> 1, notes |-> 1]]
  <2>1. demo[j].notes - seeding[s].replaces + 1 = 1
    BY <1>1, <1>2
  <2> QED BY <2>1 DEF CommitSeeding
<1>4. journey' = [journey EXCEPT
                    ![j].summary = Stored!Filled(@),
                    ![j].chapters = [i \in DOMAIN @ |-> Stored!Filled(@[i])]]
  BY DEF CommitSeeding, Fill, Stored!Filled
<1> QED BY <1>1, <1>3, <1>4 DEF Stored!Seed

LEMMA StoredStep ==
  Inv /\ AllFromFiles /\ [Next]_vars => [Stored!Next]_<<journey, demo>>
<1> SUFFICES ASSUME Inv, AllFromFiles, [Next]_vars
             PROVE  Stored!Next \/ UNCHANGED <<journey, demo>>
  OBVIOUS
<1>1. ASSUME NEW t \in Tasks, Commit(t) PROVE Stored!Next
  BY <1>1, WrittenIsStored DEF Commit, Stored!Next
<1>2. ASSUME NEW t \in Tasks, NEW kept \in BOOLEAN, DatabaseFails(t, kept)
      PROVE  Stored!Next \/ UNCHANGED <<journey, demo>>
  <2>1. CASE kept
    BY <1>2, <2>1, WrittenIsStored DEF DatabaseFails, Stored!Next
  <2>2. CASE ~kept
    BY <1>2, <2>2 DEF DatabaseFails
  <2> QED BY <2>1, <2>2
<1>3. ASSUME NEW s \in Seeders, NEW told \in BOOLEAN, CommitSeeding(s, told)
      PROVE  Stored!Next
  BY <1>3, SeedingIsSeed DEF Stored!Next
<1>4. \/ UNCHANGED <<journey, demo>>
      \/ \E t \in Tasks : Commit(t) \/ (\E kept \in BOOLEAN : DatabaseFails(t, kept))
      \/ \E s \in Seeders, told \in BOOLEAN : CommitSeeding(s, told)
  BY DEF Next, TaskStep, SeederStep, vars, Upload, Begin, ParsingFails, AnalyzeJourney,
         AnalyzeJourneyFails, AnalyzeChapter, BeginSeeding, TakeTurn, SeedingFails, Report,
         ReportFails, Expire, WorkerKilled, Restart
<1> QED BY <1>1, <1>2, <1>3, <1>4

\* Readers of a journey see one commit of the task and seedings that fill it, whatever
\* fails, is killed or is seeded twice.
THEOREM IngestionImplementsStored == Spec => ImplementsStoredJourney
<1>1. Init => Stored!Init
  BY DEF Init, Stored!Init
<1> QED BY <1>1, InvInit, InvNext, FromFileInit, AllFromFilesNext, StoredStep, PTL
  DEF Spec, ImplementsStoredJourney, Stored!Spec, Stored!vars

=============================================================================
