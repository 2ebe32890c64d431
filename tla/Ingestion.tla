----------------------------- MODULE Ingestion -----------------------------
(***************************************************************************)
(* Ingestion of uploaded files: the transaction of                         *)
(* app/ingestion/service.py, the two ways of running it                    *)
(* (app/portal/background.py in the process of the API,                    *)
(* workers/ingestion_worker.py as a Celery task), what each of them        *)
(* reports, and the seeding of demo learners that follows                  *)
(* (app/seeding/demo_seeder.py) or is requested later.                     *)
(*                                                                         *)
(* A task ingests one file into a journey of its own; the journey is named *)
(* by the task.  Everything up to the commit is seen by nobody else.       *)
(***************************************************************************)
EXTENDS Naturals, Sequences, FiniteSets

CONSTANTS
  Tasks,      \* uploads
  Requests,   \* handlers of POST /journey/{id}/seed that may be open together
  Files,
  Malformed,  \* files that make the parser raise
  ChaptersOf, \* [Files -> chapters of the file; none if it is not accepted]
  None

IsSequence(h) == Len(h) \in Nat /\ DOMAIN h = 1 .. Len(h)

VARIABLES
  upload,    \* [Tasks -> the file and who runs the task]
  step,      \* [Tasks -> where the task is]
  hierarchy, \* [Tasks -> the chapters that the parser makes of the file]
  analyzed,  \* [Tasks -> whether the LLM answered for the journey, and for each
             \* chapter that the loop is done with]
  journey,   \* [Tasks -> the committed journey]
  demo,      \* [Tasks -> committed demo rows, in full sets: learners, notifications]
  seeding,   \* [Seeders -> the open seeding transaction]
  state,     \* [Tasks -> what a poll of the task answers]
  result,    \* [Tasks -> the status object that ingest_journey returned]
  cache      \* [Tasks -> ingestion:{journey_id}:status in Redis]

vars == <<upload, step, hierarchy, analyzed, journey, demo, seeding, state, result, cache>>

Seeders == Tasks \cup Requests

Uploads == [file : Files, runner : {"portal", "celery"}]
Steps == {"new", "queued", "journey", "chapters", "commit", "failing",
          "seed", "report", "ended"}
Sources == {"none", "llm", "demo"}
Journeys == [status : {"active", "failed"}, total : Nat, summary : Sources, chapters : Seq(Sources)]
Results == [status : {"complete", "failed"}, stored : BOOLEAN, analyzed : Nat,
            total : Nat, seeded : BOOLEAN]
Seedings == [journey : Tasks, turn : {"holds", "waits", "late", "left"}, replaces : Nat]

ASSUME Parameters ==
  /\ Tasks \cap Requests = {}
  /\ None \notin Uploads \cup Journeys \cup Results \cup Seedings
  /\ Malformed \subseteq Files
  /\ DOMAIN ChaptersOf = Files
  /\ \A f \in Files : IsSequence(ChaptersOf[f])

TypeOK ==
  /\ upload \in [Tasks -> Uploads \cup {None}]
  /\ step \in [Tasks -> Steps]
  /\ \A t \in Tasks : IsSequence(hierarchy[t])
  /\ analyzed \in [Tasks -> [summary : BOOLEAN, chapters : Seq(BOOLEAN)]]
  /\ journey \in [Tasks -> Journeys \cup {None}]
  /\ demo \in [Tasks -> [learners : 0 .. 1, notes : Nat]]
  /\ seeding \in [Seeders -> Seedings \cup {None}]
  /\ state \in [Tasks -> {"UNKNOWN", "PENDING", "STARTED", "SUCCESS", "FAILURE"}]
  /\ result \in [Tasks -> Results \cup {None}]
  /\ cache \in [Tasks -> {"complete", "failed", None}]

Init ==
  /\ upload = [t \in Tasks |-> None]
  /\ step = [t \in Tasks |-> "new"]
  /\ hierarchy = [t \in Tasks |-> <<>>]
  /\ analyzed = [t \in Tasks |-> [summary |-> FALSE, chapters |-> <<>>]]
  /\ journey = [t \in Tasks |-> None]
  /\ demo = [t \in Tasks |-> [learners |-> 0, notes |-> 0]]
  /\ seeding = [s \in Seeders |-> None]
  /\ state = [t \in Tasks |-> "UNKNOWN"]
  /\ result = [t \in Tasks |-> None]
  /\ cache = [t \in Tasks |-> None]

-----------------------------------------------------------------------------
(* The task up to its commit. *)

\* POST /portal/upload or POST /admin/ingest.
Upload(t) ==
  /\ step[t] = "new"
  /\ \E u \in Uploads :
       /\ upload' = [upload EXCEPT ![t] = u]
       /\ hierarchy' = [hierarchy EXCEPT ![t] = ChaptersOf[u.file]]
  /\ step' = [step EXCEPT ![t] = "queued"]
  /\ state' = [state EXCEPT ![t] = "PENDING"]
  /\ UNCHANGED <<analyzed, journey, demo, seeding, result, cache>>

Returned(status, stored, n, total) ==
  [status |-> status, stored |-> stored, analyzed |-> n, total |-> total, seeded |-> FALSE]

\* The file is parsed and validated: hierarchy is used from here on.  One that is not
\* accepted ends the task, successfully.  Celery does not record that a task starts.
Begin(t) ==
  /\ step[t] = "queued" /\ upload[t].file \notin Malformed
  /\ IF hierarchy[t] = <<>>
       THEN /\ step' = [step EXCEPT ![t] = "ended"]
            /\ state' = [state EXCEPT ![t] = "SUCCESS"]
            /\ result' = [result EXCEPT ![t] = Returned("failed", FALSE, 0, 0)]
       ELSE /\ step' = [step EXCEPT ![t] = "journey"]
            /\ state' = [state EXCEPT ![t] = IF upload[t].runner = "portal" THEN "STARTED" ELSE @]
            /\ UNCHANGED result
  /\ UNCHANGED <<upload, hierarchy, analyzed, journey, demo, seeding, cache>>

\* The parser catches what a wrong cell raises, not what a row that is too long does.
ParsingFails(t) ==
  /\ step[t] = "queued" /\ upload[t].file \in Malformed
  /\ step' = [step EXCEPT ![t] = "ended"]
  /\ state' = [state EXCEPT ![t] = "FAILURE"]
  /\ UNCHANGED <<upload, hierarchy, analyzed, journey, demo, seeding, result, cache>>

\* The rows are flushed and analyze_journey answers.
AnalyzeJourney(t) ==
  /\ step[t] = "journey"
  /\ step' = [step EXCEPT ![t] = "chapters"]
  /\ analyzed' = [analyzed EXCEPT ![t].summary = TRUE]
  /\ UNCHANGED <<upload, hierarchy, journey, demo, seeding, state, result, cache>>

\* Mutant: the journey goes on without a summary.
AnalyzeJourneySkipped(t) ==
  /\ step[t] = "journey"
  /\ step' = [step EXCEPT ![t] = "chapters"]
  /\ UNCHANGED <<upload, hierarchy, analyzed, journey, demo, seeding, state, result, cache>>

\* The LLM fails for the journey, after its retries.
AnalyzeJourneyFails(t) ==
  /\ step[t] = "journey"
  /\ step' = [step EXCEPT ![t] = "failing"]
  /\ UNCHANGED <<upload, hierarchy, analyzed, journey, demo, seeding, state, result, cache>>

\* One turn of the loop over the chapters; one that fails is skipped.
AnalyzeChapter(t, ok) ==
  /\ step[t] = "chapters"
  /\ analyzed' = [analyzed EXCEPT ![t].chapters = Append(@, ok)]
  /\ step' = [step EXCEPT ![t] = IF Len(analyzed'[t].chapters) = Len(hierarchy[t]) THEN "commit" ELSE @]
  /\ UNCHANGED <<upload, hierarchy, journey, demo, seeding, state, result, cache>>

LLMAnswered(t, i) == i \in DOMAIN analyzed[t].chapters /\ analyzed[t].chapters[i]

\* Mutant: every chapter of the file counts as analyzed.
AnalyzedAll(t) == Len(hierarchy[t])

\* analyzed_count
AnalyzedCount(t) == Cardinality({i \in DOMAIN hierarchy[t] : LLMAnswered(t, i)})

\* The rows of the journey at the commit of a loop that ended, or of the handler.
Written(t) ==
  [ status   |-> IF step[t] = "commit" THEN "active" ELSE "failed",
    total    |-> IF step[t] = "commit" THEN Len(hierarchy[t]) ELSE 0,
    summary  |-> IF analyzed[t].summary THEN "llm" ELSE "none",
    chapters |-> [i \in DOMAIN hierarchy[t] |-> IF LLMAnswered(t, i) THEN "llm" ELSE "none"] ]

Commit(t) ==
  /\ step[t] \in {"commit", "failing"}
  /\ journey' = [journey EXCEPT ![t] = Written(t)]
  /\ result' = [result EXCEPT ![t] =
       IF step[t] = "commit"
         THEN Returned("complete", TRUE, AnalyzedCount(t), Len(hierarchy[t]))
         ELSE Returned("failed", TRUE, 0, 0)]
  /\ step' = [step EXCEPT ![t] = "seed"]
  /\ UNCHANGED <<upload, hierarchy, analyzed, demo, seeding, state, cache>>

\* The database fails: at a flush, the query of the chapters or a commit.  The
\* handler of the exception commits again, in a session that must be rolled back
\* first, so nothing is kept, unless it was the answer to a commit that was lost.
DatabaseFails(t, kept) ==
  /\ step[t] \in {"journey", "chapters", "commit", "failing"}
  /\ step[t] = "chapters" => analyzed[t].chapters = <<>>
  /\ kept => step[t] \in {"commit", "failing"}
  /\ journey' = IF kept THEN [journey EXCEPT ![t] = Written(t)] ELSE journey
  /\ state' = [state EXCEPT ![t] = "FAILURE"]
  /\ step' = [step EXCEPT ![t] = "ended"]
  /\ UNCHANGED <<upload, hierarchy, analyzed, demo, seeding, result, cache>>

-----------------------------------------------------------------------------
(* Seeding.  A seeding deletes the demo learners of the journey and inserts *)
(* new ones.  The unique key on learner and journey makes a second one wait *)
(* until the first has ended, and fail if it has committed.  Notifications  *)
(* have no such key; they are replaced after the learners.                  *)

\* The transaction has inserted learners of the journey and is still open.
Holds(s, j) ==
  seeding[s] # None /\ seeding[s].journey = j /\ seeding[s].turn \in {"holds", "left"}

Free(j) == \A s \in Seeders : ~Holds(s, j)

\* Mutant: seedings of a journey do not wait for each other.
TurnWithoutKey(j) == "holds"

TurnAt(j) == IF Free(j) THEN "holds" ELSE "waits"

BeginSeeding(s, j) ==
  /\ seeding[s] = None
  /\ IF s \in Tasks THEN s = j /\ step[s] = "seed" ELSE journey[j] # None
  /\ seeding' = [seeding EXCEPT ![s] =
       [journey |-> j, turn |-> TurnAt(j), replaces |-> demo[j].notes]]
  /\ UNCHANGED <<upload, step, hierarchy, analyzed, journey, demo, state, result, cache>>

\* The seeding it waited for was rolled back.
TakeTurn(s) ==
  /\ seeding[s] # None
  /\ seeding[s].turn = "waits" /\ Free(seeding[s].journey)
  /\ seeding' = [seeding EXCEPT ![s].turn = "holds",
                                ![s].replaces = demo[seeding[s].journey].notes]
  /\ UNCHANGED <<upload, step, hierarchy, analyzed, journey, demo, state, result, cache>>

\* Mutant: demo content replaces what is there.
Refill(source) == "demo"

Fill(source) == IF source = "none" THEN "demo" ELSE source

\* A seeding that belongs to a task lets it go on, whatever came of it.
GoOn(s) == step' = IF s \in Tasks THEN [step EXCEPT ![s] = "report"] ELSE step

\* Learners, demo content where the LLM left none, notifications, and the commit.
\* If its answer is lost the task believes that the seeding failed.
CommitSeeding(s, told) ==
  /\ seeding[s] # None /\ seeding[s].turn = "holds"
  /\ LET j == seeding[s].journey IN
       /\ demo' = [demo EXCEPT ![j] =
            [learners |-> 1, notes |-> @.notes - seeding[s].replaces + 1]]
       /\ journey' = [journey EXCEPT
            ![j].summary = Fill(@),
            ![j].chapters = [i \in DOMAIN @ |-> Fill(@[i])]]
       /\ seeding' = [r \in Seeders |->
            IF r = s THEN None
            ELSE IF seeding[r] # None /\ seeding[r].journey = j /\ seeding[r].turn = "waits"
              THEN [seeding[r] EXCEPT !.turn = "late"]
              ELSE seeding[r]]
  /\ result' = IF s \in Tasks THEN [result EXCEPT ![s].seeded = told] ELSE result
  /\ GoOn(s)
  /\ UNCHANGED <<upload, hierarchy, analyzed, state, cache>>

\* Mutant: a task whose seeding failed seeds again.
SeedingFailsAgain(s) ==
  /\ seeding[s] # None /\ seeding[s].turn # "left"
  /\ seeding' = [seeding EXCEPT ![s] = None]
  /\ UNCHANGED <<upload, step, hierarchy, analyzed, journey, demo, state, result, cache>>

\* The unique key, or anything else, raises, and a task goes on.  What a statement
\* raises ends the transaction; after another exception that of a task is left as it
\* is until its session is closed, that of a request is rolled back.
SeedingFails(s) ==
  /\ seeding[s] # None /\ seeding[s].turn # "left"
  /\ \/ seeding' = [seeding EXCEPT ![s] = None]
     \/ /\ s \in Tasks /\ seeding[s].turn = "holds"
        /\ seeding' = [seeding EXCEPT ![s].turn = "left"]
  /\ GoOn(s)
  /\ UNCHANGED <<upload, hierarchy, analyzed, journey, demo, state, result, cache>>

-----------------------------------------------------------------------------
(* The end of the task, and of its session. *)

\* Mutant: the state of the task is stored in place of the status.
ReportState(t) ==
  /\ step[t] = "report"
  /\ step' = [step EXCEPT ![t] = "ended"]
  /\ state' = [state EXCEPT ![t] = "SUCCESS"]
  /\ cache' = IF upload[t].runner = "celery" THEN [cache EXCEPT ![t] = state'[t]] ELSE cache
  /\ seeding' = [seeding EXCEPT ![t] = None]
  /\ UNCHANGED <<upload, hierarchy, analyzed, journey, demo, result>>

\* The portal records the result in memory.  The Celery task stores the status
\* in Redis and returns it.
Report(t) ==
  /\ step[t] = "report"
  /\ step' = [step EXCEPT ![t] = "ended"]
  /\ state' = [state EXCEPT ![t] = "SUCCESS"]
  /\ cache' = IF upload[t].runner = "celery"
                THEN [cache EXCEPT ![t] = result[t].status] ELSE cache
  /\ seeding' = [seeding EXCEPT ![t] = None]
  /\ UNCHANGED <<upload, hierarchy, analyzed, journey, demo, result>>

\* Redis fails, before or after it has stored the status, or the engine cannot be
\* disposed of: everything is done and the task has failed.
ReportFails(t, cached) ==
  /\ step[t] = "report"
  /\ cached => upload[t].runner = "celery"
  /\ step' = [step EXCEPT ![t] = "ended"]
  /\ state' = [state EXCEPT ![t] = "FAILURE"]
  /\ cache' = IF cached THEN [cache EXCEPT ![t] = result[t].status] ELSE cache
  /\ seeding' = [seeding EXCEPT ![t] = None]
  /\ UNCHANGED <<upload, hierarchy, analyzed, journey, demo, result>>

\* The status in Redis expires after an hour.
Expire(t) ==
  /\ cache[t] # None
  /\ cache' = [cache EXCEPT ![t] = None]
  /\ UNCHANGED <<upload, step, hierarchy, analyzed, journey, demo, seeding, state, result>>

RunBy(r) == {t \in Tasks : upload[t] # None /\ upload[t].runner = r}

\* The API process ends and is started again: its tasks and requests are gone, and
\* so is what it knew of tasks.
Restart ==
  /\ step' = [t \in Tasks |-> IF t \in RunBy("portal") THEN "ended" ELSE step[t]]
  /\ state' = [t \in Tasks |-> IF t \in RunBy("portal") THEN "UNKNOWN" ELSE state[t]]
  /\ seeding' = [s \in Seeders |->
       IF s \in RunBy("portal") \cup Requests THEN None ELSE seeding[s]]
  /\ UNCHANGED <<upload, hierarchy, analyzed, journey, demo, result, cache>>

\* A worker is killed, as a whole or only the child that runs the task.  The broker has
\* been told that the task was taken, so nobody takes it again; the state of the task
\* stays as it is, or the parent of the child records that it failed.
WorkerKilled(t) ==
  /\ t \in RunBy("celery") /\ step[t] \notin {"queued", "ended"}
  /\ step' = [step EXCEPT ![t] = "ended"]
  /\ seeding' = [seeding EXCEPT ![t] = None]
  /\ state' \in {state, [state EXCEPT ![t] = "FAILURE"]}
  /\ UNCHANGED <<upload, hierarchy, analyzed, journey, demo, result, cache>>

-----------------------------------------------------------------------------

\* The task's own steps: one of them is always taken, by its event loop.
TaskStep(t) ==
  \/ Begin(t)
  \/ ParsingFails(t)
  \/ AnalyzeJourney(t)
  \/ AnalyzeJourneyFails(t)
  \/ \E ok \in BOOLEAN : AnalyzeChapter(t, ok)
  \/ Commit(t)
  \/ \E kept \in BOOLEAN : DatabaseFails(t, kept)
  \/ BeginSeeding(t, t)
  \/ Report(t)
  \/ \E cached \in BOOLEAN : ReportFails(t, cached)

SeederStep(s) == (\E told \in BOOLEAN : CommitSeeding(s, told)) \/ SeedingFails(s)

Next ==
  \/ \E t \in Tasks : Upload(t) \/ TaskStep(t)
  \/ \E s \in Requests, j \in Tasks : BeginSeeding(s, j)
  \/ \E s \in Seeders : TakeTurn(s) \/ SeederStep(s)
  \/ \E t \in Tasks : Expire(t) \/ WorkerKilled(t)
  \/ Restart

Spec == Init /\ [][Next]_vars

\* Whoever holds a turn goes on.  A seeding that waits is woken when the one it
\* waits for has ended; others may come first, but not always.
Fairness ==
  /\ \A t \in Tasks : WF_vars(TaskStep(t))
  /\ \A s \in Seeders :
       /\ WF_vars((seeding[s] # None => seeding[s].turn # "waits") /\ SeederStep(s))
       /\ SF_vars(TakeTurn(s))

FairSpec == Spec /\ Fairness

-----------------------------------------------------------------------------
(* Properties. *)

CountOf(t, source) ==
  Cardinality({i \in DOMAIN journey[t].chapters : journey[t].chapters[i] = source})

Agrees(t) ==
  /\ state[t] = "SUCCESS" => result[t] # None
  /\ cache[t] # None => result[t] # None /\ result[t].stored /\ cache[t] = result[t].status
  /\ result[t] # None =>
       IF result[t].stored
         THEN /\ journey[t] # None
              /\ result[t].status = "complete" <=> journey[t].status = "active"
              /\ result[t].analyzed = CountOf(t, "llm")
              /\ result[t].total = journey[t].total
              /\ result[t].seeded =>
                   demo[t].learners = 1
                     /\ \A i \in DOMAIN journey[t].chapters : journey[t].chapters[i] # "none"
         ELSE journey[t] = None

\* What a finished task says of its journey, whichever way it is asked, is what
\* the database holds, however often the journey is seeded again, and a task that
\* reports success has left nothing out of its report.
ReportsAgree == \A t \in Tasks : Agrees(t)

Complete(t) ==
  journey[t] # None =>
    /\ DOMAIN journey[t].chapters = DOMAIN hierarchy[t]
    /\ journey[t].status = "active" =>
         journey[t].summary = "llm" /\ journey[t].total = Len(hierarchy[t])

\* A journey is active only with a summary of the LLM, never with a demo one, and
\* it has the chapters of the file that was uploaded for it.
ActiveIsComplete == \A t \in Tasks : Complete(t)

\* The demo rows of a journey are those of one seeding: every learner once, and
\* the notifications of no other seeding, although only learners have a key.
DemoIsOneSet == \A t \in Tasks : demo[t].learners = demo[t].notes

Kept(t) ==
  journey[t] # None =>
    /\ journey'[t] # None
    /\ journey'[t].status = journey[t].status
    /\ journey[t].summary # "none" => journey'[t].summary = journey[t].summary
    /\ \A i \in DOMAIN journey[t].chapters : journey[t].chapters[i] # "none" =>
         journey'[t].chapters[i] = journey[t].chapters[i]

\* Once a journey is committed, no step takes away what the LLM wrote, and seeding
\* fills only what is missing.
AnalysisIsKept == [][\A t \in Tasks : Kept(t)]_vars

Stored ==
  INSTANCE StoredJourney WITH
    Sizes <- {Len(ChaptersOf[f]) : f \in {g \in Files : ChaptersOf[g] # <<>>}}

\* Of a journey and its demo rows, a reader sees only a first commit of everything
\* and seedings that fill every gap at once: no crash, lost answer or second seeding
\* shows anything between.
ImplementsStoredJourney == Stored!Spec

\* Every task ends, also one that waits for a seeding of its journey by others.
EveryTaskEnds == \A t \in Tasks : step[t] = "queued" ~> step[t] = "ended"

=============================================================================
