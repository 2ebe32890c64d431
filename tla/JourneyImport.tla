--------------------------- MODULE JourneyImport ---------------------------
(***************************************************************************)
(* Ingestion of files whose chapters are those JourneyHierarchy makes of   *)
(* their rows: from the cells of a CSV file to the committed journey.      *)
(***************************************************************************)
EXTENDS Ingestion, JourneyHierarchy

ASSUME Composition ==
  /\ Malformed = {f \in Files : ParsingRaises(f)}
  /\ \A f \in Files : IsSequence(f.rows) /\ ChaptersOf[f] = AcceptedChapters(f)

-----------------------------------------------------------------------------
(* The tasks of a file as whoever filled in its cells sees them: each has a *)
(* place, the line it is in and its column there, whatever a parser makes  *)
(* of it.                                                                  *)

Columns(f, line) ==
  IF f.format = "speakx" /\ DOMAIN f.rows[line].tasks # {} THEN DOMAIN f.rows[line].tasks
  ELSE {1}

Places(f) == {p \in (DOMAIN f.rows) \X (1 .. 3) : p[2] \in Columns(f, p[1])}

Before(p, q) == p[1] < q[1] \/ (p[1] = q[1] /\ p[2] < q[2])

\* A code without a number counts as 1.
NumbersAt(f, p) ==
  LET r == f.rows[p[1]]
  IN IF f.format = "speakx"
       THEN <<ExtractNumberFromCode(r.chapter), ExtractNumberFromCode(r.quest),
              ExtractNumberFromCode(r.activity), ExtractNumberFromCode(r.lesson), p[2]>>
       ELSE <<r.chapter, r.quest, r.activity, r.lesson, r.task>>

NamesAt(f, p) ==
  LET r == f.rows[p[1]]
  IN IF f.format = "speakx"
       THEN <<r.chapterName, r.questName, r.title, r.title,
              IF DOMAIN r.tasks = {} THEN r.title ELSE r.tasks[p[2]]>>
       ELSE r.names

\* The chapter, quest, activity, lesson or task that a place tells of.
ToldAt(f, p, level) == [path |-> SubSeq(NumbersAt(f, p), 1, level), name |-> NamesAt(f, p)[level]]

\* No place before it tells of the same one.
IsFirst(f, p, level) ==
  \A q \in Places(f) : Before(q, p) => ToldAt(f, q, level).path # ToldAt(f, p, level).path

FirstTold(f) ==
  UNION {{ToldAt(f, p, level) : p \in {q \in Places(f) : IsFirst(f, q, level)}} : level \in 1 .. 5}

-----------------------------------------------------------------------------

CellsStored(f, chapters) ==
  LET nodes == FlattenSeq(chapters)
  IN /\ IsInjective([i \in DOMAIN nodes |-> nodes[i].path])
     /\ ToSet(nodes) = FirstTold(f)

\* A committed journey holds, once each, just those chapters, quests, activities,
\* lessons and tasks that its cells are the first to tell of.  So of tasks with the
\* same five numbers the first is stored, with its name, and the others are lost,
\* whatever they hold: also those of different lessons whose codes have no number.
\* No other task is lost, and none is stored twice or under other numbers.
FirstTasksStored == \A t \in Tasks : journey[t] # None => CellsStored(upload[t].file, hierarchy[t])

=============================================================================
