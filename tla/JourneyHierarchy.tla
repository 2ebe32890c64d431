-------------------------- MODULE JourneyHierarchy --------------------------
(***************************************************************************)
(* What app/ingestion/parser.py and validator.py make of an uploaded CSV   *)
(* file: the rows, the tree of chapters, quests, activities, lessons and   *)
(* tasks built from them, and whether it is accepted.                      *)
(*                                                                         *)
(* A file has one of two formats.  A row of the simple format is a task,   *)
(* with five numbers and five names; a row of the SpeakX format is a       *)
(* lesson, with codes for its numbers and up to three tasks in columns of  *)
(* their own.  The types of activities and tasks go with their names.      *)
(***************************************************************************)
EXTENDS Integers, FiniteSets, SequencesExt

\* A row that has no valid CSVRow: a cell is missing or is not a number.
Bad == [bad |-> TRUE]

\* A row of the simple format with more cells than the file has headers: the reader
\* puts the rest under no name at all, and cleaning the names raises.
Overlong == [overlong |-> TRUE]

ParsingRaises(f) == f.format = "simple" /\ Overlong \in ToSet(f.rows)

\* A code that does not end in letters and digits.
NoNumber == -1

ExtractNumberFromCode(code) == IF code = NoNumber THEN 1 ELSE code

\* The elements of a list that are in a set, in their order.
Where(list, set) ==
  FlattenSeq([i \in DOMAIN list |-> IF list[i] \in set THEN <<list[i]>> ELSE <<>>])

\* _transform_speakx_row: a row for each task the lesson has, or one for task 1 that
\* has the title of the lesson.
TransformSpeakxRow(r) ==
  LET filled == DOMAIN r.tasks
      tasks == IF filled = {} THEN <<1>> ELSE Where(<<1, 2, 3>>, filled)
  IN [i \in DOMAIN tasks |->
        [ chapter  |-> ExtractNumberFromCode(r.chapter),
          quest    |-> ExtractNumberFromCode(r.quest),
          activity |-> ExtractNumberFromCode(r.activity),
          lesson   |-> ExtractNumberFromCode(r.lesson),
          task     |-> tasks[i],
          names    |-> <<r.chapterName, r.questName, r.title, r.title,
                         IF filled = {} THEN r.title ELSE r.tasks[tasks[i]]>> ]]

ParseJourneyCsv(f) ==
  IF f.format = "speakx"
    THEN FlattenSeq([i \in DOMAIN f.rows |-> TransformSpeakxRow(f.rows[i])])
    ELSE f.rows

-----------------------------------------------------------------------------
(* The tree, as its nodes in the order in which they are created.  A node   *)
(* is found by its number in the list of its parent, so the numbers on the *)
(* way to it, its path, name it: <<2, 1>> is quest 1 of chapter 2.          *)

Key(r) == <<r.chapter, r.quest, r.activity, r.lesson, r.task>>

PathOf(r, level) == SubSeq(Key(r), 1, level)

\* The chapter, quest, activity, lesson or task of a row.
NodeOf(r, level) == [path |-> PathOf(r, level), name |-> r.names[level]]

\* It is created with the name the row gives it, unless it is there.
GetOrCreate(nodes, r, level) ==
  IF \E i \in DOMAIN nodes : nodes[i].path = PathOf(r, level)
    THEN nodes
    ELSE Append(nodes, NodeOf(r, level))

WayTo(nodes, r) ==
  LET chapter  == GetOrCreate(nodes, r, 1)
      quest    == GetOrCreate(chapter, r, 2)
      activity == GetOrCreate(quest, r, 3)
  IN GetOrCreate(activity, r, 4)

AddTask(tree, r) ==
  [ seen  |-> tree.seen \cup {Key(r)},
    nodes |-> Append(WayTo(tree.nodes, r), NodeOf(r, 5)) ]

\* Mutant: the key is compared without the number of the task.
InsertRowOfNewLesson(tree, r) ==
  IF \E key \in tree.seen : SubSeq(key, 1, 4) = PathOf(r, 4) THEN tree ELSE AddTask(tree, r)

\* A row whose key was seen before is skipped.
InsertRow(tree, r) == IF Key(r) \in tree.seen THEN tree ELSE AddTask(tree, r)

BuildJourneyHierarchy(rows) ==
  LET tree[n \in 0 .. Len(rows)] ==
        IF n = 0 THEN [seen |-> {}, nodes |-> <<>>] ELSE InsertRow(tree[n - 1], rows[n])
  IN tree[Len(rows)].nodes

-----------------------------------------------------------------------------

\* The nodes below a path.
Children(nodes, path) ==
  {i \in DOMAIN nodes :
     Len(nodes[i].path) = Len(path) + 1 /\ IsPrefix(path, nodes[i].path)}

Sequential(nodes, list) == {Last(nodes[i].path) : i \in list} = 1 .. Cardinality(list)

NamesDiffer(nodes, list) == \A i, k \in list : nodes[i].name = nodes[k].name => i = k

\* validate_journey_structure finds nothing to complain of.
ValidateJourneyStructure(nodes) ==
  /\ nodes # <<>>
  /\ \A path \in {<<>>} \cup {nodes[i].path : i \in Children(nodes, <<>>)} :
       LET list == Children(nodes, path)
       IN Sequential(nodes, list) /\ NamesDiffer(nodes, list)

\* The chapters of a file that is accepted, in the order of their numbers, each
\* with the nodes below it; none of one that is not.
AcceptedChapters(f) ==
  LET nodes == BuildJourneyHierarchy(ParseJourneyCsv(f))
  IN IF Bad \in ToSet(f.rows) \/ ParsingRaises(f) \/ ~ValidateJourneyStructure(nodes)
       THEN <<>>
       ELSE [c \in 1 .. Cardinality(Children(nodes, <<>>)) |->
               Where(nodes, {n \in ToSet(nodes) : n.path[1] = c})]

=============================================================================
