-------------------------- MODULE MCJourneyImport --------------------------
(***************************************************************************)
(* An instance of JourneyImport for TLC: files of up to two rows that      *)
(* repeat, leave out or mix up chapters, quests, activities, lessons and   *)
(* tasks, with the same and with other content.                            *)
(***************************************************************************)
EXTENDS JourneyImport

Task(c, chapterName, q, a, l, name) ==
  [chapter |-> c, quest |-> q, activity |-> a, lesson |-> l, task |-> 1,
   names |-> <<chapterName, <<"p", "q">>[q], "activity", "lesson", name>>]

\* A task, one with its numbers and another name, others in the same chapter, one of
\* which names it otherwise, and one in chapter 2.
MCRows ==
  { Task(1, "a", 1, 1, 1, "x"), Task(1, "a", 1, 1, 1, "y"), Task(1, "b", 1, 2, 1, "x"),
    Task(1, "a", 2, 1, 1, "x"), Task(1, "a", 1, 1, 2, "x"), Task(2, "b", 1, 1, 1, "x") }

\* Lessons of the SpeakX format: codes without numbers, no task or two.
MCLessons ==
  { [chapter |-> c, quest |-> 1, activity |-> 1, lesson |-> 1,
     chapterName |-> IF c = 2 THEN "b" ELSE "a", questName |-> "p", title |-> "x",
     tasks |-> [k \in columns |-> "y"]] :
      c \in {NoNumber, 2}, columns \in {{}, {1, 3}} }

MCFiles ==
  {[format |-> "simple", rows |-> r] :
     r \in BoundedSeq(MCRows, 2) \cup {<<Bad>>, <<Bad, Overlong>>}}
    \cup {[format |-> "speakx", rows |-> r] : r \in BoundedSeq(MCLessons, 2)}

MCMalformed == {f \in MCFiles : ParsingRaises(f)}

MCChaptersOf == [f \in MCFiles |-> AcceptedChapters(f)]

=============================================================================
