---------------------------- MODULE StoredJourney ----------------------------
(***************************************************************************)
(* What ingestion and seeding promise of the rows of a journey, without    *)
(* tasks, reports and failures: they appear all at once, either active     *)
(* with what the LLM wrote or failed with nothing of it, and a seeding     *)
(* fills every gap and leaves one set of demo rows; a further one changes  *)
(* nothing.  Ingestion implements this specification.                      *)
(***************************************************************************)
EXTENDS Naturals

CONSTANTS
  Tasks,   \* a journey is named by the task that ingests it
  Sizes,   \* the numbers of chapters that accepted files have
  None

VARIABLES
  journey,  \* [Tasks -> the rows of the journey]
  demo      \* [Tasks -> sets of demo rows: learners, notifications]

vars == <<journey, demo>>

Init ==
  /\ journey = [t \in Tasks |-> None]
  /\ demo = [t \in Tasks |-> [learners |-> 0, notes |-> 0]]

\* A chapter the LLM gave no answer for is left empty.
Active(n) ==
  [status : {"active"}, total : {n}, summary : {"llm"}, chapters : [1 .. n -> {"llm", "none"}]]

Failed(n) ==
  [status : {"failed"}, total : {0}, summary : {"none"}, chapters : [1 .. n -> {"none"}]]

Store(t) ==
  /\ journey[t] = None
  /\ \E n \in Sizes : \E j \in Active(n) \cup Failed(n) :
       journey' = [journey EXCEPT ![t] = j]
  /\ UNCHANGED demo

Filled(source) == IF source = "none" THEN "demo" ELSE source

Seed(t) ==
  /\ journey[t] # None
  /\ journey' = [journey EXCEPT
       ![t].summary = Filled(@),
       ![t].chapters = [i \in DOMAIN @ |-> Filled(@[i])]]
  /\ demo' = [demo EXCEPT ![t] = [learners |-> 1, notes |-> 1]]

Next == \E t \in Tasks : Store(t) \/ Seed(t)

Spec == Init /\ [][Next]_vars

=============================================================================
