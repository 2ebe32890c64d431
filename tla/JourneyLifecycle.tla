-------------------------- MODULE JourneyLifecycle --------------------------
(***************************************************************************)
(* What the state engine promises about one user's journey, whoever writes *)
(* it: as long as no write was based on a row that had changed since it    *)
(* was read, every visible move is one the journey machine declares (or    *)
(* the one move the chapter scan adds); and even after such a race a       *)
(* journey never disappears and never starts again.                        *)
(***************************************************************************)
EXTENDS JourneyMachine

CONSTANTS Users, Demo

VARIABLES
  state,  \* [Users -> AllStates \cup {"absent"}]: the committed journey state
  raced,  \* users some write to whom overtook a newer one
  seeds   \* how often the rows of the demo users have been replaced

\* scan_chapter_transitions takes every ACTIVE_STATE to chapter_transition,
\* onboarding included, for which the machine declares no edge.
PermittedMoves == Edges \cup {<<"onboarding", "chapter_transition">>}

\* A first event creates the row and may start the journey at once.
Created == {"new_unstarted", "onboarding"}

UserStep(u) ==
  \/ state'[u] = state[u]
  \/ state[u] = "absent" /\ state'[u] \in Created
  \/ state[u] # "absent" /\ <<state[u], state'[u]>> \in PermittedMoves
  \/ state[u] # "absent" /\ u \in raced' /\ state'[u] \in AllStates \ Created

Init ==
  /\ state \in [Users -> AllStates \cup {"absent"}]
  /\ raced = {}
  /\ seeds = 0

\* Transactions of the consumer and of the scans.
Moved ==
  /\ \A u \in Users : UserStep(u)
  /\ raced \subseteq raced'
  /\ seeds' = seeds

\* The seeder gives every demo user a new row and touches no other; a write
\* based on a row that is gone has no effect on the new one.
Reseeded ==
  /\ seeds' = seeds + 1
  /\ \A u \in Demo : state'[u] \in AllStates
  /\ \A u \in Users \ Demo : state'[u] = state[u]
  /\ raced' = raced \ Demo

Next == Moved \/ Reseeded

Spec == Init /\ [][Next]_<<state, raced, seeds>>

=============================================================================
