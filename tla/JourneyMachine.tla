--------------------------- MODULE JourneyMachine ---------------------------
(***************************************************************************)
(* The twelve-state journey machine of app/state_engine/machine.py and the *)
(* decision of app/state_engine/transitions.py which of its triggers an    *)
(* incoming progress event sends.  Constant operators only: JourneyEngine  *)
(* gives them a database, an event consumer and the two temporal scans.    *)
(***************************************************************************)
EXTENDS Naturals

ActiveStates ==
  {"onboarding", "progressing_active", "progressing_slow", "struggling",
   "bored_skimming", "chapter_transition"}

DormantStates == {"dormant_short", "dormant_long", "churned"}

AllStates ==
  ActiveStates \cup DormantStates \cup {"new_unstarted", "completing", "completed"}

\* Every trigger of JourneyStateMachine: the states it leaves and the one it
\* enters.  slow_down and speed_up are declared but no code sends them.
Machine ==
  [ start_journey            |-> [from |-> {"new_unstarted"}, to |-> "onboarding"],
    complete_onboarding      |-> [from |-> {"onboarding"}, to |-> "progressing_active"],
    slow_down                |-> [from |-> {"progressing_active"}, to |-> "progressing_slow"],
    speed_up                 |-> [from |-> {"progressing_slow"}, to |-> "progressing_active"],
    start_struggling         |-> [from |-> {"progressing_active", "progressing_slow"},
                                  to |-> "struggling"],
    stop_struggling          |-> [from |-> {"struggling"}, to |-> "progressing_active"],
    start_skimming           |-> [from |-> {"progressing_active", "progressing_slow"},
                                  to |-> "bored_skimming"],
    stop_skimming            |-> [from |-> {"bored_skimming"}, to |-> "progressing_active"],
    enter_chapter_transition |-> [from |-> {"progressing_active", "progressing_slow",
                                            "struggling", "bored_skimming"},
                                  to |-> "chapter_transition"],
    resume_from_transition   |-> [from |-> {"chapter_transition"}, to |-> "progressing_active"],
    go_dormant_short         |-> [from |-> ActiveStates, to |-> "dormant_short"],
    go_dormant_long          |-> [from |-> {"dormant_short"}, to |-> "dormant_long"],
    churn                    |-> [from |-> {"dormant_long"}, to |-> "churned"],
    reactivate               |-> [from |-> DormantStates, to |-> "progressing_active"],
    near_completion          |-> [from |-> {"progressing_active"}, to |-> "completing"],
    finish                   |-> [from |-> {"completing"}, to |-> "completed"] ]

\* The moves the machine declares, as pairs of states.
Edges == UNION { Machine[t].from \X {Machine[t].to} : t \in DOMAIN Machine }

\* machine.send: the state entered, or "none" where TransitionNotAllowed is
\* raised and _try_send swallows it.
Send(t, s) == IF s \in Machine[t].from THEN Machine[t].to ELSE "none"

-----------------------------------------------------------------------------
(* Progress events.  Only what the decision reads is kept: the type, the     *)
(* running total the producer puts in metadata.activities_completed (below   *)
(* or at the threshold) and metadata.journey_complete.  chapter_completed    *)
(* stands for quest_completed and session_ended as well, which no rule asks  *)
(* for either.                                                               *)

\* A literal in the code; the seeded setting onboarding_completion_threshold
\* is never read.
OnboardingThreshold == 3

Events ==
  [type         : {"activity_completed", "chapter_completed", "app_opened"},
   total        : {OnboardingThreshold - 1, OnboardingThreshold},
   journeyDone  : BOOLEAN]

\* What BehavioralEvaluator.evaluate_signals may return: any combination.
Signals == {"struggling", "bored", "near_completion"}

\* The if-chain of _apply_transitions, its early returns made exclusive.
ApplyTransitions(s, e, sig) ==
  CASE s \in DormantStates
         -> Send("reactivate", s)
    [] s = "new_unstarted" /\ e.type = "activity_completed"
         -> Send("start_journey", s)
    [] s = "chapter_transition" /\ e.type \in {"activity_completed", "app_opened"}
         -> Send("resume_from_transition", s)
    [] s = "onboarding" /\ e.type = "activity_completed" /\ e.total >= OnboardingThreshold
         -> Send("complete_onboarding", s)
    [] s \in {"progressing_active", "progressing_slow"} /\ "struggling" \in sig
         -> Send("start_struggling", s)
    [] s = "struggling" /\ "struggling" \notin sig
         -> Send("stop_struggling", s)
    [] s \in {"progressing_active", "progressing_slow"} /\ "struggling" \notin sig
         /\ "bored" \in sig
         -> Send("start_skimming", s)
    [] s = "bored_skimming" /\ "bored" \notin sig
         -> Send("stop_skimming", s)
    [] s = "progressing_active" /\ sig = {"near_completion"}
         -> Send("near_completion", s)
    [] s = "completing" /\ e.journeyDone
         -> Send("finish", s)
    [] OTHER -> "none"

=============================================================================
