-------------------------- MODULE JourneyEngineProofs --------------------------
(***************************************************************************)
(* Machine-checked proofs about JourneyEngine, for any users, any number   *)
(* of workers and any ordered thresholds.                                  *)
(*                                                                         *)
(* The inductive invariant is OpenWorkIsCurrentOrStale with the types: an  *)
(* open transaction fits the row it will write, or is recorded as stale.   *)
(* The lifecycle is implemented because of it, action by action.  The last *)
(* part shows that only a stale commit can make an active user dormant.    *)
(***************************************************************************)
EXTENDS JourneyEngine, TLAPS

USE Thresholds, DemoUsers

-----------------------------------------------------------------------------
(* The machine. *)

\* Whatever Send lets happen is a declared move.
LEMMA SendIsEdge ==
  ASSUME NEW t \in DOMAIN Machine, NEW s, Send(t, s) # "none"
  PROVE  <<s, Send(t, s)>> \in Edges
BY DEF Send, Edges

\* The triggers the code relies on, with the states they join.
LEMMA Triggers ==
  /\ DOMAIN Machine =
       {"start_journey", "complete_onboarding", "slow_down", "speed_up",
        "start_struggling", "stop_struggling", "start_skimming", "stop_skimming",
        "enter_chapter_transition", "resume_from_transition", "go_dormant_short",
        "go_dormant_long", "churn", "reactivate", "near_completion", "finish"}
  /\ \A t \in DOMAIN Machine : Machine[t].to \in AllStates
BY DEF Machine, AllStates, ActiveStates, DormantStates

\* The decision of _apply_transitions is a declared move out of the state it was
\* made for; it wakes a dormant user, and it starts only an unstarted journey.
LEMMA DecisionSound ==
  ASSUME NEW s \in AllStates, NEW e \in Events, NEW sig \in SUBSET Signals
  PROVE  LET r == ApplyTransitions(s, e, sig) IN
           /\ r \in AllStates \cup {"none"}
           /\ r # "none" => <<s, r>> \in Edges
           /\ r \notin DormantStates \cup {"new_unstarted"}
           /\ r = "onboarding" => s = "new_unstarted"
           /\ s \in DormantStates => r = "progressing_active"
<1> DEFINE r == ApplyTransitions(s, e, sig)
<1>1. r = "none" \/ \E t \in DOMAIN Machine \ {"go_dormant_short", "go_dormant_long", "churn"} : r = Send(t, s)
  BY Triggers DEF ApplyTransitions
<1>2. r \in AllStates \cup {"none"}
  BY <1>1, Triggers DEF Send
<1>3. r # "none" => <<s, r>> \in Edges
  BY <1>1, SendIsEdge
<1>4. r \notin DormantStates \cup {"new_unstarted"}
  BY <1>1 DEF Send, Machine, DormantStates
<1>5. r = "onboarding" => s = "new_unstarted"
  BY <1>1 DEF Send, Machine
<1>6. s \in DormantStates => r = "progressing_active"
  <2> SUFFICES ASSUME s \in DormantStates PROVE r = "progressing_active"
    OBVIOUS
  <2>1. r = Send("reactivate", s)
    BY DEF ApplyTransitions, DormantStates
  <2>2. QED
    BY <2>1 DEF Send, Machine
<1>7. QED
  BY <1>2, <1>3, <1>4, <1>5, <1>6

\* The same facts for what BeginEvent may record.
LEMMA OutcomeSound ==
  ASSUME NEW s \in AllStates, NEW o \in Outcomes[s]
  PROVE  /\ o \in AllStates \cup {"none"}
         /\ o # "none" => <<s, o>> \in Edges
         /\ o \notin DormantStates \cup {"new_unstarted"}
         /\ o = "onboarding" => s = "new_unstarted"
         /\ s \in DormantStates => o = "progressing_active"
<1>1. PICK e \in Events, sig \in SUBSET Signals :
        o = ApplyTransitions(s, e, sig)
  BY DEF Outcomes
<1>2. QED
  BY <1>1, DecisionSound

\* The moves the two scans plan are permitted ones.
LEMMA ScanMoves ==
  /\ \A s \in ActiveStates : <<s, "dormant_short">> \in Edges
  /\ <<"dormant_short", "dormant_long">> \in Edges
  /\ <<"dormant_long", "churned">> \in Edges
  /\ \A s \in ActiveStates \ {"chapter_transition"} :
       <<s, "chapter_transition">> \in Edges \cup {<<"onboarding", "chapter_transition">>}
<1>1. \A t \in DOMAIN Machine : \A s \in Machine[t].from : <<s, Machine[t].to>> \in Edges
  BY DEF Edges
<1>2. /\ Machine["go_dormant_short"] = [from |-> ActiveStates, to |-> "dormant_short"]
      /\ Machine["go_dormant_long"] = [from |-> {"dormant_short"}, to |-> "dormant_long"]
      /\ Machine["churn"] = [from |-> {"dormant_long"}, to |-> "churned"]
      /\ Machine["enter_chapter_transition"] =
           [from |-> {"progressing_active", "progressing_slow", "struggling", "bored_skimming"},
            to |-> "chapter_transition"]
  BY DEF Machine
<1>3. \A s \in ActiveStates : <<s, "dormant_short">> \in Edges
  BY <1>1, <1>2, Triggers
<1>4. <<"dormant_short", "dormant_long">> \in Edges
  BY <1>1, <1>2, Triggers
<1>5. <<"dormant_long", "churned">> \in Edges
  BY <1>1, <1>2, Triggers
<1>6. \A s \in ActiveStates \ {"chapter_transition"} :
        <<s, "chapter_transition">> \in Edges \cup {<<"onboarding", "chapter_transition">>}
  BY <1>1, <1>2, Triggers DEF ActiveStates
<1>7. QED
  BY <1>3, <1>4, <1>5, <1>6

-----------------------------------------------------------------------------
(* Type correctness. *)

LEMMA OutdateType ==
  ASSUME NEW sc \in Scans \cup {NoScan}, NEW W \in SUBSET Users
  PROVE  Outdate(sc, W) \in Scans \cup {NoScan}
BY DEF Outdate, Scans, NoScan

\* Re-seeding takes the rows of demo users out of an open scan.
LEMMA RowsLostEffect ==
  ASSUME NEW sc \in Scans \cup {NoScan}
  PROVE  /\ RowsLost(sc) \in Scans \cup {NoScan}
         /\ sc = NoScan => RowsLost(sc) = NoScan
         /\ sc # NoScan =>
              /\ RowsLost(sc).stale = sc.stale \ Demo
              /\ \A u \in Users :
                   RowsLost(sc).plan[u] = IF u \in Demo THEN "keep" ELSE sc.plan[u]
<1>1. CASE sc = NoScan
  BY <1>1 DEF RowsLost
<1>2. CASE sc # NoScan
  <2> DEFINE p == [u \in Users |-> IF u \in Demo THEN "keep" ELSE sc.plan[u]]
  <2>1. sc \in Scans
    BY <1>2
  <2>2. p \in [Users -> Targets]
    BY <2>1 DEF Scans, Targets
  <2>3. RowsLost(sc) = [sc EXCEPT !.plan = p, !.stale = sc.stale \ Demo]
    BY <1>2 DEF RowsLost
  <2>4. RowsLost(sc).plan = p /\ RowsLost(sc).stale = sc.stale \ Demo
    BY <2>1, <2>3 DEF Scans
  <2>5. RowsLost(sc) \in Scans
    BY <2>1, <2>2, <2>3 DEF Scans
  <2>6. QED
    BY <1>2, <2>4, <2>5
<1>3. QED
  BY <1>1, <1>2

LEMMA PlanTypes ==
  /\ [u \in Users |-> DormancyTarget(u)] \in [Users -> Targets]
  /\ [u \in Users |-> ChapterTarget(u)] \in [Users -> Targets]
BY DEF DormancyTarget, ChapterTarget, Targets

\* The state engine never leaves the values its columns may hold.
THEOREM TypeCorrect == Spec => []TypeOK
<1>1. Init => TypeOK
  BY DEF Init, TypeOK, SeedIdle, ChapterMarks
<1>2. TypeOK /\ [Next]_vars => TypeOK'
  <2> SUFFICES ASSUME TypeOK, [Next]_vars PROVE TypeOK'
    OBVIOUS
  <2> USE DEF TypeOK
  <2>1. ASSUME NEW u \in Users, BeginEvent(u) PROVE TypeOK'
    <3> DEFINE s == IF state[u] = "absent" THEN "new_unstarted" ELSE state[u]
    <3>1. s \in AllStates
      BY DEF AllStates
    <3>2. PICK o \in Outcomes[s] :
            txn' = [open |-> TRUE, user |-> u, next |-> o,
                    stale |-> FALSE]
      BY <2>1 DEF BeginEvent
    <3>3. txn' \in Txns
      BY <3>1, <3>2, OutcomeSound DEF Txns
    <3>4. QED
      BY <2>1, <3>3 DEF BeginEvent
  <2>2. CASE CommitEvent
    <3>1. txn \in Txns
      BY <2>2 DEF CommitEvent, Txns, NoTxn
    <3>2. txn.user \in Users /\ StateAfterEvent(txn.user) \in AllStates \cup {"absent"}
      BY <3>1 DEF Txns, StateAfterEvent, AllStates
    <3>3. state' \in [Users -> AllStates \cup {"absent"}] /\ idle' \in [Users -> 0 .. Churned]
      BY <2>2, <3>2 DEF CommitEvent
    <3>4. scan' \in [Workers -> Scans \cup {NoScan}]
      BY <2>2, <3>2, OutdateType DEF CommitEvent
    <3>5. UNCHANGED <<chapter, seeds>> /\ raced' \subseteq Users /\ txn' = NoTxn
      BY <2>2, <3>2 DEF CommitEvent
    <3>6. QED
      BY <3>3, <3>4, <3>5
  <2>3. CASE AbortEvent
    BY <2>3 DEF AbortEvent
  <2>4. ASSUME NEW w \in Workers, BeginDormancyScan(w) PROVE TypeOK'
    BY <2>4, PlanTypes DEF BeginDormancyScan, BeginScan, Scans
  <2>5. ASSUME NEW w \in Workers, BeginChapterScan(w) PROVE TypeOK'
    BY <2>5, PlanTypes DEF BeginChapterScan, BeginScan, Scans
  <2>6. ASSUME NEW w \in Workers, CommitScan(w) PROVE TypeOK'
    <3>1. scan[w] \in Scans
      BY <2>6 DEF CommitScan, Scans, NoScan
    <3>2. Written(w) \subseteq Users
      BY DEF Written
    <3>3. state' \in [Users -> AllStates \cup {"absent"}]
      BY <2>6, <3>1 DEF CommitScan, Scans, Targets, Written, AllStates, ActiveStates, DormantStates
    <3>4. scan' \in [Workers -> Scans \cup {NoScan}]
      BY <2>6, <3>2, OutdateType DEF CommitScan
    <3>5. txn' \in Txns \cup {NoTxn}
      BY <2>6 DEF CommitScan, Txns, NoTxn
    <3>6. raced' \subseteq Users
      BY <2>6, <3>1 DEF CommitScan, Scans
    <3>7. QED
      BY <2>6, <3>3, <3>4, <3>5, <3>6 DEF CommitScan
  <2>7. ASSUME NEW w \in Workers, AbortScan(w) PROVE TypeOK'
    BY <2>7 DEF AbortScan
  <2>8. CASE Reseed
    <3>1. PICK s \in [Demo -> AllStates] :
            /\ state' = [u \in Users |-> IF u \in Demo THEN s[u] ELSE state[u]]
            /\ idle' = [u \in Users |-> IF u \in Demo THEN SeedIdle(s[u]) ELSE idle[u]]
      BY <2>8 DEF Reseed
    <3>2. \A u \in Demo : SeedIdle(s[u]) \in 0 .. Churned
      BY DEF SeedIdle
    <3>3. state' \in [Users -> AllStates \cup {"absent"}] /\ idle' \in [Users -> 0 .. Churned]
      BY <3>1, <3>2
    <3>4. scan' \in [Workers -> Scans \cup {NoScan}]
      BY <2>8, RowsLostEffect DEF Reseed
    <3>5. chapter' \in [Users -> ChapterMarks] /\ txn' \in Txns \cup {NoTxn}
      BY <2>8 DEF Reseed, ChapterMarks
    <3>6. raced' \subseteq Users /\ seeds' \in 0 .. MaxSeeds
      BY <2>8 DEF Reseed
    <3>7. QED
      BY <3>3, <3>4, <3>5, <3>6
  <2>9. ASSUME NEW u \in Users, DayPasses(u) PROVE TypeOK'
    BY <2>9 DEF DayPasses
  <2>10. ASSUME NEW u \in Users, MarkChapterCompleted(u) PROVE TypeOK'
    BY <2>10 DEF MarkChapterCompleted, ChapterMarks
  <2>11. ASSUME NEW u \in Users, MarkAges(u) PROVE TypeOK'
    BY <2>11 DEF MarkAges, ChapterMarks
  <2>12. CASE UNCHANGED vars
    BY <2>12 DEF vars
  <2>13. QED
    BY <2>1, <2>2, <2>3, <2>4, <2>5, <2>6, <2>7, <2>8, <2>9, <2>10, <2>11, <2>12 DEF Next
<1>3. QED
  BY <1>1, <1>2, PTL DEF Spec

-----------------------------------------------------------------------------
(* The inductive invariant. *)

IInv == TypeOK /\ OpenWorkIsCurrentOrStale

LEMMA InitIInv == Init => OpenWorkIsCurrentOrStale
BY DEF Init, OpenWorkIsCurrentOrStale, DormancyMatchesInactivity, TxnInv, ScanInv,
       StaleIsPlanned, SeedIdle, NoTxn, NoScan

\* What overtaking does to an open scan: same plan, the written rows it meant to
\* write are stale now, the others as before.
LEMMA OutdateEffect ==
  ASSUME NEW sc \in Scans \cup {NoScan}, NEW W \in SUBSET Users
  PROVE  /\ sc = NoScan => Outdate(sc, W) = NoScan
         /\ sc # NoScan =>
              /\ Outdate(sc, W) # NoScan
              /\ Outdate(sc, W).plan = sc.plan
              /\ Outdate(sc, W).stale = sc.stale \cup {v \in W : sc.plan[v] # "keep"}
BY DEF Outdate, Scans, NoScan

LEMMA BeginEventPreserves ==
  ASSUME IInv, NEW u \in Users, BeginEvent(u)
  PROVE  OpenWorkIsCurrentOrStale'
<1> USE DEF IInv, TypeOK, OpenWorkIsCurrentOrStale
<1> DEFINE s == IF state[u] = "absent" THEN "new_unstarted" ELSE state[u]
<1>1. s \in AllStates
  BY DEF AllStates
<1>2. PICK o \in Outcomes[s] :
        txn' = [open |-> TRUE, user |-> u, next |-> o, stale |-> FALSE]
  BY DEF BeginEvent
<1>3. TxnInv'
  BY <1>1, <1>2, OutcomeSound DEF TxnInv, BeginEvent, DormantStates
<1>4. QED
  BY <1>3 DEF BeginEvent, DormancyMatchesInactivity, ScanInv, PlanFits, StaleIsPlanned

LEMMA CommitEventPreserves ==
  ASSUME IInv, CommitEvent
  PROVE  OpenWorkIsCurrentOrStale'
<1> USE DEF IInv, TypeOK, OpenWorkIsCurrentOrStale
<1> DEFINE u == txn.user
<1>1. txn # NoTxn /\ txn \in Txns /\ u \in Users
  BY DEF CommitEvent, Txns, NoTxn
<1>2. /\ state'[u] = StateAfterEvent(u)
      /\ \A v \in Users \ {u} : state'[v] = state[v] /\ idle'[v] = idle[v]
  BY <1>1 DEF CommitEvent
<1>3. /\ txn.next # "none" => state'[u] = txn.next
      /\ txn.next = "none" /\ state[u] # "absent" => state'[u] = state[u]
      /\ txn.next = "none" /\ state[u] = "absent" => state'[u] = "new_unstarted"
  BY <1>2 DEF StateAfterEvent
<1>4. DormancyMatchesInactivity'
  <2>1. raced \subseteq raced' /\ (txn.stale => u \in raced')
    BY <1>1 DEF CommitEvent
  <2>2. ~txn.stale => state'[u] \notin DormantStates
    BY <1>1, <1>3 DEF TxnInv, DormantStates
  <2>3. QED
    BY <1>1, <1>2, <2>1, <2>2 DEF DormancyMatchesInactivity, DormantStates
<1>5. TxnInv'
  BY DEF CommitEvent, TxnInv
<1>6. ASSUME NEW w \in Workers, scan'[w] # NoScan
      PROVE  /\ scan[w] # NoScan
             /\ scan'[w].plan = scan[w].plan
             /\ scan'[w].stale = scan[w].stale \cup {v \in {u} : scan[w].plan[v] # "keep"}
  BY <1>1, <1>6, OutdateEffect DEF CommitEvent
<1>7. ScanInv'
  <2> SUFFICES ASSUME NEW w \in Workers, scan'[w] # NoScan,
                      NEW v \in Users, scan'[w].plan[v] # "keep"
               PROVE  PlanFits(w, v)'
    BY DEF ScanInv
  <2>1. PlanFits(w, v)
    BY <1>6 DEF ScanInv
  <2>2. CASE v = u
    <3>1. v \in scan'[w].stale
      BY <1>6, <2>2
    <3>2. state'[v] \notin {"absent", "new_unstarted"}
      BY <1>1, <1>3, <2>1, <2>2 DEF PlanFits, TxnInv, Txns, AllStates, ActiveStates, DormantStates
    <3>3. QED
      BY <3>1, <3>2 DEF PlanFits
  <2>3. CASE v # u
    BY <1>2, <1>6, <2>1, <2>3 DEF PlanFits
  <2>4. QED
    BY <2>2, <2>3
<1>8. StaleIsPlanned'
  BY <1>1, <1>6 DEF StaleIsPlanned
<1>9. QED
  BY <1>4, <1>5, <1>7, <1>8

LEMMA BeginScanPreserves ==
  ASSUME IInv, NEW w \in Workers, BeginDormancyScan(w) \/ BeginChapterScan(w)
  PROVE  OpenWorkIsCurrentOrStale'
<1> USE DEF IInv, TypeOK, OpenWorkIsCurrentOrStale
<1>1. /\ UNCHANGED <<state, idle, txn, raced>>
      /\ \A v \in Workers \ {w} : scan'[v] = scan[v]
      /\ scan'[w].stale = {}
  BY DEF BeginDormancyScan, BeginChapterScan, BeginScan
<1>2. ASSUME NEW u \in Users, scan'[w].plan[u] # "keep"
      PROVE  PlanFits(w, u)'
  <2>1. CASE BeginDormancyScan(w)
    <3>1. scan'[w].plan[u] = DormancyTarget(u)
      BY <2>1 DEF BeginDormancyScan, BeginScan
    <3>2. CASE state[u] \in ActiveStates /\ idle[u] >= Short
      BY <1>1, <1>2, <3>1, <3>2, ScanMoves DEF DormancyTarget, PlanFits, ActiveStates
    <3>3. CASE state[u] = "dormant_short" /\ idle[u] >= Long
      BY <1>1, <1>2, <3>1, <3>3, ScanMoves DEF DormancyTarget, PlanFits, ActiveStates
    <3>4. CASE state[u] = "dormant_long" /\ idle[u] >= Churned
      BY <1>1, <1>2, <3>1, <3>4, ScanMoves DEF DormancyTarget, PlanFits, ActiveStates
    <3>5. QED
      BY <1>2, <3>1, <3>2, <3>3, <3>4 DEF DormancyTarget
  <2>2. CASE BeginChapterScan(w)
    <3>1. /\ scan'[w].plan[u] = "chapter_transition"
          /\ state[u] \in ActiveStates \ {"chapter_transition"}
      BY <1>2, <2>2 DEF BeginChapterScan, BeginScan, ChapterTarget
    <3>2. QED
      BY <1>1, <3>1, ScanMoves DEF PlanFits, ActiveStates
  <2>3. QED
    BY <2>1, <2>2
<1>3. ScanInv'
  <2> SUFFICES ASSUME NEW v \in Workers, scan'[v] # NoScan,
                      NEW u \in Users, scan'[v].plan[u] # "keep"
               PROVE  PlanFits(v, u)'
    BY DEF ScanInv
  <2>1. CASE v = w
    BY <1>2, <2>1
  <2>2. CASE v # w
    BY <1>1, <2>2 DEF ScanInv, PlanFits
  <2>3. QED
    BY <2>1, <2>2
<1>4. QED
  BY <1>1, <1>3 DEF DormancyMatchesInactivity, TxnInv, StaleIsPlanned

LEMMA CommitScanPreserves ==
  ASSUME IInv, NEW w \in Workers, CommitScan(w)
  PROVE  OpenWorkIsCurrentOrStale'
<1> USE DEF IInv, TypeOK, OpenWorkIsCurrentOrStale
<1>1. scan[w] # NoScan /\ scan[w] \in Scans /\ Written(w) \in SUBSET Users
  BY DEF CommitScan, Scans, Written
<1>2. \A u \in Users :
        IF u \in Written(w) THEN state'[u] = scan[w].plan[u] ELSE state'[u] = state[u]
  BY DEF CommitScan
<1>3. \A u \in Written(w) : /\ PlanFits(w, u)
                            /\ scan[w].plan[u] \in Targets \ {"keep"}
                            /\ state'[u] \notin {"absent", "new_unstarted"}
  BY <1>1, <1>2 DEF ScanInv, Written, Scans, Targets
<1>4. DormancyMatchesInactivity'
  <2> SUFFICES ASSUME NEW u \in Users \ raced'
               PROVE  /\ state'[u] = "dormant_short" => idle[u] >= Short
                      /\ state'[u] = "dormant_long" => idle[u] >= Long
                      /\ state'[u] = "churned" => idle[u] >= Churned
    BY DEF CommitScan, DormancyMatchesInactivity
  <2>1. u \notin raced /\ u \notin scan[w].stale
    BY DEF CommitScan
  <2>2. CASE u \in Written(w)
    BY <1>2, <1>3, <2>1, <2>2 DEF PlanFits
  <2>3. CASE u \notin Written(w)
    BY <1>2, <2>1, <2>3 DEF DormancyMatchesInactivity
  <2>4. QED
    BY <2>2, <2>3
<1>5. TxnInv'
  <2> SUFFICES ASSUME txn' # NoTxn PROVE TxnInv'
    BY DEF TxnInv
  <2>1. txn # NoTxn /\ txn \in Txns
    BY DEF CommitScan
  <2>2. CASE txn.user \in Written(w)
    <3>1. txn' = [txn EXCEPT !.stale = TRUE]
      BY <2>1, <2>2 DEF CommitScan
    <3>2. txn'.stale /\ txn'.next = txn.next /\ txn'.user = txn.user
      BY <2>1, <3>1 DEF Txns
    <3>3. txn.next # "onboarding"
      BY <1>3, <2>1, <2>2 DEF TxnInv, PlanFits
    <3>4. txn.next \notin DormantStates \cup {"new_unstarted"}
      BY <2>1 DEF TxnInv
    <3>5. state'[txn.user] # "absent"
      BY <1>3, <2>2
    <3>6. QED
      BY <3>2, <3>3, <3>4, <3>5 DEF TxnInv
  <2>3. CASE txn.user \notin Written(w)
    <3>1. txn' = txn /\ txn.user \in Users
      BY <2>1, <2>3 DEF CommitScan, Txns
    <3>2. state'[txn.user] = state[txn.user]
      BY <1>2, <2>3, <3>1
    <3>3. QED
      BY <3>1, <3>2 DEF TxnInv
  <2>4. QED
    BY <2>2, <2>3
<1>6. ASSUME NEW v \in Workers, scan'[v] # NoScan
      PROVE  /\ scan[v] # NoScan
             /\ scan'[v].plan = scan[v].plan
             /\ scan'[v].stale = scan[v].stale \cup {u \in Written(w) : scan[v].plan[u] # "keep"}
  BY <1>1, <1>6, OutdateEffect DEF CommitScan
<1>7. ScanInv'
  <2> SUFFICES ASSUME NEW v \in Workers, scan'[v] # NoScan,
                      NEW u \in Users, scan'[v].plan[u] # "keep"
               PROVE  PlanFits(v, u)'
    BY DEF ScanInv
  <2>1. PlanFits(v, u)
    BY <1>6 DEF ScanInv
  <2>2. CASE u \in Written(w)
    <3>1. u \in scan'[v].stale
      BY <1>6, <2>2
    <3>2. state'[u] \notin {"absent", "new_unstarted"}
      BY <1>3, <2>2
    <3>3. QED
      BY <3>1, <3>2 DEF PlanFits
  <2>3. CASE u \notin Written(w)
    <3>1. state'[u] = state[u] /\ idle'[u] = idle[u]
      BY <1>2, <2>3 DEF CommitScan
    <3>2. scan'[v].plan[u] = scan[v].plan[u] /\ (u \in scan'[v].stale <=> u \in scan[v].stale)
      BY <1>6, <2>3
    <3>3. QED
      BY <2>1, <3>1, <3>2 DEF PlanFits
  <2>4. QED
    BY <2>2, <2>3
<1>8. StaleIsPlanned'
  BY <1>6 DEF StaleIsPlanned
<1>9. QED
  BY <1>4, <1>5, <1>7, <1>8

LEMMA DayPassesPreserves ==
  ASSUME IInv, NEW u \in Users, DayPasses(u)
  PROVE  OpenWorkIsCurrentOrStale'
<1> USE DEF IInv, TypeOK, OpenWorkIsCurrentOrStale
<1>1. \A v \in Users : idle'[v] \in Nat /\ idle[v] \in Nat /\ idle'[v] >= idle[v]
  BY DEF DayPasses
<1>2. UNCHANGED <<state, txn, scan, raced>>
  BY DEF DayPasses
<1>3. DormancyMatchesInactivity'
  BY <1>1, <1>2 DEF DormancyMatchesInactivity
<1>4. ScanInv'
  BY <1>1, <1>2 DEF ScanInv, PlanFits
<1>5. QED
  BY <1>2, <1>3, <1>4 DEF TxnInv, StaleIsPlanned

\* A new row fits its state, and no open transaction carries anything for it.
LEMMA ReseedPreserves ==
  ASSUME IInv, Reseed
  PROVE  OpenWorkIsCurrentOrStale'
<1> USE DEF IInv, TypeOK, OpenWorkIsCurrentOrStale
<1>1. PICK s \in [Demo -> AllStates] :
        /\ state' = [u \in Users |-> IF u \in Demo THEN s[u] ELSE state[u]]
        /\ idle' = [u \in Users |-> IF u \in Demo THEN SeedIdle(s[u]) ELSE idle[u]]
  BY DEF Reseed
<1>2. raced' = raced \ Demo /\ (txn' # NoTxn => txn' = txn /\ txn.user \notin Demo)
  BY DEF Reseed
<1>3. \A u \in Users \ Demo : state'[u] = state[u] /\ idle'[u] = idle[u]
  BY <1>1
<1>4. DormancyMatchesInactivity'
  <2> SUFFICES ASSUME NEW u \in Users \ raced'
               PROVE  /\ state'[u] = "dormant_short" => idle'[u] >= Short
                      /\ state'[u] = "dormant_long" => idle'[u] >= Long
                      /\ state'[u] = "churned" => idle'[u] >= Churned
    BY DEF DormancyMatchesInactivity
  <2>1. CASE u \in Demo
    <3>1. state'[u] = s[u] /\ idle'[u] = SeedIdle(s[u])
      BY <1>1, <2>1
    <3>2. QED
      BY <3>1 DEF SeedIdle
  <2>2. CASE u \notin Demo
    BY <1>2, <1>3, <2>2 DEF DormancyMatchesInactivity
  <2>3. QED
    BY <2>1, <2>2
<1>5. TxnInv'
  <2> SUFFICES ASSUME txn' # NoTxn PROVE TxnInv'
    BY DEF TxnInv
  <2>1. txn' = txn /\ txn # NoTxn /\ txn.user \in Users \ Demo
    BY <1>2 DEF Txns
  <2>2. state'[txn.user] = state[txn.user]
    BY <1>3, <2>1
  <2>3. QED
    BY <2>1, <2>2 DEF TxnInv
<1>6. ASSUME NEW w \in Workers, scan'[w] # NoScan
      PROVE  /\ scan[w] # NoScan
             /\ scan'[w].stale = scan[w].stale \ Demo
             /\ \A u \in Users :
                  scan'[w].plan[u] = IF u \in Demo THEN "keep" ELSE scan[w].plan[u]
  BY <1>6, RowsLostEffect DEF Reseed
<1>7. ScanInv'
  <2> SUFFICES ASSUME NEW w \in Workers, scan'[w] # NoScan,
                      NEW u \in Users, scan'[w].plan[u] # "keep"
               PROVE  PlanFits(w, u)'
    BY DEF ScanInv
  <2>1. u \notin Demo /\ scan'[w].plan[u] = scan[w].plan[u] /\ PlanFits(w, u)
    BY <1>6 DEF ScanInv
  <2>2. u \in scan'[w].stale <=> u \in scan[w].stale
    BY <1>6, <2>1
  <2>3. QED
    BY <1>3, <2>1, <2>2 DEF PlanFits
<1>8. StaleIsPlanned'
  <2> SUFFICES ASSUME NEW w \in Workers, scan'[w] # NoScan, NEW u \in scan'[w].stale
               PROVE  scan'[w].plan[u] # "keep"
    BY DEF StaleIsPlanned
  <2>1. scan[w] # NoScan /\ scan[w] \in Scans /\ u \in scan[w].stale \ Demo
    BY <1>6
  <2>2. u \in Users
    BY <2>1 DEF Scans
  <2>3. QED
    BY <1>6, <2>1, <2>2 DEF StaleIsPlanned
<1>9. QED
  BY <1>4, <1>5, <1>7, <1>8

LEMMA StepPreserves == TypeOK' /\ IInv /\ [Next]_vars => IInv'
<1> SUFFICES ASSUME TypeOK', IInv, [Next]_vars PROVE OpenWorkIsCurrentOrStale'
  BY DEF IInv
<1>1. ASSUME NEW u \in Users, BeginEvent(u) PROVE OpenWorkIsCurrentOrStale'
  BY <1>1, BeginEventPreserves
<1>2. CASE CommitEvent
  BY <1>2, CommitEventPreserves
<1>3. CASE AbortEvent
  BY <1>3 DEF AbortEvent, IInv, OpenWorkIsCurrentOrStale, DormancyMatchesInactivity,
              TxnInv, ScanInv, PlanFits, StaleIsPlanned
<1>4. ASSUME NEW w \in Workers, BeginDormancyScan(w) \/ BeginChapterScan(w)
      PROVE OpenWorkIsCurrentOrStale'
  BY <1>4, BeginScanPreserves
<1>5. ASSUME NEW w \in Workers, CommitScan(w) PROVE OpenWorkIsCurrentOrStale'
  BY <1>5, CommitScanPreserves
<1>6. ASSUME NEW w \in Workers, AbortScan(w) PROVE OpenWorkIsCurrentOrStale'
  BY <1>6 DEF AbortScan, IInv, OpenWorkIsCurrentOrStale, DormancyMatchesInactivity,
              TxnInv, ScanInv, PlanFits, StaleIsPlanned, TypeOK
<1>7. ASSUME NEW u \in Users, DayPasses(u) PROVE OpenWorkIsCurrentOrStale'
  BY <1>7, DayPassesPreserves
<1>8. ASSUME NEW u \in Users, MarkChapterCompleted(u) \/ MarkAges(u)
      PROVE OpenWorkIsCurrentOrStale'
  BY <1>8 DEF MarkChapterCompleted, MarkAges, IInv, OpenWorkIsCurrentOrStale,
              DormancyMatchesInactivity, TxnInv, ScanInv, PlanFits, StaleIsPlanned
<1>9. CASE Reseed
  BY <1>9, ReseedPreserves
<1>10. CASE UNCHANGED vars
  BY <1>10 DEF vars, IInv, OpenWorkIsCurrentOrStale, DormancyMatchesInactivity,
              TxnInv, ScanInv, PlanFits, StaleIsPlanned
<1>11. QED
  BY <1>1, <1>2, <1>3, <1>4, <1>5, <1>6, <1>7, <1>8, <1>9, <1>10 DEF Next

\* Every open transaction is marked stale as soon as it is overtaken, and one
\* that is not still fits the row it will be applied to.
THEOREM OpenWorkSound == Spec => []OpenWorkIsCurrentOrStale
<1>1. Init /\ TypeOK => IInv
  BY InitIInv DEF IInv
<1>2. QED
  BY <1>1, StepPreserves, TypeCorrect, PTL DEF Spec, IInv

\* Dormancy tiers are never ahead of the user's inactivity unless a write raced.
THEOREM DormancySound == Spec => []DormancyMatchesInactivity
BY OpenWorkSound, PTL DEF OpenWorkIsCurrentOrStale

-----------------------------------------------------------------------------
(* The engine implements the abstract lifecycle. *)

LEMMA SameMachine ==
  /\ Lifecycle!Edges = Edges
  /\ Lifecycle!AllStates = AllStates
BY DEF Lifecycle!Edges, Edges, Lifecycle!Machine, Machine, Lifecycle!AllStates, AllStates,
       Lifecycle!ActiveStates, ActiveStates, Lifecycle!DormantStates, DormantStates

\* A commit of the consumer is a step of the lifecycle.
LEMMA CommitEventRefines ==
  ASSUME IInv, CommitEvent
  PROVE  Lifecycle!Next
<1> USE DEF IInv, TypeOK, OpenWorkIsCurrentOrStale
<1> DEFINE u == txn.user
<1>1. txn # NoTxn /\ txn \in Txns /\ u \in Users
  BY DEF CommitEvent, Txns, NoTxn
<1>2. /\ state'[u] = StateAfterEvent(u)
      /\ \A v \in Users \ {u} : state'[v] = state[v]
      /\ raced \subseteq raced' /\ (txn.stale => u \in raced')
      /\ (~txn.stale => raced' = raced)
  BY <1>1 DEF CommitEvent
<1>3. Lifecycle!UserStep(u)
  <2>1. CASE txn.next = "none"
    BY <1>2, <2>1 DEF StateAfterEvent, Lifecycle!UserStep, Lifecycle!Created
  <2>2. CASE txn.next # "none" /\ txn.stale
    <3>1. state'[u] = txn.next /\ txn.next \in AllStates
      BY <1>1, <1>2, <2>2 DEF StateAfterEvent, Txns
    <3>2. state[u] # "absent" /\ txn.next \notin {"onboarding", "new_unstarted"}
      BY <1>1, <2>2 DEF TxnInv
    <3>3. QED
      BY <1>2, <2>2, <3>1, <3>2, SameMachine DEF Lifecycle!UserStep, Lifecycle!Created
  <2>3. CASE txn.next # "none" /\ ~txn.stale
    <3>1. state'[u] = txn.next
      BY <1>1, <1>2, <2>3 DEF StateAfterEvent
    <3>2. CASE state[u] = "absent"
      <4>1. <<"new_unstarted", txn.next>> \in Edges
        BY <1>1, <2>3, <3>2 DEF TxnInv
      <4>2. txn.next = "onboarding"
        <5>1. PICK t \in DOMAIN Machine : "new_unstarted" \in Machine[t].from /\ txn.next = Machine[t].to
          BY <4>1 DEF Edges
        <5>2. QED
          BY <5>1, Triggers DEF Machine, ActiveStates, DormantStates
      <4>3. QED
        BY <3>1, <3>2, <4>2 DEF Lifecycle!UserStep, Lifecycle!Created
    <3>3. CASE state[u] # "absent"
      <4>1. <<state[u], state'[u]>> \in Lifecycle!PermittedMoves
        BY <1>1, <2>3, <3>1, <3>3, SameMachine DEF TxnInv, Lifecycle!PermittedMoves
      <4>2. QED
        BY <3>3, <4>1 DEF Lifecycle!UserStep
    <3>4. QED
      BY <3>2, <3>3
  <2>4. QED
    BY <2>1, <2>2, <2>3
<1>4. seeds' = seeds
  BY DEF CommitEvent
<1>5. QED
  BY <1>2, <1>3, <1>4 DEF Lifecycle!Next, Lifecycle!Moved, Lifecycle!UserStep

\* So is the commit of a scan, which may move many users at once.
LEMMA CommitScanRefines ==
  ASSUME IInv, NEW w \in Workers, CommitScan(w)
  PROVE  Lifecycle!Next
<1> USE DEF IInv, TypeOK, OpenWorkIsCurrentOrStale
<1>1. scan[w] # NoScan /\ scan[w] \in Scans
  BY DEF CommitScan, Scans
<1>2. raced \subseteq raced' /\ scan[w].stale \subseteq raced'
  BY DEF CommitScan
<1>3. ASSUME NEW u \in Users PROVE Lifecycle!UserStep(u)
  <2>1. CASE u \notin Written(w)
    BY <2>1 DEF CommitScan, Lifecycle!UserStep
  <2>2. CASE u \in Written(w)
    <3>1. state'[u] = scan[w].plan[u] /\ state'[u] \in Targets \ {"keep"}
      BY <1>1, <2>2 DEF CommitScan, Written, Scans
    <3>2. PlanFits(w, u)
      BY <1>1, <2>2 DEF ScanInv, Written
    <3>3. CASE u \in raced'
      <4>1. state'[u] \in AllStates \ {"new_unstarted", "onboarding"}
        BY <3>1 DEF Targets, AllStates, ActiveStates, DormantStates
      <4>2. QED
        BY <3>2, <3>3, <4>1, SameMachine DEF PlanFits, Lifecycle!UserStep, Lifecycle!Created
    <3>4. CASE u \notin raced'
      BY <1>2, <3>1, <3>2, <3>4, SameMachine
         DEF PlanFits, Lifecycle!UserStep, Lifecycle!PermittedMoves
    <3>5. QED
      BY <3>3, <3>4
  <2>3. QED
    BY <2>1, <2>2
<1>4. seeds' = seeds
  BY DEF CommitScan
<1>5. QED
  BY <1>2, <1>3, <1>4 DEF Lifecycle!Next, Lifecycle!Moved

\* A re-seeding is the lifecycle's own.
LEMMA ReseedRefines ==
  ASSUME IInv, Reseed
  PROVE  Lifecycle!Next
<1> USE DEF IInv, TypeOK
<1>1. PICK s \in [Demo -> AllStates] :
        state' = [u \in Users |-> IF u \in Demo THEN s[u] ELSE state[u]]
  BY DEF Reseed
<1>2. \A u \in Demo : state'[u] \in AllStates
  BY <1>1
<1>3. \A u \in Users \ Demo : state'[u] = state[u]
  BY <1>1
<1>4. QED
  BY <1>2, <1>3, SameMachine DEF Reseed, Lifecycle!Next, Lifecycle!Reseeded

\* Every other step leaves the committed states alone.
LEMMA StepRefines == IInv /\ [Next]_vars => [Lifecycle!Next]_<<state, raced, seeds>>
<1> SUFFICES ASSUME IInv, [Next]_vars PROVE [Lifecycle!Next]_<<state, raced, seeds>>
  OBVIOUS
<1>1. CASE CommitEvent
  BY <1>1, CommitEventRefines
<1>2. ASSUME NEW w \in Workers, CommitScan(w) PROVE [Lifecycle!Next]_<<state, raced, seeds>>
  BY <1>2, CommitScanRefines
<1>3. CASE UNCHANGED <<state, raced, seeds>>
  BY <1>3
<1>4. CASE Reseed
  BY <1>4, ReseedRefines
<1>5. QED
  BY <1>1, <1>2, <1>3, <1>4 DEF Next, vars, BeginEvent, AbortEvent, BeginDormancyScan,
     BeginChapterScan, BeginScan, AbortScan, DayPasses, MarkChapterCompleted, MarkAges

\* Consumer and scans, interleaved in any way, implement the lifecycle.
THEOREM EngineImplementsLifecycle == Spec => ImplementsLifecycle
<1>1. Init => Lifecycle!Init
  BY SameMachine DEF Init, Lifecycle!Init
<1>2. QED
  BY <1>1, StepRefines, OpenWorkSound, TypeCorrect, PTL
     DEF Spec, ImplementsLifecycle, Lifecycle!Spec, IInv

-----------------------------------------------------------------------------
(* Overlap is the only way to a dormant user who is active. *)

\* Every commit is of work that nobody has overtaken, as with a version column that
\* makes the others fail.
CurrentCommits ==
  [][/\ CommitEvent => ~txn.stale
     /\ \A w \in Workers : CommitScan(w) => scan[w].stale = {}]_vars

LEMMA RacedStaysEmpty ==
  ASSUME raced = {}, [Next]_vars,
         CommitEvent => ~txn.stale,
         \A w \in Workers : CommitScan(w) => scan[w].stale = {}
  PROVE  raced' = {}
<1>1. CASE CommitEvent
  BY <1>1 DEF CommitEvent
<1>2. ASSUME NEW w \in Workers, CommitScan(w) PROVE raced' = {}
  BY <1>2 DEF CommitScan
<1>3. CASE Reseed
  BY <1>3 DEF Reseed
<1>4. CASE UNCHANGED raced
  BY <1>4
<1>5. QED
  BY <1>1, <1>2, <1>3, <1>4 DEF Next, vars, BeginEvent, AbortEvent, BeginDormancyScan,
     BeginChapterScan, BeginScan, AbortScan, DayPasses, MarkChapterCompleted, MarkAges

LEMMA UnracedAreInactive ==
  TypeOK /\ DormancyMatchesInactivity /\ raced = {} => DormantUsersAreInactive
<1> SUFFICES ASSUME TypeOK, DormancyMatchesInactivity, raced = {},
                    NEW u \in Users, state[u] \in DormantStates
             PROVE  idle[u] >= Short
  BY DEF DormantUsersAreInactive
<1>1. idle[u] \in Nat
  BY Thresholds DEF TypeOK
<1>2. \/ state[u] = "dormant_short" /\ idle[u] >= Short
      \/ state[u] = "dormant_long" /\ idle[u] >= Long
      \/ state[u] = "churned" /\ idle[u] >= Churned
  BY DEF DormancyMatchesInactivity, DormantStates
<1>3. QED
  BY <1>1, <1>2, Thresholds

\* If a transaction that was overtaken never commits, scan_dormancy keeps its word:
\* only users without recent activity are dormant.
THEOREM CurrentCommitsSuffice == Spec /\ CurrentCommits => []DormantUsersAreInactive
<1>1. Init => raced = {}
  BY DEF Init
<1>2. /\ raced = {}
      /\ [Next]_vars
      /\ [/\ CommitEvent => ~txn.stale
          /\ \A w \in Workers : CommitScan(w) => scan[w].stale = {}]_vars
      => (raced = {})'
  <2>1. UNCHANGED vars /\ raced = {} => raced' = {}
    BY DEF vars
  <2>2. QED
    BY <2>1, RacedStaysEmpty
<1>3. QED
  BY <1>1, <1>2, UnracedAreInactive, DormancySound, TypeCorrect, PTL
     DEF Spec, CurrentCommits

\* No transaction of the consumer or of a worker is opened before the last has ended.
OneAtATime ==
  /\ txn # NoTxn => \A w \in Workers : scan[w] = NoScan
  /\ \A v, w \in Workers : scan[v] # NoScan /\ scan[w] # NoScan => v = w

\* Nothing that is open was overtaken.
NothingStale ==
  /\ raced = {}
  /\ txn # NoTxn => ~txn.stale
  /\ \A w \in Workers : scan[w] # NoScan => scan[w].stale = {}

LEMMA NothingStaleNext ==
  TypeOK /\ OneAtATime /\ NothingStale /\ [Next]_vars => NothingStale'
<1> SUFFICES ASSUME TypeOK, OneAtATime, NothingStale, [Next]_vars PROVE NothingStale'
  OBVIOUS
<1>1. raced' = {}
  BY RacedStaysEmpty DEF NothingStale, CommitEvent, CommitScan
<1>2. CASE CommitEvent
  <2>1. \A w \in Workers : scan'[w] = NoScan
    BY <1>2 DEF CommitEvent, OneAtATime, Outdate
  <2>2. QED
    BY <1>1, <1>2, <2>1 DEF CommitEvent, NothingStale
<1>3. ASSUME NEW w \in Workers, CommitScan(w) PROVE NothingStale'
  <2>1. \A v \in Workers : scan'[v] = NoScan
    BY <1>3 DEF CommitScan, OneAtATime, Outdate
  <2>2. txn = NoTxn /\ txn' = NoTxn
    BY <1>3 DEF CommitScan, OneAtATime
  <2>3. QED
    BY <1>1, <2>1, <2>2 DEF NothingStale
<1>4. ASSUME NEW w \in Workers, BeginDormancyScan(w) \/ BeginChapterScan(w)
      PROVE  NothingStale'
  BY <1>1, <1>4 DEF BeginDormancyScan, BeginChapterScan, BeginScan, TypeOK, NothingStale
<1>5. CASE Reseed
  <2>1. txn' = txn \/ txn' = NoTxn
    BY <1>5 DEF Reseed
  <2>2. ASSUME NEW w \in Workers, scan'[w] # NoScan PROVE scan'[w].stale = {}
    <3>1. scan'[w] = RowsLost(scan[w]) /\ scan[w] \in Scans \cup {NoScan}
      BY <1>5 DEF Reseed, TypeOK
    <3>2. scan[w] # NoScan /\ scan'[w].stale = scan[w].stale \ Demo
      BY <2>2, <3>1, RowsLostEffect
    <3>3. QED
      BY <3>2 DEF NothingStale
  <2>3. QED
    BY <1>1, <2>1, <2>2 DEF NothingStale
<1>6. ASSUME NEW w \in Workers, AbortScan(w) PROVE NothingStale'
  BY <1>1, <1>6 DEF AbortScan, TypeOK, NothingStale
<1>7. ASSUME NEW u \in Users, BeginEvent(u) PROVE NothingStale'
  BY <1>1, <1>7 DEF BeginEvent, NothingStale
<1>8. CASE AbortEvent
  BY <1>1, <1>8 DEF AbortEvent, NothingStale
<1>9. CASE UNCHANGED <<txn, scan>>
  BY <1>1, <1>9 DEF NothingStale
<1>10. QED
  BY <1>2, <1>3, <1>4, <1>5, <1>6, <1>7, <1>8, <1>9
     DEF Next, vars, DayPasses, MarkChapterCompleted, MarkAges

\* If the consumer and the workers take turns, the dormancy scan keeps its word: the
\* disagreement that EngineRaceDormancy shows needs two transactions at a time.
THEOREM TurnsSuffice == Spec /\ []OneAtATime => []DormantUsersAreInactive
<1>1. Init => NothingStale
  BY DEF Init, NothingStale
<1>2. NothingStale => raced = {}
  BY DEF NothingStale
<1>3. QED
  BY <1>1, <1>2, NothingStaleNext, UnracedAreInactive, DormancySound, TypeCorrect, PTL
     DEF Spec

=============================================================================
