------------------------ MODULE SlotGenerationProofs ------------------------
(***************************************************************************)
(* Proofs about FrequencyCap and about SlotGeneration, which implements it.*)
(*                                                                         *)
(* The bound is not inductive by itself: what sessions have cleared or     *)
(* flushed and not committed must be counted with the committed rows       *)
(* (Promised).  The sum grows only when a session clears a journey; then   *)
(* its own part and the committed rows are at most the cap, and every      *)
(* other session has at most all journeys of the user.                     *)
(*                                                                         *)
(* Every step of a generation task under changing settings is a step of    *)
(* FrequencyCap, so what is proved of that holds there.  What a task       *)
(* caches, and the mode it writes, come from the values offered since it   *)
(* was opened: the table always holds one of those and a closed task keeps *)
(* nothing (Current, ClosedKeepsNothing).                                  *)
(***************************************************************************)
EXTENDS SlotGeneration, FiniteSetTheorems, TLAPS

-----------------------------------------------------------------------------
(* The frequency cap. *)

\* Rows of user u that a session of today may still commit.
InHand(s) == session[s].cleared \cup session[s].flushed

Promised(u) ==
  {p \in Sessions \X JourneysOf(u) : session[p[1]].today /\ p[2] \in InHand(p[1])}

Slack(u) == (Cardinality(Sessions) - 1) * Cardinality(JourneysOf(u))

ClosedIsEmpty ==
  \A s \in Sessions : ~session[s].open => InHand(s) = {}

PromisesBounded ==
  \A u \in Users : counted[u] + Cardinality(Promised(u)) <= MaxPerDay + Slack(u)

Inv == TypeOK /\ ClosedIsEmpty /\ PromisesBounded

-----------------------------------------------------------------------------

\* The sets counted here are finite.
LEMMA Finite ==
  /\ IsFiniteSet(Sessions)
  /\ Cardinality(Sessions) \in Nat \ {0}
  /\ \A u \in Users : IsFiniteSet(JourneysOf(u)) /\ Cardinality(JourneysOf(u)) \in Nat
  /\ \A u \in Users : Slack(u) \in Nat
<1>1. IsFiniteSet(Sessions) /\ Cardinality(Sessions) \in Nat \ {0}
  BY Bounds, FS_CardinalityType, FS_EmptySet
<1>2. ASSUME NEW u \in Users
      PROVE  IsFiniteSet(JourneysOf(u)) /\ Cardinality(JourneysOf(u)) \in Nat
  BY Bounds, FS_Subset, FS_CardinalityType DEF JourneysOf
<1>3. \A a \in Nat \ {0}, b \in Nat : (a - 1) * b \in Nat
  OBVIOUS
<1> QED BY <1>1, <1>2, <1>3 DEF Slack

LEMMA PromisedFinite ==
  ASSUME NEW u \in Users
  PROVE  IsFiniteSet(Promised(u)) /\ Cardinality(Promised(u)) \in Nat
<1>1. IsFiniteSet(Sessions \X JourneysOf(u))
  BY Finite, FS_Product
<1>2. Promised(u) \in SUBSET (Sessions \X JourneysOf(u))
  BY DEF Promised
<1> QED BY <1>1, <1>2, FS_Subset, FS_CardinalityType

LEMMA TypeInit == Init => TypeOK
BY DEF Init, TypeOK, SessionType, Closed

LEMMA VisibleIsNat ==
  ASSUME TypeOK, NEW s \in Sessions, NEW u \in Users
  PROVE  Visible(s, u) \in Nat
<1>1. session[s].flushed \cap JourneysOf(u) \in SUBSET Journeys
  BY DEF JourneysOf
<1>2. Cardinality(session[s].flushed \cap JourneysOf(u)) \in Nat
  BY <1>1, Bounds, FS_Subset, FS_CardinalityType
<1> QED BY <1>2 DEF Visible, TypeOK

LEMMA TypeNext == TypeOK /\ [Next]_vars => TypeOK'
<1> SUFFICES ASSUME TypeOK, [Next]_vars PROVE TypeOK'
  OBVIOUS
<1> USE DEF TypeOK
<1>1. Closed \in SessionType /\ \A todo \in SUBSET Journeys : Begun(todo) \in SessionType
  BY DEF Closed, Begun, SessionType
<1>2. ASSUME NEW s \in Sessions, BeginSlot(s) PROVE TypeOK'
  BY <1>1, <1>2 DEF BeginSlot
<1>3. ASSUME NEW s \in Sessions, NEW j \in Journeys, BeginEvent(s, j) PROVE TypeOK'
  BY <1>1, <1>3 DEF BeginEvent
<1>4. ASSUME NEW s \in Sessions, NEW j \in Journeys, PassOver(s, j) PROVE TypeOK'
  BY <1>4 DEF PassOver, SessionType
<1>5. ASSUME NEW s \in Sessions, NEW j \in Journeys, NEW max \in 0 .. MaxPerDay,
             Check(s, j, max)
      PROVE  TypeOK'
  <2> DEFINE L == [session[s] EXCEPT !.left = @ \ {j}]
  <2>1. L \in SessionType
    BY DEF SessionType
  <2> HIDE DEF L
  <2>2. [L EXCEPT !.cleared = IF CanSend(s, Owner[j], max) THEN {j} ELSE {}] \in SessionType
    BY <2>1 DEF SessionType
  <2> QED BY <2>2, <1>5 DEF Check, L
<1>6. ASSUME NEW s \in Sessions, Drop(s) PROVE TypeOK'
  BY <1>6 DEF Drop, SessionType
<1>7. ASSUME NEW s \in Sessions, Flush(s) PROVE TypeOK'
  <2> DEFINE F == [session[s] EXCEPT !.flushed = @ \cup session[s].cleared]
  <2>1. F \in SessionType
    BY DEF SessionType
  <2> HIDE DEF F
  <2>2. [F EXCEPT !.cleared = {}] \in SessionType
    BY <2>1 DEF SessionType
  <2> QED BY <2>2, <1>7 DEF Flush, F
<1>8. ASSUME NEW s \in Sessions, Commit(s) PROVE TypeOK'
  BY <1>1, <1>8, VisibleIsNat DEF Commit
<1>9. ASSUME NEW s \in Sessions, Abort(s) PROVE TypeOK'
  BY <1>1, <1>9 DEF Abort
<1>10. ASSUME NEW u \in Users, DeliveryFails(u) PROVE TypeOK'
  BY <1>10 DEF DeliveryFails
<1>11. CASE DayBegins
  BY <1>11 DEF DayBegins, SessionType
<1>12. CASE UNCHANGED vars
  BY <1>12 DEF vars
<1> QED BY <1>2, <1>3, <1>4, <1>5, <1>6, <1>7, <1>8, <1>9, <1>10, <1>11, <1>12 DEF Next

\* Types of the cap's counters and sessions, for all constants within Bounds.
THEOREM TypeCorrect == Spec => []TypeOK
BY TypeInit, TypeNext, PTL DEF Spec

-----------------------------------------------------------------------------

LEMMA InvInit == Init => Inv
<1> SUFFICES ASSUME Init PROVE Inv
  OBVIOUS
<1>1. ClosedIsEmpty
  BY DEF Init, ClosedIsEmpty, InHand, Closed
<1>2. ASSUME NEW u \in Users
      PROVE  counted[u] + Cardinality(Promised(u)) <= MaxPerDay + Slack(u)
  <2>1. Promised(u) = {}
    BY DEF Promised, Init, InHand, Closed
  <2>2. Cardinality(Promised(u)) = 0
    BY <2>1, FS_EmptySet
  <2> QED BY <2>2, Finite, Bounds DEF Init
<1> QED BY <1>1, <1>2, TypeInit DEF Inv, PromisesBounded

\* Steps that promise nothing new and commit nothing.
LEMMA Shrinks ==
  ASSUME Inv, TypeOK', NEW u \in Users, counted'[u] <= counted[u],
         Promised(u)' \subseteq Promised(u)
  PROVE  counted'[u] + Cardinality(Promised(u)') <= MaxPerDay + Slack(u)
<1>1. Cardinality(Promised(u)') <= Cardinality(Promised(u)) /\ Cardinality(Promised(u)') \in Nat
  BY PromisedFinite, FS_Subset, FS_CardinalityType
<1>2. counted[u] + Cardinality(Promised(u)) <= MaxPerDay + Slack(u)
  BY DEF Inv, PromisesBounded
<1> QED BY <1>1, <1>2, PromisedFinite, Finite, Bounds DEF Inv, TypeOK

\* A session that drops, or keeps, what it has in hand promises nothing new.
LEMMA SessionShrinks ==
  ASSUME Inv, TypeOK', NEW s \in Sessions, counted' = counted,
         \A q \in Sessions \ {s} : session'[q] = session[q],
         InHand(s)' \subseteq InHand(s),
         InHand(s)' # {} => session'[s].today = session[s].today,
         session'[s].open \/ InHand(s)' = {}
  PROVE  Inv'
<1>1. ClosedIsEmpty'
  BY DEF Inv, ClosedIsEmpty, InHand
<1>2. ASSUME NEW u \in Users
      PROVE  Promised(u)' \subseteq Promised(u)
  <2>1. JourneysOf(u)' = JourneysOf(u)
    BY DEF JourneysOf
  <2> QED BY <2>1 DEF Promised, InHand
<1>3. \A u \in Users : counted'[u] <= counted[u]
  BY DEF Inv, TypeOK
<1>4. PromisesBounded'
  BY <1>2, <1>3, Shrinks DEF PromisesBounded, Slack, JourneysOf
<1> QED BY <1>1, <1>4 DEF Inv

\* The step that can use up the slack.
LEMMA CheckInv ==
  ASSUME Inv, TypeOK', NEW s \in Sessions, NEW j \in Journeys,
         NEW max \in 0 .. MaxPerDay, Check(s, j, max)
  PROVE  Inv'
<1> USE DEF Inv
<1>1. /\ session[s].open /\ session[s].cleared = {}
      /\ session'[s].open /\ session'[s].today = session[s].today
      /\ session'[s].flushed = session[s].flushed
      /\ session'[s].cleared = IF CanSend(s, Owner[j], max) THEN {j} ELSE {}
      /\ \A q \in Sessions \ {s} : session'[q] = session[q]
      /\ counted' = counted
  BY DEF Check, Turn, TypeOK, SessionType
<1>2. CASE ~CanSend(s, Owner[j], max) \/ ~session[s].today
  <2>1. CASE ~CanSend(s, Owner[j], max)
    <3>1. InHand(s)' \subseteq InHand(s)
      BY <1>1, <2>1 DEF InHand
    <3> QED BY <3>1, <1>1, SessionShrinks
  <2>2. CASE ~session[s].today
    <3>1. \A u \in Users : Promised(u)' \subseteq Promised(u)
      BY <2>2, <1>1 DEF Promised, InHand, JourneysOf
    <3>2. \A u \in Users : counted'[u] <= counted[u]
      BY <1>1 DEF TypeOK
    <3>3. PromisesBounded'
      BY <3>1, <3>2, Shrinks DEF PromisesBounded, Slack, JourneysOf
    <3>4. ClosedIsEmpty'
      BY <1>1 DEF ClosedIsEmpty, InHand
    <3> QED BY <3>3, <3>4
  <2> QED BY <1>2, <2>1, <2>2
<1>3. CASE CanSend(s, Owner[j], max) /\ session[s].today
  <2>1. ASSUME NEW u \in Users, u # Owner[j]
        PROVE  counted'[u] + Cardinality(Promised(u)') <= MaxPerDay + Slack(u)
    <3>1. Promised(u)' \subseteq Promised(u)
      BY <2>1, <1>1 DEF Promised, InHand, JourneysOf
    <3> QED BY <3>1, <1>1, Shrinks DEF TypeOK
  <2>2. ASSUME NEW u \in Users, u = Owner[j]
        PROVE  counted'[u] + Cardinality(Promised(u)') <= MaxPerDay + Slack(u)
    <3> DEFINE Own == session[s].flushed \cap JourneysOf(u)
               Others == (Sessions \ {s}) \X JourneysOf(u)
               New == {s} \X (Own \cup {j})
    <3>1. IsFiniteSet(Own) /\ Cardinality(Own) \in Nat
      <4>1. Own \in SUBSET JourneysOf(u)
        OBVIOUS
      <4> QED BY <4>1, Finite, FS_Subset, FS_CardinalityType
    <3>2. counted[u] + Cardinality(Own) < max
      BY <1>3, <2>2 DEF CanSend, Visible
    <3>3. IsFiniteSet(New) /\ Cardinality(New) <= Cardinality(Own) + 1 /\ Cardinality(New) \in Nat
      <4>1. IsFiniteSet(Own \cup {j}) /\ Cardinality(Own \cup {j}) <= Cardinality(Own) + 1
        <5> HIDE DEF Own
        <5>1. IsFiniteSet(Own \cup {j})
          BY <3>1, FS_AddElement
        <5>2. Cardinality(Own \cup {j})
                = IF j \in Own THEN Cardinality(Own) ELSE Cardinality(Own) + 1
          BY <3>1, FS_AddElement
        <5> QED BY <3>1, <5>1, <5>2
      <4>2. IsFiniteSet({s}) /\ Cardinality({s}) = 1
        BY FS_Singleton
      <4>3. Cardinality(New) = 1 * Cardinality(Own \cup {j}) /\ IsFiniteSet(New)
        BY <4>1, <4>2, FS_Product
      <4> QED BY <4>1, <4>3, FS_CardinalityType
    <3>4. IsFiniteSet(Others) /\ Cardinality(Others) = Slack(u)
      <4>1. IsFiniteSet(Sessions \ {s}) /\ Cardinality(Sessions \ {s}) = Cardinality(Sessions) - 1
        BY Finite, FS_RemoveElement
      <4> QED BY <4>1, Finite, FS_Product DEF Slack
    <3>5. Promised(u)' \subseteq New \cup Others
      BY <1>1 DEF Promised, InHand, JourneysOf
    <3>6. IsFiniteSet(New \cup Others) /\ Cardinality(New \cup Others) <= Cardinality(New) + Slack(u)
      <4>1. IsFiniteSet(New \cap Others)
        BY <3>3, FS_Subset
      <4>2. Cardinality(New \cap Others) \in Nat
        BY <4>1, FS_CardinalityType
      <4>3. Slack(u) \in Nat
        BY Finite
      <4> HIDE DEF New, Others
      <4>4. /\ IsFiniteSet(New \cup Others)
            /\ Cardinality(New \cup Others)
                 = Cardinality(New) + Cardinality(Others) - Cardinality(New \cap Others)
        BY <3>3, <3>4, FS_Union
      <4> QED BY <4>2, <4>3, <4>4, <3>3, <3>4
    <3>7. Cardinality(Promised(u)') <= Cardinality(New) + Slack(u) /\ Cardinality(Promised(u)') \in Nat
      <4>1. Promised(u)' \in SUBSET (New \cup Others)
        BY <3>5
      <4>2. Cardinality(Promised(u)') <= Cardinality(New \cup Others)
        BY <4>1, <3>6, FS_Subset
      <4>3. IsFiniteSet(Promised(u)')
        BY <4>1, <3>6, FS_Subset
      <4>4. Cardinality(Promised(u)') \in Nat /\ Cardinality(New \cup Others) \in Nat
        BY <4>3, <3>6, FS_CardinalityType
      <4> HIDE DEF New, Others
      <4> QED BY <4>2, <4>4, <3>6, <3>3, Finite
    <3> HIDE DEF New, Others, Own
    <3> QED BY <3>1, <3>2, <3>3, <3>7, <1>1, Finite, Bounds DEF TypeOK
  <2>3. ClosedIsEmpty'
    BY <1>1 DEF ClosedIsEmpty, InHand
  <2> QED BY <2>1, <2>2, <2>3 DEF PromisesBounded, Slack, JourneysOf
<1> QED BY <1>2, <1>3

LEMMA CommitInv ==
  ASSUME Inv, TypeOK', NEW s \in Sessions, Commit(s)
  PROVE  Inv'
<1> USE DEF Inv
<1>1. /\ session[s].cleared = {}
      /\ session'[s] = Closed
      /\ \A q \in Sessions \ {s} : session'[q] = session[q]
  BY DEF Commit, TypeOK
<1>2. ClosedIsEmpty'
  BY <1>1 DEF ClosedIsEmpty, InHand, Closed
<1>3. ASSUME NEW u \in Users
      PROVE  counted'[u] + Cardinality(Promised(u)') <= MaxPerDay + Slack(u)
  <2> DEFINE Own == session[s].flushed \cap JourneysOf(u)
             Gone == {s} \X Own
  <2>1. counted'[u] = Visible(s, u)
    BY DEF Commit
  <2>2. CASE ~session[s].today
    <3>1. Promised(u)' \subseteq Promised(u) /\ counted'[u] <= counted[u]
      BY <2>1, <2>2, <1>1 DEF Promised, InHand, JourneysOf, Closed, Visible, TypeOK
    <3> QED BY <3>1, Shrinks
  <2>3. CASE session[s].today
    <3>1. IsFiniteSet(Own) /\ Cardinality(Own) \in Nat
      <4>1. Own \in SUBSET JourneysOf(u)
        OBVIOUS
      <4> QED BY <4>1, Finite, FS_Subset, FS_CardinalityType
    <3>2. IsFiniteSet(Gone) /\ Cardinality(Gone) = Cardinality(Own)
      <4>1. IsFiniteSet({s}) /\ Cardinality({s}) = 1
        BY FS_Singleton
      <4>2. IsFiniteSet(Gone) /\ Cardinality(Gone) = 1 * Cardinality(Own)
        BY <4>1, <3>1, FS_Product
      <4> QED BY <4>2, <3>1
    <3>3. Promised(u)' \cup Gone = Promised(u) /\ Promised(u)' \cap Gone = {}
      <4>1. Gone \subseteq Promised(u)
        BY <2>3 DEF Promised, InHand
      <4>2. Promised(u)' \subseteq Promised(u) \ Gone
        BY <1>1 DEF Promised, InHand, JourneysOf, Closed
      <4>3. Promised(u) \subseteq Promised(u)' \cup Gone
        BY <1>1 DEF Promised, InHand, JourneysOf
      <4> QED BY <4>1, <4>2, <4>3
    <3>4. IsFiniteSet(Promised(u)')
      BY <3>3, PromisedFinite, FS_Subset
    <3>5. Cardinality(Promised(u)') \in Nat
      BY <3>4, FS_CardinalityType
    <3>6. Cardinality(Promised(u)) = Cardinality(Promised(u)') + Cardinality(Own)
      <4> DEFINE Kept == Promised(u)'
      <4>1. Cardinality(Kept \cap Gone) = 0
        BY <3>3, FS_EmptySet
      <4>2. IsFiniteSet(Kept) /\ Cardinality(Kept) \in Nat /\ Kept \cup Gone = Promised(u)
        BY <3>3, <3>4, <3>5
      <4> HIDE DEF Gone, Own, Kept
      <4>3. Cardinality(Kept \cup Gone)
              = Cardinality(Kept) + Cardinality(Gone) - Cardinality(Kept \cap Gone)
        BY <4>2, <3>2, FS_Union
      <4>4. Cardinality(Promised(u)) = Cardinality(Kept \cup Gone)
        BY <4>2
      <4>5. Cardinality(Kept) \in Nat /\ Cardinality(Gone) = Cardinality(Own)
        BY <4>2, <3>2
      <4>6. Cardinality(Promised(u)) = Cardinality(Kept) + Cardinality(Own)
        BY <4>1, <4>3, <4>4, <4>5, <3>1
      <4> QED BY <4>6 DEF Kept
    <3>7. counted'[u] = counted[u] + Cardinality(Own)
      BY <2>1, <2>3 DEF Visible
    <3>8. counted[u] + Cardinality(Promised(u)) <= MaxPerDay + Slack(u)
      BY DEF PromisesBounded
    <3> HIDE DEF Gone, Own
    <3> QED BY <3>1, <3>5, <3>6, <3>7, <3>8, Finite, Bounds DEF TypeOK
  <2> QED BY <2>2, <2>3
<1> QED BY <1>2, <1>3 DEF PromisesBounded, Slack, JourneysOf

LEMMA DayBeginsInv == ASSUME Inv, TypeOK', DayBegins PROVE Inv'
<1> USE DEF Inv
<1>1. \A s \in Sessions :
        /\ session'[s].open = session[s].open
        /\ InHand(s)' = InHand(s)
        /\ session[s].open => ~session'[s].today
  BY DEF DayBegins, TypeOK, SessionType, InHand
<1>2. ClosedIsEmpty'
  BY <1>1 DEF ClosedIsEmpty
<1>3. ASSUME NEW u \in Users
      PROVE  counted'[u] + Cardinality(Promised(u)') <= MaxPerDay + Slack(u)
  <2>1. Promised(u)' = {}
    BY <1>1 DEF Promised, ClosedIsEmpty
  <2>2. Cardinality(Promised(u)') = 0 /\ counted'[u] = 0
    BY <2>1, FS_EmptySet DEF DayBegins
  <2> QED BY <2>2, Finite, Bounds
<1> QED BY <1>2, <1>3 DEF PromisesBounded, Slack, JourneysOf

LEMMA InvNext == Inv /\ [Next]_vars => Inv'
<1> SUFFICES ASSUME Inv, [Next]_vars PROVE Inv'
  OBVIOUS
<1>1. TypeOK'
  BY TypeNext DEF Inv
<1> USE <1>1
<1>2. ASSUME NEW s \in Sessions, NEW todo \in SUBSET Journeys, ~session[s].open,
             session' = [session EXCEPT ![s] = Begun(todo)], counted' = counted
      PROVE  Inv'
  <2>1. InHand(s)' = {} /\ \A q \in Sessions \ {s} : session'[q] = session[q]
    BY <1>2 DEF Inv, TypeOK, Begun, Closed, InHand
  <2> QED BY <2>1, <1>2, SessionShrinks
<1>3. ASSUME NEW s \in Sessions, BeginSlot(s) PROVE Inv'
  BY <1>2, <1>3 DEF BeginSlot
<1>4. ASSUME NEW s \in Sessions, NEW j \in Journeys, BeginEvent(s, j) PROVE Inv'
  BY <1>2, <1>4 DEF BeginEvent
<1>5. ASSUME NEW s \in Sessions, (\E j \in Journeys : PassOver(s, j)) \/ Drop(s) \/ Flush(s)
      PROVE  Inv'
  <2>1. /\ InHand(s)' \subseteq InHand(s)
        /\ session'[s].today = session[s].today
        /\ session'[s].open = session[s].open
        /\ \A q \in Sessions \ {s} : session'[q] = session[q]
        /\ counted' = counted
    BY <1>5 DEF Inv, TypeOK, SessionType, PassOver, Drop, Flush, InHand
  <2> QED BY <2>1, SessionShrinks DEF Inv, ClosedIsEmpty
<1>6. ASSUME NEW s \in Sessions, Abort(s) PROVE Inv'
  <2>1. InHand(s)' = {} /\ counted' = counted /\ \A q \in Sessions \ {s} : session'[q] = session[q]
    BY <1>6 DEF Inv, TypeOK, Abort, Closed, InHand
  <2> QED BY <2>1, SessionShrinks
<1>7. ASSUME NEW v \in Users, DeliveryFails(v) PROVE Inv'
  <2>1. session' = session /\ \A u \in Users : counted'[u] <= counted[u]
    BY <1>7 DEF DeliveryFails, Inv, TypeOK
  <2>2. \A u \in Users : Promised(u)' = Promised(u)
    BY <2>1 DEF Promised, InHand, JourneysOf
  <2>3. PromisesBounded'
    BY <2>1, <2>2, Shrinks DEF PromisesBounded, Slack, JourneysOf
  <2> QED BY <2>1, <2>3 DEF Inv, ClosedIsEmpty, InHand
<1>8. CASE UNCHANGED vars
  BY <1>8 DEF vars, Inv, ClosedIsEmpty, InHand, PromisesBounded, Promised, Slack, JourneysOf
<1> QED BY <1>3, <1>4, <1>5, <1>6, <1>7, <1>8, CheckInv, CommitInv, DayBeginsInv DEF Next

LEMMA Bounded ==
  ASSUME Inv, NEW u \in Users
  PROVE  counted[u] <= MaxPerDay + Slack(u)
BY PromisedFinite, Finite, Bounds DEF Inv, PromisesBounded, TypeOK

\* Concurrent generation tasks exceed the daily cap of a user by at most one
\* notification for each further session and each journey of the user.
THEOREM ExcessIsBounded == Spec => []ExcessBounded
<1>1. Inv => ExcessBounded
  BY Bounded DEF ExcessBounded, Slack
<1> QED BY <1>1, InvInit, InvNext, PTL DEF Spec

\* One generation task at a time keeps the daily cap.
THEOREM CapHoldsAlone ==
  ASSUME Cardinality(Sessions) = 1
  PROVE  Spec => []CapHolds
<1>1. ASSUME NEW u \in Users PROVE Slack(u) = 0
  BY Finite DEF Slack
<1>2. Inv => CapHolds
  BY <1>1, Bounded, Bounds DEF CapHolds
<1> QED BY <1>2, InvInit, InvNext, PTL DEF Spec

-----------------------------------------------------------------------------
(* The tasks. *)

Current ==
  \A s \in Sessions, k \in Settings :
    session[s].open =>
      /\ InTable(k) \in offered[s][k]
      /\ cache[s][k] \in offered[s][k] \cup {NotSet}

ClosedKeepsNothing ==
  \A s \in Sessions :
    ~session[s].open => cache[s] = NothingCached /\ mode[s] = NotSet

ReportedIsFlushed ==
  \A s \in Sessions : session[s].open => reported[s] = session[s].flushed

SlotInv ==
  Inv /\ SlotTypeOK /\ Current /\ ClosedKeepsNothing /\ ReportedIsFlushed /\ ModeOfItsTime

-----------------------------------------------------------------------------
(* Settings. *)

LEMMA DefaultsAreValues == \A k \in Settings : Default[k] \in Values[k]
<1>1. Default["enabled"] \in Values["enabled"]
  <2>1. Default["enabled"] = TRUE /\ Values["enabled"] = BOOLEAN
    BY DEF Default, Values
  <2> QED BY <2>1, Zenon
<1>2. Default["max_per_day"] \in Values["max_per_day"]
  BY Bounds DEF Default, Values
<1> QED BY <1>1, <1>2 DEF Settings

LEMMA TableExcept ==
  ASSUME NEW t, IsTable(t), NEW k \in Settings, NEW v \in Values[k] \cup {NotSet}
  PROVE  IsTable([t EXCEPT ![k] = v])
BY DEF IsTable

LEMMA NothingIsATable == IsTable(NothingCached)
BY DEF IsTable, NothingCached

LEMMA InTableIsValue ==
  ASSUME SlotTypeOK, NEW k \in Settings
  PROVE  InTable(k) \in Values[k]
BY DefaultsAreValues DEF InTable, SlotTypeOK, IsTable

LEMMA GetIsOffered ==
  ASSUME SlotInv, NEW s \in Sessions, NEW k \in Settings, session[s].open
  PROVE  Get(s, k) \in offered[s][k] /\ Get(s, k) \in Values[k]
<1>1. Get(s, k) \in offered[s][k]
  BY DEF Get, SlotInv, Current
<1> QED BY <1>1 DEF SlotInv, SlotTypeOK

\* What a read caches is in the table.
LEMMA CacheRead ==
  ASSUME SlotTypeOK, NEW s \in Sessions, NEW k \in Settings,
         cache' = CacheAfter(s, k)
  PROVE  /\ cache' = [q \in Sessions |-> cache'[q]]
         /\ \A q \in Sessions : IsTable(cache'[q])
         /\ \A q \in Sessions \ {s} : cache'[q] = cache[q]
         /\ \A i \in Settings : cache'[s][i] \in {cache[s][i], config[i]}
<1> DEFINE v == IF cache[s][k] # NotSet THEN cache[s][k] ELSE config[k]
<1>1. IsTable(cache[s]) /\ IsTable(config) /\ cache = [q \in Sessions |-> cache[q]]
  BY DEF SlotTypeOK
<1>2. v \in Values[k] \cup {NotSet} /\ v \in {cache[s][k], config[k]}
  BY <1>1 DEF IsTable
<1>3. cache' = [cache EXCEPT ![s] = [cache[s] EXCEPT ![k] = v]]
  BY <1>1 DEF CacheAfter, IsTable
<1> HIDE DEF v
<1>4. IsTable([cache[s] EXCEPT ![k] = v])
  BY <1>1, <1>2, TableExcept
<1>5. cache'[s] = [cache[s] EXCEPT ![k] = v]
  BY <1>1, <1>3
<1>6. \A q \in Sessions \ {s} : cache'[q] = cache[q]
  BY <1>1, <1>3
<1>7. cache' = [q \in Sessions |-> cache'[q]]
  BY <1>1, <1>3
<1>8. \A i \in Settings : cache'[s][i] = IF i = k THEN v ELSE cache[s][i]
  BY <1>1, <1>5 DEF IsTable
<1>9. \A q \in Sessions : IsTable(cache'[q])
  BY <1>4, <1>5, <1>6 DEF SlotTypeOK
<1> QED BY <1>2, <1>6, <1>7, <1>8, <1>9

-----------------------------------------------------------------------------
(* The steps of FrequencyCap behind those of SlotGeneration. *)

\* Every generation task under changing settings behaves as FrequencyCap says.
LEMMA CapStep == SlotInv /\ [SlotNext]_slotVars => [Next]_vars
<1> SUFFICES ASSUME SlotInv, [SlotNext]_slotVars PROVE [Next]_vars
  OBVIOUS
<1>1. ASSUME NEW s \in Sessions, NEW j \in Journeys, CheckCap(s, j) PROVE Next
  <2>1. Get(s, "max_per_day") \in 0 .. MaxPerDay
    <3>1. "max_per_day" \in Settings /\ Values["max_per_day"] = 0 .. MaxPerDay
      BY DEF Settings, Values
    <3>2. session[s].open
      BY <1>1 DEF CheckCap, Check, Turn
    <3> QED BY <3>1, <3>2, GetIsOffered
  <2> QED BY <1>1, <2>1 DEF CheckCap, Next
<1>2. ASSUME NEW s \in Sessions, StatementFails(s) PROVE Next
  BY <1>2 DEF StatementFails, Next
<1>3. ASSUME NEW s \in Sessions,
             OpenSlot(s) \/ GenerateNothing(s) \/ Store(s) \/ Complete(s) \/ LoseAll(s)
      PROVE  Next
  BY <1>3 DEF OpenSlot, GenerateNothing, Store, Complete, LoseAll, Next
<1>4. ASSUME NEW s \in Sessions, NEW j \in Journeys, OpenEvent(s, j) \/ Suppress(s, j)
      PROVE  Next
  BY <1>4 DEF OpenEvent, Suppress, Next
<1>5. ASSUME NEW u \in Users, DeliveryFailsToday(u) PROVE Next
  BY <1>5 DEF DeliveryFailsToday, Next
<1>6. CASE NewDay
  BY <1>6 DEF NewDay, Next
<1>7. CASE SeedDefaults \/ \E k \in Settings : \E value \in Values[k] : UpdateConfig(k, value)
  BY <1>7 DEF SeedDefaults, UpdateConfig
<1>8. CASE UNCHANGED slotVars
  BY <1>8 DEF slotVars
<1> QED BY <1>1, <1>2, <1>3, <1>4, <1>5, <1>6, <1>7, <1>8 DEF SlotNext

\* A step within a task opens and closes none.
GoesOn(s) == session'[s].open = session[s].open

LEMMA WithinTask ==
  ASSUME Inv, NEW s \in Sessions,
         \/ Drop(s) \/ Flush(s)
         \/ \E j \in Journeys : PassOver(s, j) \/ \E max \in Nat : Check(s, j, max)
  PROVE  /\ session[s].open
         /\ \A q \in Sessions : GoesOn(q)
         /\ \A q \in Sessions \ {s} : session'[q] = session[q]
         /\ session'[s].flushed
              = session[s].flushed \cup IF Flush(s) THEN session[s].cleared ELSE {}
<1> USE DEF GoesOn
<1>1. session \in [Sessions -> SessionType]
  BY DEF Inv, TypeOK
<1>2. session[s] \in SessionType
  BY <1>1
<1>3. session[s].cleared # {} => session[s].open
  BY DEF Inv, ClosedIsEmpty, InHand
<1>4. CASE Flush(s)
  BY <1>1, <1>2, <1>3, <1>4 DEF Flush, SessionType
<1>5. CASE Drop(s) /\ ~Flush(s)
  BY <1>1, <1>2, <1>3, <1>5 DEF Drop, SessionType
<1>6. ASSUME NEW j \in Journeys, PassOver(s, j), ~Flush(s)
      PROVE  /\ session[s].open
             /\ session' = [session EXCEPT ![s].left = @ \ {j}]
  BY <1>6 DEF PassOver, Turn
<1>7. CASE (\E j \in Journeys : PassOver(s, j)) /\ ~Flush(s)
  <2>1. PICK j \in Journeys : PassOver(s, j)
    BY <1>7
  <2>2. session' = [session EXCEPT ![s].left = @ \ {j}] /\ session[s].open
    BY <1>6, <1>7, <2>1
  <2> QED BY <1>1, <1>2, <1>7, <2>2 DEF SessionType
<1>8. CASE (\E j \in Journeys, max \in Nat : Check(s, j, max)) /\ ~Flush(s)
  <2>1. PICK j \in Journeys, max \in Nat : Check(s, j, max)
    BY <1>8
  <2>2. PICK c : session' = [session EXCEPT ![s].left = @ \ {j}, ![s].cleared = c]
    BY <2>1 DEF Check
  <2>3. session[s].open
    BY <2>1 DEF Check, Turn
  <2> QED BY <1>1, <1>2, <1>8, <2>2, <2>3 DEF SessionType
<1> QED BY <1>4, <1>5, <1>7, <1>8

-----------------------------------------------------------------------------
(* The invariant. *)

LEMMA SlotInvInit == SlotInit => SlotInv
<1> SUFFICES ASSUME SlotInit PROVE SlotInv
  OBVIOUS
<1>1. Inv
  BY InvInit DEF SlotInit
<1>2. \A s \in Sessions : ~session[s].open
  BY DEF SlotInit, Init, Closed
<1>3. SlotTypeOK
  BY <1>1, NothingIsATable, ChangesBound DEF SlotInit, SlotTypeOK, Inv, Settings
<1>4. ClosedKeepsNothing
  BY DEF SlotInit, ClosedKeepsNothing
<1> QED BY <1>1, <1>2, <1>3, <1>4 DEF SlotInv, Current, ReportedIsFlushed, SlotInit, ModeOfItsTime

\* Tasks that go on under the same settings stay current if they cache what the
\* table holds.
LEMMA StaysCurrent ==
  ASSUME SlotInv, \A q \in Sessions : GoesOn(q), config' = config, offered' = offered,
         \A q \in Sessions, k \in Settings : cache'[q][k] \in {cache[q][k], config[k]}
  PROVE  Current'
<1>1. \A k \in Settings : InTable(k)' = InTable(k)
  BY DEF InTable
<1>2. \A k \in Settings : config[k] \in {InTable(k), NotSet}
  BY DEF InTable
<1> QED BY <1>1, <1>2 DEF SlotInv, Current, GoesOn

\* Steps that touch no setting and no cache.
LEMMA QuietStep ==
  ASSUME SlotInv, Inv', \A q \in Sessions : GoesOn(q),
         config' = config, cache' = cache, mode' = mode, offered' = offered,
         changes' = changes, broken' \in SUBSET Sessions,
         reported' \in [Sessions -> SUBSET Journeys], ReportedIsFlushed'
  PROVE  SlotInv'
<1>1. Current'
  BY StaysCurrent
<1>2. ClosedKeepsNothing'
  BY DEF SlotInv, ClosedKeepsNothing, GoesOn
<1>3. ModeOfItsTime'
  BY DEF SlotInv, ModeOfItsTime
<1>4. SlotTypeOK'
  BY DEF SlotInv, SlotTypeOK, Inv, IsTable
<1> QED BY <1>1, <1>2, <1>3, <1>4 DEF SlotInv

LEMMA ReadStep ==
  ASSUME SlotInv, Inv', \A q \in Sessions : GoesOn(q),
         NEW s \in Sessions, NEW k \in Settings, session[s].open,
         cache' = CacheAfter(s, k), config' = config, offered' = offered,
         changes' = changes, broken' = broken,
         mode' \in [Sessions -> {"live", "shadow", NotSet}],
         \A q \in Sessions \ {s} : mode'[q] = mode[q],
         mode'[s] = mode[s] \/ \E e \in offered[s].enabled : mode'[s] = ModeOf(e),
         reported' \in [Sessions -> SUBSET Journeys], ReportedIsFlushed'
  PROVE  SlotInv'
<1>1. /\ cache' = [q \in Sessions |-> cache'[q]]
      /\ \A q \in Sessions : IsTable(cache'[q])
      /\ \A q \in Sessions \ {s} : cache'[q] = cache[q]
      /\ \A i \in Settings : cache'[s][i] \in {cache[s][i], config[i]}
  BY CacheRead DEF SlotInv
<1>2. Current'
  BY <1>1, StaysCurrent
<1>3. ClosedKeepsNothing'
  BY <1>1 DEF SlotInv, ClosedKeepsNothing, GoesOn
<1>4. ModeOfItsTime'
  BY DEF SlotInv, ModeOfItsTime, ModeOf
<1>5. SlotTypeOK'
  BY <1>1 DEF SlotInv, SlotTypeOK, Inv, IsTable
<1> QED BY <1>2, <1>3, <1>4, <1>5 DEF SlotInv

LEMMA CheckCapInv ==
  ASSUME SlotInv, Inv', NEW s \in Sessions, NEW j \in Journeys, CheckCap(s, j)
  PROVE  SlotInv'
<1>1. session[s].open /\ "max_per_day" \in Settings
  BY DEF CheckCap, Check, Turn, Settings
<1>2. Get(s, "max_per_day") \in Nat
  <2>1. Get(s, "max_per_day") \in Values["max_per_day"]
    BY <1>1, GetIsOffered
  <2> QED BY <2>1 DEF Values
<1>3. /\ \A q \in Sessions : GoesOn(q)
      /\ \A q \in Sessions \ {s} : session'[q] = session[q]
      /\ session'[s].flushed = session[s].flushed
  <2>1. Check(s, j, Get(s, "max_per_day"))
    BY DEF CheckCap
  <2>2. session \in [Sessions -> SessionType]
    BY DEF SlotInv, Inv, TypeOK
  <2>3. session'[s].flushed = session[s].flushed
    BY <2>1, <2>2 DEF Check, SessionType
  <2> QED BY <2>1, <2>3, <1>2, WithinTask DEF SlotInv
<1>4. ReportedIsFlushed'
  BY <1>3 DEF SlotInv, ReportedIsFlushed, CheckCap, GoesOn
<1>5. /\ cache' = CacheAfter(s, "max_per_day") /\ config' = config /\ offered' = offered
      /\ changes' = changes /\ broken' = broken /\ mode' = mode /\ reported' = reported
  BY DEF CheckCap
<1>6. mode \in [Sessions -> {"live", "shadow", NotSet}] /\ reported \in [Sessions -> SUBSET Journeys]
  BY DEF SlotInv, SlotTypeOK
<1> QED BY <1>1, <1>3, <1>4, <1>5, <1>6, ReadStep

LEMMA StoreInv ==
  ASSUME SlotInv, Inv', NEW s \in Sessions, Store(s)
  PROVE  SlotInv'
<1>1. /\ session[s].open
      /\ \A q \in Sessions : GoesOn(q)
      /\ \A q \in Sessions \ {s} : session'[q] = session[q]
      /\ session'[s].flushed = session[s].flushed \cup session[s].cleared
  BY WithinTask DEF Store, SlotInv
<1>2. /\ config' = config /\ offered' = offered /\ changes' = changes /\ broken' = broken
      /\ reported' = [reported EXCEPT ![s] = @ \cup session[s].cleared]
  BY DEF Store
<1>3. /\ mode \in [Sessions -> {"live", "shadow", NotSet}]
      /\ reported \in [Sessions -> SUBSET Journeys]
      /\ session[s].cleared \in SUBSET Journeys
      /\ broken \in SUBSET Sessions
  BY DEF SlotInv, SlotTypeOK, TypeOK, SessionType
<1>4. reported' \in [Sessions -> SUBSET Journeys]
  BY <1>2, <1>3
<1>5. ReportedIsFlushed'
  BY <1>1, <1>2, <1>3 DEF SlotInv, ReportedIsFlushed, GoesOn
<1>6. CASE mode[s] = NotSet
  <2>1. /\ mode' = [mode EXCEPT ![s] = ModeOf(Get(s, "enabled"))]
        /\ cache' = CacheAfter(s, "enabled")
    BY <1>6 DEF Store
  <2>2. "enabled" \in Settings
    BY DEF Settings
  <2>3. Get(s, "enabled") \in offered[s]["enabled"]
    BY <2>2, <1>1, GetIsOffered
  <2>4. mode'[s] = ModeOf(Get(s, "enabled"))
    BY <2>1, <1>3
  <2>5. \E e \in offered[s].enabled : mode'[s] = ModeOf(e)
    BY <2>3, <2>4
  <2>6. mode' \in [Sessions -> {"live", "shadow", NotSet}]
    BY <2>1, <1>3 DEF ModeOf
  <2>7. \A q \in Sessions \ {s} : mode'[q] = mode[q]
    BY <2>1, <1>3
  <2> QED BY <1>1, <1>2, <1>4, <1>5, <2>1, <2>2, <2>5, <2>6, <2>7, ReadStep
<1>7. CASE mode[s] # NotSet
  <2>1. cache' = cache /\ mode' = mode
    BY <1>7 DEF Store
  <2> QED BY <2>1, <1>1, <1>2, <1>3, <1>4, <1>5, QuietStep
<1> QED BY <1>6, <1>7

LEMMA FailureInv ==
  ASSUME SlotInv, Inv', NEW s \in Sessions,
         StatementFails(s) \/ GenerateNothing(s) \/ \E j \in Journeys : Suppress(s, j)
  PROVE  SlotInv'
<1>1. Drop(s) \/ \E j \in Journeys : PassOver(s, j)
  BY DEF StatementFails, GenerateNothing, Suppress
<1>2. session \in [Sessions -> SessionType] /\ broken \in SUBSET Sessions
      /\ reported \in [Sessions -> SUBSET Journeys]
  BY DEF SlotInv, SlotTypeOK, TypeOK
<1>3. session'[s].flushed = session[s].flushed
  BY <1>1, <1>2 DEF Drop, PassOver, SessionType
<1>4. \A q \in Sessions : GoesOn(q)
  BY <1>1, WithinTask DEF SlotInv
<1>5. \A q \in Sessions \ {s} : session'[q] = session[q]
  BY <1>1, WithinTask DEF SlotInv
<1>6. /\ config' = config /\ cache' = cache /\ mode' = mode /\ offered' = offered
      /\ changes' = changes /\ reported' = reported /\ broken' \in SUBSET Sessions
  BY <1>2 DEF StatementFails, GenerateNothing, Suppress, work
<1>7. ReportedIsFlushed'
  BY <1>3, <1>4, <1>5, <1>6 DEF SlotInv, ReportedIsFlushed, GoesOn
<1> QED BY <1>2, <1>4, <1>6, <1>7, QuietStep

\* Midnight, and what delivery does to the count.
LEMMA CountInv ==
  ASSUME SlotInv, Inv', NewDay \/ \E u \in Users : DeliveryFailsToday(u)
  PROVE  SlotInv'
<1>1. session \in [Sessions -> SessionType] /\ broken \in SUBSET Sessions
      /\ reported \in [Sessions -> SUBSET Journeys]
  BY DEF SlotInv, SlotTypeOK, TypeOK
<1>2. \A q \in Sessions : GoesOn(q) /\ session'[q].flushed = session[q].flushed
  <2>1. CASE NewDay
    BY <2>1, <1>1 DEF NewDay, DayBegins, SessionType, GoesOn
  <2>2. CASE \E u \in Users : DeliveryFailsToday(u)
    BY <2>2 DEF DeliveryFailsToday, DeliveryFails, GoesOn
  <2> QED BY <2>1, <2>2
<1>3. /\ config' = config /\ cache' = cache /\ mode' = mode /\ offered' = offered
      /\ changes' = changes /\ reported' = reported /\ broken' = broken
  BY DEF NewDay, DeliveryFailsToday, work
<1>4. ReportedIsFlushed'
  BY <1>2, <1>3 DEF SlotInv, ReportedIsFlushed, GoesOn
<1> QED BY <1>1, <1>2, <1>3, <1>4, QuietStep

LEMMA OpenInv ==
  ASSUME SlotInv, Inv', NEW s \in Sessions,
         OpenSlot(s) \/ \E j \in Journeys : OpenEvent(s, j)
  PROVE  SlotInv'
<1>1. PICK w \in SUBSET Journeys :
        ~session[s].open /\ session' = [session EXCEPT ![s] = Begun(w)]
  BY DEF OpenSlot, OpenEvent, BeginSlot, BeginEvent
<1>2. session \in [Sessions -> SessionType]
  BY DEF SlotInv, SlotTypeOK, TypeOK
<1>3. /\ session'[s].open /\ session'[s].flushed = {}
      /\ \A q \in Sessions \ {s} : session'[q] = session[q]
  BY <1>1, <1>2 DEF Begun, Closed
<1>4. /\ config' = config /\ changes' = changes /\ broken' = broken
      /\ reported' = [reported EXCEPT ![s] = {}]
      /\ offered' = [offered EXCEPT ![s] = [k \in Settings |-> {InTable(k)}]]
  BY DEF OpenSlot, OpenEvent, Opened
<1>5. \A k \in Settings : InTable(k)' = InTable(k) /\ InTable(k) \in Values[k]
                          /\ config[k] \in {InTable(k), NotSet}
  BY <1>4, InTableIsValue DEF InTable, SlotInv
<1>6. /\ \A k \in Settings : offered'[s][k] = {InTable(k)}
      /\ \A q \in Sessions \ {s} : offered'[q] = offered[q]
      /\ offered' = [q \in Sessions |-> [k \in Settings |-> offered'[q][k]]]
  BY <1>4 DEF SlotInv, SlotTypeOK
<1>7. cache[s] = NothingCached /\ mode[s] = NotSet /\ "enabled" \in Settings
  BY <1>1 DEF SlotInv, ClosedKeepsNothing, Settings
<1>8. /\ cache' = [q \in Sessions |-> cache'[q]]
      /\ \A q \in Sessions : IsTable(cache'[q])
      /\ \A q \in Sessions \ {s} : cache'[q] = cache[q]
      /\ \A i \in Settings : cache'[s][i] \in {config[i], NotSet}
  <2>1. CASE OpenSlot(s)
    <3>1. \A i \in Settings : cache[s][i] = NotSet
      BY <1>7 DEF NothingCached
    <3>2. cache' = CacheAfter(s, "enabled")
      BY <2>1 DEF OpenSlot
    <3> QED BY <3>1, <3>2, <1>7, CacheRead DEF SlotInv
  <2>2. CASE \E j \in Journeys : OpenEvent(s, j)
    <3>1. cache' = cache
      BY <2>2 DEF OpenEvent
    <3> QED BY <3>1, <1>7 DEF SlotInv, SlotTypeOK, NothingCached
  <2> QED BY <2>1, <2>2
<1>9. /\ mode' \in [Sessions -> {"live", "shadow", NotSet}]
      /\ \A q \in Sessions \ {s} : mode'[q] = mode[q]
      /\ mode'[s] = NotSet \/ mode'[s] = ModeOf(InTable("enabled"))
  <2>1. mode \in [Sessions -> {"live", "shadow", NotSet}]
    BY DEF SlotInv, SlotTypeOK
  <2>2. CASE OpenSlot(s)
    <3>1. mode' = [mode EXCEPT ![s] = ModeOf(Get(s, "enabled"))]
      BY <2>2 DEF OpenSlot
    <3>2. Get(s, "enabled") = InTable("enabled")
      BY <1>7 DEF Get, NothingCached
    <3> QED BY <2>1, <3>1, <3>2 DEF ModeOf
  <2>3. CASE \E j \in Journeys : OpenEvent(s, j)
    BY <2>1, <2>3, <1>7 DEF OpenEvent
  <2> QED BY <2>2, <2>3
<1>10. Current'
  BY <1>3, <1>5, <1>6, <1>8 DEF SlotInv, Current
<1>11. ClosedKeepsNothing'
  BY <1>3, <1>8, <1>9 DEF SlotInv, ClosedKeepsNothing
<1>12. ReportedIsFlushed'
  BY <1>3, <1>4 DEF SlotInv, SlotTypeOK, ReportedIsFlushed
<1>13. ModeOfItsTime'
  <2>1. offered'[s].enabled = {InTable("enabled")}
    BY <1>6, <1>7
  <2> QED BY <2>1, <1>6, <1>9 DEF SlotInv, ModeOfItsTime, ModeOf
<1>14. SlotTypeOK'
  <2>1. \A q \in Sessions, k \in Settings : offered'[q][k] \subseteq Values[k]
    BY <1>5, <1>6 DEF SlotInv, SlotTypeOK
  <2>2. reported' \in [Sessions -> SUBSET Journeys]
    BY <1>4 DEF SlotInv, SlotTypeOK
  <2> QED BY <2>1, <2>2, <1>4, <1>6, <1>8, <1>9 DEF SlotInv, SlotTypeOK, Inv, IsTable
<1> QED BY <1>10, <1>11, <1>12, <1>13, <1>14 DEF SlotInv

LEMMA CloseInv ==
  ASSUME SlotInv, Inv', NEW s \in Sessions, Complete(s) \/ LoseAll(s)
  PROVE  SlotInv'
<1>1. session' = [session EXCEPT ![s] = Closed] /\ session \in [Sessions -> SessionType]
  BY DEF Complete, LoseAll, Commit, Abort, SlotInv, SlotTypeOK, TypeOK
<1>2. ~session'[s].open /\ \A q \in Sessions \ {s} : session'[q] = session[q]
  BY <1>1 DEF Closed
<1>3. /\ cache' = [cache EXCEPT ![s] = NothingCached]
      /\ mode' = [mode EXCEPT ![s] = NotSet]
      /\ broken' = broken \ {s}
      /\ reported' = [reported EXCEPT ![s] = {}]
      /\ offered' = [offered EXCEPT ![s] = [k \in Settings |-> {}]]
      /\ config' = config /\ changes' = changes
  BY DEF Complete, LoseAll, ClosedWork
<1>4. /\ cache'[s] = NothingCached /\ mode'[s] = NotSet
      /\ \A k \in Settings : offered'[s][k] = {}
      /\ \A q \in Sessions \ {s} :
           /\ cache'[q] = cache[q] /\ mode'[q] = mode[q] /\ offered'[q] = offered[q]
           /\ reported'[q] = reported[q]
  BY <1>3 DEF SlotInv, SlotTypeOK
<1>5. \A k \in Settings : InTable(k)' = InTable(k)
  BY <1>3 DEF InTable
<1>6. Current'
  BY <1>2, <1>4, <1>5 DEF SlotInv, Current
<1>7. ClosedKeepsNothing' /\ ReportedIsFlushed' /\ ModeOfItsTime'
  BY <1>2, <1>4 DEF SlotInv, ClosedKeepsNothing, ReportedIsFlushed, ModeOfItsTime
<1>8. SlotTypeOK'
  <2>1. \A q \in Sessions : IsTable(cache'[q])
    BY <1>4, NothingIsATable DEF SlotInv, SlotTypeOK
  <2>2. cache' = [q \in Sessions |-> cache'[q]]
    BY <1>3 DEF SlotInv, SlotTypeOK
  <2>3. offered' = [q \in Sessions |-> [k \in Settings |-> offered'[q][k]]]
    BY <1>3 DEF SlotInv, SlotTypeOK
  <2>4. \A q \in Sessions, k \in Settings : offered'[q][k] \subseteq Values[k]
    BY <1>4 DEF SlotInv, SlotTypeOK
  <2>5. /\ mode' \in [Sessions -> {"live", "shadow", NotSet}]
        /\ broken' \in SUBSET Sessions /\ reported' \in [Sessions -> SUBSET Journeys]
    BY <1>3 DEF SlotInv, SlotTypeOK
  <2> QED BY <2>1, <2>2, <2>3, <2>4, <2>5, <1>3 DEF SlotInv, SlotTypeOK, Inv, IsTable
<1> QED BY <1>6, <1>7, <1>8 DEF SlotInv

LEMMA SeedInv ==
  ASSUME SlotInv, Inv', SeedDefaults
  PROVE  SlotInv'
<1>1. /\ session' = session /\ cache' = cache /\ mode' = mode /\ broken' = broken
      /\ reported' = reported /\ offered' = offered /\ changes' = changes
      /\ config' = [k \in Settings |-> InTable(k)]
  BY DEF SeedDefaults, vars, work
<1>2. \A k \in Settings : InTable(k)' = InTable(k) /\ InTable(k) \in Values[k]
  BY <1>1, InTableIsValue, NotSetIsNoValue DEF InTable, SlotInv
<1>3. IsTable(config')
  BY <1>1, <1>2 DEF IsTable
<1>4. Current' /\ ClosedKeepsNothing' /\ ReportedIsFlushed' /\ ModeOfItsTime'
  BY <1>1, <1>2 DEF SlotInv, Current, ClosedKeepsNothing, ReportedIsFlushed, ModeOfItsTime
<1>5. SlotTypeOK'
  BY <1>1, <1>3 DEF SlotInv, SlotTypeOK, Inv
<1> QED BY <1>4, <1>5 DEF SlotInv

LEMMA UpdateInv ==
  ASSUME SlotInv, Inv', NEW k \in Settings, NEW value \in Values[k], UpdateConfig(k, value)
  PROVE  SlotInv'
<1> DEFINE New(s) == IF session[s].open THEN [offered[s] EXCEPT ![k] = @ \cup {value}]
                                       ELSE offered[s]
<1>1. /\ session' = session /\ cache' = cache /\ mode' = mode /\ broken' = broken
      /\ reported' = reported /\ changes' = changes + 1 /\ changes < MaxChanges
      /\ config' = [config EXCEPT ![k] = value]
      /\ offered' = [s \in Sessions |-> New(s)]
  BY DEF UpdateConfig, vars
<1>2. IsTable(config') /\ \A i \in Settings : config'[i] = IF i = k THEN value ELSE config[i]
  BY <1>1, TableExcept DEF SlotInv, SlotTypeOK, IsTable
<1>3. \A i \in Settings : InTable(i)' = IF i = k THEN value ELSE InTable(i)
  BY <1>2, NotSetIsNoValue DEF InTable
<1>4. \A s \in Sessions, i \in Settings :
        offered'[s][i] = IF session[s].open /\ i = k THEN offered[s][i] \cup {value}
                                                     ELSE offered[s][i]
  <2>1. \A s \in Sessions : offered[s] = [i \in Settings |-> offered[s][i]]
    BY DEF SlotInv, SlotTypeOK
  <2> QED BY <1>1, <2>1
<1>5. offered' = [s \in Sessions |-> [i \in Settings |-> offered'[s][i]]]
  <2>1. \A s \in Sessions : offered[s] = [i \in Settings |-> offered[s][i]]
    BY DEF SlotInv, SlotTypeOK
  <2>2. \A s \in Sessions : New(s) = [i \in Settings |-> New(s)[i]]
    BY <2>1
  <2> HIDE DEF New
  <2> QED BY <1>1, <2>2
<1> HIDE DEF New
<1>6. Current'
  BY <1>1, <1>3, <1>4 DEF SlotInv, Current
<1>7. ClosedKeepsNothing' /\ ReportedIsFlushed'
  BY <1>1 DEF SlotInv, ClosedKeepsNothing, ReportedIsFlushed
<1>8. ModeOfItsTime'
  <2>1. "enabled" \in Settings
    BY DEF Settings
  <2>2. \A s \in Sessions : offered[s]["enabled"] \subseteq offered'[s]["enabled"]
    BY <1>4, <2>1
  <2> QED BY <1>1, <2>2 DEF SlotInv, ModeOfItsTime, ModeOf
<1>9. SlotTypeOK'
  <2>1. \A s \in Sessions, i \in Settings : offered'[s][i] \subseteq Values[i]
    <3>1. \A s \in Sessions, i \in Settings : offered[s][i] \subseteq Values[i]
      BY DEF SlotInv, SlotTypeOK
    <3>2. \A s \in Sessions, i \in Settings :
            offered'[s][i] = offered[s][i] \/ (i = k /\ offered'[s][i] = offered[s][i] \cup {value})
      BY <1>4
    <3>3. ASSUME NEW s \in Sessions, NEW i \in Settings PROVE offered'[s][i] \subseteq Values[i]
      <4>1. CASE offered'[s][i] = offered[s][i]
        BY <3>1, <4>1
      <4>2. CASE i = k /\ offered'[s][i] = offered[s][i] \cup {value}
        BY <3>1, <4>2
      <4> QED BY <3>2, <4>1, <4>2
    <3> QED BY <3>3
  <2>2. changes' \in 0 .. MaxChanges
    BY <1>1, ChangesBound DEF SlotInv, SlotTypeOK
  <2> QED BY <2>1, <2>2, <1>1, <1>2, <1>5 DEF SlotInv, SlotTypeOK, Inv
<1> QED BY <1>6, <1>7, <1>8, <1>9 DEF SlotInv

LEMMA SlotInvNext == SlotInv /\ [SlotNext]_slotVars => SlotInv'
<1> SUFFICES ASSUME SlotInv, [SlotNext]_slotVars PROVE SlotInv'
  OBVIOUS
<1>1. Inv'
  BY CapStep, InvNext DEF SlotInv
<1>2. CASE UNCHANGED slotVars
  <2>1. /\ session' = session /\ config' = config /\ cache' = cache /\ mode' = mode
        /\ broken' = broken /\ reported' = reported /\ offered' = offered /\ changes' = changes
    BY <1>2 DEF slotVars, vars, work
  <2>2. ReportedIsFlushed' /\ \A q \in Sessions : GoesOn(q)
    BY <2>1 DEF SlotInv, ReportedIsFlushed, GoesOn
  <2> QED BY <1>1, <2>1, <2>2, QuietStep DEF SlotInv, SlotTypeOK
<1> QED BY <1>1, <1>2, OpenInv, CloseInv, SeedInv, UpdateInv, CheckCapInv, StoreInv,
           FailureInv, CountInv DEF SlotNext

-----------------------------------------------------------------------------
(* The theorems. *)

\* Types of the tasks, their caches and the settings, for all constants within
\* the bounds.
THEOREM SlotTypeCorrect == SlotSpec => []SlotTypeOK
<1>1. SlotInv => SlotTypeOK
  BY DEF SlotInv
<1> QED BY <1>1, SlotInvInit, SlotInvNext, PTL DEF SlotSpec

\* The generation tasks under changing settings implement FrequencyCap, in which
\* every check may see any cap.
THEOREM TasksImplementCap == SlotSpec => Spec
<1>1. SlotInit => Init
  BY DEF SlotInit
<1> QED BY <1>1, CapStep, SlotInvInit, SlotInvNext, PTL DEF SlotSpec, Spec

\* Tasks that cache different caps exceed the largest of them by no more than
\* tasks that agree.
THEOREM ExcessBoundedUnderChanges == SlotSpec => []ExcessBounded
BY TasksImplementCap, ExcessIsBounded, PTL

\* A switch of the delivery mode is late by no more than the tasks that run.
THEOREM ModeFromItsTime == SlotSpec => []ModeOfItsTime
<1>1. SlotInv => ModeOfItsTime
  BY DEF SlotInv
<1> QED BY <1>1, SlotInvInit, SlotInvNext, PTL DEF SlotSpec

LEMMA ClearStep ==
  ASSUME SlotInv, [SlotNext]_slotVars, NEW s \in Sessions,
         session'[s].cleared \ session[s].cleared # {}
  PROVE  \E max \in offered[s].max_per_day, j \in session'[s].cleared :
           Visible(s, Owner[j]) < max
<1>1. session \in [Sessions -> SessionType]
  BY DEF SlotInv, SlotTypeOK, TypeOK
<1>2. PICK j \in Journeys : CheckCap(s, j)
  <2>1. ASSUME NEW q \in Sessions, Drop(q) \/ Flush(q) \/ \E i \in Journeys : PassOver(q, i)
        PROVE  FALSE
    BY <2>1, <1>1 DEF Drop, Flush, PassOver, SessionType
  <2>2. ASSUME NEW q \in Sessions, NEW w \in SUBSET Journeys,
               session' = [session EXCEPT ![q] = Begun(w)]
        PROVE  FALSE
    BY <2>2, <1>1 DEF Begun, Closed
  <2>3. ASSUME NEW q \in Sessions, session' = [session EXCEPT ![q] = Closed]
        PROVE  FALSE
    BY <2>3, <1>1 DEF Closed
  <2>4. ASSUME DayBegins PROVE FALSE
    <3>1. \A q \in Sessions : session'[q].cleared = session[q].cleared
      BY <2>4, <1>1 DEF DayBegins, SessionType
    <3> QED BY <3>1
  <2>5. session' # session
    OBVIOUS
  <2>6. ASSUME NEW q \in Sessions, NEW i \in Journeys, CheckCap(q, i), q # s PROVE FALSE
    <3>1. PICK f : session' = [session EXCEPT ![q] = f]
      BY <2>6 DEF CheckCap, Check
    <3> QED BY <2>6, <3>1, <1>1
  <2>7. ASSUME NEW q \in Sessions,
               OpenSlot(q) \/ \E i \in Journeys : OpenEvent(q, i)
        PROVE  FALSE
    <3>1. PICK w \in SUBSET Journeys : session' = [session EXCEPT ![q] = Begun(w)]
      BY <2>7 DEF OpenSlot, OpenEvent, BeginSlot, BeginEvent
    <3> QED BY <2>2, <3>1
  <2>8. ASSUME NEW q \in Sessions, Complete(q) \/ LoseAll(q) PROVE FALSE
    BY <2>3, <2>8 DEF Complete, LoseAll, Commit, Abort
  <2>9. ASSUME NEW q \in Sessions,
               \/ GenerateNothing(q) \/ Store(q) \/ StatementFails(q)
               \/ \E i \in Journeys : Suppress(q, i)
        PROVE  FALSE
    BY <2>1, <2>9 DEF GenerateNothing, Store, StatementFails, Suppress
  <2>10. ~SeedDefaults /\ ~(\E k \in Settings : \E value \in Values[k] : UpdateConfig(k, value))
         /\ ~(\E u \in Users : DeliveryFailsToday(u)) /\ ~UNCHANGED slotVars
    BY <2>5 DEF SeedDefaults, UpdateConfig, DeliveryFailsToday, DeliveryFails, slotVars, vars
  <2>11. ~NewDay
    BY <2>4 DEF NewDay
  <2> QED BY <2>6, <2>7, <2>8, <2>9, <2>10, <2>11 DEF SlotNext
<1>3. session[s].open /\ "max_per_day" \in Settings
  BY <1>2 DEF CheckCap, Check, Turn, Settings
<1>4. session'[s].cleared
        = IF CanSend(s, Owner[j], Get(s, "max_per_day")) THEN {j} ELSE {}
  BY <1>1, <1>2 DEF CheckCap, Check, SessionType
<1>5. Visible(s, Owner[j]) < Get(s, "max_per_day") /\ j \in session'[s].cleared
  BY <1>4 DEF CanSend
<1>6. Get(s, "max_per_day") \in offered[s]["max_per_day"]
  BY <1>3, GetIsOffered
<1> QED BY <1>5, <1>6

\* A stale cached cap is at worst one that was in force while the task ran.
THEOREM ClearedWithinItsCap == SlotSpec => ClearedWithinACap
<1>1. SlotInv /\ [SlotNext]_slotVars =>
        [\A s \in Sessions :
           session'[s].cleared \ session[s].cleared # {} =>
             \E max \in offered[s].max_per_day, j \in session'[s].cleared :
               Visible(s, Owner[j]) < max]_slotVars
  BY ClearStep
<1> QED BY <1>1, SlotInvInit, SlotInvNext, PTL DEF SlotSpec, ClearedWithinACap

LEMMA CloseStep ==
  ASSUME SlotInv, [SlotNext]_slotVars, NEW s \in Sessions,
         session[s].open, ~session'[s].open
  PROVE  \/ counted' = counted
         \/ ~session[s].today
         \/ \A u \in Users :
              counted'[u] = counted[u] + Cardinality(reported[s] \cap JourneysOf(u))
<1>1. session \in [Sessions -> SessionType]
  BY DEF SlotInv, SlotTypeOK, TypeOK
<1>2. PICK q \in Sessions : Complete(q) \/ LoseAll(q)
  <2>1. ASSUME NEW q \in Sessions,
               \/ GenerateNothing(q) \/ Store(q) \/ StatementFails(q)
               \/ \E i \in Journeys : Suppress(q, i) \/ CheckCap(q, i)
        PROVE  FALSE
    <3>1. \/ Drop(q) \/ Flush(q) \/ (\E i \in Journeys : PassOver(q, i))
          \/ \E i \in Journeys : CheckCap(q, i)
      BY <2>1 DEF GenerateNothing, Store, StatementFails, Suppress
    <3>2. CASE Drop(q) \/ Flush(q) \/ \E i \in Journeys : PassOver(q, i)
      BY <3>2, WithinTask DEF SlotInv, GoesOn
    <3>3. CASE \E i \in Journeys : CheckCap(q, i)
      <4>1. PICK i \in Journeys : CheckCap(q, i)
        BY <3>3
      <4>2. PICK c : session' = [session EXCEPT ![q].left = @ \ {i}, ![q].cleared = c]
        BY <4>1 DEF CheckCap, Check
      <4>3. session[s] \in SessionType
        BY <1>1
      <4> QED BY <4>2, <4>3, <1>1 DEF SessionType
    <3> QED BY <3>1, <3>2, <3>3
  <2>2. ASSUME NEW q \in Sessions, OpenSlot(q) \/ \E i \in Journeys : OpenEvent(q, i)
        PROVE  FALSE
    <3>1. PICK w \in SUBSET Journeys : session' = [session EXCEPT ![q] = Begun(w)]
      BY <2>2 DEF OpenSlot, OpenEvent, BeginSlot, BeginEvent
    <3> QED BY <3>1, <1>1 DEF Begun, Closed
  <2>3. ~NewDay
    <3>1. DayBegins => \A q \in Sessions : session'[q].open = session[q].open
      BY <1>1 DEF DayBegins, SessionType
    <3> QED BY <3>1 DEF NewDay
  <2>4. session' # session
    OBVIOUS
  <2>5. ~SeedDefaults /\ ~(\E k \in Settings : \E value \in Values[k] : UpdateConfig(k, value))
        /\ ~(\E u \in Users : DeliveryFailsToday(u)) /\ ~UNCHANGED slotVars
    BY <2>4 DEF SeedDefaults, UpdateConfig, DeliveryFailsToday, DeliveryFails, slotVars, vars
  <2> QED BY <2>1, <2>2, <2>3, <2>5 DEF SlotNext
<1>3. q = s
  <2>1. session' = [session EXCEPT ![q] = Closed]
    BY <1>2 DEF Complete, LoseAll, Commit, Abort
  <2> QED BY <2>1, <1>1
<1>4. CASE LoseAll(q)
  BY <1>4 DEF LoseAll, Abort
<1>5. CASE Complete(q)
  <2>1. counted' = [u \in Users |-> Visible(s, u)]
    BY <1>3, <1>5 DEF Complete, Commit
  <2>2. reported[s] = session[s].flushed
    BY DEF SlotInv, ReportedIsFlushed
  <2> QED BY <2>1, <2>2 DEF Visible
<1> QED BY <1>2, <1>4, <1>5

\* Failures of single users never leave a part of what a slot reports.
THEOREM SlotsStoredWhole == SlotSpec => StoredWhole
<1>1. SlotInv /\ [SlotNext]_slotVars =>
        [\A s \in Sessions :
           session[s].open /\ ~session'[s].open =>
             \/ counted' = counted
             \/ ~session[s].today
             \/ \A u \in Users :
                  counted'[u] = counted[u] + Cardinality(reported[s] \cap JourneysOf(u))]_slotVars
  BY CloseStep
<1> QED BY <1>1, SlotInvInit, SlotInvNext, PTL DEF SlotSpec, StoredWhole

=============================================================================
