------------------------- MODULE Day0ScheduleProofs -------------------------
(***************************************************************************)
(* Proofs about Day0Schedule, for any templates, delays, priorities, gap   *)
(* and night.                                                              *)
(***************************************************************************)
EXTENDS Day0Schedule, TLAPS

(***************************************************************************)
(* What is left to consider is less important than what has been decided   *)
(* on, and nothing has been accepted before the task began.                *)
(***************************************************************************)
Ordered(k) ==
  /\ task[k].accepted \cap task[k].todo = {}
  /\ \A s \in Templates \ task[k].todo : \A t \in task[k].todo : Priority[s] < Priority[t]
  /\ task[k].phase = "queued" => task[k].todo = Templates /\ task[k].accepted = {}

Types ==
  /\ payment \in Payments
  /\ task \in [Tasks -> TaskType]
  /\ rows \subseteq Tasks \X Templates

\* Those considered so far, decided on.
Decided(k) ==
  \A t \in Templates \ task[k].todo :
    t \in task[k].accepted <=>
      \/ Immediate(t)
      \/ /\ Fits(t)
         /\ \A s \in task[k].accepted : Priority[s] < Priority[t] => Apart(s, t)

Spaced(k) == \A s, t \in task[k].accepted : s # t => Apart(s, t)

\* Two tasks agree as far as both have come.
Agree(k, l) ==
  \A t \in Templates \ (task[k].todo \cup task[l].todo) :
    t \in task[k].accepted <=> t \in task[l].accepted

Rows(k) == {t \in Templates : <<k, t>> \in rows}

Written(k) ==
  /\ task[k].phase \in {"queued", "planning"} => Rows(k) = {}
  /\ Rows(k) # {} => task[k].todo = {} /\ Rows(k) = task[k].accepted

Inv ==
  /\ Types
  /\ \A k \in Tasks : Ordered(k) /\ Decided(k) /\ Spaced(k) /\ Written(k)
  /\ \A k, l \in Tasks : Agree(k, l)

-----------------------------------------------------------------------------

LEMMA Times ==
  ASSUME Types, NEW t \in Templates
  PROVE  /\ payment \in 0 .. DayMinutes - 1
         /\ SendAt(t) \in Int
         /\ Delay[t] \in Nat \cup {-1}
         /\ Priority[t] \in Nat
  BY Bounds DEF Types, SendAt, BeforeDnd

LEMMA ApartSymmetric ==
  ASSUME NEW s, NEW t
  PROVE  Apart(s, t) <=> Apart(t, s)
  BY DEF Apart

\* The decision on one template, the most important of those left.
LEMMA ConsiderKeeps ==
  ASSUME Inv, NEW k \in Tasks, NEW t \in Templates, Consider(k, t)
  PROVE  Inv'
<1> DEFINE done == task[k].accepted
           next == IF Accepts(t, done) THEN done \cup {t} ELSE done
<1>1. /\ payment' = payment /\ rows' = rows
      /\ t \in task[k].todo
      /\ \A s \in task[k].todo : Priority[t] <= Priority[s]
      /\ task[k].phase = "planning"
  BY DEF Consider, MostImportant
<1>2. /\ task \in [Tasks -> TaskType]
      /\ task[k].todo \subseteq Templates /\ done \subseteq Templates
  BY DEF Inv, Types, TaskType
<1>3. task' = [task EXCEPT ![k] =
                 [task[k] EXCEPT !.todo = task[k].todo \ {t}, !.accepted = next]]
  BY <1>2 DEF Consider, TaskType
<1>4. /\ task'[k].todo = task[k].todo \ {t}
      /\ task'[k].accepted = next
      /\ task'[k].phase = "planning"
      /\ \A l \in Tasks : l # k => task'[l] = task[l]
  BY <1>1, <1>2, <1>3 DEF TaskType
<1>5. next \subseteq Templates
  BY <1>2
<1>6. Types'
  <2>1. [task[k] EXCEPT !.todo = task[k].todo \ {t}, !.accepted = next] \in TaskType
    BY <1>2, <1>5 DEF TaskType
  <2>2. task' \in [Tasks -> TaskType]
    BY <2>1, <1>2, <1>3
  <2> QED
    BY <2>2, <1>1 DEF Inv, Types
<1>7. /\ \A s, u : Apart(s, u)' <=> Apart(s, u)
      /\ \A u : Fits(u)' <=> Fits(u)
      /\ \A u : Immediate(u)' <=> Immediate(u)
  BY <1>1 DEF Apart, Fits, SendAt, Computable, Immediate
<1>8. \A s, u \in Templates : Priority[s] \in Nat /\ (Priority[s] = Priority[u] => s = u)
  BY Bounds, Ranked
<1>9. /\ done \cap task[k].todo = {}
      /\ \A s \in Templates \ task[k].todo : \A u \in task[k].todo : Priority[s] < Priority[u]
      /\ \A s \in done : \A u \in task[k].todo : Priority[s] < Priority[u]
  BY <1>2 DEF Inv, Ordered
\* A template that is sent at once finds nothing accepted before it.
<1>10. Immediate(t) => done = {}
  BY <1>1, <1>2, <1>9, Ranked, <1>8
<1>11. t \in next => \A s \in done : Apart(s, t)
  BY <1>1, <1>9, <1>10 DEF Accepts, HasMinimumGap
<1>12. Ordered(k)'
  <2>1. next \cap (task[k].todo \ {t}) = {}
    BY <1>9
  <2>2. ASSUME NEW s \in Templates \ (task[k].todo \ {t}), NEW u \in task[k].todo \ {t}
        PROVE  Priority[s] < Priority[u]
    <3>1. CASE s = t
      <4>1. Priority[t] <= Priority[u] /\ Priority[t] # Priority[u]
        BY <1>1, <1>2, <1>8
      <4> QED
        BY <4>1, <3>1, <1>2, <1>8
    <3>2. CASE s # t
      BY <3>2, <1>9
    <3> QED
      BY <3>1, <3>2
  <2> QED
    BY <2>1, <2>2, <1>4 DEF Ordered
<1>13. Spaced(k)'
  <2> SUFFICES ASSUME NEW s \in next, NEW u \in next, s # u
               PROVE  Apart(s, u)
    BY <1>4, <1>7 DEF Spaced
  <2>1. CASE s = t
    BY <2>1, <1>11, ApartSymmetric
  <2>2. CASE u = t
    BY <2>2, <1>11
  <2>3. CASE s # t /\ u # t
    BY <2>3 DEF Inv, Spaced
  <2> QED
    BY <2>1, <2>2, <2>3
<1>14. Decided(k)'
  <2> DEFINE Reference(u, set) ==
        \/ Immediate(u)
        \/ /\ Fits(u)
           /\ \A s \in set : Priority[s] < Priority[u] => Apart(s, u)
  <2>1. ASSUME NEW u \in Templates \ (task[k].todo \ {t})
        PROVE  u \in next <=> Reference(u, next)
    <3>1. CASE u = t
      <4>1. t \notin done
        BY <1>1, <1>9
      <4>2. Accepts(t, done) <=> Reference(t, done)
        BY <1>1, <1>9 DEF Accepts, HasMinimumGap
      <4>3. Reference(t, next) <=> Reference(t, done)
        BY <1>8, <1>2
      <4> QED
        BY <4>1, <4>2, <4>3, <3>1
    <3>2. CASE u # t
      <4>1. u \in Templates \ task[k].todo
        BY <3>2
      <4>2. u \in done <=> Reference(u, done)
        BY <4>1 DEF Inv, Decided
      \* What is accepted later is less important and changes nothing for u.
      <4>3. u \in done => ~(Priority[t] < Priority[u])
        BY <1>1, <1>2, <1>8, <1>9
      <4>4. u \in next <=> u \in done
        BY <3>2
      <4>5. u \in done => Reference(u, next)
        BY <4>2, <4>3
      <4>6. Reference(u, next) => Reference(u, done)
        OBVIOUS
      <4> QED
        BY <4>2, <4>4, <4>5, <4>6
    <3> QED
      BY <3>1, <3>2
  <2> QED
    BY <2>1, <1>4, <1>7 DEF Decided
<1>15. ASSUME NEW l \in Tasks, l # k
       PROVE  Ordered(l)' /\ Decided(l)' /\ Spaced(l)'
  <2>1. task'[l] = task[l] /\ Ordered(l) /\ Decided(l) /\ Spaced(l)
    BY <1>4, <1>15 DEF Inv
  <2> QED
    BY <2>1, <1>7 DEF Ordered, Decided, Spaced
<1>16. ASSUME NEW l \in Tasks PROVE Written(l)'
  <2>1. Written(l) /\ Rows(l)' = Rows(l)
    BY <1>1 DEF Inv, Rows
  <2>2. CASE l = k
    <3>1. Rows(k) = {}
      BY <2>1, <2>2, <1>1 DEF Written
    <3> QED
      BY <3>1, <2>1, <2>2 DEF Written
  <2>3. CASE l # k
    BY <2>1, <2>3, <1>4 DEF Written
  <2> QED
    BY <2>2, <2>3
\* A task that has decided on t before did so from the same more important ones.
<1>17. ASSUME NEW l \in Tasks, l # k
       PROVE  Agree(k, l)' /\ Agree(l, k)'
  <2>1. /\ task'[l] = task[l] /\ Agree(k, l) /\ Ordered(l) /\ Decided(l)
        /\ task[l].todo \subseteq Templates /\ task[l].accepted \subseteq Templates
    BY <1>2, <1>4, <1>17 DEF Inv, TaskType
  <2>2. ASSUME NEW u \in Templates, u \notin task[k].todo \ {t}, u \notin task[l].todo
        PROVE  u \in next <=> u \in task[l].accepted
    <3>1. CASE u # t
      BY <3>1, <2>1, <2>2 DEF Agree
    <3>2. CASE u = t
      <4>1. t \notin done
        BY <1>1, <1>9
      <4>2. t \in task[l].accepted <=>
              \/ Immediate(t)
              \/ /\ Fits(t)
                 /\ \A s \in task[l].accepted : Priority[s] < Priority[t] => Apart(s, t)
        BY <2>1, <2>2, <3>2 DEF Decided
      <4>3. ASSUME NEW s \in Templates, Priority[s] < Priority[t]
            PROVE  s \in done <=> s \in task[l].accepted
        <5>1. s \notin task[k].todo
          BY <4>3, <1>1, <1>8
        <5>2. s \notin task[l].todo
          BY <4>3, <1>8, <2>1, <2>2, <3>2 DEF Ordered
        <5> QED
          BY <5>1, <5>2, <2>1 DEF Agree
      <4>4. \A s \in done : Priority[s] < Priority[t]
        BY <1>1, <1>9
      <4>5. HasMinimumGap(t, done) <=>
              \A s \in task[l].accepted : Priority[s] < Priority[t] => Apart(s, t)
        BY <4>3, <4>4, <1>2, <2>1 DEF HasMinimumGap
      <4> QED
        BY <4>1, <4>2, <4>5, <3>2 DEF Accepts
    <3> QED
      BY <3>1, <3>2
  <2> QED
    BY <2>1, <2>2, <1>4 DEF Agree
<1>18. ASSUME NEW l \in Tasks, NEW m \in Tasks PROVE Agree(l, m)'
  <2>1. CASE l = m
    BY <2>1 DEF Agree
  <2>2. CASE l # k /\ m # k
    BY <2>2, <1>4 DEF Inv, Agree
  <2>3. CASE l # m /\ (l = k \/ m = k)
    BY <2>3, <1>17
  <2> QED
    BY <2>1, <2>2, <2>3
<1> QED
  BY <1>6, <1>12, <1>13, <1>14, <1>15, <1>16, <1>18 DEF Inv

\* The other steps of a task leave what it has planned alone.
LEMMA PhaseKeeps ==
  ASSUME Inv, NEW k \in Tasks, Begin(k) \/ Commit(k) \/ Fail(k)
  PROVE  Inv'
<1>1. /\ task \in [Tasks -> TaskType]
      /\ rows \subseteq Tasks \X Templates
      /\ payment \in Payments
  BY DEF Inv, Types
<1>2. PICK p \in {"planning", "done", "failed"} :
        task' = [task EXCEPT ![k].phase = p]
  BY DEF Begin, Commit, Fail
<1>3. /\ task' \in [Tasks -> TaskType]
      /\ \A l \in Tasks : /\ task'[l].todo = task[l].todo
                          /\ task'[l].accepted = task[l].accepted
                          /\ task'[l].phase = "queued" => task[l].phase = "queued"
  BY <1>1, <1>2 DEF TaskType
<1>4. payment' = payment
  BY DEF Begin, Commit, Fail
<1>5. rows' \subseteq Tasks \X Templates
  <2>1. task[k].accepted \subseteq Templates
    BY <1>1 DEF TaskType
  <2>2. rows' = rows \/ rows' = rows \cup ({k} \X task[k].accepted)
    BY DEF Begin, Commit, Fail
  <2> QED
    BY <2>1, <2>2, <1>1
<1>6. Types'
  BY <1>1, <1>3, <1>4, <1>5 DEF Types
<1>7. /\ \A s, u : Apart(s, u)' <=> Apart(s, u)
      /\ \A u : Fits(u)' <=> Fits(u)
      /\ \A u : Immediate(u)' <=> Immediate(u)
  BY <1>4 DEF Apart, Fits, SendAt, Computable, Immediate
<1>8. ASSUME NEW l \in Tasks
      PROVE  Ordered(l)' /\ Decided(l)' /\ Spaced(l)'
  <2>1. Ordered(l) /\ Decided(l) /\ Spaced(l)
    BY DEF Inv
  <2> QED
    BY <2>1, <1>3, <1>7 DEF Ordered, Decided, Spaced
<1>9. \A l, m \in Tasks : Agree(l, m)'
  BY <1>3 DEF Inv, Agree
<1>10. ASSUME NEW l \in Tasks PROVE Written(l)'
  <2>1. Written(l) /\ task[l].accepted \subseteq Templates
    BY <1>1 DEF Inv, TaskType
  <2>2. CASE l # k
    <3>1. task'[l] = task[l] /\ Rows(l)' = Rows(l)
      BY <2>2, <1>1, <1>2 DEF Begin, Commit, Fail, Rows
    <3> QED
      BY <3>1, <2>1 DEF Written
  <2>3. CASE l = k
    <3>1. task[k].phase \in {"queued", "planning"} /\ Rows(k) = {}
      BY <2>1, <2>3 DEF Begin, Commit, Fail, Planned, Written
    <3>2. CASE rows' = rows
      BY <3>1, <3>2, <2>3 DEF Written, Rows
    <3>3. CASE Planned(k) /\ rows' = rows \cup ({k} \X task[k].accepted)
      <4>1. Rows(k)' = task[k].accepted
        BY <3>1, <3>3, <2>1, <2>3 DEF Rows
      <4>2. p # "planning"
        BY <3>3, <1>1, <1>2 DEF Begin, Commit, Fail, Planned, TaskType
      <4>3. task'[k].phase = p
        BY <1>1, <1>2 DEF TaskType
      <4> QED
        BY <4>1, <4>2, <4>3, <1>3, <3>3, <2>3 DEF Written, Planned
    <3> QED
      BY <3>2, <3>3 DEF Begin, Commit, Fail
  <2> QED
    BY <2>2, <2>3
<1> QED
  BY <1>6, <1>8, <1>9, <1>10 DEF Inv

THEOREM Inductive == Spec => []Inv
<1>1. Init => Inv
  BY DEF Init, Inv, Types, TaskType, Ordered, Decided, Spaced, Agree, Written, Rows
<1>2. Inv /\ [Next]_vars => Inv'
  <2> SUFFICES ASSUME Inv, [Next]_vars PROVE Inv'
    OBVIOUS
  <2>1. CASE Next
    BY <2>1, ConsiderKeeps, PhaseKeeps DEF Next
  <2>2. CASE UNCHANGED vars
    <3>1. payment' = payment /\ task' = task /\ rows' = rows
      BY <2>2 DEF vars
    <3>2. /\ \A s, u : Apart(s, u)' <=> Apart(s, u)
          /\ \A u : Fits(u)' <=> Fits(u)
          /\ \A u : Immediate(u)' <=> Immediate(u)
      BY <3>1 DEF Apart, Fits, SendAt, Computable, Immediate
    <3>3. /\ Types'
          /\ \A k \in Tasks : Ordered(k)' /\ Decided(k)' /\ Spaced(k)' /\ Written(k)'
      BY <3>1, <3>2 DEF Inv, Types, Ordered, Decided, Spaced, Written, Rows
    <3>4. \A k, l \in Tasks : Agree(k, l)'
      BY <3>1 DEF Inv, Agree
    <3> QED
      BY <3>3, <3>4 DEF Inv
  <2> QED
    BY <2>1, <2>2
<1> QED
  BY <1>1, <1>2, PTL DEF Spec

-----------------------------------------------------------------------------

\* All send times lie in the day of the payment and all rows belong to a
\* template: no arithmetic of delays leads out of the day.
LEMMA AcceptedFits ==
  ASSUME Inv, NEW k \in Tasks, NEW t \in task[k].accepted
  PROVE  t \in Templates /\ (Immediate(t) \/ Fits(t))
<1>1. t \in Templates /\ t \notin task[k].todo
  BY DEF Inv, Types, TaskType, Ordered
<1> QED
  BY <1>1 DEF Inv, Decided

THEOREM TypeCorrect == Spec => []TypeOK
<1>1. Inv => TypeOK
  <2> SUFFICES ASSUME Inv PROVE TypeOK
    OBVIOUS
  <2>1. ASSUME NEW k \in Tasks, NEW t \in task[k].accepted
        PROVE  SendAt(t) \in 0 .. DayMinutes - 1
    <3>1. t \in Templates /\ (Immediate(t) \/ Fits(t))
      BY AcceptedFits
    <3>2. /\ payment \in 0 .. DayMinutes - 1 /\ SendAt(t) \in Int
          /\ Delay[t] \in Nat \cup {-1}
      BY <3>1, Times DEF Inv
    <3>3. CASE Immediate(t)
      BY <3>2, <3>3, Bounds DEF Immediate, AtOnce, SendAt, BeforeDnd
    <3>4. CASE Fits(t)
      <4>1. SendAt(t) < DndStart
        BY <3>4 DEF Fits
      <4>2. SendAt(t) >= 0
        BY <3>2, Bounds DEF SendAt, BeforeDnd
      <4> QED
        BY <4>1, <4>2, <3>2, Bounds
    <3> QED
      BY <3>1, <3>3, <3>4
  <2> QED
    BY <2>1 DEF Inv, Types, TypeOK
<1> QED
  BY <1>1, Inductive, PTL

\* Any two notifications of a schedule keep the minimum gap.
THEOREM GapIsKept == Spec => []GapKept
<1>1. Inv => GapKept
  BY DEF Inv, Spaced, GapKept
<1> QED
  BY <1>1, Inductive, PTL

\* A learner who pays in the day gets nothing planned for the night but the
\* immediate answer.
THEOREM NothingAtNight == Spec => []NightFree
<1>1. Inv => NightFree
  <2> SUFFICES ASSUME Inv, NEW k \in Tasks, NEW t \in task[k].accepted,
                      ~Immediate(t), payment >= DndEnd
               PROVE  ~IsDndActive(SendAt(t))
    BY DEF NightFree
  <2>1. t \in Templates /\ Fits(t)
    BY AcceptedFits
  <2>2. /\ payment \in 0 .. DayMinutes - 1 /\ SendAt(t) \in Int
        /\ Delay[t] \in Nat \cup {-1}
    BY <2>1, Times DEF Inv
  <2>3. SendAt(t) < DndStart /\ SendAt(t) >= payment
    BY <2>1, <2>2 DEF Fits, Computable, SendAt, BeforeDnd
  <2>4. SendAt(t) \in 0 .. DayMinutes - 1 /\ SendAt(t) >= DndEnd
    BY <2>2, <2>3, Bounds
  <2>5. SendAt(t) % DayMinutes = SendAt(t)
    BY <2>4, Bounds
  <2> QED
    BY <2>3, <2>4, <2>5, Bounds DEF IsDndActive
<1> QED
  BY <1>1, Inductive, PTL

\* The schedule is the one that importance decides, whatever the templates.
THEOREM ScheduleByImportance == Spec => []ImportanceDecides
<1>1. Inv => ImportanceDecides
  BY DEF Inv, Decided, ImportanceDecides
<1> QED
  BY <1>1, Inductive, PTL

\* A learner gets the whole schedule or nothing, and the same one again if the
\* task is triggered twice.
THEOREM WholeSchedules == Spec => []ScheduleIsWhole
<1>1. Inv => ScheduleIsWhole
  <2> SUFFICES ASSUME Inv, NEW k \in Tasks, NEW l \in Tasks, Rows(k) # {}, Rows(l) # {}
               PROVE  Rows(k) = Rows(l)
    BY DEF ScheduleIsWhole, Rows
  <2>1. /\ task[k].todo = {} /\ Rows(k) = task[k].accepted
        /\ task[l].todo = {} /\ Rows(l) = task[l].accepted
        /\ task[k].accepted \subseteq Templates /\ task[l].accepted \subseteq Templates
    BY DEF Inv, Written, Types, TaskType
  <2> QED
    BY <2>1 DEF Inv, Agree
<1> QED
  BY <1>1, Inductive, PTL

=============================================================================
