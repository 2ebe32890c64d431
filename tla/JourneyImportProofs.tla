------------------------ MODULE JourneyImportProofs ------------------------
(***************************************************************************)
(* What is stored of a file is exactly what its cells are the first to     *)
(* tell of, for files of any length.                                       *)
(*                                                                         *)
(* A list is built from a file by functions that are defined recursively:  *)
(* FlattenSeq, and the tree after n rows.  That such a function exists is  *)
(* proved first (FlattenDefined, TreesDefined), then what it has of its    *)
(* argument, by induction on a number; an induction is stated as a set of  *)
(* numbers that is closed under the step (UpTo).  The invariant of the     *)
(* tree after n rows is TreeOf: its tasks are the keys seen, each once,    *)
(* and each node is named by the first of the rows on whose way it lies.   *)
(* A step of the tree adds the missing nodes of a row level by level       *)
(* (OneLevelMore, InsertRowKeeps).  A file that is accepted has every row  *)
(* in one chapter, and the first row on the way to a node is made of the   *)
(* first cells that tell of it (AcceptedCellsStored); no step of ingestion *)
(* gives a task another hierarchy than that of its file (FromFile).        *)
(***************************************************************************)
EXTENDS JourneyImport, IngestionProofs, SequenceTheorems, WellFoundedInduction

-----------------------------------------------------------------------------
(* Induction, stated for a set: the provers cannot instantiate an operator.  *)

\* A set that holds 0, and with a number below n the next one, holds 0 .. n.
LEMMA UpTo ==
  ASSUME NEW n \in Nat, NEW S, 0 \in S,
         \A k \in 0 .. n - 1 : k \in S => k + 1 \in S
  PROVE  0 .. n \subseteq S
<1> DEFINE T == {k \in 0 .. n : k \notin S}
<1>1. IsWellFoundedOn(OpToRel(<, Nat), Nat)
  BY NatLessThanWellFounded
<1>2. ASSUME T # {} PROVE FALSE
  <2>1. T \subseteq Nat
    OBVIOUS
  <2>2. PICK x \in T : \A y \in T : ~ (<<y, x>> \in OpToRel(<, Nat))
    BY <1>1, <1>2, <2>1, WFMin, Zenon
  <2>3. \A y \in T : ~(y < x)
    BY <2>1, <2>2 DEF OpToRel
  <2> HIDE DEF T
  <2>4. x \in 0 .. n /\ x \notin S
    BY DEF T
  <2>5. x - 1 \in 0 .. n - 1
    BY <2>4
  <2>6. x - 1 \in S
    BY <2>3, <2>5 DEF T
  <2> QED BY <2>4, <2>5, <2>6
<1> QED BY <1>2

-----------------------------------------------------------------------------
(* Lists of lists. *)

\* The function that FlattenSeq is defined by.
Flatten(ss) ==
  CHOOSE g : g = [i \in 1 .. Len(ss) |-> IF i = 1 THEN ss[i] ELSE g[i - 1] \o ss[i]]

\* It exists, so the value of FlattenSeq is the one its definition asks for.
LEMMA FlattenDefined ==
  ASSUME NEW S, NEW ss \in Seq(Seq(S))
  PROVE  Flatten(ss) =
           [i \in 1 .. Len(ss) |->
              IF i = 1 THEN ss[i] ELSE Flatten(ss)[i - 1] \o ss[i]]
<1> DEFINE Body(g, i) == IF i = 1 THEN ss[i] ELSE g[i - 1] \o ss[i]
           UpToHere(k) == \E g : g = [i \in 1 .. k |-> Body(g, i)]
           S1 == {k \in 0 .. Len(ss) : UpToHere(k)}
<1>1. UpToHere(0)
  <2>1. <<>> = [i \in 1 .. 0 |-> Body(<<>>, i)]
    OBVIOUS
  <2> QED BY <2>1
<1>2. ASSUME NEW k \in 0 .. Len(ss) - 1, UpToHere(k)
      PROVE  UpToHere(k + 1)
  <2>1. PICK g : g = [i \in 1 .. k |-> Body(g, i)]
    BY <1>2
  <2> DEFINE h == [i \in 1 .. k + 1 |-> IF i = k + 1 THEN Body(g, k + 1) ELSE g[i]]
  <2>0. \A i \in 1 .. k : g[i] = Body(g, i)
    BY <2>1
  <2>2. ASSUME NEW i \in 1 .. k + 1 PROVE h[i] = Body(h, i)
    <3>1. CASE i = 1
      BY <2>1, <3>1
    <3>2. ASSUME i # 1 PROVE h[i] = Body(h, i)
      <4>1. i - 1 \in 1 .. k /\ h[i - 1] = g[i - 1]
        BY <3>2
      <4>2. h[i] = Body(g, i)
        BY <2>0
      <4> HIDE DEF h
      <4> QED BY <4>1, <4>2, <3>2
    <3> QED BY <3>1, <3>2
  <2>3. h = [i \in 1 .. k + 1 |-> Body(h, i)]
    BY <2>2
  <2> HIDE DEF h
  <2> QED BY <2>3
<1> HIDE DEF UpToHere
<1>3. Len(ss) \in S1
  <2>1. 0 \in S1
    BY <1>1
  <2>2. \A k \in 0 .. Len(ss) - 1 : k \in S1 => k + 1 \in S1
    BY <1>2
  <2> HIDE DEF S1
  <2>3. Len(ss) \in Nat
    OBVIOUS
  <2>4. 0 .. Len(ss) \subseteq S1
    BY <2>1, <2>2, <2>3, UpTo, Zenon
  <2> QED BY <2>3, <2>4
<1>4. \E g : g = [i \in 1 .. Len(ss) |-> Body(g, i)]
  BY <1>3 DEF UpToHere
<1> QED BY <1>4, Zenon DEF Flatten

LEMMA Concatenation ==
  ASSUME NEW S, NEW s \in Seq(S), NEW t \in Seq(S)
  PROVE  /\ s \o t \in Seq(S)
         /\ ToSet(s \o t) = ToSet(s) \cup ToSet(t)
         /\ IsInjective(s) /\ IsInjective(t) /\ ToSet(s) \cap ToSet(t) = {}
              => IsInjective(s \o t)
<1> DEFINE u == s \o t
<1>1. /\ u \in Seq(S)
      /\ Len(u) = Len(s) + Len(t)
      /\ \A i \in 1 .. Len(u) : u[i] = IF i <= Len(s) THEN s[i] ELSE t[i - Len(s)]
  OBVIOUS
<1>2. /\ DOMAIN u = 1 .. Len(u) /\ DOMAIN s = 1 .. Len(s) /\ DOMAIN t = 1 .. Len(t)
      /\ Len(s) \in Nat /\ Len(t) \in Nat
  BY <1>1
<1> HIDE DEF u
<1>3. ToSet(u) = ToSet(s) \cup ToSet(t)
  <2>1. ASSUME NEW i \in DOMAIN u PROVE u[i] \in ToSet(s) \cup ToSet(t)
    <3>1. CASE i <= Len(s)
      BY <1>1, <1>2, <3>1 DEF ToSet
    <3>2. CASE ~(i <= Len(s))
      <4>1. i - Len(s) \in 1 .. Len(t) /\ u[i] = t[i - Len(s)]
        BY <1>1, <1>2, <3>2
      <4> QED BY <4>1, <1>2 DEF ToSet
    <3> QED BY <3>1, <3>2
  <2>2. ASSUME NEW i \in DOMAIN s PROVE s[i] \in ToSet(u)
    BY <1>1, <1>2 DEF ToSet
  <2>3. ASSUME NEW i \in DOMAIN t PROVE t[i] \in ToSet(u)
    <3>1. i + Len(s) \in DOMAIN u /\ u[i + Len(s)] = t[i]
      BY <1>1, <1>2
    <3> QED BY <3>1 DEF ToSet
  <2> QED BY <2>1, <2>2, <2>3 DEF ToSet
<1>4. ASSUME IsInjective(s), IsInjective(t), ToSet(s) \cap ToSet(t) = {},
             NEW i \in DOMAIN u, NEW j \in DOMAIN u, u[i] = u[j]
      PROVE  i = j
  <2>1. CASE i <= Len(s) /\ j <= Len(s)
    BY <1>1, <1>2, <1>4, <2>1 DEF IsInjective
  <2>2. CASE i > Len(s) /\ j > Len(s)
    <3>1. /\ i - Len(s) \in DOMAIN t /\ j - Len(s) \in DOMAIN t
          /\ t[i - Len(s)] = t[j - Len(s)]
      BY <1>1, <1>2, <1>4, <2>2
    <3>2. i - Len(s) = j - Len(s)
      BY <3>1, <1>4 DEF IsInjective
    <3> QED BY <3>2, <1>2
  <2>3. ASSUME NEW a \in DOMAIN u, NEW b \in DOMAIN u, a <= Len(s), b > Len(s)
        PROVE  u[a] # u[b]
    <3>1. a \in DOMAIN s /\ u[a] = s[a]
      BY <1>1, <1>2, <2>3
    <3>2. b - Len(s) \in DOMAIN t /\ u[b] = t[b - Len(s)]
      BY <1>1, <1>2, <2>3
    <3> QED BY <3>1, <3>2, <1>4 DEF ToSet
  <2> QED BY <2>1, <2>2, <2>3, <1>2, <1>4
<1>5. IsInjective(s) /\ IsInjective(t) /\ ToSet(s) \cap ToSet(t) = {} => IsInjective(u)
  BY <1>4 DEF IsInjective
<1> QED BY <1>1, <1>3, <1>5 DEF u

\* The lists hold every element once: none repeats one of its own or another's.
NoRepeats(ss) ==
  \A c, d \in DOMAIN ss : \A i \in DOMAIN ss[c], j \in DOMAIN ss[d] :
    ss[c][i] = ss[d][j] => c = d /\ i = j

\* FlattenSeq neither loses nor repeats an element.
LEMMA Flattened ==
  ASSUME NEW S, NEW ss \in Seq(Seq(S))
  PROVE  /\ FlattenSeq(ss) \in Seq(S)
         /\ ToSet(FlattenSeq(ss)) = UNION {ToSet(ss[c]) : c \in DOMAIN ss}
         /\ NoRepeats(ss) => IsInjective(FlattenSeq(ss))
<1> DEFINE g == Flatten(ss)
           Whole(k) == /\ g[k] \in Seq(S)
                       /\ ToSet(g[k]) = UNION {ToSet(ss[c]) : c \in 1 .. k}
                       /\ NoRepeats(ss) => IsInjective(g[k])
           Good == {k \in 0 .. Len(ss) : k # 0 => Whole(k)}
<1>0. Len(ss) \in Nat /\ DOMAIN ss = 1 .. Len(ss) /\ \A c \in 1 .. Len(ss) : ss[c] \in Seq(S)
  OBVIOUS
<1>1. CASE Len(ss) = 0
  <2>1. FlattenSeq(ss) = ss /\ ss = <<>>
    BY <1>0, <1>1 DEF FlattenSeq
  <2> QED BY <2>1 DEF ToSet, IsInjective
<1>2. CASE Len(ss) # 0
  <2>1. \A k \in 1 .. Len(ss) : g[k] = IF k = 1 THEN ss[k] ELSE g[k - 1] \o ss[k]
    <3>1. g = [k \in 1 .. Len(ss) |-> IF k = 1 THEN ss[k] ELSE g[k - 1] \o ss[k]]
      BY FlattenDefined, Zenon
    <3> HIDE DEF g
    <3> QED BY <3>1
  <2>2. FlattenSeq(ss) = g[Len(ss)]
    BY <1>2, Zenon DEF FlattenSeq, Flatten
  <2> HIDE DEF g, Whole
  <2>3. 0 \in Good
    BY <1>0
  <2>4. ASSUME NEW k \in 0 .. Len(ss) - 1, k \in Good
        PROVE  k + 1 \in Good
    <3>1. CASE k = 0
      <4>1. g[1] = ss[1] /\ ss[1] \in Seq(S)
        BY <2>1, <1>0, <1>2
      <4>2. ToSet(g[1]) = UNION {ToSet(ss[c]) : c \in 1 .. 1}
        BY <4>1
      <4>3. NoRepeats(ss) => IsInjective(g[1])
        BY <4>1, <1>0, <1>2 DEF NoRepeats, IsInjective
      <4>4. Whole(1) /\ 1 \in 0 .. Len(ss)
        BY <4>1, <4>2, <4>3, <1>0, <1>2 DEF Whole
      <4> QED BY <4>4, <3>1
    <3>2. CASE k # 0
      <4>1. Whole(k) /\ k \in 1 .. Len(ss)
        BY <2>4, <3>2, <1>0
      <4>0. k + 1 # 1 /\ k + 1 - 1 = k
        BY <4>1
      <4>2. k + 1 \in 1 .. Len(ss) /\ g[k + 1] = g[k] \o ss[k + 1] /\ ss[k + 1] \in Seq(S)
        <5>1. k + 1 \in 1 .. Len(ss)
          BY <1>0, <2>4
        <5>2. g[k + 1] = g[k + 1 - 1] \o ss[k + 1]
          <6>1. g[k + 1] = IF k + 1 = 1 THEN ss[k + 1] ELSE g[k + 1 - 1] \o ss[k + 1]
            BY <2>1, <5>1
          <6> QED BY <6>1, <4>0
        <5> QED BY <1>0, <4>0, <5>1, <5>2
      <4>3. /\ g[k + 1] \in Seq(S)
            /\ ToSet(g[k + 1]) = ToSet(g[k]) \cup ToSet(ss[k + 1])
            /\ IsInjective(g[k]) /\ IsInjective(ss[k + 1])
                 /\ ToSet(g[k]) \cap ToSet(ss[k + 1]) = {} => IsInjective(g[k + 1])
        BY <4>1, <4>2, Concatenation DEF Whole
      <4>4. ToSet(g[k + 1]) = UNION {ToSet(ss[c]) : c \in 1 .. k + 1}
        <5>1. 1 .. k + 1 = (1 .. k) \cup {k + 1}
          BY <4>1
        <5> QED BY <4>1, <4>3, <5>1 DEF Whole
      <4>5. ASSUME NoRepeats(ss) PROVE IsInjective(g[k + 1])
        <5>1. IsInjective(ss[k + 1])
          BY <4>2, <4>5, <1>0 DEF NoRepeats, IsInjective
        <5>2. ASSUME NEW x, x \in ToSet(g[k]), x \in ToSet(ss[k + 1])
              PROVE  FALSE
          <6>1. PICK c \in 1 .. k : x \in ToSet(ss[c])
            BY <4>1, <5>2 DEF Whole
          <6>2. PICK i \in DOMAIN ss[c] : ss[c][i] = x
            BY <6>1 DEF ToSet
          <6>3. PICK j \in DOMAIN ss[k + 1] : ss[k + 1][j] = x
            BY <5>2 DEF ToSet
          <6>4. c \in DOMAIN ss /\ k + 1 \in DOMAIN ss /\ c # k + 1
            BY <4>1, <4>2, <1>0
          <6> QED BY <4>5, <6>2, <6>3, <6>4, Zenon DEF NoRepeats
        <5> QED BY <4>1, <4>3, <4>5, <5>1, <5>2 DEF Whole
      <4>6. Whole(k + 1) /\ k + 1 \in 0 .. Len(ss)
        BY <4>2, <4>3, <4>4, <4>5 DEF Whole
      <4> QED BY <4>6
    <3> QED BY <3>1, <3>2
  <2>5. 0 .. Len(ss) \subseteq Good
    <3> HIDE DEF Good
    <3> QED BY <2>3, <2>4, <1>0, UpTo, Zenon
  <2>6. Whole(Len(ss))
    BY <2>5, <1>0, <1>2
  <2> QED BY <2>2, <2>6, <1>0 DEF Whole
<1> QED BY <1>1, <1>2, <1>0

\* Where keeps what is in the set, and only that.
LEMMA Filtered ==
  ASSUME NEW S, NEW list \in Seq(S), NEW set
  PROVE  /\ Where(list, set) \in Seq(S)
         /\ ToSet(Where(list, set)) = ToSet(list) \cap set
         /\ IsInjective(list) => IsInjective(Where(list, set))
<1> DEFINE ss == [i \in DOMAIN list |-> IF list[i] \in set THEN <<list[i]>> ELSE <<>>]
<1>1. ss \in Seq(Seq(S)) /\ DOMAIN ss = DOMAIN list
  <2>1. DOMAIN list = 1 .. Len(list) /\ Len(list) \in Nat /\ \A i \in DOMAIN list : list[i] \in S
    OBVIOUS
  <2>2. \A i \in DOMAIN list : ss[i] \in Seq(S)
    BY <2>1
  <2> QED BY <2>1, <2>2
<1>2. \A i \in DOMAIN list : ss[i] = IF list[i] \in set THEN <<list[i]>> ELSE <<>>
  OBVIOUS
<1>3. Where(list, set) = FlattenSeq(ss)
  BY DEF Where
<1> HIDE DEF ss
<1>4. ToSet(FlattenSeq(ss)) = ToSet(list) \cap set
  <2>1. ToSet(FlattenSeq(ss)) = UNION {ToSet(ss[i]) : i \in DOMAIN list}
    BY <1>1, Flattened
  <2>2. \A i \in DOMAIN list : ToSet(ss[i]) = IF list[i] \in set THEN {list[i]} ELSE {}
    <3>1. ToSet(<<>>) = {} /\ \A x : ToSet(<<x>>) = {x}
      BY DEF ToSet
    <3> QED BY <1>2, <3>1
  <2>3. ASSUME NEW x PROVE x \in ToSet(FlattenSeq(ss)) <=> x \in ToSet(list) \cap set
    <3>1. x \in ToSet(FlattenSeq(ss)) <=> \E i \in DOMAIN list : x \in ToSet(ss[i])
      BY <2>1
    <3>2. x \in ToSet(list) <=> \E i \in DOMAIN list : x = list[i]
      BY DEF ToSet
    <3> QED BY <2>2, <3>1, <3>2
  <2> QED BY <2>3
<1>5. ASSUME IsInjective(list) PROVE IsInjective(FlattenSeq(ss))
  <2>1. NoRepeats(ss)
    BY <1>1, <1>2, <1>5 DEF NoRepeats, IsInjective
  <2> QED BY <2>1, <1>1, Flattened
<1> QED BY <1>1, <1>3, <1>4, <1>5, Flattened

-----------------------------------------------------------------------------
(* The order of FlattenSeq. *)

\* The elements of a list are those of the first n lists in their order; at says where
\* each of them comes from.
InOrder(ss, n, list, at) ==
  /\ at \in [1 .. Len(list) -> Nat \X Nat]
  /\ \A i \in 1 .. Len(list) :
       /\ at[i][1] \in 1 .. n /\ at[i][2] \in DOMAIN ss[at[i][1]]
       /\ list[i] = ss[at[i][1]][at[i][2]]
  /\ \A i, j \in 1 .. Len(list) : i < j => Before(at[i], at[j])
  /\ \A c \in 1 .. n : \A k \in DOMAIN ss[c] : \E i \in 1 .. Len(list) : at[i] = <<c, k>>

LEMMA OneListMore ==
  ASSUME NEW S, NEW ss \in Seq(Seq(S)), NEW n \in Nat, n + 1 \in 1 .. Len(ss),
         NEW list \in Seq(S), NEW at, InOrder(ss, n, list, at)
  PROVE  \E longer : InOrder(ss, n + 1, list \o ss[n + 1], longer)
<1> DEFINE t == ss[n + 1]
           whole == list \o t
           longer == [i \in 1 .. Len(whole) |->
                        IF i <= Len(list) THEN at[i] ELSE <<n + 1, i - Len(list)>>]
<1>1. /\ t \in Seq(S) /\ Len(t) \in Nat /\ DOMAIN t = 1 .. Len(t) /\ Len(list) \in Nat
      /\ Len(whole) = Len(list) + Len(t)
      /\ \A i \in 1 .. Len(whole) :
           whole[i] = IF i <= Len(list) THEN list[i] ELSE t[i - Len(list)]
  OBVIOUS
<1>2. \A i \in 1 .. Len(whole) :
        longer[i] = IF i <= Len(list) THEN at[i] ELSE <<n + 1, i - Len(list)>>
  OBVIOUS
<1>3. longer \in [1 .. Len(whole) -> Nat \X Nat]
  <2>1. \A i \in 1 .. Len(whole) :
          (IF i <= Len(list) THEN at[i] ELSE <<n + 1, i - Len(list)>>) \in Nat \X Nat
    <3> SUFFICES ASSUME NEW i \in 1 .. Len(whole)
                 PROVE  (IF i <= Len(list) THEN at[i] ELSE <<n + 1, i - Len(list)>>) \in Nat \X Nat
      OBVIOUS
    <3>1. CASE i <= Len(list)
      <4>1. i \in 1 .. Len(list)
        BY <1>1, <3>1
      <4> QED BY <3>1, <4>1 DEF InOrder
    <3>2. CASE ~(i <= Len(list))
      <4>1. n + 1 \in Nat /\ i - Len(list) \in Nat
        BY <1>1, <3>2
      <4> QED BY <3>2, <4>1
    <3> QED BY <3>1, <3>2
  <2> QED BY <2>1
<1>4. ASSUME NEW i \in 1 .. Len(whole)
      PROVE  IF i <= Len(list)
               THEN i \in 1 .. Len(list) /\ longer[i] = at[i] /\ whole[i] = list[i]
               ELSE /\ i - Len(list) \in DOMAIN t /\ longer[i] = <<n + 1, i - Len(list)>>
                    /\ whole[i] = t[i - Len(list)]
  BY <1>1, <1>2
<1> HIDE DEF longer, whole
<1>5. ASSUME NEW i \in 1 .. Len(whole)
      PROVE  /\ longer[i][1] \in 1 .. n + 1 /\ longer[i][2] \in DOMAIN ss[longer[i][1]]
             /\ whole[i] = ss[longer[i][1]][longer[i][2]]
  <2>1. CASE i <= Len(list)
    <3>1. i \in 1 .. Len(list) /\ longer[i] = at[i] /\ whole[i] = list[i]
      BY <1>4, <2>1
    <3>2. /\ at[i][1] \in 1 .. n /\ at[i][2] \in DOMAIN ss[at[i][1]]
          /\ list[i] = ss[at[i][1]][at[i][2]]
      BY <3>1 DEF InOrder
    <3>3. at[i][1] \in 1 .. n + 1
      BY <3>2
    <3> QED BY <3>1, <3>2, <3>3
  <2>2. CASE ~(i <= Len(list))
    <3>1. /\ i - Len(list) \in DOMAIN t /\ longer[i] = <<n + 1, i - Len(list)>>
          /\ whole[i] = t[i - Len(list)]
      BY <1>4, <2>2
    <3>2. longer[i][1] = n + 1 /\ longer[i][2] = i - Len(list) /\ n + 1 \in 1 .. n + 1
      BY <3>1
    <3> QED BY <3>1, <3>2
  <2> QED BY <2>1, <2>2
<1>6. ASSUME NEW i \in 1 .. Len(whole), NEW j \in 1 .. Len(whole), i < j
      PROVE  Before(longer[i], longer[j])
  <2>1. CASE j <= Len(list)
    <3>1. i <= Len(list)
      BY <1>1, <1>6, <2>1
    <3> QED BY <1>4, <1>6, <2>1, <3>1 DEF InOrder
  <2>2. CASE ~(j <= Len(list)) /\ i <= Len(list)
    <3>1. at[i][1] \in 1 .. n /\ longer[i] = at[i] /\ longer[j] = <<n + 1, j - Len(list)>>
      BY <1>4, <2>2 DEF InOrder
    <3>2. longer[i][1] < longer[j][1]
      BY <3>1
    <3> QED BY <3>2 DEF Before
  <2>3. CASE ~(j <= Len(list)) /\ ~(i <= Len(list))
    <3>1. longer[i] = <<n + 1, i - Len(list)>> /\ longer[j] = <<n + 1, j - Len(list)>>
      BY <1>4, <2>3
    <3>2. i - Len(list) < j - Len(list)
      BY <1>1, <1>6
    <3> QED BY <3>1, <3>2 DEF Before
  <2> QED BY <2>1, <2>2, <2>3
<1>7. ASSUME NEW c \in 1 .. n + 1, NEW k \in DOMAIN ss[c]
      PROVE  \E i \in 1 .. Len(whole) : longer[i] = <<c, k>>
  <2>1. CASE c \in 1 .. n
    <3>1. PICK i \in 1 .. Len(list) : at[i] = <<c, k>>
      BY <2>1 DEF InOrder
    <3>2. i \in 1 .. Len(whole) /\ i <= Len(list)
      BY <1>1
    <3> QED BY <1>4, <3>1, <3>2
  <2>2. CASE c = n + 1
    <3>1. k \in 1 .. Len(t) /\ k + Len(list) \in 1 .. Len(whole)
          /\ ~(k + Len(list) <= Len(list)) /\ k + Len(list) - Len(list) = k
      BY <1>1, <2>2
    <3>2. PICK i \in 1 .. Len(whole) : ~(i <= Len(list)) /\ i - Len(list) = k
      BY <3>1
    <3>3. longer[i] = <<n + 1, i - Len(list)>>
      BY <1>4, <3>2
    <3> QED BY <2>2, <3>2, <3>3
  <2> QED BY <2>1, <2>2
<1>8. InOrder(ss, n + 1, whole, longer)
  <2> HIDE DEF t
  <2> QED BY <1>3, <1>5, <1>6, <1>7, Zenon DEF InOrder
<1> QED BY <1>8 DEF whole

LEMMA FlattenedInOrder ==
  ASSUME NEW S, NEW ss \in Seq(Seq(S))
  PROVE  \E at : InOrder(ss, Len(ss), FlattenSeq(ss), at)
<1> DEFINE g == Flatten(ss)
           Good == {k \in 0 .. Len(ss) :
                      k # 0 => g[k] \in Seq(S) /\ \E at : InOrder(ss, k, g[k], at)}
<1>0. Len(ss) \in Nat /\ DOMAIN ss = 1 .. Len(ss) /\ \A c \in 1 .. Len(ss) : ss[c] \in Seq(S)
  OBVIOUS
<1>1. InOrder(ss, 0, <<>>, <<>>)
  BY DEF InOrder
<1>2. CASE Len(ss) = 0
  <2>1. FlattenSeq(ss) = ss /\ ss = <<>>
    BY <1>0, <1>2 DEF FlattenSeq
  <2> QED BY <1>1, <1>2, <2>1
<1>3. CASE Len(ss) # 0
  <2>1. \A k \in 1 .. Len(ss) : g[k] = IF k = 1 THEN ss[k] ELSE g[k - 1] \o ss[k]
    <3>1. g = [k \in 1 .. Len(ss) |-> IF k = 1 THEN ss[k] ELSE g[k - 1] \o ss[k]]
      BY FlattenDefined, Zenon
    <3> HIDE DEF g
    <3> QED BY <3>1
  <2>2. FlattenSeq(ss) = g[Len(ss)]
    BY <1>3, Zenon DEF FlattenSeq, Flatten
  <2> HIDE DEF g
  <2>3. 0 \in Good
    BY <1>0
  <2>4. ASSUME NEW k \in 0 .. Len(ss) - 1, k \in Good
        PROVE  k + 1 \in Good
    <3>0. k \in Nat /\ k + 1 \in 1 .. Len(ss) /\ k + 1 - 1 = k /\ k + 1 \in 0 .. Len(ss)
      BY <1>0
    <3>1. CASE k = 0
      <4>1. g[1] = ss[1] /\ ss[1] \in Seq(S) /\ 1 \in 1 .. Len(ss)
        BY <1>0, <2>1, <3>0, <3>1
      <4>2. <<>> \in Seq(S) /\ <<>> \o ss[1] = ss[1]
        BY <4>1
      <4>3. \E at : InOrder(ss, 0 + 1, <<>> \o ss[0 + 1], at)
        BY <1>1, <3>0, <3>1, <4>2, OneListMore
      <4>4. 0 + 1 = 1
        OBVIOUS
      <4>5. \E at : InOrder(ss, 1, g[1], at)
        BY <4>1, <4>2, <4>3, <4>4
      <4> QED BY <3>0, <3>1, <4>1, <4>5
    <3>2. CASE k # 0
      <4>1. PICK at : g[k] \in Seq(S) /\ InOrder(ss, k, g[k], at)
        BY <2>4, <3>2
      <4>2. g[k + 1] = g[k] \o ss[k + 1] /\ ss[k + 1] \in Seq(S)
        <5>1. k + 1 # 1
          BY <3>0, <3>2
        <5>2. g[k + 1] = IF k + 1 = 1 THEN ss[k + 1] ELSE g[k + 1 - 1] \o ss[k + 1]
          BY <2>1, <3>0
        <5> QED BY <1>0, <3>0, <5>1, <5>2
      <4>3. \E longer : InOrder(ss, k + 1, g[k + 1], longer)
        BY <3>0, <4>1, <4>2, OneListMore
      <4>4. g[k + 1] \in Seq(S)
        BY <4>1, <4>2
      <4> QED BY <3>0, <4>3, <4>4
    <3> QED BY <3>1, <3>2
  <2>5. 0 .. Len(ss) \subseteq Good
    <3> HIDE DEF Good
    <3> QED BY <2>3, <2>4, <1>0, UpTo, Zenon
  <2>6. \E at : InOrder(ss, Len(ss), g[Len(ss)], at)
    BY <2>5, <1>0, <1>3
  <2> QED BY <2>2, <2>6
<1> QED BY <1>2, <1>3

-----------------------------------------------------------------------------
(* The rows of a file. *)

\* Where keeps an ascending list ascending.
LEMMA FilteredAscends ==
  ASSUME NEW list \in Seq(Nat), \A i, j \in DOMAIN list : i < j => list[i] < list[j], NEW set
  PROVE  \A i, j \in DOMAIN Where(list, set) : i < j => Where(list, set)[i] < Where(list, set)[j]
<1> DEFINE ss == [i \in DOMAIN list |-> IF list[i] \in set THEN <<list[i]>> ELSE <<>>]
           kept == Where(list, set)
<1>1. ss \in Seq(Seq(Nat)) /\ DOMAIN ss = DOMAIN list /\ Len(ss) = Len(list)
  <2>1. DOMAIN list = 1 .. Len(list) /\ Len(list) \in Nat /\ \A i \in DOMAIN list : list[i] \in Nat
    OBVIOUS
  <2>2. \A i \in DOMAIN list : ss[i] \in Seq(Nat)
    BY <2>1
  <2> QED BY <2>1, <2>2
<1>2. \A c \in DOMAIN list : \A k \in DOMAIN ss[c] : k = 1 /\ ss[c][k] = list[c]
  OBVIOUS
<1>3. kept = FlattenSeq(ss)
  BY DEF Where
<1>4. kept \in Seq(Nat)
  BY Filtered
<1> HIDE DEF ss, kept
<1>5. PICK at : InOrder(ss, Len(ss), kept, at)
  BY <1>1, <1>3, FlattenedInOrder
<1>6. DOMAIN kept = 1 .. Len(kept) /\ DOMAIN list = 1 .. Len(ss)
  BY <1>1, <1>4
<1>7. ASSUME NEW i \in DOMAIN kept
      PROVE  at[i][1] \in DOMAIN list /\ at[i][2] = 1 /\ kept[i] = list[at[i][1]]
  BY <1>2, <1>5, <1>6 DEF InOrder
<1>8. ASSUME NEW i \in DOMAIN kept, NEW j \in DOMAIN kept, i < j PROVE kept[i] < kept[j]
  <2>1. Before(at[i], at[j])
    BY <1>5, <1>6, <1>8 DEF InOrder
  <2>2. at[i][1] < at[j][1]
    BY <1>7, <2>1 DEF Before
  <2> QED BY <1>7, <2>2
<1> QED BY <1>8 DEF kept

TasksIn(r) == IF DOMAIN r.tasks = {} THEN <<1>> ELSE Where(<<1, 2, 3>>, DOMAIN r.tasks)

\* The tasks of a lesson are those of its columns, from left to right.
LEMMA TasksAscend ==
  ASSUME NEW r
  PROVE  /\ TasksIn(r) \in Seq(1 .. 3)
         /\ ToSet(TasksIn(r)) =
              {k \in 1 .. 3 : k \in IF DOMAIN r.tasks # {} THEN DOMAIN r.tasks ELSE {1}}
         /\ \A i, j \in DOMAIN TasksIn(r) : i < j => TasksIn(r)[i] < TasksIn(r)[j]
<1>1. <<1, 2, 3>> \in Seq(1 .. 3) /\ <<1>> \in Seq(1 .. 3) /\ <<1, 2, 3>> \in Seq(Nat)
  OBVIOUS
<1>2. ToSet(<<1>>) = {1} /\ ToSet(<<1, 2, 3>>) = 1 .. 3
  BY DEF ToSet
<1>3. \A i, j \in DOMAIN <<1, 2, 3>> : i < j => <<1, 2, 3>>[i] < <<1, 2, 3>>[j]
  OBVIOUS
<1>4. CASE DOMAIN r.tasks = {}
  BY <1>1, <1>2, <1>4 DEF TasksIn
<1>5. CASE DOMAIN r.tasks # {}
  <2>1. TasksIn(r) = Where(<<1, 2, 3>>, DOMAIN r.tasks)
    BY <1>5 DEF TasksIn
  <2>2. TasksIn(r) \in Seq(1 .. 3) /\ ToSet(TasksIn(r)) = (1 .. 3) \cap DOMAIN r.tasks
    <3> DEFINE list == <<1, 2, 3>>
    <3>1. list \in Seq(1 .. 3) /\ ToSet(list) = 1 .. 3
      BY <1>1, <1>2
    <3> HIDE DEF list
    <3>2. /\ Where(list, DOMAIN r.tasks) \in Seq(1 .. 3)
          /\ ToSet(Where(list, DOMAIN r.tasks)) = ToSet(list) \cap DOMAIN r.tasks
      BY <3>1, Filtered
    <3> QED BY <2>1, <3>1, <3>2 DEF list
  <2>3. \A i, j \in DOMAIN TasksIn(r) : i < j => TasksIn(r)[i] < TasksIn(r)[j]
    BY <1>1, <1>3, <2>1, FilteredAscends
  <2> QED BY <1>5, <2>2, <2>3
<1> QED BY <1>4, <1>5

LEMMA TransformedIsList ==
  ASSUME NEW r
  PROVE  /\ DOMAIN TransformSpeakxRow(r) = DOMAIN TasksIn(r)
         /\ \E S : TransformSpeakxRow(r) \in Seq(S)
<1>1. DOMAIN TransformSpeakxRow(r) = DOMAIN TasksIn(r)
      /\ TransformSpeakxRow(r) = [i \in DOMAIN TasksIn(r) |-> TransformSpeakxRow(r)[i]]
  BY DEF TransformSpeakxRow, TasksIn
<1>2. Len(TasksIn(r)) \in Nat /\ DOMAIN TasksIn(r) = 1 .. Len(TasksIn(r))
  BY TasksAscend
<1>3. TransformSpeakxRow(r) \in Seq({TransformSpeakxRow(r)[i] : i \in 1 .. Len(TasksIn(r))})
  BY <1>1, <1>2
<1> QED BY <1>1, <1>3

LEMMA LinesAreLists ==
  ASSUME NEW f, IsSequence(f.rows)
  PROVE  \E S : [i \in DOMAIN f.rows |-> TransformSpeakxRow(f.rows[i])] \in Seq(Seq(S))
<1> DEFINE ss == [i \in DOMAIN f.rows |-> TransformSpeakxRow(f.rows[i])]
           S == UNION {ToSet(ss[i]) : i \in DOMAIN f.rows}
<1>1. ASSUME NEW i \in DOMAIN f.rows PROVE ss[i] \in Seq(S)
  <2>1. PICK T : ss[i] \in Seq(T)
    BY TransformedIsList
  <2>2. ToSet(ss[i]) \subseteq S
    OBVIOUS
  <2> HIDE DEF ss, S
  <2> QED BY <2>1, <2>2 DEF ToSet
<1>2. ss \in Seq(Seq(S))
  <2>1. DOMAIN f.rows = 1 .. Len(f.rows) /\ Len(f.rows) \in Nat
    BY DEF IsSequence
  <2>2. ss = [i \in 1 .. Len(f.rows) |-> ss[i]]
    BY <2>1
  <2> HIDE DEF ss, S
  <2> QED BY <1>1, <2>1, <2>2
<1> QED BY <1>2

LEMMA ParsedIsList ==
  ASSUME NEW f, IsSequence(f.rows)
  PROVE  IsSequence(ParseJourneyCsv(f))
<1>1. CASE f.format = "speakx"
  <2> DEFINE ss == [i \in DOMAIN f.rows |-> TransformSpeakxRow(f.rows[i])]
  <2>1. PICK S : ss \in Seq(Seq(S))
    BY LinesAreLists
  <2>2. ParseJourneyCsv(f) = FlattenSeq(ss)
    BY <1>1 DEF ParseJourneyCsv
  <2> HIDE DEF ss
  <2>3. FlattenSeq(ss) \in Seq(S)
    BY <2>1, Flattened
  <2> QED BY <2>2, <2>3 DEF IsSequence
<1>2. CASE f.format # "speakx"
  BY <1>2 DEF ParseJourneyCsv
<1> QED BY <1>1, <1>2

\* The rows that are parsed are the places of the file in their order.
PlacesOf(f, rows, at) ==
  /\ at \in [DOMAIN rows -> Places(f)]
  /\ \A i, j \in DOMAIN rows : i < j => Before(at[i], at[j])
  /\ \A p \in Places(f) : \E i \in DOMAIN rows : at[i] = p
  /\ \A i \in DOMAIN rows :
       Key(rows[i]) = NumbersAt(f, at[i]) /\ rows[i].names = NamesAt(f, at[i])

LEMMA RowsHavePlaces ==
  ASSUME NEW f, IsSequence(f.rows)
  PROVE  \E at : PlacesOf(f, ParseJourneyCsv(f), at)
<1>0. DOMAIN f.rows = 1 .. Len(f.rows) /\ Len(f.rows) \in Nat
  BY DEF IsSequence
<1>1. CASE f.format # "speakx"
  <2> DEFINE at == [i \in DOMAIN f.rows |-> <<i, 1>>]
  <2>1. ParseJourneyCsv(f) = f.rows
    BY <1>1 DEF ParseJourneyCsv
  <2>2. Places(f) = {<<i, 1>> : i \in DOMAIN f.rows}
    BY <1>1 DEF Places, Columns
  <2>3. \A i \in DOMAIN f.rows : at[i][1] = i /\ at[i][2] = 1
    OBVIOUS
  <2>4. \A i, j \in DOMAIN f.rows : i < j => Before(at[i], at[j])
    BY <2>3 DEF Before
  <2>5. \A i \in DOMAIN f.rows :
          Key(f.rows[i]) = NumbersAt(f, at[i]) /\ f.rows[i].names = NamesAt(f, at[i])
    BY <1>1, <2>3 DEF Key, NumbersAt, NamesAt
  <2>6. PlacesOf(f, f.rows, at)
    BY <2>2, <2>4, <2>5 DEF PlacesOf
  <2> QED BY <2>1, <2>6
<1>2. CASE f.format = "speakx"
  <2> DEFINE ss == [i \in DOMAIN f.rows |-> TransformSpeakxRow(f.rows[i])]
             rows == FlattenSeq(ss)
  <2>1. PICK S : ss \in Seq(Seq(S))
    BY LinesAreLists
  <2>2. ParseJourneyCsv(f) = rows
    BY <1>2 DEF ParseJourneyCsv
  <2>3. DOMAIN ss = DOMAIN f.rows /\ \A c \in DOMAIN f.rows : ss[c] = TransformSpeakxRow(f.rows[c])
    OBVIOUS
  <2> HIDE DEF ss
  <2>4. rows \in Seq(S)
    BY <2>1, Flattened
  <2>5. PICK from : InOrder(ss, Len(ss), rows, from)
    BY <2>1, FlattenedInOrder
  <2> HIDE DEF rows
  <2>6. DOMAIN rows = 1 .. Len(rows) /\ DOMAIN f.rows = 1 .. Len(ss)
    BY <2>1, <2>3, <2>4
  <2> DEFINE at == [i \in DOMAIN rows |-> <<from[i][1], TasksIn(f.rows[from[i][1]])[from[i][2]]>>]
  <2>7. ASSUME NEW i \in DOMAIN rows
        PROVE  /\ from[i][1] \in DOMAIN f.rows
               /\ from[i][2] \in DOMAIN TasksIn(f.rows[from[i][1]])
               /\ rows[i] = TransformSpeakxRow(f.rows[from[i][1]])[from[i][2]]
               /\ at[i][1] = from[i][1]
               /\ at[i][2] = TasksIn(f.rows[from[i][1]])[from[i][2]]
               /\ at[i] = <<at[i][1], at[i][2]>>
    <3>1. /\ from[i][1] \in DOMAIN f.rows
          /\ from[i][2] \in DOMAIN ss[from[i][1]]
          /\ rows[i] = ss[from[i][1]][from[i][2]]
      BY <2>5, <2>6 DEF InOrder
    <3> QED BY <2>3, <3>1, TransformedIsList
  <2>8. at \in [DOMAIN rows -> Places(f)]
    <3>1. ASSUME NEW i \in DOMAIN rows PROVE at[i] \in Places(f)
      <4>1. at[i][2] \in ToSet(TasksIn(f.rows[at[i][1]]))
        BY <2>7 DEF ToSet
      <4>2. at[i][2] \in 1 .. 3 /\ at[i][2] \in Columns(f, at[i][1])
        BY <1>2, <4>1, TasksAscend DEF Columns
      <4>3. at[i][1] \in DOMAIN f.rows /\ at[i] = <<at[i][1], at[i][2]>>
        BY <2>7
      <4> HIDE DEF at
      <4>4. at[i] \in (DOMAIN f.rows) \X (1 .. 3)
        BY <4>2, <4>3
      <4> QED BY <4>2, <4>4 DEF Places
    <3> QED BY <3>1
  <2> HIDE DEF at
  <2>9. ASSUME NEW i \in DOMAIN rows, NEW j \in DOMAIN rows, i < j
        PROVE  Before(at[i], at[j])
    <3>1. Before(from[i], from[j])
      BY <2>5, <2>6, <2>9 DEF InOrder
    <3>2. CASE from[i][1] < from[j][1]
      BY <2>7, <3>2 DEF Before
    <3>3. CASE from[i][1] = from[j][1] /\ from[i][2] < from[j][2]
      <4>1. TasksIn(f.rows[from[i][1]])[from[i][2]] < TasksIn(f.rows[from[i][1]])[from[j][2]]
        BY <2>7, <3>3, TasksAscend
      <4> QED BY <2>7, <3>3, <4>1 DEF Before
    <3> QED BY <3>1, <3>2, <3>3 DEF Before
  <2>10. ASSUME NEW p \in Places(f) PROVE \E i \in DOMAIN rows : at[i] = p
    <3>1. p[1] \in DOMAIN f.rows /\ p = <<p[1], p[2]>>
          /\ p[2] \in 1 .. 3 /\ p[2] \in Columns(f, p[1])
      BY DEF Places
    <3>2. p[2] \in ToSet(TasksIn(f.rows[p[1]]))
      BY <1>2, <3>1, TasksAscend DEF Columns
    <3>3. PICK m \in DOMAIN TasksIn(f.rows[p[1]]) : TasksIn(f.rows[p[1]])[m] = p[2]
      BY <3>2 DEF ToSet
    <3>4. m \in DOMAIN ss[p[1]]
      BY <2>3, <3>1, <3>3, TransformedIsList
    <3>5. PICK i \in DOMAIN rows : from[i] = <<p[1], m>>
      BY <2>5, <2>6, <3>1, <3>4 DEF InOrder
    <3>6. at[i] = <<p[1], p[2]>>
      BY <2>7, <3>3, <3>5
    <3> QED BY <3>1, <3>6
  <2>11. ASSUME NEW i \in DOMAIN rows
         PROVE  Key(rows[i]) = NumbersAt(f, at[i]) /\ rows[i].names = NamesAt(f, at[i])
    <3> DEFINE r == f.rows[at[i][1]]
               told == <<r.chapterName, r.questName, r.title, r.title,
                         IF DOMAIN r.tasks = {} THEN r.title ELSE r.tasks[at[i][2]]>>
    <3>1. rows[i] =
            [ chapter  |-> ExtractNumberFromCode(r.chapter),
              quest    |-> ExtractNumberFromCode(r.quest),
              activity |-> ExtractNumberFromCode(r.activity),
              lesson   |-> ExtractNumberFromCode(r.lesson),
              task     |-> at[i][2],
              names    |-> told ]
      BY <2>7 DEF TransformSpeakxRow, TasksIn
    <3>2. /\ rows[i].chapter = ExtractNumberFromCode(r.chapter)
          /\ rows[i].quest = ExtractNumberFromCode(r.quest)
          /\ rows[i].activity = ExtractNumberFromCode(r.activity)
          /\ rows[i].lesson = ExtractNumberFromCode(r.lesson)
          /\ rows[i].task = at[i][2]
      BY <3>1
    <3>3. rows[i].names = told
      <4> HIDE DEF told
      <4> QED BY <3>1
    <3>4. Key(rows[i]) = NumbersAt(f, at[i])
      BY <1>2, <3>2 DEF Key, NumbersAt
    <3>5. rows[i].names = NamesAt(f, at[i])
      BY <1>2, <3>3 DEF NamesAt
    <3> QED BY <3>4, <3>5
  <2>12. PlacesOf(f, rows, at)
    BY <2>8, <2>9, <2>10, <2>11 DEF PlacesOf
  <2> QED BY <2>2, <2>12
<1> QED BY <1>1, <1>2

\* A row is the first on the way to a node if its place is the first to tell of it.
LEMMA FirstRowFirstPlace ==
  ASSUME NEW f, IsSequence(f.rows), NEW rows, IsSequence(rows),
         NEW at, PlacesOf(f, rows, at), NEW k \in DOMAIN rows, NEW level
  PROVE  /\ ToldAt(f, at[k], level) = NodeOf(rows[k], level)
         /\ IsFirst(f, at[k], level) <=>
              \A i \in 1 .. k - 1 : PathOf(rows[i], level) # PathOf(rows[k], level)
<1>0. DOMAIN rows = 1 .. Len(rows) /\ Len(rows) \in Nat /\ DOMAIN f.rows \subseteq Nat
  BY DEF IsSequence
<1>1. \A i \in DOMAIN rows :
        /\ ToldAt(f, at[i], level) = NodeOf(rows[i], level)
        /\ ToldAt(f, at[i], level).path = PathOf(rows[i], level)
  BY DEF PlacesOf, ToldAt, NodeOf, PathOf
<1>2. \A p, q \in Places(f) : ~(Before(p, q) /\ Before(q, p))
  <2>1. \A p \in Places(f) : p[1] \in Nat /\ p[2] \in Nat
    BY <1>0 DEF Places
  <2> QED BY <2>1 DEF Before
<1>3. \A i \in DOMAIN rows : at[i] \in Places(f)
  BY DEF PlacesOf
<1>4. \A i \in DOMAIN rows : Before(at[i], at[k]) <=> i < k
  <2>1. \A i, j \in DOMAIN rows : i < j => Before(at[i], at[j])
    BY DEF PlacesOf
  <2>2. \A i \in DOMAIN rows : i < k \/ i = k \/ k < i
    BY <1>0
  <2> QED BY <1>2, <1>3, <2>1, <2>2
<1>5. ASSUME IsFirst(f, at[k], level), NEW i \in 1 .. k - 1
      PROVE  PathOf(rows[i], level) # PathOf(rows[k], level)
  <2>1. i \in DOMAIN rows /\ i < k
    BY <1>0
  <2> QED BY <1>1, <1>3, <1>4, <1>5, <2>1 DEF IsFirst
<1>6. ASSUME \A i \in 1 .. k - 1 : PathOf(rows[i], level) # PathOf(rows[k], level),
             NEW q \in Places(f), Before(q, at[k])
      PROVE  ToldAt(f, q, level).path # ToldAt(f, at[k], level).path
  <2>1. PICK i \in DOMAIN rows : at[i] = q
    BY DEF PlacesOf
  <2>2. i \in 1 .. k - 1
    BY <1>0, <1>4, <1>6, <2>1
  <2> QED BY <1>1, <1>6, <2>1, <2>2
<1> QED BY <1>1, <1>5, <1>6 DEF IsFirst

-----------------------------------------------------------------------------
(* The tree. *)

EmptyTree == [seen |-> {}, nodes |-> <<>>]

\* The function that BuildJourneyHierarchy is defined by.
Trees(rows) ==
  CHOOSE tree : tree = [n \in 0 .. Len(rows) |->
    IF n = 0 THEN [seen |-> {}, nodes |-> <<>>] ELSE InsertRow(tree[n - 1], rows[n])]

LEMMA TreesDefined ==
  ASSUME NEW rows, Len(rows) \in Nat
  PROVE  Trees(rows) = [n \in 0 .. Len(rows) |->
           IF n = 0 THEN [seen |-> {}, nodes |-> <<>>] ELSE InsertRow(Trees(rows)[n - 1], rows[n])]
<1> DEFINE Body(g, n) ==
             IF n = 0 THEN [seen |-> {}, nodes |-> <<>>] ELSE InsertRow(g[n - 1], rows[n])
           UpToHere(k) == \E g : g = [n \in 0 .. k |-> Body(g, n)]
           Good == {k \in 0 .. Len(rows) : UpToHere(k)}
<1>1. UpToHere(0)
  <2> DEFINE g == [n \in 0 .. 0 |-> EmptyTree]
  <2>1. \A n \in 0 .. 0 : g[n] = Body(g, n)
    BY DEF EmptyTree
  <2>2. g = [n \in 0 .. 0 |-> Body(g, n)]
    BY <2>1
  <2> HIDE DEF g
  <2> QED BY <2>2
<1>2. ASSUME NEW k \in 0 .. Len(rows) - 1, UpToHere(k)
      PROVE  UpToHere(k + 1)
  <2>1. PICK g : g = [n \in 0 .. k |-> Body(g, n)]
    BY <1>2
  <2>2. \A n \in 0 .. k : g[n] = Body(g, n)
    BY <2>1
  <2> DEFINE h == [n \in 0 .. k + 1 |-> IF n = k + 1 THEN Body(g, k + 1) ELSE g[n]]
  <2>3. ASSUME NEW n \in 0 .. k + 1 PROVE h[n] = Body(h, n)
    <3>1. CASE n = 0
      BY <2>2, <3>1
    <3>2. ASSUME n # 0 PROVE h[n] = Body(h, n)
      <4>1. n - 1 \in 0 .. k /\ h[n - 1] = g[n - 1]
        BY <3>2
      <4>2. h[n] = Body(g, n)
        BY <2>2
      <4> HIDE DEF h
      <4> QED BY <4>1, <4>2, <3>2
    <3> QED BY <3>1, <3>2
  <2>4. h = [n \in 0 .. k + 1 |-> Body(h, n)]
    BY <2>3
  <2> HIDE DEF h
  <2> QED BY <2>4
<1> HIDE DEF UpToHere
<1>3. UpToHere(Len(rows))
  <2>1. 0 \in Good /\ \A k \in 0 .. Len(rows) - 1 : k \in Good => k + 1 \in Good
    BY <1>1, <1>2
  <2> HIDE DEF Good
  <2>2. 0 .. Len(rows) \subseteq Good
    BY <2>1, UpTo, Zenon
  <2> QED BY <2>2 DEF Good
<1>4. \E g : g = [n \in 0 .. Len(rows) |-> Body(g, n)]
  BY <1>3 DEF UpToHere
<1> QED BY <1>4, Zenon DEF Trees

Levels == 1 .. 5

NodesOf(rows) == {NodeOf(rows[k], level) : k \in DOMAIN rows, level \in Levels}

Paths(nodes) == {nodes[i].path : i \in DOMAIN nodes}

\* No two nodes are at the same place.
PathsDiffer(nodes) == \A i, k \in DOMAIN nodes : nodes[i].path = nodes[k].path => i = k

LEMMA PathFacts ==
  ASSUME NEW r
  PROVE  /\ \A level \in Levels : Len(PathOf(r, level)) = level
         /\ \A level \in Levels : PathOf(r, level)[1] = r.chapter
         /\ PathOf(r, 1) = <<r.chapter>>
         /\ PathOf(r, 5) = Key(r)
<1> DEFINE V == {r.chapter, r.quest, r.activity, r.lesson, r.task}
<1>1. Key(r) \in Seq(V) /\ Len(Key(r)) = 5 /\ Key(r)[1] = r.chapter
  BY DEF Key
<1>2. ASSUME NEW level \in Levels
      PROVE  /\ PathOf(r, level) \in Seq(V)
             /\ Len(PathOf(r, level)) = level
             /\ \A i \in 1 .. level : PathOf(r, level)[i] = Key(r)[i]
  BY <1>1 DEF PathOf, Levels
<1>3. PathOf(r, 1) = <<r.chapter>>
  BY <1>1, <1>2 DEF Levels
<1>4. PathOf(r, 5) = Key(r)
  <2>1. PathOf(r, 5) \in Seq(V) /\ Len(PathOf(r, 5)) = 5
        /\ \A i \in 1 .. 5 : PathOf(r, 5)[i] = Key(r)[i]
    BY <1>2 DEF Levels
  <2> QED BY <1>1, <2>1, SeqEqual
<1> QED BY <1>1, <1>2, <1>3, <1>4 DEF Levels

\* What the levels up to one of a row add to the nodes: each of them is there
\* afterwards, and what is new was not there before.
Extends(S, nodes, after, r, deepest) ==
  /\ after \in Seq(S)
  /\ PathsDiffer(after)
  /\ ToSet(nodes) \subseteq ToSet(after)
  /\ \A x \in ToSet(after) \ ToSet(nodes) : \E level \in 1 .. deepest :
       x = NodeOf(r, level) /\ PathOf(r, level) \notin Paths(nodes)
  /\ \A level \in 1 .. deepest : PathOf(r, level) \in Paths(after)

LEMMA OneLevelMore ==
  ASSUME NEW S, NEW nodes, NEW r, NEW level \in Levels, NodeOf(r, level) \in S,
         NEW before, Extends(S, nodes, before, r, level - 1)
  PROVE  Extends(S, nodes, GetOrCreate(before, r, level), r, level)
<1> DEFINE new == NodeOf(r, level)
           after == GetOrCreate(before, r, level)
<1>1. new.path = PathOf(r, level)
  BY DEF NodeOf
<1>2. level \in Nat /\ 1 .. level = (1 .. level - 1) \cup {level}
  BY DEF Levels
<1>3. /\ before \in Seq(S) /\ Len(before) \in Nat /\ DOMAIN before = 1 .. Len(before)
      /\ PathsDiffer(before)
  BY DEF Extends
<1>4. Paths(nodes) \subseteq Paths(before)
  <2>1. \A list : Paths(list) = {x.path : x \in ToSet(list)}
    BY DEF Paths, ToSet
  <2> QED BY <2>1 DEF Extends
<1>5. CASE PathOf(r, level) \in Paths(before)
  <2>1. after = before
    BY <1>5 DEF GetOrCreate, Paths
  <2> QED BY <2>1, <1>2, <1>5 DEF Extends
<1>6. CASE PathOf(r, level) \notin Paths(before)
  <2>1. after = Append(before, new)
    BY <1>6 DEF GetOrCreate, Paths
  <2>2. /\ after \in Seq(S) /\ Len(after) = Len(before) + 1
        /\ DOMAIN after = 1 .. Len(before) + 1
        /\ \A i \in 1 .. Len(before) : after[i] = before[i]
        /\ after[Len(before) + 1] = new
    BY <2>1, <1>3
  <2> HIDE DEF new, after
  <2>3. ToSet(after) = ToSet(before) \cup {new} /\ Paths(after) = Paths(before) \cup {new.path}
    <3>1. DOMAIN after = DOMAIN before \cup {Len(before) + 1}
      BY <1>3, <2>2
    <3> QED BY <1>3, <2>2, <3>1 DEF ToSet, Paths
  <2>4. PathsDiffer(after)
    <3>1. \A i \in DOMAIN before : before[i].path # new.path
      BY <1>1, <1>6 DEF Paths
    <3> QED BY <1>3, <2>2, <3>1 DEF PathsDiffer
  <2>5. \A x \in ToSet(after) \ ToSet(nodes) : \E l \in 1 .. level :
          x = NodeOf(r, l) /\ PathOf(r, l) \notin Paths(nodes)
    BY <1>2, <1>4, <1>6, <2>3 DEF Extends, new
  <2>6. \A l \in 1 .. level : PathOf(r, l) \in Paths(after)
    BY <1>1, <1>2, <2>3 DEF Extends
  <2> QED BY <2>2, <2>3, <2>4, <2>5, <2>6 DEF Extends, after
<1> QED BY <1>5, <1>6

\* The nodes were created by the rows so far, each by the first row on whose way it
\* lies, and the tasks are those of the keys seen.
TreeOf(tree, rows, n) ==
  /\ tree.nodes \in Seq(NodesOf(rows))
  /\ PathsDiffer(tree.nodes)
  /\ tree.seen = {Key(rows[k]) : k \in 1 .. n}
  /\ \A x \in ToSet(tree.nodes) : Len(x.path) = 5 => x.path \in tree.seen
  /\ \A x \in ToSet(tree.nodes) : \E k \in 1 .. n :
       /\ Len(x.path) \in Levels
       /\ x = NodeOf(rows[k], Len(x.path))
       /\ \A i \in 1 .. k - 1 : PathOf(rows[i], Len(x.path)) # x.path
  /\ \A k \in 1 .. n, level \in Levels : PathOf(rows[k], level) \in Paths(tree.nodes)

LEMMA InsertRowKeeps ==
  ASSUME NEW rows, IsSequence(rows), NEW n \in 0 .. Len(rows) - 1,
         NEW tree, TreeOf(tree, rows, n)
  PROVE  TreeOf(InsertRow(tree, rows[n + 1]), rows, n + 1)
<1> DEFINE r == rows[n + 1]
           S == NodesOf(rows)
           after == InsertRow(tree, r)
<1>0. /\ n \in Nat /\ n + 1 \in DOMAIN rows /\ 1 .. n + 1 = (1 .. n) \cup {n + 1}
      /\ 1 .. n \subseteq DOMAIN rows
  BY DEF IsSequence
<1>1. CASE Key(r) \in tree.seen
  <2>1. after = tree
    BY <1>1 DEF InsertRow
  <2>2. PICK k \in 1 .. n : Key(rows[k]) = Key(r)
    BY <1>1 DEF TreeOf
  <2>3. \A level \in Levels : PathOf(r, level) = PathOf(rows[k], level)
    BY <2>2 DEF PathOf
  <2>4. tree.seen = {Key(rows[i]) : i \in 1 .. n + 1}
    BY <1>0, <2>2 DEF TreeOf
  <2>5. \A i \in 1 .. n + 1, level \in Levels : PathOf(rows[i], level) \in Paths(tree.nodes)
    BY <1>0, <2>3 DEF TreeOf
  <2> QED BY <1>0, <2>1, <2>4, <2>5 DEF TreeOf
<1>2. CASE Key(r) \notin tree.seen
  <2> DEFINE nodes == tree.nodes
             way == WayTo(nodes, r)
  <2>1. after = [seen |-> tree.seen \cup {Key(r)}, nodes |-> Append(way, NodeOf(r, 5))]
    BY <1>2 DEF InsertRow, AddTask
  <2>2. \A level \in Levels : NodeOf(r, level) \in S
    BY <1>0 DEF NodesOf
  <2>3. Extends(S, nodes, nodes, r, 0)
    BY DEF TreeOf, Extends
  <2>4. Extends(S, nodes, way, r, 4)
    <3> DEFINE chapter  == GetOrCreate(nodes, r, 1)
               quest    == GetOrCreate(chapter, r, 2)
               activity == GetOrCreate(quest, r, 3)
               lesson   == GetOrCreate(activity, r, 4)
    <3>0. 1 \in Levels /\ 2 \in Levels /\ 3 \in Levels /\ 4 \in Levels
          /\ 1 - 1 = 0 /\ 2 - 1 = 1 /\ 3 - 1 = 2 /\ 4 - 1 = 3
      BY DEF Levels
    <3>5. way = lesson
      BY DEF WayTo
    <3> HIDE DEF nodes, r, S, way
    <3>1. Extends(S, nodes, chapter, r, 1)
      BY <2>2, <2>3, <3>0, OneLevelMore
    <3> HIDE DEF chapter
    <3>2. Extends(S, nodes, quest, r, 2)
      BY <2>2, <3>0, <3>1, OneLevelMore
    <3> HIDE DEF quest
    <3>3. Extends(S, nodes, activity, r, 3)
      BY <2>2, <3>0, <3>2, OneLevelMore
    <3> HIDE DEF activity
    <3>4. Extends(S, nodes, lesson, r, 4)
      BY <2>2, <3>0, <3>3, OneLevelMore
    <3> QED BY <3>4, <3>5
  <2>5. PathOf(r, 5) \notin Paths(way)
    <3>1. PathOf(r, 5) = Key(r) /\ Len(Key(r)) = 5
      BY PathFacts DEF Levels
    <3>2. ASSUME NEW x \in ToSet(way), x.path = Key(r) PROVE FALSE
      <4>1. CASE x \in ToSet(nodes)
        BY <1>2, <3>1, <3>2, <4>1 DEF TreeOf
      <4>2. CASE x \notin ToSet(nodes)
        <5>1. PICK level \in 1 .. 4 : x = NodeOf(r, level)
          BY <2>4, <4>2 DEF Extends
        <5>2. level \in Levels /\ x.path = PathOf(r, level)
          BY <5>1 DEF NodeOf, Levels
        <5>3. Len(x.path) = level
          BY <5>2, PathFacts
        <5>4. level = 5
          BY <3>1, <3>2, <5>3
        <5> QED BY <5>1, <5>4
      <4> QED BY <4>1, <4>2
    <3> QED BY <3>1, <3>2 DEF Paths, ToSet
  <2>6. Extends(S, nodes, after.nodes, r, 5)
    <3>1. after.nodes = GetOrCreate(way, r, 5)
      BY <2>1, <2>5 DEF GetOrCreate, Paths
    <3>2. 5 \in Levels /\ 5 - 1 = 4
      BY DEF Levels
    <3> HIDE DEF nodes, r, S, way, after
    <3> QED BY <2>2, <2>4, <3>1, <3>2, OneLevelMore
  <2>7. after.seen = {Key(rows[k]) : k \in 1 .. n + 1}
    BY <1>0, <2>1 DEF TreeOf
  <2>8. ASSUME NEW x \in ToSet(after.nodes)
        PROVE  /\ Len(x.path) = 5 => x.path \in after.seen
               /\ \E k \in 1 .. n + 1 :
                    /\ Len(x.path) \in Levels
                    /\ x = NodeOf(rows[k], Len(x.path))
                    /\ \A i \in 1 .. k - 1 : PathOf(rows[i], Len(x.path)) # x.path
    <3>1. CASE x \in ToSet(nodes)
      BY <1>0, <2>1, <3>1 DEF TreeOf
    <3>2. CASE x \notin ToSet(nodes)
      <4>1. PICK level \in Levels : x = NodeOf(r, level) /\ PathOf(r, level) \notin Paths(nodes)
        BY <2>6, <3>2 DEF Extends, Levels
      <4>2. x.path = PathOf(r, level) /\ Len(x.path) = level
        BY <4>1, PathFacts DEF NodeOf
      <4>3. Len(x.path) = 5 => x.path \in after.seen
        BY <2>1, <4>2, PathFacts
      <4>4. \A i \in 1 .. n : PathOf(rows[i], level) # x.path
        BY <4>1, <4>2 DEF TreeOf
      <4>5. n + 1 - 1 = n /\ n + 1 \in 1 .. n + 1
        BY <1>0
      <4> QED BY <4>1, <4>2, <4>3, <4>4, <4>5
    <3> QED BY <3>1, <3>2
  <2>9. \A k \in 1 .. n + 1, level \in Levels : PathOf(rows[k], level) \in Paths(after.nodes)
    <3>1. Paths(nodes) \subseteq Paths(after.nodes)
      <4>1. \A list : Paths(list) = {x.path : x \in ToSet(list)}
        BY DEF Paths, ToSet
      <4> QED BY <4>1, <2>6 DEF Extends
    <3> QED BY <1>0, <2>6, <3>1 DEF TreeOf, Extends, Levels
  <2>10. after.nodes \in Seq(NodesOf(rows)) /\ PathsDiffer(after.nodes)
    BY <2>6 DEF Extends
  <2>11. TreeOf(after, rows, n + 1)
    <3> HIDE DEF after
    <3> QED BY <2>7, <2>8, <2>9, <2>10 DEF TreeOf
  <2> QED BY <2>11
<1> QED BY <1>1, <1>2

LEMMA BuiltTree ==
  ASSUME NEW rows, IsSequence(rows)
  PROVE  \E tree : TreeOf(tree, rows, Len(rows)) /\ tree.nodes = BuildJourneyHierarchy(rows)
<1> DEFINE tree == Trees(rows)
           Good == {n \in 0 .. Len(rows) : TreeOf(tree[n], rows, n)}
<1>1. Len(rows) \in Nat
  BY DEF IsSequence
<1>2. \A n \in 0 .. Len(rows) :
        tree[n] = IF n = 0 THEN [seen |-> {}, nodes |-> <<>>] ELSE InsertRow(tree[n - 1], rows[n])
  BY <1>1, TreesDefined
<1>3. BuildJourneyHierarchy(rows) = tree[Len(rows)].nodes
  BY Zenon DEF BuildJourneyHierarchy, Trees
<1> HIDE DEF tree
<1>4. 0 \in Good
  <2>1. tree[0] = [seen |-> {}, nodes |-> <<>>]
    BY <1>1, <1>2
  <2>2. {Key(rows[k]) : k \in 1 .. 0} = {} /\ ToSet(<<>>) = {}
    BY DEF ToSet
  <2> HIDE DEF Good
  <2>3. TreeOf(tree[0], rows, 0)
    BY <2>1, <2>2 DEF TreeOf, PathsDiffer
  <2> QED BY <1>1, <2>3 DEF Good
<1>5. ASSUME NEW n \in 0 .. Len(rows) - 1, n \in Good
      PROVE  n + 1 \in Good
  <2>1. n + 1 \in 0 .. Len(rows) /\ n + 1 # 0 /\ n + 1 - 1 = n
    BY <1>1
  <2>2. tree[n + 1] = InsertRow(tree[n], rows[n + 1])
    BY <1>2, <2>1
  <2> QED BY <1>5, <2>1, <2>2, InsertRowKeeps
<1>6. 0 .. Len(rows) \subseteq Good
  <2> HIDE DEF Good
  <2> QED BY <1>1, <1>4, <1>5, UpTo, Zenon
<1> QED BY <1>1, <1>3, <1>6

LEMMA AcceptedCellsStored ==
  ASSUME NEW f, IsSequence(f.rows), AcceptedChapters(f) # <<>>
  PROVE  CellsStored(f, AcceptedChapters(f))
<1> DEFINE rows == ParseJourneyCsv(f)
           nodes == BuildJourneyHierarchy(rows)
           S == NodesOf(rows)
           C == Cardinality(Children(nodes, <<>>))
           chapters == AcceptedChapters(f)
           flat == FlattenSeq(chapters)
<1>1. IsSequence(rows)
  BY ParsedIsList
<1>2. PICK tree : TreeOf(tree, rows, Len(rows)) /\ tree.nodes = nodes
  BY <1>1, BuiltTree
<1>3. /\ chapters = [c \in 1 .. C |-> Where(nodes, {n \in ToSet(nodes) : n.path[1] = c})]
      /\ ValidateJourneyStructure(nodes)
  BY DEF AcceptedChapters
<1> HIDE DEF rows, nodes, S, chapters, flat
<1>5. /\ nodes \in Seq(S) /\ PathsDiffer(nodes)
      /\ DOMAIN nodes = 1 .. Len(nodes) /\ Len(nodes) \in Nat
      /\ IsInjective(nodes)
  <2>1. nodes \in Seq(S) /\ PathsDiffer(nodes)
    BY <1>2 DEF TreeOf, S
  <2> QED BY <2>1 DEF PathsDiffer, IsInjective
<1>6. C \in Nat
  <2>1. IsFiniteSet(1 .. Len(nodes))
    BY <1>5, FS_Interval
  <2>2. IsFiniteSet(Children(nodes, <<>>))
    BY <1>5, <2>1, FS_Subset DEF Children
  <2> QED BY <2>2, FS_CardinalityType
<1>7. \A n \in ToSet(nodes) : \E k \in DOMAIN rows : n = NodeOf(rows[k], Len(n.path)) /\ Len(n.path) \in Levels
  BY <1>1, <1>2 DEF TreeOf, IsSequence
<1>8. ASSUME NEW n \in ToSet(nodes) PROVE n.path[1] \in 1 .. C
  <2>1. PICK k \in DOMAIN rows : n = NodeOf(rows[k], Len(n.path)) /\ Len(n.path) \in Levels
    BY <1>7
  <2>2. n.path = PathOf(rows[k], Len(n.path))
    BY <2>1 DEF NodeOf
  <2>3. n.path[1] = rows[k].chapter
    BY <2>1, <2>2, PathFacts
  <2>4. PICK i \in DOMAIN nodes : nodes[i].path = <<rows[k].chapter>>
    <3>1. PathOf(rows[k], 1) \in Paths(nodes)
      BY <1>1, <1>2 DEF TreeOf, Levels, IsSequence
    <3> QED BY <3>1, PathFacts DEF Paths
  <2>5. i \in Children(nodes, <<>>)
    <3>1. IsPrefix(<<>>, <<rows[k].chapter>>) /\ Len(<<rows[k].chapter>>) = Len(<<>>) + 1
      BY DEF IsPrefix
    <3> QED BY <2>4, <3>1 DEF Children
  <2>6. Last(nodes[i].path) = rows[k].chapter
    BY <2>4 DEF Last
  <2>7. {Last(nodes[j].path) : j \in Children(nodes, <<>>)} = 1 .. C
    BY <1>3 DEF ValidateJourneyStructure, Sequential
  <2> QED BY <2>3, <2>5, <2>6, <2>7
<1>9. ASSUME NEW c \in 1 .. C
      PROVE  /\ chapters[c] \in Seq(S)
             /\ ToSet(chapters[c]) = {n \in ToSet(nodes) : n.path[1] = c}
             /\ IsInjective(chapters[c])
  <2>1. chapters[c] = Where(nodes, {n \in ToSet(nodes) : n.path[1] = c})
    BY <1>3
  <2> QED BY <1>5, <2>1, Filtered
<1>10. /\ chapters \in Seq(Seq(S)) /\ DOMAIN chapters = 1 .. C
  <2>1. chapters = [c \in 1 .. C |-> chapters[c]]
    BY <1>3
  <2> HIDE DEF C
  <2> QED BY <1>6, <1>9, <2>1
<1>11. NoRepeats(chapters)
  <2> SUFFICES ASSUME NEW c \in 1 .. C, NEW d \in 1 .. C,
                      NEW i \in DOMAIN chapters[c], NEW j \in DOMAIN chapters[d],
                      chapters[c][i] = chapters[d][j]
               PROVE  c = d /\ i = j
    BY <1>10 DEF NoRepeats
  <2>1. chapters[c][i] \in ToSet(chapters[c]) /\ chapters[d][j] \in ToSet(chapters[d])
    BY DEF ToSet
  <2>2. c = d
    BY <1>9, <2>1
  <2> QED BY <1>9, <2>2 DEF IsInjective
<1>12. /\ flat \in Seq(S) /\ IsInjective(flat) /\ ToSet(flat) = ToSet(nodes)
  <2>1. /\ flat \in Seq(S) /\ IsInjective(flat)
        /\ ToSet(flat) = UNION {ToSet(chapters[c]) : c \in 1 .. C}
    BY <1>10, <1>11, Flattened DEF flat
  <2>2. UNION {ToSet(chapters[c]) : c \in 1 .. C} = ToSet(nodes)
    BY <1>8, <1>9
  <2> QED BY <2>1, <2>2
<1>13. IsInjective([i \in DOMAIN flat |-> flat[i].path])
  <2> SUFFICES ASSUME NEW i \in DOMAIN flat, NEW j \in DOMAIN flat,
                      flat[i].path = flat[j].path
               PROVE  i = j
    BY DEF IsInjective
  <2>1. PICK a \in DOMAIN nodes : nodes[a] = flat[i]
    BY <1>12 DEF ToSet
  <2>2. PICK b \in DOMAIN nodes : nodes[b] = flat[j]
    BY <1>12 DEF ToSet
  <2>3. flat[i] = flat[j]
    BY <1>5, <2>1, <2>2 DEF PathsDiffer
  <2> QED BY <1>12, <2>3 DEF IsInjective
<1>14. ToSet(nodes) = FirstTold(f)
  <2>1. PICK at : PlacesOf(f, rows, at)
    BY RowsHavePlaces DEF rows
  <2>2. ASSUME NEW n \in ToSet(nodes) PROVE n \in FirstTold(f)
    <3>1. PICK k \in 1 .. Len(rows) :
            /\ Len(n.path) \in Levels
            /\ n = NodeOf(rows[k], Len(n.path))
            /\ \A i \in 1 .. k - 1 : PathOf(rows[i], Len(n.path)) # n.path
      BY <1>2 DEF TreeOf
    <3>2. k \in DOMAIN rows /\ n.path = PathOf(rows[k], Len(n.path))
      BY <1>1, <3>1 DEF IsSequence, NodeOf
    <3>3. IsFirst(f, at[k], Len(n.path)) /\ n = ToldAt(f, at[k], Len(n.path))
      BY <1>1, <2>1, <3>1, <3>2, FirstRowFirstPlace
    <3>4. at[k] \in Places(f)
      BY <2>1, <3>2 DEF PlacesOf
    <3>5. n \in {ToldAt(f, p, Len(n.path)) : p \in {q \in Places(f) : IsFirst(f, q, Len(n.path))}}
      BY <3>3, <3>4
    <3> QED BY <3>1, <3>5 DEF FirstTold, Levels
  <2>3. ASSUME NEW level \in Levels, NEW p \in Places(f), IsFirst(f, p, level)
        PROVE  ToldAt(f, p, level) \in ToSet(nodes)
    <3>1. PICK k \in DOMAIN rows : at[k] = p
      BY <2>1 DEF PlacesOf
    <3>2. /\ ToldAt(f, p, level) = NodeOf(rows[k], level)
          /\ \A i \in 1 .. k - 1 : PathOf(rows[i], level) # PathOf(rows[k], level)
      BY <1>1, <2>1, <2>3, <3>1, FirstRowFirstPlace
    <3>3. PICK x \in ToSet(nodes) : x.path = PathOf(rows[k], level)
      <4>1. PathOf(rows[k], level) \in Paths(nodes)
        BY <1>1, <1>2 DEF TreeOf, IsSequence
      <4> QED BY <4>1 DEF Paths, ToSet
    <3>4. Len(x.path) = level
      BY <3>3, PathFacts
    <3>5. PICK j \in 1 .. Len(rows) :
            /\ x = NodeOf(rows[j], level)
            /\ \A i \in 1 .. j - 1 : PathOf(rows[i], level) # x.path
      BY <1>2, <3>4 DEF TreeOf
    <3>6. PathOf(rows[j], level) = PathOf(rows[k], level)
      BY <3>3, <3>5 DEF NodeOf
    <3>7. j = k
      <4>1. k \in 1 .. Len(rows) /\ Len(rows) \in Nat
        BY <1>1 DEF IsSequence
      <4>2. ~(j \in 1 .. k - 1)
        BY <3>2, <3>6
      <4>3. ~(k \in 1 .. j - 1)
        BY <3>3, <3>5
      <4> QED BY <4>1, <4>2, <4>3
    <3> QED BY <3>2, <3>5, <3>7
  <2> QED BY <2>2, <2>3 DEF FirstTold, Levels
<1> QED BY <1>12, <1>13, <1>14 DEF CellsStored, flat, chapters

-----------------------------------------------------------------------------

\* Whatever file is uploaded, a journey that is committed holds exactly the tasks, and
\* chapters to lessons, that the cells of the file are the first to tell of.
THEOREM FirstTasksAreStored == Spec => []FirstTasksStored
<1>1. AllFromFiles => FirstTasksStored
  <2> SUFFICES ASSUME AllFromFiles, NEW t \in Tasks, journey[t] # None
               PROVE  CellsStored(upload[t].file, hierarchy[t])
    BY DEF FirstTasksStored
  <2>1. /\ hierarchy[t] # <<>> /\ upload[t] \in Uploads
        /\ hierarchy[t] = ChaptersOf[upload[t].file]
    BY DEF AllFromFiles, FromFile
  <2>2. upload[t].file \in Files
    BY <2>1 DEF Uploads
  <2> QED BY <2>1, <2>2, Composition, AcceptedCellsStored
<1> QED BY <1>1, FromFileInit, AllFromFilesNext, InvAlways, PTL DEF Spec

=============================================================================
