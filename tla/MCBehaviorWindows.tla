------------------------- MODULE MCBehaviorWindows -------------------------
(***************************************************************************)
(* An instance of BehaviorWindows for TLC.  Windows of two values show     *)
(* what windows of five do.  One value of each metric is on either side of *)
(* its threshold, and a value or a chapter may be missing.                 *)
(***************************************************************************)
EXTENDS BehaviorWindows

MCValues == {1, 3}
MCChapters == {1, 2}

MCRules ==
  { [type |-> "activity_completed", total |-> n, journeyDone |-> n = 3] : n \in {2, 3} }
    \cup {[type |-> "app_opened", total |-> 3, journeyDone |-> TRUE]}

\* Good scores come with little time spent.
MCUpdates ==
  { [rules |-> r, chapter |-> c, value |-> [retry |-> x, score |-> y[1], speed |-> y[2]]] :
      r \in MCRules, c \in MCChapters \cup {None}, x \in {None, 1, 3},
      y \in {<<None, None>>, <<1, 3>>, <<3, 1>>} }

=============================================================================
