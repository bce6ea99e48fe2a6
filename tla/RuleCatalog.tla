---------------------------- MODULE RuleCatalog ----------------------------
(***************************************************************************)
(* What the public may rely on: the catalog shows a revision that a second *)
(* person approved, it only ever moves on to a newer one, and nothing but  *)
(* a release, hiding or showing changes what is seen.                      *)
(***************************************************************************)
EXTENDS Naturals

CONSTANT Shelf   \* places in the catalog

VARIABLES
  shown,      \* the revision of every place, 0 for none
  hidden,     \* places that are hidden
  approved    \* approved revisions that may be released

vars == <<shown, hidden, approved>>

Init ==
  /\ shown = [s \in Shelf |-> 0]
  /\ hidden = {}
  /\ approved = {}

\* The legacy catalog is taken over, without any approval.
Adopt ==
  /\ \A s \in Shelf : shown'[s] # shown[s] => shown[s] = 0
  /\ shown' = [s \in Shelf |-> shown'[s]]
  /\ UNCHANGED <<hidden, approved>>

Approve(n) ==
  /\ approved' = approved \cup {n}
  /\ UNCHANGED <<shown, hidden>>

Withdraw(n) ==
  /\ approved' = approved \ {n}
  /\ UNCHANGED <<shown, hidden>>

Release(s, n) ==
  /\ n \in approved
  /\ n > shown[s]
  /\ s \notin hidden
  /\ shown' = [shown EXCEPT ![s] = n]
  /\ approved' = approved \ {n}
  /\ UNCHANGED hidden

Hide(s) ==
  /\ hidden' = IF s \in hidden THEN hidden \ {s} ELSE hidden \cup {s}
  /\ UNCHANGED <<shown, approved>>

Next ==
  \/ Adopt
  \/ \E n \in approved : Withdraw(n)
  \/ \E n \in approved' : Approve(n)
  \/ \E s \in Shelf : Hide(s) \/ Release(s, shown'[s])

Spec == Init /\ [][Next]_vars

=============================================================================
