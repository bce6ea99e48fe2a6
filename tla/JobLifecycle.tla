---------------------------- MODULE JobLifecycle ----------------------------
(***************************************************************************)
(* What the job queue promises, without scopes, time or workers: jobs move *)
(* along the arcs below, a running job belongs to the one claim that       *)
(* started it, and what has ended stays as it ended.                       *)
(***************************************************************************)
EXTENDS Naturals, FiniteSets

CONSTANTS
  Ids,      \* job identities, in the order they may be admitted
  Claims,   \* claim identities
  NoClaim,
  Slots     \* how many jobs may run at a time

VARIABLES status, holder

Ended == {"completed", "partial", "cancelled", "error"}
Arcs == ({"none"} \X {"queued"})
        \cup ({"queued"} \X {"running", "cancelled"})
        \cup ({"running"} \X ({"queued"} \cup Ended))
        \cup (Ended \X {"forgotten"})

Init ==
  /\ status = [j \in Ids |-> "none"]
  /\ holder = [j \in Ids |-> NoClaim]

Running(s) == {j \in Ids : s[j] = "running"}
Started == Running(status') \ Running(status)
Admitted == {j \in Ids : status[j] = "none" /\ status'[j] # "none"}

\* One step may end, cancel or forget many jobs; it starts at most one.
Advance ==
  /\ \A j \in Ids : status'[j] = status[j] \/ <<status[j], status'[j]>> \in Arcs
  /\ Cardinality(Started) <= 1
  /\ Started # {} => Cardinality(Running(status')) <= Slots
  /\ \A j \in Admitted, i \in Ids : status[i] # "none" => i < j

\* A claim is taken by the job it starts, and is nobody else's.
Hold ==
  /\ \A j \in Ids \ Running(status') : holder'[j] = NoClaim
  /\ \A j \in Running(status') \ Started : holder'[j] = holder[j]
  /\ \A j \in Started : holder'[j] \in Claims \ {holder[i] : i \in Ids}

Next == Advance /\ Hold
Spec == Init /\ [][Next]_<<status, holder>>
=============================================================================
