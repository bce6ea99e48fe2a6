---------------------------- MODULE MCFeedRefresh ----------------------------
(* Small instances of FeedRefresh for TLC.                                   *)
EXTENDS FeedRefresh, TLC

MCSymmetry == Permutations(Schedulers) \cup Permutations(Callers)

\* Requests and mishaps come while an abandoned lease can still expire within
\* the modelled time.
EarlyNext ==
  \/ \E p \in Callers : Ask(p)
  \/ \E p \in Threads : Mishap(p) \/ RenewalFails(p)
ServiceNext ==
  \/ \E enabled \in BOOLEAN, h \in Intervals : Save(enabled, h)
  \/ \E p \in Schedulers : Loop(p)
  \/ \E p \in Threads : Execute(p) \/ Renewal(p)
  \/ EarlyNext /\ clock + LeaseTTL <= MaxClock
  \/ Tick
ServiceSpec == Init /\ [][ServiceNext]_vars /\ Fairness
=============================================================================
