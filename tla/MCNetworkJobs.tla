---------------------------- MODULE MCNetworkJobs ----------------------------
(* Small instances of NetworkJobs for TLC.  One run explores several scenes: *)
(* a scene is told by the scopes that are configured in its initial state,   *)
(* which its actions never add to or take from.                              *)
EXTENDS NetworkJobs, TLC

CONSTANTS m1, p1, p2, p3, a1, a2, a3

\* The monitor and the first profile share an address, the second has one of
\* its own, the third covers three.
MCMonitorTarget == [m \in Monitors \ HostMonitors |-> a1]
MCTargets == [p \in Profiles |-> CASE p = p1 -> <<a1>> [] p = p2 -> <<a2>>
                                   [] p = p3 -> <<a1, a2, a3>>]
MCRate1 == [k \in Kinds |-> 1]
MCRate9 == [k \in Kinds |-> 9]

MCSymmetry == Permutations(Workers) \cup Permutations(Owners)

\* The scopes of S have been saved, enabled and scheduled at the first tick.
Configured(S) ==
  /\ NoWork
  /\ \E t \in Thresholds :
       cfg = [s \in S |->
                [enabled |-> TRUE, scheduled |-> TRUE, threshold |-> t,
                 gen |-> 1, due |-> clock + Interval, lastRequest |-> NoTime,
                 cursor |-> 0]]
Scene(S) == DOMAIN cfg = S
\* The bounds of a scene that are tighter than those of its run.
Within(time, count) == clock' <= time /\ nextId' <= count + 1

OneKey == CHOOSE k \in Keys : TRUE
Asked(keys) == \E u \in Users, s \in DOMAIN cfg, k \in keys : RequestJob(u, s, k)

-----------------------------------------------------------------------------
(* Traffic.                                                                *)

\* Contact: a monitor and a profile on one address, with requests,
\* reconfiguration and cancellation under running probes, and crashes.
ContactNext ==
  /\ Scene({m1, p1})
  /\ \/ Asked({OneKey})
     \/ Save(m1, TRUE, TRUE, 1, Interval)
     \/ \E j \in DOMAIN jobs : CancelRun(j)
     \/ \E w \in Workers : Claim(w) \/ Execute(w) \/ Crash(w) \/ OrphanEnds(w)
     \/ Tick
  /\ Within(4, 2)

\* Chunks: runs of several chunks, with errors, lost claims and restarts of
\* the profile.
ChunksNext ==
  /\ Scene({p3})
  /\ \/ Asked(Keys)
     \/ Save(p3, TRUE, FALSE, 1, Interval)
     \/ \E w \in Workers : Claim(w) \/ Execute(w) \/ Fail(w)
     \/ Tick
  /\ Within(4, 2)

\* Slots: two profiles and a monitor compete for the slots.
SlotsNext ==
  /\ \/ Asked({OneKey})
     \/ \E w \in Workers : Claim(w) \/ Execute(w) \/ OrphanEnds(w)
     \/ \E w \in Workers : Crash(w) /\ clock + LeaseTTL <= MaxClock
     \/ Tick
TrafficSpec ==
  /\ \E S \in {{m1, p1}, {p3}, {m1, p1, p2}} : Configured(S)
  /\ [][\/ ContactNext \/ ChunksNext
        \/ Scene({m1, p1, p2}) /\ SlotsNext /\ Within(3, 3)]_vars

\* Service: the slots scene with fair workers; a claim taken before the last
\* crash can expire within the modelled time.
ServiceSpec ==
  Configured({m1, p1, p2}) /\ [][SlotsNext]_vars /\ Fairness

-----------------------------------------------------------------------------
(* Budget: a monitor of a DNS name beside a discovery profile that looks   *)
(* names up, both short of budget, with errors and cancellations.          *)
BudgetNext ==
  \/ Asked({OneKey})
  \/ \E j \in DOMAIN jobs : CancelRun(j)
  \/ \E w \in Workers : Claim(w) \/ Execute(w) \/ Fail(w)
  \/ Tick
BudgetSpec == Configured(Scopes) /\ [][BudgetNext]_vars

-----------------------------------------------------------------------------
(* Queue.                                                                  *)

\* One monitor, from nothing, under every action of the system.
MonitorNext ==
  /\ Next
  /\ DOMAIN cfg' \subseteq Monitors
  /\ policy' = policy
  /\ Within(3, 2)

\* More scopes than the queue holds, requested, scheduled, run by one worker
\* and one claim at a time, pruned, paused and restarted under an empty allowlist.
Claimants == {jobs[j].owner : j \in DOMAIN jobs} \ {NoOwner}
Alone(w) == \A v \in Workers \ {w} : work[v].pc = "idle"
CrowdNext ==
  /\ Scene(Scopes)
  /\ \/ Asked(Keys)
     \/ Pause
     \/ \E p \in Policies : ChangePolicy(p)
     \/ Background
     \/ \E w \in Workers : Alone(w) /\ (Claim(w) \/ Execute(w))
     \/ Tick
  /\ Within(2, 3)
  /\ Cardinality(Claimants') <= 1
  /\ \A w \in Workers :
       (work[w].pc = "finish" /\ work[w].kind = "monitor"
          => work[w].outcome = "up")'
QueueSpec ==
  /\ (Init /\ policy # EmptyPolicy) \/ Configured(Scopes)
  /\ [][MonitorNext \/ CrowdNext]_vars
=============================================================================
