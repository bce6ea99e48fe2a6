---------------------------- MODULE RuleValidation ----------------------------
(***************************************************************************)
(* Validation of a revision (app/services/rule_validation_service.py): a   *)
(* transaction that claims a validator slot, a validator process that runs *)
(* outside of any transaction, and two transactions that record its report *)
(* and give the claim back.  Anything may happen in between.               *)
(***************************************************************************)
EXTENDS RuleLifecycle, Functions

\* Claims that have not expired.
LiveClaims == {s \in DOMAIN claims : claims[s].expires > clock}
FreeSlots == (1..Slots) \ LiveClaims
FreshOwners == Owners \ ({claims[s].owner : s \in DOMAIN claims}
                         \cup {task[t].owner : t \in Threads})
Open == {"draft", "legacy_unreviewed", "rejected"}

BeginValidation(t, r, p, n) ==
  /\ task[t].pc = "idle"
  /\ Writable(r, p.version)
  /\ n \in RevsOf(r)
  /\ revs[n].state \in Open
  /\ Cardinality(RunsOf(n)) < RunLimit
  /\ \A s \in LiveClaims : claims[s].rev # n
  /\ \E s \in FreeSlots, o \in FreshOwners :
       /\ \A x \in FreeSlots : s <= x
       /\ claims' = [x \in LiveClaims \cup {s} |->
                       IF x = s THEN [rev |-> n, owner |-> o,
                                      expires |-> clock + ClaimTTL]
                                ELSE claims[x]]
       /\ task' = [task EXCEPT ![t] = [IdleTask EXCEPT !.pc = "running",
                                         !.rev = n, !.owner = o,
                                         !.until = clock + MaxRun]]
  /\ UNCHANGED <<deployment, admins, rule, revs, runs, reviews, events, page,
                 clock>>

\* The validator process ends, is killed at its deadline or crashes.
ValidatorEnds(t, status) ==
  /\ task[t].pc = "running"
  /\ task' = [task EXCEPT ![t].pc = "reported", ![t].status = status]
  /\ UNCHANGED <<deployment, admins, rule, revs, runs, reviews, events, page,
                 claims, clock>>

StillClaimed(t) ==
  \E s \in LiveClaims : claims[s].owner = task[t].owner

LogReport(r) == Log(r)

RecordReport(t) ==
  /\ task[t].pc = "reported"
  /\ StillClaimed(t)
  /\ runs' = Append(runs, [rev |-> task[t].rev, policy |-> policy,
                           status |-> task[t].status,
                           at |-> revs[task[t].rev].state])
  /\ LogReport(revs[task[t].rev].rule)
  /\ task' = [task EXCEPT ![t].pc = "closing"]
  /\ UNCHANGED <<deployment, admins, rule, revs, reviews, page, claims, clock>>

\* The claim has expired, the history or a storage budget is full, or the
\* database stays locked.
LoseReport(t) ==
  /\ task[t].pc = "reported"
  /\ task' = [task EXCEPT ![t].pc = "closing"]
  /\ UNCHANGED <<deployment, admins, rule, revs, runs, reviews, events, page,
                 claims, clock>>

\* Variant: the claims of the revision are given back, whoever holds them.
RevisionClaims(t) == {s \in DOMAIN claims : claims[s].rev = task[t].rev}
OwnClaims(t) == {s \in DOMAIN claims : claims[s].owner = task[t].owner}

\* The finally block.
GiveBack(t) ==
  /\ task[t].pc = "closing"
  /\ claims' = Restrict(claims, DOMAIN claims \ OwnClaims(t))
  /\ task' = [task EXCEPT ![t] = IdleTask]
  /\ UNCHANGED <<deployment, admins, rule, revs, runs, reviews, events, page,
                 clock>>

\* The process dies, or its last transaction fails; the claim stays until it
\* expires, and a validator process until its own deadline.
Die(t) ==
  /\ task[t].pc \in {"running", "reported", "closing"}
  /\ task' = [task EXCEPT ![t] = IF @.pc = "running"
                                 THEN [@ EXCEPT !.pc = "orphan"] ELSE IdleTask]
  /\ UNCHANGED <<deployment, admins, rule, revs, runs, reviews, events, page,
                 claims, clock>>

OrphanEnds(t) ==
  /\ task[t].pc = "orphan"
  /\ task' = [task EXCEPT ![t] = IdleTask]
  /\ UNCHANGED <<deployment, admins, rule, revs, runs, reviews, events, page,
                 claims, clock>>

Processing == {t \in Threads : task[t].pc \in {"running", "orphan"}}

Tick ==
  /\ clock < MaxClock
  /\ \A t \in Processing : clock < task[t].until
  /\ clock' = clock + 1
  /\ UNCHANGED <<deployment, admins, rule, revs, runs, reviews, events, page,
                 claims, task>>

=============================================================================
