---------------------------- MODULE FeedRefresh ----------------------------
(***************************************************************************)
(* The shared feed refresh (app/services/refresh_service.py) and the       *)
(* schedule every web process polls (app/services/scheduler_service.py):   *)
(* one lease in the database, renewed by a thread beside the refresh, and  *)
(* a schedule that administrators may change at any time.                  *)
(*                                                                         *)
(* Every committed statement or transaction is one action, so that any     *)
(* other process may come in between two statements of an autocommit       *)
(* connection.  A new record of a feed is a number; records have ids in    *)
(* the order they are stored.                                              *)
(***************************************************************************)
EXTENDS Naturals, FiniteSets

CONSTANTS
  Schedulers,   \* the scheduler thread of every process
  Callers,      \* request threads of POST /api/refresh
  Nobody,       \* no row in job_leases
  Intervals,    \* interval_hours an administrator may choose
  LeaseTTL,     \* lifetime of a renewal (90 s)
  RenewWithin,  \* longest time between two renewals that succeed (75 s)
  Absent,       \* schedule_next_refresh of an installation before schedules
  MaxClock, MaxRecords, MaxChoices   \* bounds of the model

Threads == Schedulers \cup Callers
Unplanned == 0   \* schedule_next_refresh = ''

ASSUME FeedAssumption ==
  /\ Schedulers \cap Callers = {} /\ IsFiniteSet(Threads)
  /\ Nobody \notin Threads
  /\ Intervals \subseteq Nat \ {0}
  /\ {LeaseTTL, RenewWithin, MaxClock, MaxRecords, MaxChoices} \subseteq Nat
  /\ 0 < RenewWithin /\ RenewWithin < LeaseTTL
  /\ Absent \notin Nat

VARIABLES
  clock,      \* time.time()
  lease,      \* the feed_refresh row of job_leases
  schedule,   \* the schedule_* keys of app_settings
  stored,     \* the highest id of a feed record
  notices,    \* history: how often webhooks were told of every record
  served,     \* history: the planned times a refresh ran for to its end
  choices,    \* history: how often a schedule was chosen
  lapsed,     \* history: whether a renewal ever failed
  run         \* each thread's position and local variables

vars == <<clock, lease, schedule, stored, notices, served, choices, lapsed, run>>
history == <<notices, served, choices, lapsed>>

Times == Nat \cup {Absent}
\* choice is history: the choice the planned time comes from.  It also keeps
\* planned times apart, which the code writes with microseconds.
Schedule == [enabled: BOOLEAN, interval: Intervals, next: Times, choice: Nat]
Plan == Times \X Nat
PlanOf(s) == <<s.next, s.choice>>
Lease == [owner: Threads \cup {Nobody}, expires: Nat]
FreeLease == [owner |-> Nobody, expires |-> 0]

Body == {"recheck", "heads", "fetch", "select", "notify", "plan", "write"}
Run == [pc: Body \cup {"idle", "upgrade", "due", "release"},
        scheduled: BOOLEAN, planned: Plan, next: Nat, head: Nat,
        batch: SUBSET Nat, keep: BOOLEAN, renewing: BOOLEAN, renewed: Nat]
IdleRun == [pc |-> "idle", scheduled |-> FALSE, planned |-> <<Unplanned, 0>>,
            next |-> 0, head |-> 0, batch |-> {}, keep |-> FALSE,
            renewing |-> FALSE, renewed |-> 0]

TypeOK ==
  /\ clock \in Nat
  /\ lease \in Lease
  /\ schedule \in Schedule
  /\ stored \in Nat
  /\ notices \in [1..MaxRecords -> Nat]
  /\ served \subseteq Plan
  /\ choices \in Nat /\ lapsed \in BOOLEAN
  /\ run \in [Threads -> Run]

\* No schedule, or one of a release that did not persist the planned time.
Init ==
  /\ clock = 1
  /\ lease = FreeLease
  /\ schedule \in [enabled: BOOLEAN, interval: Intervals, next: {Absent},
                   choice: {0}]
  /\ stored = 0
  /\ notices = [i \in 1..MaxRecords |-> 0]
  /\ served = {}
  /\ choices = 0 /\ lapsed = FALSE
  /\ run = [p \in Threads |-> IdleRun]

Go(p, pc) == run' = [run EXCEPT ![p].pc = pc]
\* The body is left: the renewing thread is stopped first.
Leave(p) == run' = [run EXCEPT ![p].pc = "release", ![p].renewing = FALSE]

-----------------------------------------------------------------------------
(* The schedule.                                                           *)

\* save_schedule_settings
Save(enabled, interval) ==
  /\ choices < MaxChoices
  /\ choices' = choices + 1
  /\ schedule' = [enabled |-> enabled, interval |-> interval,
                  next |-> IF enabled THEN clock + interval ELSE Unplanned,
                  choice |-> choices + 1]
  /\ UNCHANGED <<clock, lease, stored, notices, served, lapsed, run>>

Planned(s) == s.next \notin {Absent, Unplanned}
Due(s) == s.enabled /\ Planned(s) /\ s.next <= clock

\* One round of _scheduler_loop that does anything.
Poll(p) ==
  /\ run[p].pc = "idle"
  /\ \/ /\ schedule.enabled /\ ~Planned(schedule)
        /\ run' = [run EXCEPT ![p].pc = "upgrade",
                              ![p].next = clock + schedule.interval]
     \/ /\ Due(schedule)
        /\ run' = [run EXCEPT ![p].pc = "due", ![p].scheduled = TRUE,
                              ![p].planned = PlanOf(schedule)]
  /\ UNCHANGED <<clock, lease, schedule, stored, history>>

\* INSERT OR IGNORE
Upgrade(p) ==
  /\ run[p].pc = "upgrade"
  /\ schedule' = IF schedule.next = Absent
                 THEN [schedule EXCEPT !.next = run[p].next] ELSE schedule
  /\ run' = [run EXCEPT ![p] = IdleRun]
  /\ UNCHANGED <<clock, lease, stored, history>>

\* POST /api/refresh
Ask(p) ==
  /\ run[p].pc = "idle"
  /\ Go(p, "due")
  /\ UNCHANGED <<clock, lease, schedule, stored, history>>

-----------------------------------------------------------------------------
(* The lease.                                                              *)

\* Variant: INSERT OR REPLACE.
Anyone == TRUE
\* Variant: expired leases are not deleted.
NobodyHolds == lease.owner = Nobody
Free == lease.owner = Nobody \/ lease.expires <= clock

Acquire(p) ==
  /\ run[p].pc = "due"
  /\ \/ /\ Free
        /\ lease' = [owner |-> p, expires |-> clock + LeaseTTL]
        /\ run' = [run EXCEPT ![p].pc = IF run[p].scheduled THEN "recheck"
                                                             ELSE "heads",
                              ![p].renewing = TRUE, ![p].renewed = clock]
     \/ /\ ~Free
        /\ run' = [run EXCEPT ![p] = IdleRun]
        /\ UNCHANGED lease
  /\ UNCHANGED <<clock, schedule, stored, history>>

\* The thread beside the body.
Renewal(p) ==
  /\ run[p].renewing
  /\ run[p].renewed < clock
  /\ lease' = IF lease.owner = p THEN [lease EXCEPT !.expires = clock + LeaseTTL]
                                 ELSE lease
  /\ run' = [run EXCEPT ![p].renewed = clock]
  /\ UNCHANGED <<clock, schedule, stored, history>>

\* A renewal raises (the database stays locked): the thread ends, and the
\* refresh goes on.
RenewalFails(p) ==
  /\ run[p].renewing
  /\ run' = [run EXCEPT ![p].renewing = FALSE]
  /\ lapsed' = TRUE
  /\ UNCHANGED <<clock, lease, schedule, stored, notices, served, choices>>

\* Variant: whoever holds the lease, it is released.
AnyLease(p) == FreeLease
OwnLease(p) == IF lease.owner = p THEN FreeLease ELSE lease

Release(p) ==
  /\ run[p].pc = "release"
  /\ lease' = OwnLease(p)
  /\ run' = [run EXCEPT ![p] = IdleRun]
  /\ UNCHANGED <<clock, schedule, stored, history>>

-----------------------------------------------------------------------------
(* The refresh.                                                            *)

\* Variant: the planned time of the poll is not read again.
RecheckNothing(p) ==
  /\ run[p].pc = "recheck"
  /\ Go(p, "heads")
  /\ UNCHANGED <<clock, lease, schedule, stored, history>>

\* Another process may have just run.
Recheck(p) ==
  /\ run[p].pc = "recheck"
  /\ \/ /\ Due(schedule)
        /\ run' = [run EXCEPT ![p].pc = "heads", ![p].planned = PlanOf(schedule)]
     \/ /\ ~Due(schedule)
        /\ Leave(p)
  /\ UNCHANGED <<clock, lease, schedule, stored, history>>

\* COALESCE(MAX(id), 0)
\* Variant: every record is taken for a new one.
NoHead == 0
Head == stored

Heads(p) ==
  /\ run[p].pc = "heads"
  /\ run' = [run EXCEPT ![p].pc = "fetch", ![p].head = Head]
  /\ UNCHANGED <<clock, lease, schedule, stored, history>>

\* A fetcher stores a new record; an error ends only that fetcher.
Store(p) ==
  /\ run[p].pc = "fetch"
  /\ stored < MaxRecords
  /\ stored' = stored + 1
  /\ UNCHANGED <<clock, lease, schedule, history, run>>

Fetched(p) ==
  /\ run[p].pc = "fetch"
  /\ Go(p, "select")
  /\ UNCHANGED <<clock, lease, schedule, stored, history>>

Select(p) ==
  /\ run[p].pc = "select"
  /\ run' = [run EXCEPT ![p].pc = "notify",
                        ![p].batch = (run[p].head + 1)..stored]
  /\ UNCHANGED <<clock, lease, schedule, stored, history>>

Notify(p) ==
  /\ run[p].pc = "notify"
  /\ notices' = [i \in 1..MaxRecords |->
                   IF i \in run[p].batch THEN notices[i] + 1 ELSE notices[i]]
  /\ IF run[p].scheduled THEN Go(p, "plan") ELSE Leave(p)
  /\ UNCHANGED <<clock, lease, schedule, stored, served, choices, lapsed>>

\* The last connection reads the schedule ...
ReadPlan(p) ==
  /\ run[p].pc = "plan"
  /\ run' = [run EXCEPT ![p].pc = "write",
                        ![p].next = clock + schedule.interval,
                        ![p].keep = (PlanOf(schedule) = run[p].planned)]
  /\ UNCHANGED <<clock, lease, schedule, stored, history>>

\* ... and only its first INSERT begins a transaction.
WritePlan(p) ==
  /\ run[p].pc = "write"
  /\ schedule' = IF run[p].keep
                 THEN [schedule EXCEPT !.next = run[p].next,
                                       !.choice = run[p].planned[2]]
                 ELSE schedule
  /\ served' = served \cup {run[p].planned}
  /\ Leave(p)
  /\ UNCHANGED <<clock, lease, stored, notices, choices, lapsed>>

\* An exception outside of the fetchers and of the notification.
Fail(p) ==
  /\ run[p].pc \in Body
  /\ Leave(p)
  /\ UNCHANGED <<clock, lease, schedule, stored, history>>

\* The process dies, or the lease cannot be released.
Crash(p) ==
  /\ run[p].pc # "idle"
  /\ run' = [run EXCEPT ![p] = IdleRun]
  /\ UNCHANGED <<clock, lease, schedule, stored, history>>

\* A renewal that does not fail is not late.
Tick ==
  /\ clock < MaxClock
  /\ \A p \in Threads :
       run[p].renewing => clock < run[p].renewed + RenewWithin
  /\ clock' = clock + 1
  /\ UNCHANGED <<lease, schedule, stored, history, run>>


-----------------------------------------------------------------------------
(* The whole.                                                              *)

Loop(p) == Poll(p) \/ Upgrade(p)
Execute(p) ==
  \/ Acquire(p)
  \/ Recheck(p) \/ Heads(p) \/ Store(p) \/ Fetched(p) \/ Select(p) \/ Notify(p)
  \/ ReadPlan(p) \/ WritePlan(p)
  \/ Release(p)
Mishap(p) == Fail(p) \/ Crash(p)

\* Renewals succeed.
ReliableNext ==
  \/ \E enabled \in BOOLEAN, h \in Intervals : Save(enabled, h)
  \/ \E p \in Schedulers : Loop(p)
  \/ \E p \in Callers : Ask(p)
  \/ \E p \in Threads : Execute(p) \/ Renewal(p) \/ Mishap(p)
  \/ Tick
Next == ReliableNext \/ \E p \in Threads : RenewalFails(p)

Spec == Init /\ [][Next]_vars
ReliableSpec == Init /\ [][ReliableNext]_vars

-----------------------------------------------------------------------------
(* Properties.                                                             *)

InBody(p) == run[p].pc \in Body

\* A refresh that renews its lease has it: neither a takeover nor the late
\* release of another refresh takes it away, even if that one failed to renew
\* its own (refresh_lease, renew).
RenewedIsHeld ==
  \A p \in Threads :
    InBody(p) /\ run[p].renewing => lease.owner = p /\ lease.expires > clock

\* As long as renewals succeed, webhooks are told of a record at most once, also
\* when refreshes fail between storing and telling (the heads of run_feed_refresh).
NoticeOnce == lapsed \/ \A i \in 1..MaxRecords : notices[i] <= 1

\* As long as renewals succeed, no planned time is refreshed for again after a
\* refresh for it has ended, however many processes found it due (the recheck
\* under the lease).
ServedOnce ==
  lapsed \/ \A p \in Threads :
    InBody(p) /\ run[p].scheduled /\ run[p].pc # "recheck"
      => run[p].planned \notin served

\* The planned time comes from the latest choice of an administrator: "Do not
\* overwrite a new schedule chosen while this refresh ran" (run_feed_refresh).
ScheduleKept == schedule.choice = choices

-----------------------------------------------------------------------------
(* Liveness.                                                               *)

\* Scheduler threads keep polling, refreshes and renewals go on, time passes.
Fairness ==
  /\ WF_vars(Tick)
  /\ \A p \in Schedulers : WF_vars(Loop(p))
  /\ \A p \in Threads : WF_vars(Execute(p)) /\ WF_vars(Renewal(p))

\* A schedule that is due does not stay due: it is refreshed for, or another
\* one is chosen; a crashed holder of the lease delays it only until the lease
\* expires (_scheduler_loop, refresh_lease).
DueServed == Due(schedule) ~> ~Due(schedule)

=============================================================================
