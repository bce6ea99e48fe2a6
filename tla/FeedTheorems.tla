---------------------------- MODULE FeedTheorems ----------------------------
(***************************************************************************)
(* Types and safety of the feed refresh, for every value of the constants. *)
(*                                                                         *)
(* HeldInv: a refresh whose thread renews holds the lease, since the next  *)
(* renewal comes before it expires. From it, as long as no renewal failed, *)
(* only one refresh at a time is in the body (AloneInv): records above its *)
(* head have been told of by nobody (FreshInv), and the time it serves is  *)
(* a planned one that no refresh served before (PlanInv, OrderInv).        *)
(***************************************************************************)
EXTENDS FeedRefresh, TLAPS

-----------------------------------------------------------------------------
(* Types.                                                                  *)

LEMMA IdleType == IdleRun \in Run
BY DEF IdleRun, Run, Plan, Times, Unplanned

\* Thread p has record r after the step.
Becomes(p, r) == run' = [run EXCEPT ![p] = r]
Left(p) == [run[p] EXCEPT !.pc = "release", !.renewing = FALSE]
At(p, pc) == [run[p] EXCEPT !.pc = pc]

LEMMA RunType ==
  ASSUME TypeOK, NEW p \in Threads
  PROVE  run[p] \in Run /\ run \in [Threads -> Run]
BY DEF TypeOK

LEMMA BecomesType ==
  ASSUME TypeOK, NEW p \in Threads, NEW r \in Run, Becomes(p, r)
  PROVE  run' \in [Threads -> Run]
BY RunType DEF Becomes

LEMMA LeaveType ==
  ASSUME TypeOK, NEW p \in Threads
  PROVE  /\ Left(p) \in Run
         /\ Leave(p) => Becomes(p, Left(p))
BY RunType DEF Left, Leave, Becomes, Run

LEMMA GoType ==
  ASSUME TypeOK, NEW p \in Threads, NEW pc \in Body \cup {"idle", "upgrade", "due", "release"}
  PROVE  /\ At(p, pc) \in Run
         /\ Go(p, pc) => Becomes(p, At(p, pc))
BY RunType DEF At, Go, Becomes, Run

LEMMA PlanType ==
  ASSUME TypeOK
  PROVE  PlanOf(schedule) \in Plan
BY DEF TypeOK, Schedule, Plan, PlanOf

LEMMA ConstantTypes ==
  /\ Intervals \subseteq Nat /\ Nobody \notin Threads
  /\ LeaseTTL \in Nat /\ RenewWithin \in Nat /\ MaxRecords \in Nat
  /\ 0 < RenewWithin /\ RenewWithin < LeaseTTL
BY FeedAssumption

LEMMA PlannedType ==
  ASSUME TypeOK, NEW h \in Intervals
  PROVE  clock + h \in Nat /\ schedule.interval \in Intervals /\ choices + 1 \in Nat
<1>1. h \in Nat
  BY ConstantTypes
<1> QED
  BY <1>1 DEF TypeOK, Schedule

\* Every step moves one thread at most, and keeps its record of the same kind.
Moves(p) == \E r \in Run : Becomes(p, r)

LEMMA ScheduleMoves ==
  ASSUME TypeOK, NEW p \in Threads, Poll(p) \/ Upgrade(p) \/ Ask(p)
  PROVE  Moves(p)
<1>1. CASE schedule.enabled /\ ~Planned(schedule) /\ Poll(p)
  <2> DEFINE r == [run[p] EXCEPT !.pc = "upgrade", !.next = clock + schedule.interval]
  <2>1. clock + schedule.interval \in Nat
    BY PlannedType DEF TypeOK, Schedule
  <2>2. r \in Run
    BY RunType, <2>1 DEF Run
  <2>3. CASE Due(schedule)
    BY <1>1, <2>3 DEF Due
  <2>4. CASE ~Due(schedule)
    BY <1>1, <2>2, <2>4 DEF Poll, Moves, Becomes
  <2> QED
    BY <2>3, <2>4
<1>2. CASE ~(schedule.enabled /\ ~Planned(schedule)) /\ Poll(p)
  <2> DEFINE r == [run[p] EXCEPT !.pc = "due", !.scheduled = TRUE,
                                 !.planned = PlanOf(schedule)]
  <2>1. r \in Run
    BY RunType, PlanType DEF Run
  <2> QED
    BY <1>2, <2>1 DEF Poll, Moves, Becomes
<1>3. CASE Upgrade(p)
  BY <1>3, IdleType DEF Upgrade, Moves, Becomes
<1>4. CASE Ask(p)
  BY <1>4, GoType DEF Ask, Moves
<1> QED
  BY <1>1, <1>2, <1>3, <1>4

LEMMA LeaseMoves ==
  ASSUME TypeOK, NEW p \in Threads,
         Acquire(p) \/ Renewal(p) \/ RenewalFails(p) \/ Release(p)
  PROVE  Moves(p)
<1>1. CASE Acquire(p)
  <2> DEFINE r == [run[p] EXCEPT !.pc = IF run[p].scheduled THEN "recheck" ELSE "heads",
                                 !.renewing = TRUE, !.renewed = clock]
  <2>1. r \in Run
    BY RunType DEF Run, Body, TypeOK
  <2>2. CASE Free
    <3>1. Becomes(p, r)
      BY <1>1, <2>2 DEF Acquire, Becomes
    <3> QED
      BY <2>1, <3>1 DEF Moves
  <2>3. CASE ~Free
    BY <1>1, <2>3, IdleType DEF Acquire, Moves, Becomes
  <2> QED
    BY <2>2, <2>3
<1>2. CASE Renewal(p)
  <2>1. [run[p] EXCEPT !.renewed = clock] \in Run
    BY RunType DEF Run, TypeOK
  <2> QED
    BY <1>2, <2>1 DEF Renewal, Moves, Becomes
<1>3. CASE RenewalFails(p)
  <2>1. [run[p] EXCEPT !.renewing = FALSE] \in Run
    BY RunType DEF Run
  <2> QED
    BY <1>3, <2>1 DEF RenewalFails, Moves, Becomes
<1>4. CASE Release(p)
  BY <1>4, IdleType DEF Release, Moves, Becomes
<1> QED
  BY <1>1, <1>2, <1>3, <1>4

LEMMA BodyMoves ==
  ASSUME TypeOK, NEW p \in Threads,
         \/ Recheck(p) \/ Heads(p) \/ Fetched(p) \/ Select(p)
         \/ Notify(p) \/ ReadPlan(p) \/ WritePlan(p) \/ Mishap(p)
  PROVE  Moves(p)
<1>1. CASE Recheck(p)
  <2>1. [run[p] EXCEPT !.pc = "heads", !.planned = PlanOf(schedule)] \in Run
    BY RunType, PlanType DEF Run, Body
  <2>2. CASE Due(schedule)
    BY <1>1, <2>1, <2>2 DEF Recheck, Moves, Becomes
  <2>3. CASE ~Due(schedule)
    BY <1>1, <2>3, LeaveType DEF Recheck, Moves
  <2> QED
    BY <2>2, <2>3
<1>2. CASE Heads(p)
  <2>1. [run[p] EXCEPT !.pc = "fetch", !.head = Head] \in Run
    BY RunType DEF Run, Body, TypeOK, Head
  <2> QED
    BY <1>2, <2>1 DEF Heads, Moves, Becomes
<1>3. CASE Fetched(p)
  BY <1>3, GoType DEF Fetched, Moves, Body
<1>4. CASE Select(p)
  <2>1. (run[p].head + 1)..stored \in SUBSET Nat
    BY RunType DEF TypeOK, Run
  <2>2. [run[p] EXCEPT !.pc = "notify", !.batch = (run[p].head + 1)..stored] \in Run
    BY RunType, <2>1 DEF Run, Body
  <2> QED
    BY <1>4, <2>2 DEF Select, Moves, Becomes
<1>5. CASE Notify(p)
  BY <1>5, LeaveType, GoType DEF Notify, Moves, Body
<1>6. CASE ReadPlan(p)
  <2>1. clock + schedule.interval \in Nat
    BY PlannedType DEF TypeOK, Schedule
  <2>2. [run[p] EXCEPT !.pc = "write", !.next = clock + schedule.interval,
                       !.keep = (PlanOf(schedule) = run[p].planned)] \in Run
    BY RunType, <2>1 DEF Run, Body
  <2> QED
    BY <1>6, <2>2 DEF ReadPlan, Moves, Becomes
<1>7. CASE WritePlan(p)
  BY <1>7, LeaveType DEF WritePlan, Moves
<1>8. CASE Fail(p)
  BY <1>8, LeaveType DEF Fail, Moves
<1>9. CASE Crash(p)
  BY <1>9, IdleType DEF Crash, Moves, Becomes
<1> QED
  BY <1>1, <1>2, <1>3, <1>4, <1>5, <1>6, <1>7, <1>8, <1>9 DEF Mishap

LEMMA TypeStarts == Init => TypeOK
<1> SUFFICES ASSUME Init PROVE TypeOK
  OBVIOUS
<1>1. run \in [Threads -> Run]
  BY IdleType DEF Init
<1>2. schedule \in Schedule
  BY DEF Init, Schedule, Times
<1>3. lease \in Lease /\ notices \in [1..MaxRecords -> Nat]
  BY DEF Init, Lease, FreeLease
<1> QED
  BY <1>1, <1>2, <1>3 DEF Init, TypeOK

LEMMA TypeThread ==
  ASSUME TypeOK, NEW p \in Threads,
         Poll(p) \/ Upgrade(p) \/ Ask(p) \/ Execute(p) \/ Renewal(p)
           \/ RenewalFails(p) \/ Mishap(p)
  PROVE  TypeOK'
<1>1. run' \in [Threads -> Run]
  <2>1. CASE Store(p)
    BY <2>1, RunType DEF Store
  <2>2. CASE ~Store(p)
    BY <2>2, ScheduleMoves, LeaseMoves, BodyMoves, BecomesType DEF Moves, Execute
  <2> QED
    BY <2>1, <2>2
<1>2. schedule' \in Schedule
  <2>1. CASE Upgrade(p)
    BY <2>1, RunType DEF Upgrade, TypeOK, Schedule, Times, Run
  <2>2. CASE WritePlan(p)
    BY <2>2, RunType DEF WritePlan, TypeOK, Schedule, Times, Run, Plan
  <2>3. CASE ~Upgrade(p) /\ ~WritePlan(p)
    BY <2>3 DEF TypeOK, Poll, Ask, Execute, Acquire, Recheck, Heads, Store, Fetched,
                Select, Notify, ReadPlan, Release, Renewal, RenewalFails, Mishap,
                Fail, Crash
  <2> QED
    BY <2>1, <2>2, <2>3
<1>3. lease' \in Lease
  BY FeedAssumption
     DEF TypeOK, Poll, Upgrade, Ask, Execute, Acquire, Recheck, Heads, Store, Fetched,
         Select, Notify, ReadPlan, WritePlan, Release, Renewal, RenewalFails, Mishap,
         Fail, Crash, Lease, FreeLease, OwnLease
<1>4. served' \subseteq Plan
  BY RunType
     DEF TypeOK, Poll, Upgrade, Ask, Execute, Acquire, Recheck, Heads, Store, Fetched,
         Select, Notify, ReadPlan, WritePlan, Release, Renewal, RenewalFails, Mishap,
         Fail, Crash, Run, history
<1>5. notices' \in [1..MaxRecords -> Nat]
  BY DEF TypeOK, Poll, Upgrade, Ask, Execute, Acquire, Recheck, Heads, Store, Fetched,
         Select, Notify, ReadPlan, WritePlan, Release, Renewal, RenewalFails, Mishap,
         Fail, Crash, history
<1>6. stored' \in Nat
  BY DEF TypeOK, Poll, Upgrade, Ask, Execute, Acquire, Recheck, Heads, Store, Fetched,
         Select, Notify, ReadPlan, WritePlan, Release, Renewal, RenewalFails, Mishap,
         Fail, Crash
<1>7. lapsed' \in BOOLEAN
  BY DEF TypeOK, Poll, Upgrade, Ask, Execute, Acquire, Recheck, Heads, Store, Fetched,
         Select, Notify, ReadPlan, WritePlan, Release, Renewal, RenewalFails, Mishap,
         Fail, Crash, history
<1>8. clock' \in Nat /\ choices' \in Nat
  BY DEF TypeOK, Poll, Upgrade, Ask, Execute, Acquire, Recheck, Heads, Store, Fetched,
         Select, Notify, ReadPlan, WritePlan, Release, Renewal, RenewalFails, Mishap,
         Fail, Crash, history
<1> QED
  BY <1>1, <1>2, <1>3, <1>4, <1>5, <1>6, <1>7, <1>8 DEF TypeOK

LEMMA TypeGoesOn ==
  ASSUME TypeOK, [Next]_vars
  PROVE  TypeOK'
<1>1. ASSUME NEW enabled \in BOOLEAN, NEW h \in Intervals, Save(enabled, h)
      PROVE  TypeOK'
  <2>1. clock + h \in Nat /\ choices + 1 \in Nat
    BY PlannedType
  <2>2. schedule' \in Schedule
    BY <1>1, <2>1 DEF Save, Schedule, Times, Unplanned
  <2> QED
    BY <1>1, <2>1, <2>2 DEF Save, TypeOK
<1>2. CASE Tick
  BY <1>2 DEF Tick, TypeOK, history
<1>3. CASE UNCHANGED vars
  BY <1>3 DEF vars, TypeOK
<1> QED
  BY <1>1, <1>2, <1>3, TypeThread DEF Next, ReliableNext, Loop, Threads

-----------------------------------------------------------------------------
(* The inductive invariants.                                               *)

\* A renewal is never so late that the lease it renews has expired.
HeldInv ==
  \A p \in Threads :
    run[p].renewing =>
      /\ InBody(p) /\ lease.owner = p
      /\ run[p].renewed <= clock /\ clock <= run[p].renewed + RenewWithin
      /\ run[p].renewed + LeaseTTL <= lease.expires

\* As long as renewals succeed, whoever is in the body renews.
AloneInv == ~lapsed => \A p \in Threads : InBody(p) => run[p].renewing

\* Records above the head of the refresh have been told of by nobody.
Fetching(p) == run[p].pc \in {"fetch", "select", "notify"}
FreshInv ==
  ~lapsed =>
    /\ \A i \in 1..MaxRecords : notices[i] <= 1 /\ (i > stored => notices[i] = 0)
    /\ \A p \in Threads : Fetching(p) =>
         /\ run[p].head <= stored
         /\ \A i \in 1..MaxRecords : i > run[p].head => notices[i] = 0
    /\ \A p \in Threads : run[p].pc = "notify" =>
         \A i \in run[p].batch : run[p].head < i /\ i <= stored

\* Thread p refreshes for the planned time it has read under the lease.
Serving(p) == InBody(p) /\ run[p].scheduled /\ run[p].pc # "recheck"

\* Plans come from choices made, and from times that have come.
PlanInv ==
  /\ schedule.choice <= choices
  /\ schedule.next = Absent => served = {} /\ \A p \in Threads : ~run[p].scheduled
  /\ \A s \in served : s[1] \in Nat /\ s[2] <= choices
  /\ \A p \in Threads :
       /\ run[p].pc \in {"recheck", "plan", "write"} => run[p].scheduled
       /\ Serving(p) => /\ run[p].planned[1] \in Nat /\ run[p].planned[1] <= clock
                        /\ run[p].planned[2] <= choices
       /\ run[p].pc = "write" => run[p].planned[1] < run[p].next

\* Times served lie before the times planned by the same choice.
Before(t, c) == \A s \in served : s[2] = c => s[1] < t
OrderInv ==
  ~lapsed =>
    /\ Planned(schedule) => Before(schedule.next, schedule.choice)
    /\ \A p \in Threads :
         /\ Serving(p) => Before(run[p].planned[1], run[p].planned[2])
         /\ Serving(p) /\ run[p].planned[2] = schedule.choice
              => run[p].planned = PlanOf(schedule)
         /\ run[p].pc = "write" /\ ~run[p].keep
              => run[p].planned[2] # schedule.choice

-----------------------------------------------------------------------------
(* What a step does to the records of the threads.                         *)

Thread(p) == Poll(p) \/ Upgrade(p) \/ Ask(p) \/ Execute(p) \/ Renewal(p)
               \/ RenewalFails(p) \/ Mishap(p)

LEMMA NextCases ==
  ASSUME [Next]_vars
  PROVE  \/ \E enabled \in BOOLEAN, h \in Intervals : Save(enabled, h)
         \/ \E p \in Threads : Thread(p)
         \/ Tick
         \/ UNCHANGED vars
BY DEF Next, ReliableNext, Loop, Thread, Threads

LEMMA OthersStay ==
  ASSUME TypeOK, NEW p \in Threads, Thread(p), NEW q \in Threads, q # p
  PROVE  run'[q] = run[q]
<1>1. CASE Store(p)
  BY <1>1 DEF Store
<1>2. CASE ~Store(p)
  <2>1. Moves(p)
    BY <1>2, ScheduleMoves, LeaseMoves, BodyMoves DEF Thread, Execute
  <2> QED
    BY <2>1, RunType DEF Moves, Becomes
<1> QED
  BY <1>1, <1>2

\* A thread that goes idle or leaves the body.
LEMMA IdleAfter ==
  ASSUME TypeOK, NEW p \in Threads, run' = [run EXCEPT ![p] = IdleRun]
  PROVE  run'[p] = IdleRun
BY RunType

LEMMA LeftAfter ==
  ASSUME TypeOK, NEW p \in Threads, Leave(p)
  PROVE  run'[p] = Left(p)
BY RunType, LeaveType DEF Becomes

LEMMA GoAfter ==
  ASSUME TypeOK, NEW p \in Threads, NEW pc, Go(p, pc)
  PROVE  run'[p] = At(p, pc)
BY RunType DEF Go, At, Run

-----------------------------------------------------------------------------
(* The lease.                                                              *)

LEMMA HeldStarts == Init => HeldInv /\ AloneInv
BY DEF Init, HeldInv, AloneInv, IdleRun, InBody, Body

\* Who renews has not let the lease expire.
LEMMA NotFree ==
  ASSUME TypeOK, HeldInv, NEW p \in Threads, run[p].renewing
  PROVE  ~Free /\ lease.owner = p /\ lease.expires > clock
<1>1. /\ run[p].renewed \in Nat /\ clock \in Nat /\ lease.expires \in Nat
      /\ LeaseTTL \in Nat /\ RenewWithin \in Nat /\ RenewWithin < LeaseTTL
  BY RunType, ConstantTypes DEF TypeOK, Lease, Run
<1>2. lease.owner = p /\ lease.expires > clock
  BY <1>1 DEF HeldInv
<1> QED
  BY <1>1, <1>2, ConstantTypes DEF Free

\* Held(p) is what HeldInv says of one thread.
Held(p) ==
  run[p].renewing =>
    /\ InBody(p) /\ lease.owner = p
    /\ run[p].renewed <= clock /\ clock <= run[p].renewed + RenewWithin
    /\ run[p].renewed + LeaseTTL <= lease.expires

LEMMA HeldByOthers ==
  ASSUME TypeOK, HeldInv, NEW p \in Threads, Thread(p), NEW q \in Threads, q # p
  PROVE  Held(q)'
<1> SUFFICES ASSUME run'[q].renewing PROVE Held(q)'
  BY DEF Held
<1>1. run'[q] = run[q]
  BY OthersStay
<1>2. ~Free /\ lease.owner = q
  BY <1>1, NotFree
<1>3. clock' = clock
  BY DEF Thread, Execute, Poll, Upgrade, Ask, Acquire, Renewal, RenewalFails, Recheck, Heads,
         Store, Fetched, Select, Notify, ReadPlan, WritePlan, Release, Mishap, Fail, Crash
<1>4. lease' = lease
  BY <1>2 DEF Thread, Execute, Poll, Upgrade, Ask, Acquire, Renewal, RenewalFails, Recheck, Heads,
         Store, Fetched, Select, Notify, ReadPlan, WritePlan, Release, Mishap, Fail, Crash,
         OwnLease
<1> QED
  BY <1>1, <1>3, <1>4 DEF HeldInv, Held, InBody

LEMMA HeldBySelf ==
  ASSUME TypeOK, HeldInv, NEW p \in Threads, Thread(p)
  PROVE  Held(p)'
<1>0. /\ run[p] \in Run /\ clock \in Nat /\ LeaseTTL \in Nat /\ RenewWithin \in Nat
      /\ lease \in Lease /\ Held(p)
  BY RunType, ConstantTypes DEF TypeOK, HeldInv, Held
<1>1. CASE Poll(p) \/ Ask(p)
  <2>1. run'[p].renewing = run[p].renewing
    BY <1>1, RunType DEF Poll, Ask, Go, Run
  <2>2. ~run[p].renewing
    BY <1>0, <1>1 DEF Held, InBody, Body, Poll, Ask
  <2> QED
    BY <2>1, <2>2 DEF Held
<1>2. CASE Upgrade(p) \/ Release(p) \/ Crash(p) \/ (Acquire(p) /\ ~Free)
  BY <1>2, IdleAfter DEF Upgrade, Release, Crash, Acquire, Held, IdleRun
<1>3. CASE Acquire(p) /\ Free
  <2>1. /\ run'[p].renewed = clock /\ run'[p].pc \in Body
    BY <1>3, RunType DEF Acquire, Run, Body
  <2>2. lease' = [owner |-> p, expires |-> clock + LeaseTTL] /\ clock' = clock
    BY <1>3 DEF Acquire
  <2> QED
    BY <1>0, <2>1, <2>2 DEF Held, InBody
<1>4. CASE Renewal(p)
  <2>1. /\ run'[p].renewed = clock /\ run'[p].pc = run[p].pc
        /\ run[p].renewing /\ clock' = clock
    BY <1>4, RunType DEF Renewal, Run
  <2>2. lease.owner = p /\ InBody(p)
    BY <1>0, <2>1 DEF Held
  <2>3. lease'.owner = p /\ lease'.expires = clock + LeaseTTL
    BY <1>0, <1>4, <2>2 DEF Renewal, Lease
  <2> QED
    BY <1>0, <2>1, <2>2, <2>3 DEF Held, InBody
<1>5. CASE RenewalFails(p)
  BY <1>5, RunType DEF RenewalFails, Held, Run
<1>6. CASE Recheck(p) /\ Due(schedule)
  <2>1. /\ run'[p].renewed = run[p].renewed /\ run'[p].renewing = run[p].renewing
        /\ run'[p].pc \in Body /\ clock' = clock /\ lease' = lease
    BY <1>6, RunType DEF Recheck, Run, Body
  <2> QED
    BY <1>0, <2>1 DEF Held, InBody
<1>7. CASE \/ Recheck(p) /\ ~Due(schedule)
           \/ Notify(p) /\ ~run[p].scheduled
           \/ WritePlan(p) \/ Fail(p)
  <2>1. Leave(p)
    BY <1>7 DEF Recheck, Notify, WritePlan, Fail
  <2> QED
    BY <2>1, LeftAfter, RunType DEF Held, Left, Run
<1>8. CASE Heads(p) \/ Store(p) \/ Fetched(p) \/ Select(p) \/ ReadPlan(p)
             \/ (Notify(p) /\ run[p].scheduled)
  <2>1. /\ run'[p].renewed = run[p].renewed /\ run'[p].renewing = run[p].renewing
        /\ run'[p].pc \in Body
    BY <1>8, RunType DEF Heads, Store, Fetched, Select, ReadPlan, Notify, Go, Run, Body
  <2>2. clock' = clock /\ lease' = lease
    BY <1>8 DEF Heads, Store, Fetched, Select, ReadPlan, Notify
  <2> QED
    BY <1>0, <2>1, <2>2 DEF Held, InBody
<1> QED
  BY <1>1, <1>2, <1>3, <1>4, <1>5, <1>6, <1>7, <1>8 DEF Thread, Execute, Mishap

LEMMA HeldGoesOn ==
  ASSUME TypeOK, HeldInv, [Next]_vars
  PROVE  HeldInv'
<1>1. CASE \E p \in Threads : Thread(p)
  BY <1>1, HeldByOthers, HeldBySelf DEF HeldInv, Held
<1>2. CASE \E enabled \in BOOLEAN, h \in Intervals : Save(enabled, h)
  BY <1>2 DEF Save, HeldInv, InBody
<1>3. CASE Tick
  <2> SUFFICES ASSUME NEW p \in Threads, run[p].renewing
               PROVE  Held(p)'
    BY <1>3 DEF Tick, HeldInv, Held
  <2>1. /\ run[p].renewed \in Nat /\ clock \in Nat /\ RenewWithin \in Nat
    BY RunType, ConstantTypes DEF TypeOK, Run
  <2>2. clock < run[p].renewed + RenewWithin /\ clock' = clock + 1
        /\ lease' = lease /\ run' = run
    BY <1>3 DEF Tick
  <2> QED
    BY <2>1, <2>2 DEF HeldInv, Held, InBody
<1>4. CASE UNCHANGED vars
  BY <1>4 DEF vars, HeldInv, InBody
<1> QED
  BY <1>1, <1>2, <1>3, <1>4, NextCases

-----------------------------------------------------------------------------
(* One refresh at a time.                                                  *)

LEMMA LapsedStays ==
  ASSUME [Next]_vars
  PROVE  lapsed => lapsed'
<1>1. CASE \E p \in Threads : Thread(p)
  BY <1>1 DEF Thread, Execute, Poll, Upgrade, Ask, Acquire, Renewal, RenewalFails,
              Recheck, Heads, Store, Fetched, Select, Notify, ReadPlan, WritePlan,
              Release, Mishap, Fail, Crash, history
<1> QED
  BY <1>1, NextCases DEF Save, Tick, vars, history

LEMMA AloneGoesOn ==
  ASSUME TypeOK, AloneInv, [Next]_vars
  PROVE  AloneInv'
<1> SUFFICES ASSUME ~lapsed', NEW q \in Threads, InBody(q)'
             PROVE  run'[q].renewing
  BY DEF AloneInv
<1>0. InBody(q) => run[q].renewing
  BY LapsedStays DEF AloneInv
<1>1. ASSUME NEW p \in Threads, Thread(p) PROVE run'[q].renewing
  <2>1. CASE p # q
    BY <1>0, <1>1, <2>1, OthersStay DEF InBody
  <2>2. CASE p = q /\ (Poll(p) \/ Ask(p))
    <3>1. run'[p].pc \in {"upgrade", "due"}
      BY <2>2, RunType DEF Poll, Ask, Go, Run
    <3> QED
      BY <3>1, <2>2 DEF InBody, Body
  <2>3. CASE p = q /\ (Upgrade(p) \/ Release(p) \/ Crash(p) \/ (Acquire(p) /\ ~Free))
    BY <2>3, IdleAfter DEF Upgrade, Release, Crash, Acquire, InBody, Body, IdleRun
  <2>4. CASE p = q /\ Acquire(p) /\ Free
    BY <2>4, RunType DEF Acquire, Run
  <2>5. CASE p = q /\ Renewal(p)
    BY <2>5, RunType DEF Renewal, Run
  <2>6. CASE p = q /\ RenewalFails(p)
    BY <2>6 DEF RenewalFails
  <2>7. CASE p = q /\ (\/ Recheck(p) /\ ~Due(schedule)
                       \/ Notify(p) /\ ~run[p].scheduled
                       \/ WritePlan(p) \/ Fail(p))
    <3>1. Leave(p)
      BY <2>7 DEF Recheck, Notify, WritePlan, Fail
    <3>2. run'[p].pc = "release"
      BY <3>1, LeftAfter, RunType DEF Left, Run
    <3> QED
      BY <2>7, <3>2 DEF InBody, Body
  <2>8. CASE p = q /\ (\/ Recheck(p) /\ Due(schedule)
                       \/ Heads(p) \/ Store(p) \/ Fetched(p) \/ Select(p) \/ ReadPlan(p)
                       \/ Notify(p) /\ run[p].scheduled)
    <3>1. run'[p].renewing = run[p].renewing /\ InBody(p)
      BY <2>8, RunType
         DEF Recheck, Heads, Store, Fetched, Select, ReadPlan, Notify, Go, Run, Body, InBody
    <3> QED
      BY <1>0, <2>8, <3>1
  <2> QED
    BY <1>1, <2>1, <2>2, <2>3, <2>4, <2>5, <2>6, <2>7, <2>8 DEF Thread, Execute, Mishap
<1>2. CASE ~\E p \in Threads : Thread(p)
  BY <1>0, <1>2, NextCases DEF Save, Tick, vars, history, InBody
<1> QED
  BY <1>1, <1>2

\* Two threads in the body are the same, as long as renewals succeed.
LEMMA OneInBody ==
  ASSUME HeldInv, AloneInv, ~lapsed, NEW p \in Threads, NEW q \in Threads,
         InBody(p), InBody(q)
  PROVE  p = q
BY DEF HeldInv, AloneInv

-----------------------------------------------------------------------------
(* Records told of once.                                                   *)

LEMMA FreshStarts == Init => FreshInv
BY DEF Init, FreshInv, Fetching, IdleRun

FreshRecords == \A i \in 1..MaxRecords : notices[i] <= 1 /\ (i > stored => notices[i] = 0)
FreshFor(p) ==
  /\ Fetching(p) => /\ run[p].head <= stored
                    /\ \A i \in 1..MaxRecords : i > run[p].head => notices[i] = 0
  /\ run[p].pc = "notify" => \A i \in run[p].batch : run[p].head < i /\ i <= stored

LEMMA FreshParts == FreshInv <=> (~lapsed => FreshRecords /\ \A p \in Threads : FreshFor(p))
BY DEF FreshInv, FreshRecords, FreshFor

\* Steps that neither store a record nor tell of one.
Quiet(p) == Thread(p) /\ ~Store(p) /\ ~Notify(p)

LEMMA QuietRecords ==
  ASSUME NEW p \in Threads, Quiet(p)
  PROVE  stored' = stored /\ notices' = notices
BY DEF Quiet, Thread, Execute, Poll, Upgrade, Ask, Acquire, Renewal, RenewalFails,
       Recheck, Heads, Fetched, Select, ReadPlan, WritePlan, Release, Mishap, Fail,
       Crash, history

LEMMA FreshByQuiet ==
  ASSUME TypeOK, NEW p \in Threads, Quiet(p), FreshRecords, FreshFor(p)
  PROVE  FreshFor(p)'
<1>0. stored' = stored /\ notices' = notices
  BY QuietRecords
<1>1. CASE Heads(p)
  <2>1. run'[p].head = stored /\ run'[p].pc = "fetch" /\ stored \in Nat
    BY <1>1, RunType DEF Heads, Head, Run, TypeOK
  <2> QED
    BY <1>0, <2>1 DEF FreshRecords, FreshFor, Fetching
<1>2. CASE Fetched(p)
  <2>1. run'[p].head = run[p].head /\ run'[p].pc = "select" /\ Fetching(p)
    BY <1>2, RunType DEF Fetched, Go, Run, Fetching
  <2> QED
    BY <1>0, <2>1 DEF FreshFor, Fetching
<1>3. CASE Select(p)
  <2>1. run'[p].head = run[p].head /\ Fetching(p) /\ run[p].head \in Nat /\ stored \in Nat
        /\ run'[p].batch = (run[p].head + 1)..stored
    BY <1>3, RunType DEF Select, Run, Fetching, TypeOK
  <2> QED
    BY <1>0, <2>1 DEF FreshFor, Fetching
<1>4. CASE Renewal(p) \/ RenewalFails(p)
  <2>1. /\ run'[p].head = run[p].head /\ run'[p].pc = run[p].pc
        /\ run'[p].batch = run[p].batch
    BY <1>4, RunType DEF Renewal, RenewalFails, Run
  <2> QED
    BY <1>0, <2>1 DEF FreshFor, Fetching
<1>5. CASE Poll(p) \/ Ask(p) \/ (Acquire(p) /\ Free) \/ (Recheck(p) /\ Due(schedule))
             \/ ReadPlan(p)
  <2>1. run'[p].pc \in {"upgrade", "due", "recheck", "heads", "write"}
    BY <1>5, RunType DEF Poll, Ask, Go, Acquire, Recheck, ReadPlan, Run
  <2> QED
    BY <2>1 DEF FreshFor, Fetching
<1>6. CASE Upgrade(p) \/ Release(p) \/ Crash(p) \/ (Acquire(p) /\ ~Free)
  BY <1>6, IdleAfter DEF Upgrade, Release, Crash, Acquire, FreshFor, Fetching, IdleRun
<1>7. CASE (Recheck(p) /\ ~Due(schedule)) \/ WritePlan(p) \/ Fail(p)
  <2>1. Leave(p)
    BY <1>7 DEF Recheck, WritePlan, Fail
  <2>2. run'[p].pc = "release"
    BY <2>1, LeftAfter, RunType DEF Left, Run
  <2> QED
    BY <2>2 DEF FreshFor, Fetching
<1> QED
  BY <1>1, <1>2, <1>3, <1>4, <1>5, <1>6, <1>7 DEF Quiet, Thread, Execute, Mishap

LEMMA FreshByThread ==
  ASSUME TypeOK, HeldInv, AloneInv, ~lapsed, NEW p \in Threads, Thread(p),
         FreshRecords, \A q \in Threads : FreshFor(q)
  PROVE  FreshRecords' /\ \A q \in Threads : FreshFor(q)'
<1>1. CASE Quiet(p)
  <2>1. FreshRecords'
    BY <1>1, QuietRecords DEF FreshRecords
  <2>2. ASSUME NEW q \in Threads, q # p PROVE FreshFor(q)'
    BY <1>1, <2>2, QuietRecords, OthersStay DEF FreshFor, Fetching
  <2> QED
    BY <1>1, <2>1, <2>2, FreshByQuiet
<1>2. CASE Store(p)
  <2>1. /\ stored' = stored + 1 /\ notices' = notices /\ run' = run /\ stored \in Nat
    BY <1>2 DEF Store, history, TypeOK
  <2>2. FreshRecords'
    BY <2>1 DEF FreshRecords
  <2>3. ASSUME NEW q \in Threads PROVE FreshFor(q)'
    <3>1. run[q].head \in Nat /\ run[q].batch \subseteq Nat
      BY RunType DEF Run
    <3> QED
      BY <2>1, <3>1 DEF FreshFor, Fetching
  <2> QED
    BY <2>2, <2>3
<1>3. CASE Notify(p)
  <2>1. /\ stored' = stored /\ stored \in Nat /\ run[p].pc = "notify"
        /\ run[p].head \in Nat /\ run[p].batch \subseteq Nat /\ InBody(p)
        /\ run'[p].pc \in {"plan", "release"}
    <3>1. CASE run[p].scheduled
      BY <1>3, <3>1, RunType DEF Notify, TypeOK, Run, InBody, Body, Go
    <3>2. CASE ~run[p].scheduled
      BY <1>3, <3>2, RunType, LeftAfter DEF Notify, TypeOK, Run, InBody, Body, Left
    <3> QED
      BY <3>1, <3>2
  <2>2. FreshRecords'
    <3> SUFFICES ASSUME NEW i \in 1..MaxRecords
                 PROVE  notices'[i] <= 1 /\ (i > stored => notices'[i] = 0)
      BY <2>1 DEF FreshRecords
    <3>1. notices'[i] = IF i \in run[p].batch THEN notices[i] + 1 ELSE notices[i]
      BY <1>3 DEF Notify
    <3>2. notices[i] \in Nat /\ i \in Nat
      BY ConstantTypes DEF TypeOK
    <3>3. CASE i \in run[p].batch
      <4>1. run[p].head < i /\ i <= stored /\ notices[i] = 0
        BY <2>1, <3>2, <3>3 DEF FreshFor, Fetching
      <4> QED
        BY <2>1, <3>1, <3>2, <3>3, <4>1
    <3>4. CASE i \notin run[p].batch
      BY <3>1, <3>4 DEF FreshRecords
    <3> QED
      BY <3>3, <3>4
  <2>3. ASSUME NEW q \in Threads PROVE FreshFor(q)'
    <3>1. CASE q = p
      BY <2>1, <3>1 DEF FreshFor, Fetching
    <3>2. CASE q # p
      <4>1. run'[q] = run[q] /\ ~InBody(q)
        BY <2>1, <3>2, OthersStay, OneInBody
      <4> QED
        BY <4>1 DEF FreshFor, Fetching, InBody, Body
    <3> QED
      BY <3>1, <3>2
  <2> QED
    BY <2>2, <2>3
<1> QED
  BY <1>1, <1>2, <1>3 DEF Quiet

LEMMA FreshGoesOn ==
  ASSUME TypeOK, HeldInv, AloneInv, FreshInv, [Next]_vars
  PROVE  FreshInv'
<1> SUFFICES ASSUME ~lapsed'
             PROVE  FreshRecords' /\ \A q \in Threads : FreshFor(q)'
  BY FreshParts DEF FreshInv, FreshRecords, FreshFor
<1>0. ~lapsed /\ FreshRecords /\ \A q \in Threads : FreshFor(q)
  BY LapsedStays, FreshParts
<1>1. CASE \E p \in Threads : Thread(p)
  BY <1>0, <1>1, FreshByThread
<1>2. CASE ~\E p \in Threads : Thread(p)
  <2>1. stored' = stored /\ notices' = notices /\ run' = run
    BY <1>2, NextCases DEF Save, Tick, vars, history
  <2> QED
    BY <1>0, <2>1 DEF FreshRecords, FreshFor, Fetching
<1> QED
  BY <1>1, <1>2

-----------------------------------------------------------------------------
(* The planned times.                                                      *)

PlanFor(p) ==
  /\ run[p].pc \in {"recheck", "plan", "write"} => run[p].scheduled
  /\ Serving(p) => /\ run[p].planned[1] \in Nat /\ run[p].planned[1] <= clock
                   /\ run[p].planned[2] <= choices
  /\ run[p].pc = "write" => run[p].planned[1] < run[p].next
PlanShared ==
  /\ schedule.choice <= choices
  /\ schedule.next = Absent => served = {} /\ \A p \in Threads : ~run[p].scheduled
  /\ \A s \in served : s[1] \in Nat /\ s[2] <= choices

LEMMA PlanParts == PlanInv <=> PlanShared /\ \A p \in Threads : PlanFor(p)
BY DEF PlanInv, PlanShared, PlanFor

LEMMA PlanStarts == Init => PlanInv
BY DEF Init, PlanInv, IdleRun, Serving, InBody, Body

\* Where a step leaves the thread, if it refreshes for a planned time then.
LEMMA ServesOn ==
  ASSUME TypeOK, NEW p \in Threads, Thread(p), ~Recheck(p), Serving(p)'
  PROVE  /\ Serving(p) /\ run'[p].planned = run[p].planned
         /\ run'[p].scheduled = run[p].scheduled
<1>1. CASE Poll(p) \/ Ask(p)
  <2>1. run'[p].pc \in {"upgrade", "due"}
    BY <1>1, RunType DEF Poll, Ask, Go, Run
  <2> QED
    BY <2>1 DEF Serving, InBody, Body
<1>2. CASE Upgrade(p) \/ Release(p) \/ Crash(p) \/ (Acquire(p) /\ ~Free)
  BY <1>2, IdleAfter DEF Upgrade, Release, Crash, Acquire, Serving, InBody, Body, IdleRun
<1>3. CASE Acquire(p) /\ Free
  <2>1. /\ run'[p].scheduled = run[p].scheduled
        /\ run'[p].pc = IF run[p].scheduled THEN "recheck" ELSE "heads"
    BY <1>3, RunType DEF Acquire, Run
  <2> QED
    BY <2>1 DEF Serving
<1>4. CASE Renewal(p) \/ RenewalFails(p)
  BY <1>4, RunType DEF Renewal, RenewalFails, Run, Serving, InBody
<1>5. CASE (Notify(p) /\ ~run[p].scheduled) \/ WritePlan(p) \/ Fail(p)
  <2>1. Leave(p)
    BY <1>5 DEF Notify, WritePlan, Fail
  <2>2. run'[p].pc = "release"
    BY <2>1, LeftAfter, RunType DEF Left, Run
  <2> QED
    BY <2>2 DEF Serving, InBody, Body
<1>6. CASE Heads(p) \/ Store(p) \/ Fetched(p)
  <2>1. /\ run'[p].scheduled = run[p].scheduled /\ run'[p].planned = run[p].planned
        /\ run[p].pc \in {"heads", "fetch"}
    BY <1>6, RunType DEF Heads, Store, Fetched, Go, Run
  <2> QED
    BY <2>1 DEF Serving, InBody, Body
<1>7. CASE Select(p) \/ ReadPlan(p)
  <2>1. /\ run'[p].scheduled = run[p].scheduled /\ run'[p].planned = run[p].planned
        /\ run[p].pc \in {"select", "plan"}
    BY <1>7, RunType DEF Select, ReadPlan, Run
  <2> QED
    BY <2>1 DEF Serving, InBody, Body
<1>8. CASE Notify(p) /\ run[p].scheduled
  BY <1>8, RunType DEF Notify, Go, Run, Body, Serving, InBody
<1> QED
  BY <1>1, <1>2, <1>3, <1>4, <1>5, <1>6, <1>7, <1>8 DEF Thread, Execute, Mishap

\* A recheck that lets the refresh go on reads the plan.
LEMMA RecheckReads ==
  ASSUME TypeOK, NEW p \in Threads, Recheck(p), Serving(p)'
  PROVE  Due(schedule) /\ run'[p].planned = PlanOf(schedule) /\ run'[p].pc = "heads"
<1>1. CASE Due(schedule)
  BY <1>1, RunType DEF Recheck, Run
<1>2. CASE ~Due(schedule)
  <2>1. run'[p].pc = "release"
    BY <1>2, LeftAfter, RunType DEF Recheck, Left, Run
  <2> QED
    BY <2>1 DEF Serving, InBody, Body
<1> QED
  BY <1>1, <1>2

LEMMA DueNow ==
  ASSUME TypeOK, Due(schedule)
  PROVE  schedule.next \in Nat /\ schedule.next <= clock /\ schedule.next # Absent
BY DEF TypeOK, Due, Planned, Schedule, Times

\* What steps of threads leave alone.
LEMMA ScheduleStays ==
  ASSUME NEW p \in Threads, Thread(p)
  PROVE  /\ clock' = clock /\ choices' = choices
         /\ ~WritePlan(p) => served' = served
         /\ ~WritePlan(p) /\ ~(Upgrade(p) /\ schedule.next = Absent) => schedule' = schedule
BY DEF Thread, Execute, Poll, Upgrade, Ask, Acquire, Renewal, RenewalFails,
       Recheck, Heads, Store, Fetched, Select, Notify, ReadPlan, WritePlan, Release,
       Mishap, Fail, Crash, history

LEMMA PlanBySelf ==
  ASSUME TypeOK, PlanShared, NEW p \in Threads, Thread(p), PlanFor(p)
  PROVE  PlanFor(p)'
<1>0. clock' = clock /\ choices' = choices
  BY ScheduleStays
<1>1. Serving(p)' => /\ run'[p].planned[1] \in Nat /\ run'[p].planned[1] <= clock
                     /\ run'[p].planned[2] <= choices
  <2>1. CASE Recheck(p)
    BY <2>1, RecheckReads, DueNow DEF PlanOf, PlanShared
  <2>2. CASE ~Recheck(p)
    BY <2>2, ServesOn DEF PlanFor
  <2> QED
    BY <2>1, <2>2
<1>2. run'[p].pc \in {"recheck", "plan", "write"} => run'[p].scheduled
  <2>1. CASE Serving(p)'
    BY <2>1 DEF Serving
  <2>2. CASE Acquire(p) /\ Free
    BY <2>2, RunType DEF Acquire, Run
  <2>3. CASE Poll(p) \/ Ask(p) \/ Heads(p) \/ Fetched(p) \/ Select(p)
    <3>1. run'[p].pc \in {"upgrade", "due", "fetch", "select", "notify"}
      BY <2>3, RunType DEF Poll, Ask, Heads, Fetched, Select, Go, Run
    <3> QED
      BY <3>1
  <2>4. CASE Upgrade(p) \/ Release(p) \/ Crash(p) \/ (Acquire(p) /\ ~Free)
    BY <2>4, IdleAfter DEF Upgrade, Release, Crash, Acquire, IdleRun
  <2>5. CASE Renewal(p) \/ RenewalFails(p) \/ Store(p)
    BY <2>5, RunType DEF Renewal, RenewalFails, Store, Run, PlanFor
  <2>6. CASE \/ (Notify(p) /\ ~run[p].scheduled) \/ WritePlan(p) \/ Fail(p)
             \/ (Recheck(p) /\ ~Due(schedule))
    <3>1. Leave(p)
      BY <2>6 DEF Notify, WritePlan, Fail, Recheck
    <3> QED
      BY <3>1, LeftAfter, RunType DEF Left, Run
  <2>7. CASE ReadPlan(p)
    BY <2>7, RunType DEF ReadPlan, Run, PlanFor
  <2>9. CASE Notify(p) /\ run[p].scheduled
    BY <2>9, RunType DEF Notify, Go, Run
  <2>8. CASE Recheck(p) /\ Due(schedule)
    BY <2>8, RunType DEF Recheck, Run
  <2> QED
    BY <2>2, <2>3, <2>4, <2>5, <2>6, <2>7, <2>8, <2>9
       DEF Thread, Execute, Mishap
<1>3. run'[p].pc = "write" => run'[p].planned[1] < run'[p].next
  <2> SUFFICES ASSUME run'[p].pc = "write"
               PROVE  run'[p].planned[1] < run'[p].next
    OBVIOUS
  <2>1. Serving(p)'
    BY <1>2 DEF Serving, InBody, Body
  <2>2. CASE ReadPlan(p)
    <3>1. run'[p].next = clock + schedule.interval /\ run'[p].planned = run[p].planned
          /\ Serving(p)
      BY <2>1, <2>2, RunType, ServesOn DEF ReadPlan, Run, Recheck
    <3>2. schedule.interval \in Nat \ {0}
      BY FeedAssumption DEF TypeOK, Schedule
    <3>3. run[p].planned[1] \in Nat /\ run[p].planned[1] <= clock /\ clock \in Nat
      BY <3>1 DEF PlanFor, TypeOK
    <3> QED
      BY <3>1, <3>2, <3>3
  <2>3. CASE Recheck(p)
    BY <2>1, <2>3, RecheckReads
  <2>4. CASE ~ReadPlan(p) /\ ~Recheck(p)
    <3>1. run'[p].planned = run[p].planned
      BY <2>1, <2>4, ServesOn
    <3>2. run[p].pc = "write" /\ run'[p].next = run[p].next
      <4>1. CASE Poll(p) \/ Ask(p) \/ Heads(p) \/ Fetched(p) \/ Select(p)
                   \/ (Notify(p) /\ run[p].scheduled)
        BY <4>1, RunType DEF Poll, Ask, Heads, Fetched, Select, Notify, Go, Run
      <4>2. CASE Upgrade(p) \/ Release(p) \/ Crash(p) \/ (Acquire(p) /\ ~Free)
        BY <4>2, IdleAfter DEF Upgrade, Release, Crash, Acquire, IdleRun
      <4>3. CASE Acquire(p) /\ Free
        BY <4>3, RunType DEF Acquire, Run
      <4>4. CASE Renewal(p) \/ RenewalFails(p) \/ Store(p)
        BY <4>4, RunType DEF Renewal, RenewalFails, Store, Run
      <4>5. CASE (Notify(p) /\ ~run[p].scheduled) \/ WritePlan(p) \/ Fail(p)
        <5>1. Leave(p)
          BY <4>5 DEF Notify, WritePlan, Fail
        <5> QED
          BY <5>1, LeftAfter, RunType DEF Left, Run
      <4> QED
        BY <2>4, <4>1, <4>2, <4>3, <4>4, <4>5 DEF Thread, Execute, Mishap
    <3> QED
      BY <3>1, <3>2 DEF PlanFor
  <2> QED
    BY <2>2, <2>3, <2>4
<1> QED
  BY <1>0, <1>1, <1>2, <1>3 DEF PlanFor

\* A scheduled thread stems from a poll that found a time planned.
LEMMA ScheduledByPlan ==
  ASSUME TypeOK, PlanShared, NEW p \in Threads, Thread(p), run'[p].scheduled
  PROVE  schedule.next # Absent
<1>1. CASE run[p].scheduled
  BY <1>1 DEF PlanShared
<1>2. CASE ~run[p].scheduled /\ Poll(p)
  BY <1>2, RunType DEF Poll, Run, Due, Planned
<1>3. CASE ~run[p].scheduled /\ (Upgrade(p) \/ Release(p) \/ Crash(p) \/ (Acquire(p) /\ ~Free))
  BY <1>3, IdleAfter DEF Upgrade, Release, Crash, Acquire, IdleRun
<1>4. CASE /\ ~run[p].scheduled
           /\ \/ Notify(p) \/ WritePlan(p) \/ Fail(p)
              \/ (Recheck(p) /\ ~Due(schedule))
  <2>1. Leave(p)
    BY <1>4 DEF Notify, WritePlan, Fail, Recheck
  <2> QED
    BY <1>4, <2>1, LeftAfter, RunType DEF Left, Run
<1>5. CASE /\ ~run[p].scheduled
           /\ Ask(p) \/ (Acquire(p) /\ Free) \/ Renewal(p) \/ RenewalFails(p) \/ Heads(p)
  BY <1>5, RunType DEF Ask, Acquire, Renewal, RenewalFails, Heads, Go, Run
<1>6. CASE /\ ~run[p].scheduled
           /\ Store(p) \/ Fetched(p) \/ Select(p) \/ ReadPlan(p)
  <2>1. CASE Store(p) \/ Fetched(p)
    BY <1>6, <2>1, RunType DEF Store, Fetched, Go, Run
  <2>2. CASE Select(p) \/ ReadPlan(p)
    <3>1. CASE Select(p)
      BY <1>6, <3>1, RunType DEF Select, Run
    <3>2. CASE ReadPlan(p)
      BY <1>6, <3>2, RunType DEF ReadPlan, Run
    <3> QED
      BY <2>2, <3>1, <3>2
  <2> QED
    BY <1>6, <2>1, <2>2
<1>7. CASE ~run[p].scheduled /\ Recheck(p) /\ Due(schedule)
  BY <1>7, DueNow
<1> QED
  BY <1>1, <1>2, <1>3, <1>4, <1>5, <1>6, <1>7 DEF Thread, Execute, Mishap

LEMMA PlanByThread ==
  ASSUME TypeOK, PlanShared, NEW p \in Threads, Thread(p),
         \A q \in Threads : PlanFor(q)
  PROVE  PlanShared' /\ \A q \in Threads : PlanFor(q)'
<1>1. ASSUME NEW q \in Threads, q # p PROVE PlanFor(q)'
  <2>1. run'[q] = run[q] /\ clock' = clock /\ choices' = choices
    BY <1>1, OthersStay, ScheduleStays
  <2> QED
    BY <2>1 DEF PlanFor, Serving, InBody
<1>2. PlanShared'
  <2>1. CASE WritePlan(p)
    <3>1. Serving(p)
      BY <2>1 DEF WritePlan, PlanFor, Serving, InBody, Body
    <3>2. /\ run[p].planned[1] \in Nat /\ run[p].planned[2] <= choices
          /\ run[p].next \in Nat /\ choices' = choices
          /\ served' = served \cup {run[p].planned}
      BY <2>1, <3>1, RunType DEF PlanFor, Run, WritePlan
    <3>3. schedule.next # Absent /\ run[p].next # Absent
      BY <3>1, <3>2, FeedAssumption DEF PlanShared, Serving
    <3>4. schedule'.next # Absent /\ schedule'.choice <= choices
      BY <2>1, <3>2, <3>3 DEF WritePlan, TypeOK, Schedule, PlanShared
    <3> QED
      BY <3>2, <3>4 DEF PlanShared
  <2>2. CASE Upgrade(p) /\ schedule.next = Absent
    <3>1. /\ served' = served /\ choices' = choices /\ run[p].next \in Nat
      BY <2>2, RunType DEF Upgrade, history, Run
    <3>2. schedule'.next = run[p].next /\ schedule'.choice = schedule.choice
      BY <2>2 DEF Upgrade, TypeOK, Schedule
    <3> QED
      BY <3>1, <3>2, FeedAssumption DEF PlanShared
  <2>3. CASE ~WritePlan(p) /\ ~(Upgrade(p) /\ schedule.next = Absent)
    <3>1. served' = served /\ choices' = choices /\ schedule' = schedule
      BY <2>3, ScheduleStays
    <3>2. ASSUME schedule.next = Absent, NEW q \in Threads PROVE ~run'[q].scheduled
      BY <3>2, ScheduledByPlan, OthersStay DEF PlanShared
    <3> QED
      BY <3>1, <3>2 DEF PlanShared
  <2> QED
    BY <2>1, <2>2, <2>3
<1> QED
  BY <1>1, <1>2, PlanBySelf

LEMMA PlanGoesOn ==
  ASSUME TypeOK, PlanInv, [Next]_vars
  PROVE  PlanInv'
<1>0. PlanShared /\ \A q \in Threads : PlanFor(q)
  BY PlanParts
<1>1. CASE \E p \in Threads : Thread(p)
  BY <1>0, <1>1, PlanByThread DEF PlanInv, PlanShared, PlanFor
<1>2. CASE \E enabled \in BOOLEAN, h \in Intervals : Save(enabled, h)
  <2> PICK enabled \in BOOLEAN, h \in Intervals : Save(enabled, h)
    BY <1>2
  <2>1. /\ clock' = clock /\ choices' = choices + 1 /\ run' = run /\ served' = served
        /\ schedule'.next \in Nat /\ schedule'.choice = choices + 1
        /\ clock \in Nat /\ choices \in Nat
    BY PlannedType DEF Save, TypeOK, Unplanned
  <2>2. ASSUME NEW q \in Threads PROVE PlanFor(q)'
    <3>1. run[q].planned[2] \in Nat
      BY RunType DEF Run, Plan
    <3> QED
      BY <1>0, <2>1, <3>1 DEF PlanFor, Serving, InBody
  <2>3. ASSUME NEW s \in served PROVE s[1] \in Nat /\ s[2] <= choices + 1
    <3>1. s[2] \in Nat
      BY DEF TypeOK, Plan
    <3> QED
      BY <1>0, <2>1, <3>1 DEF PlanShared
  <2> QED
    BY <2>1, <2>2, <2>3, FeedAssumption DEF PlanInv, PlanFor
<1>3. CASE Tick
  <2>1. /\ clock' = clock + 1 /\ choices' = choices /\ run' = run /\ served' = served
        /\ schedule' = schedule /\ clock \in Nat
    BY <1>3 DEF Tick, TypeOK, history
  <2> QED
    BY <2>1 DEF PlanInv, Serving, InBody
<1>4. CASE UNCHANGED vars
  BY <1>4 DEF vars, PlanInv, Serving, InBody
<1> QED
  BY <1>1, <1>2, <1>3, <1>4, NextCases

-----------------------------------------------------------------------------
(* The order of the planned times.                                         *)

ServedBefore == Planned(schedule) => Before(schedule.next, schedule.choice)
OrderFor(p) ==
  /\ Serving(p) => Before(run[p].planned[1], run[p].planned[2])
  /\ Serving(p) /\ run[p].planned[2] = schedule.choice => run[p].planned = PlanOf(schedule)
  /\ run[p].pc = "write" /\ ~run[p].keep => run[p].planned[2] # schedule.choice

LEMMA OrderParts ==
  OrderInv <=> (~lapsed => ServedBefore /\ \A p \in Threads : OrderFor(p))
BY DEF OrderInv, ServedBefore, OrderFor

LEMMA OrderStarts == Init => OrderInv
BY FeedAssumption DEF Init, OrderInv, IdleRun, Serving, InBody, Body, Before, Planned

\* A thread that is about to write was so before, or has just read the plan.
LEMMA WritesOn ==
  ASSUME TypeOK, NEW p \in Threads, Thread(p), run'[p].pc = "write", ~ReadPlan(p)
  PROVE  run[p].pc = "write" /\ run'[p].keep = run[p].keep
<1>1. CASE Poll(p) \/ Ask(p) \/ Heads(p) \/ Fetched(p) \/ Select(p)
             \/ (Notify(p) /\ run[p].scheduled)
  BY <1>1, RunType DEF Poll, Ask, Heads, Fetched, Select, Notify, Go, Run
<1>2. CASE Upgrade(p) \/ Release(p) \/ Crash(p) \/ (Acquire(p) /\ ~Free)
  BY <1>2, IdleAfter DEF Upgrade, Release, Crash, Acquire, IdleRun
<1>3. CASE (Acquire(p) /\ Free) \/ (Recheck(p) /\ Due(schedule))
  BY <1>3, RunType DEF Acquire, Recheck, Run
<1>4. CASE Renewal(p) \/ RenewalFails(p) \/ Store(p)
  BY <1>4, RunType DEF Renewal, RenewalFails, Store, Run
<1>5. CASE \/ (Notify(p) /\ ~run[p].scheduled) \/ WritePlan(p) \/ Fail(p)
           \/ (Recheck(p) /\ ~Due(schedule))
  <2>1. Leave(p)
    BY <1>5 DEF Notify, WritePlan, Fail, Recheck
  <2> QED
    BY <2>1, LeftAfter, RunType DEF Left, Run
<1> QED
  BY <1>1, <1>2, <1>3, <1>4, <1>5 DEF Thread, Execute, Mishap

\* The schedule and what has been served are as before.
LEMMA OrderIfKept ==
  ASSUME TypeOK, NEW p \in Threads, Thread(p), schedule' = schedule, served' = served,
         PlanInv, PlanInv', ServedBefore, \A q \in Threads : OrderFor(q)
  PROVE  ServedBefore' /\ \A q \in Threads : OrderFor(q)'
<1>1. ServedBefore'
  BY DEF ServedBefore, Planned, Before
<1>2. ASSUME NEW q \in Threads, q # p PROVE OrderFor(q)'
  <2>1. run'[q] = run[q]
    BY <1>2, OthersStay
  <2> QED
    BY <2>1 DEF OrderFor, Serving, InBody, Before, PlanOf
<1>3. Serving(p)' => Before(run'[p].planned[1], run'[p].planned[2])
  <2>1. CASE Recheck(p)
    BY <2>1, RecheckReads DEF Due, ServedBefore, PlanOf
  <2>2. CASE ~Recheck(p)
    BY <2>2, ServesOn DEF OrderFor
  <2> QED
    BY <2>1, <2>2
<1>4. Serving(p)' /\ run'[p].planned[2] = schedule.choice => run'[p].planned = PlanOf(schedule)
  <2>1. CASE Recheck(p)
    BY <2>1, RecheckReads
  <2>2. CASE ~Recheck(p)
    BY <2>2, ServesOn DEF OrderFor
  <2> QED
    BY <2>1, <2>2
<1>5. ASSUME run'[p].pc = "write", ~run'[p].keep
      PROVE  run'[p].planned[2] # schedule.choice
  <2>1. Serving(p)'
    BY <1>5 DEF PlanInv, Serving, InBody, Body
  <2>2. CASE ReadPlan(p)
    <3>1. /\ run'[p].keep = (PlanOf(schedule) = run[p].planned)
          /\ run'[p].planned = run[p].planned
      BY <2>2, RunType DEF ReadPlan, Run
    <3> QED
      BY <1>4, <1>5, <2>1, <3>1
  <2>3. CASE ~ReadPlan(p)
    <3>1. run[p].pc = "write" /\ ~run[p].keep
      BY <1>5, <2>3, WritesOn
    <3>2. ~Recheck(p)
      BY <3>1 DEF Recheck
    <3> QED
      BY <2>1, <3>1, <3>2, ServesOn DEF OrderFor
  <2> QED
    BY <2>2, <2>3
<1> QED
  BY <1>1, <1>2, <1>3, <1>4, <1>5 DEF OrderFor, Before, PlanOf

\* A refresh ends: its planned time is served, and what is planned next lies
\* behind it.
LEMMA OrderIfWritten ==
  ASSUME TypeOK, HeldInv, AloneInv, ~lapsed, PlanInv, NEW p \in Threads, WritePlan(p),
         ServedBefore, \A q \in Threads : OrderFor(q)
  PROVE  ServedBefore' /\ \A q \in Threads : OrderFor(q)'
<1>1. /\ Serving(p) /\ InBody(p) /\ run[p].planned[1] < run[p].next
      /\ run[p].planned[1] \in Nat /\ run[p].next \in Nat
      /\ run[p].planned \in Plan /\ run[p].pc = "write"
      /\ served' = served \cup {run[p].planned}
  BY RunType DEF WritePlan, PlanInv, Serving, InBody, Body, Run
<1>2. ASSUME NEW q \in Threads PROVE OrderFor(q)'
  <2>1. CASE q = p
    <3>1. run'[p].pc = "release"
      BY LeftAfter, RunType DEF WritePlan, Left, Run
    <3> QED
      BY <2>1, <3>1 DEF OrderFor, Serving, InBody, Body
  <2>2. CASE q # p
    <3>1. run'[q] = run[q] /\ ~InBody(q)
      BY <1>1, <2>2, OthersStay, OneInBody DEF Thread, Execute
    <3> QED
      BY <3>1 DEF OrderFor, Serving, InBody, Body
  <2> QED
    BY <2>1, <2>2
<1>3. ServedBefore'
  <2>1. CASE run[p].keep
    <3>1. schedule'.next = run[p].next /\ schedule'.choice = run[p].planned[2]
      BY <2>1 DEF WritePlan, TypeOK, Schedule
    <3>2. ASSUME NEW s \in served, s[2] = run[p].planned[2] PROVE s[1] < run[p].next
      <4>1. s[1] < run[p].planned[1] /\ s[1] \in Nat
        BY <1>1, <3>2 DEF OrderFor, Before, PlanInv
      <4> QED
        BY <1>1, <4>1
    <3> QED
      BY <1>1, <3>1, <3>2 DEF ServedBefore, Before
  <2>2. CASE ~run[p].keep
    <3>1. schedule' = schedule /\ run[p].planned[2] # schedule.choice
      BY <1>1, <2>2 DEF WritePlan, OrderFor
    <3> QED
      BY <1>1, <3>1 DEF ServedBefore, Before, Planned
  <2> QED
    BY <2>1, <2>2
<1> QED
  BY <1>2, <1>3

LEMMA OrderIfUpgraded ==
  ASSUME TypeOK, PlanInv, NEW p \in Threads, Upgrade(p), schedule.next = Absent
  PROVE  ServedBefore' /\ \A q \in Threads : OrderFor(q)'
<1>1. served' = {} /\ \A q \in Threads : ~run[q].scheduled
  BY DEF Upgrade, PlanInv, history
<1>2. ASSUME NEW q \in Threads PROVE ~run'[q].scheduled /\ run'[q].pc # "write"
  <2>1. CASE q = p
    <3>1. run'[p] = IdleRun
      BY IdleAfter DEF Upgrade
    <3> QED
      BY <2>1, <3>1 DEF IdleRun
  <2>2. CASE q # p
    BY <1>1, <2>2, OthersStay DEF Thread, PlanInv
  <2> QED
    BY <2>1, <2>2
<1> QED
  BY <1>1, <1>2 DEF ServedBefore, OrderFor, Before, Serving

LEMMA OrderIfChosen ==
  ASSUME TypeOK, PlanInv, NEW enabled \in BOOLEAN, NEW h \in Intervals, Save(enabled, h),
         \A q \in Threads : OrderFor(q)
  PROVE  ServedBefore' /\ \A q \in Threads : OrderFor(q)'
<1>1. /\ schedule'.choice = choices + 1 /\ choices \in Nat
      /\ served' = served /\ run' = run
  BY DEF Save, TypeOK
<1>2. ServedBefore'
  <2> SUFFICES ASSUME NEW s \in served, s[2] = choices + 1 PROVE FALSE
    BY <1>1 DEF ServedBefore, Before
  <2>1. s[2] <= choices
    BY DEF PlanInv
  <2> QED
    BY <1>1, <2>1
<1>3. ASSUME NEW q \in Threads PROVE OrderFor(q)'
  <2>1. Serving(q) => run[q].planned[2] # choices + 1
    BY <1>1 DEF PlanInv
  <2>2. run[q].pc = "write" => Serving(q)
    BY DEF PlanInv, Serving, InBody, Body
  <2> QED
    BY <1>1, <2>1, <2>2 DEF OrderFor, Serving, InBody, Before
<1> QED
  BY <1>2, <1>3

LEMMA OrderGoesOn ==
  ASSUME TypeOK, HeldInv, AloneInv, PlanInv, PlanInv', OrderInv, [Next]_vars
  PROVE  OrderInv'
<1> SUFFICES ASSUME ~lapsed'
             PROVE  ServedBefore' /\ \A q \in Threads : OrderFor(q)'
  BY DEF OrderInv, ServedBefore, OrderFor
<1>0. ~lapsed /\ ServedBefore /\ \A q \in Threads : OrderFor(q)
  BY LapsedStays, OrderParts
<1>1. ASSUME NEW p \in Threads, Thread(p)
      PROVE  ServedBefore' /\ \A q \in Threads : OrderFor(q)'
  <2>1. CASE WritePlan(p)
    BY <1>0, <2>1, OrderIfWritten
  <2>2. CASE Upgrade(p) /\ schedule.next = Absent
    BY <2>2, OrderIfUpgraded
  <2>3. CASE ~WritePlan(p) /\ ~(Upgrade(p) /\ schedule.next = Absent)
    BY <1>0, <1>1, <2>3, ScheduleStays, OrderIfKept
  <2> QED
    BY <2>1, <2>2, <2>3
<1>2. CASE \E enabled \in BOOLEAN, h \in Intervals : Save(enabled, h)
  BY <1>0, <1>2, OrderIfChosen
<1>3. CASE Tick \/ UNCHANGED vars
  <2>1. schedule' = schedule /\ served' = served /\ run' = run
    BY <1>3 DEF Tick, vars, history
  <2> QED
    BY <1>0, <2>1 DEF ServedBefore, OrderFor, Serving, InBody, Before, Planned, PlanOf
<1> QED
  BY <1>1, <1>2, <1>3, NextCases

-----------------------------------------------------------------------------
(* The theorems.                                                           *)

FeedInv == TypeOK /\ HeldInv /\ AloneInv /\ FreshInv /\ PlanInv /\ OrderInv

LEMMA FeedInvHolds == Spec => []FeedInv
<1>1. Init => FeedInv
  BY TypeStarts, HeldStarts, FreshStarts, PlanStarts, OrderStarts DEF FeedInv
<1>2. FeedInv /\ [Next]_vars => FeedInv'
  BY TypeGoesOn, HeldGoesOn, AloneGoesOn, FreshGoesOn, PlanGoesOn, OrderGoesOn DEF FeedInv
<1> QED
  BY <1>1, <1>2, PTL DEF Spec

\* Whatever threads, administrators, failures and crashes do, the variables of
\* the refresh and of its schedule keep their types.
THEOREM FeedTypes == Spec => []TypeOK
<1>1. FeedInv => TypeOK
  BY DEF FeedInv
<1> QED
  BY <1>1, FeedInvHolds, PTL

\* A refresh whose renewals succeed holds a lease that has not expired, whatever
\* other refreshes, late releases and crashes do (refresh_lease, renew).
THEOREM RenewedHolds == Spec => []RenewedIsHeld
<1>1. FeedInv => RenewedIsHeld
  BY NotFree DEF FeedInv, RenewedIsHeld
<1> QED
  BY <1>1, FeedInvHolds, PTL

\* As long as no renewal fails, no record is told of twice: a refresh that fails
\* between storing and telling leaves its records below the next head
\* (run_feed_refresh).
THEOREM NoticesOnce == Spec => []NoticeOnce
<1>1. FeedInv => NoticeOnce
  BY DEF FeedInv, FreshInv, NoticeOnce
<1> QED
  BY <1>1, FeedInvHolds, PTL

\* As long as no renewal fails, a planned time that has been refreshed for is
\* not refreshed for again: under the lease, a scheduler finds either the time
\* the last refresh planned or the choice of an administrator
\* (run_feed_refresh with planned_for).
THEOREM TimesServedOnce == Spec => []ServedOnce
<1>1. ASSUME FeedInv PROVE ServedOnce
  <2> SUFFICES ASSUME ~lapsed, NEW p \in Threads, Serving(p), run[p].planned \in served
               PROVE  FALSE
    BY DEF ServedOnce, Serving
  <2>1. run[p].planned[1] < run[p].planned[1] /\ run[p].planned[1] \in Nat
    BY <1>1 DEF FeedInv, OrderInv, PlanInv, Before
  <2> QED
    BY <2>1
<1> QED
  BY <1>1, FeedInvHolds, PTL

\* One refresh at a time, as the lease promises its callers (refresh_lease).
OneRefresh == \A p, q \in Threads : InBody(p) /\ InBody(q) => p = q

\* As long as no renewal fails, the bodies of two refreshes never overlap, though
\* the lease is only a row that anyone may take once it has expired
\* (refresh_lease, renew).
THEOREM RefreshesApart == Spec => [](lapsed \/ OneRefresh)
<1>1. FeedInv => lapsed \/ OneRefresh
  BY OneInBody DEF FeedInv, OneRefresh
<1> QED
  BY <1>1, FeedInvHolds, PTL

\* Where renewals succeed none has ever failed.
LEMMA ReliableStays == ReliableSpec => Spec /\ []~lapsed
<1>1. Init => ~lapsed
  BY DEF Init
<1>2. [ReliableNext]_vars => [Next]_vars
  BY DEF Next
<1>3. ~lapsed /\ [ReliableNext]_vars => ~lapsed'
  BY DEF ReliableNext, Loop, Execute, Poll, Upgrade, Ask, Acquire, Renewal, Recheck, Heads,
         Store, Fetched, Select, Notify, ReadPlan, WritePlan, Release, Mishap, Fail, Crash,
         Save, Tick, vars, history
<1> QED
  BY <1>1, <1>2, <1>3, PTL DEF ReliableSpec, Spec

\* When renewals succeed, which is all that is asked, refreshes do not overlap, no
\* record is told of twice and no planned time is served twice, whatever fetches
\* fail and processes die (refresh_lease, run_feed_refresh).
THEOREM ReliableRefresh ==
  ReliableSpec =>
    [](/\ OneRefresh
       /\ \A i \in 1..MaxRecords : notices[i] <= 1
       /\ \A p \in Threads : Serving(p) => run[p].planned \notin served)
<1>1. ~lapsed /\ (lapsed \/ OneRefresh) /\ NoticeOnce /\ ServedOnce =>
        /\ OneRefresh
        /\ \A i \in 1..MaxRecords : notices[i] <= 1
        /\ \A p \in Threads : Serving(p) => run[p].planned \notin served
  BY DEF NoticeOnce, ServedOnce, Serving
<1> QED
  BY <1>1, ReliableStays, RefreshesApart, NoticesOnce, TimesServedOnce, PTL
=============================================================================
