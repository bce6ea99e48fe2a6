-------------------------- MODULE NetworkTheorems --------------------------
(***************************************************************************)
(* The safety of the network jobs and of the probes, for every value of    *)
(* the constants, over the types of NetworkTypes.                          *)
(*                                                                         *)
(* Contacts: two probe processes never contact one address at the same     *)
(* time. NoSharedContact speaks of addresses only; what makes it           *)
(* inductive is who holds the lock of an address, for how long, and that   *)
(* no two busy workers share a claim.                                      *)
(*                                                                         *)
(* Queue: each entity has at most one outstanding job, a request makes     *)
(* one job, manual runs keep their distance, the shared slots are not      *)
(* exceeded, a published measurement is of the present configuration, and  *)
(* a job goes through its lifecycle. They hold because a row is written    *)
(* only under the claim that reserved it, and a reconfiguration outdates   *)
(* what it finds.                                                          *)
(*                                                                         *)
(* Limits and payments: a row is counted in the transaction that writes    *)
(* it. No window is overspent, and what was attempted so far was paid for  *)
(* by then, a payment that is still in hand included (PaidInv).            *)
(***************************************************************************)
EXTENDS NetworkTypes, FiniteSetTheorems, WellFoundedInduction

\* Busy workers, orphaned probes included, have claims of their own.
ApartOwners ==
  \A v, w \in Workers :
    v # w /\ work[v].pc # "idle" /\ work[w].pc # "idle"
      => work[v].owner # work[w].owner

\* Whoever is contacting addresses holds their locks beyond the end of the
\* contact, which is still to come.
ContactLocked ==
  \A w \in Workers :
    Contacting(w) =>
      /\ clock <= work[w].until
      /\ \A a \in work[w].addrs :
           /\ a \in DOMAIN locks
           /\ locks[a].owner = work[w].owner
           /\ locks[a].expires > work[w].until

ContactInv == ApartOwners /\ ContactLocked

LEMMA ContactSafe ==
  ASSUME TypeInv, ContactInv
  PROVE  NoSharedContact
BY DEF ContactInv, ApartOwners, ContactLocked, NoSharedContact, Contacting

\* A step that starts no contact and takes no lock from one.
LEMMA ContactFrame ==
  ASSUME TypeInv, ContactInv, clock' = clock,
         \A v \in Workers : work'[v].pc # "idle" =>
           work[v].pc # "idle" /\ work'[v].owner = work[v].owner,
         \A v \in Workers : work'[v].pc \in {"probe", "orphan"} =>
           /\ Contacting(v)
           /\ work'[v].addrs = work[v].addrs /\ work'[v].until = work[v].until
           /\ \A a \in work[v].addrs : a \in DOMAIN locks =>
                a \in DOMAIN locks' /\ locks'[a] = locks[a]
  PROVE  ContactInv'
<1>1. ApartOwners'
  BY DEF ContactInv, ApartOwners
<1>2. ContactLocked'
  BY DEF ContactInv, ContactLocked, Contacting
<1> QED
  BY <1>1, <1>2 DEF ContactInv

\* Steps that leave workers, locks and the clock alone.
LEMMA ContactUntouched ==
  ASSUME TypeInv, ContactInv, UNCHANGED <<clock, locks, work>>
  PROVE  ContactInv'
BY ContactFrame DEF Contacting

\* The sweep of expired locks spares the locks of contacts.
LEMMA ContactSwept ==
  ASSUME TypeInv, ContactInv, NEW now \in Recent, NEW v \in Workers,
         Contacting(v), NEW a \in work[v].addrs
  PROVE  a \in DOMAIN LiveLocks(now) /\ LiveLocks(now)[a] = locks[a]
<1>1. /\ a \in DOMAIN locks /\ locks[a].expires > work[v].until
      /\ clock <= work[v].until
  BY DEF ContactInv, ContactLocked
<1>2. now \in Nat /\ now <= clock
  BY RecentType DEF TypeInv
<1>3. clock \in Nat /\ locks[a] \in [owner: Owners, expires: Nat]
  BY <1>1 DEF TypeInv, TypeOK
<1>4. work[v].until \in Nat
  BY WorkType DEF Work
<1>5. locks[a].expires > now
  BY <1>1, <1>2, <1>3, <1>4
<1> QED
  BY <1>1, <1>5, LiveLocksType DEF TypeInv

\* A worker that changes its step, but neither starts a contact nor goes on
\* with one, is no party to the invariant.
LEMMA ContactMoved ==
  ASSUME TypeInv, ContactInv, NEW w \in Workers, clock' = clock,
         locks' = locks \/ \E now \in Recent : locks' = LiveLocks(now),
         work' \in [Workers -> Work],
         \A v \in Workers \ {w} : work'[v] = work[v],
         work'[w].pc # "idle" =>
           work[w].pc # "idle" /\ work'[w].owner = work[w].owner,
         work'[w].pc \in {"probe", "orphan"} =>
           /\ Contacting(w)
           /\ work'[w].addrs = work[w].addrs /\ work'[w].until = work[w].until
  PROVE  ContactInv'
<1>1. ASSUME NEW v \in Workers, Contacting(v), NEW a \in work[v].addrs,
             a \in DOMAIN locks
      PROVE  a \in DOMAIN locks' /\ locks'[a] = locks[a]
  BY <1>1, ContactSwept
<1>2. \A v \in Workers : work'[v].pc # "idle" =>
        work[v].pc # "idle" /\ work'[v].owner = work[v].owner
  OBVIOUS
<1>3. \A v \in Workers : work'[v].pc \in {"probe", "orphan"} =>
        /\ Contacting(v)
        /\ work'[v].addrs = work[v].addrs /\ work'[v].until = work[v].until
  BY DEF Contacting
<1> QED
  BY <1>1, <1>2, <1>3, ContactFrame

-----------------------------------------------------------------------------
(* The steps that matter.                                                  *)

LEMMA ContactClaim ==
  ASSUME TypeInv, ContactInv, NEW w \in Workers, NEW now \in Recent,
         ClaimJob(w, now)
  PROVE  ContactInv'
<1>1. PICK o, r :
        /\ o \in FreshOwners
        /\ r.pc = "claimed" /\ r.owner = o
        /\ work' = [work EXCEPT ![w] = r]
  <2>1. PICK j \in Claimable(now), o \in FreshOwners :
          work' = [work EXCEPT ![w] = [IdleWork EXCEPT !.pc = "claimed",
                                         !.job = j, !.owner = o,
                                         !.kind = KindOf(jobs[j].scope)]]
    BY DEF ClaimJob
  <2> DEFINE r == [IdleWork EXCEPT !.pc = "claimed", !.job = j, !.owner = o,
                                   !.kind = KindOf(jobs[j].scope)]
  <2>2. r.pc = "claimed" /\ r.owner = o
    BY DEF IdleWork
  <2> QED
    BY <2>1, <2>2
<1>2. \A v \in Workers : /\ v = w => work'[v] = r
                         /\ v # w => work'[v] = work[v]
  BY <1>1, WorkType
<1>3. ApartOwners'
  <2>1. \A v \in Workers : work[v].owner # o
    BY <1>1 DEF FreshOwners
  <2> QED
    BY <1>1, <1>2, <2>1 DEF ContactInv, ApartOwners
<1>4. ContactLocked'
  <2> SUFFICES ASSUME NEW v \in Workers, work'[v].pc \in {"probe", "orphan"}
               PROVE  /\ clock' <= work'[v].until
                      /\ \A a \in work'[v].addrs :
                           /\ a \in DOMAIN locks'
                           /\ locks'[a].owner = work'[v].owner
                           /\ locks'[a].expires > work'[v].until
    BY DEF ContactLocked, Contacting
  <2>1. work'[v] = work[v] /\ Contacting(v)
    BY <1>1, <1>2 DEF Contacting
  <2>2. locks' = LiveLocks(now) /\ clock' = clock
    BY DEF ClaimJob, outside
  <2> QED
    BY <2>1, <2>2, ContactSwept DEF ContactInv, ContactLocked
<1> QED
  BY <1>3, <1>4 DEF ContactInv

LEMMA ContactReserve ==
  ASSUME TypeInv, ContactInv, NEW w \in Workers, NEW now \in Recent,
         Reserve(w, now)
  PROVE  ContactInv'
<1>1. /\ work[w].pc \notin {"idle", "probe", "orphan"} /\ Free(w, now)
      /\ locks' = Locked(w, now) /\ clock' = clock
  BY DEF Reserve, outside
<1>2. \A v \in Workers \ {w} : work'[v] = work[v]
  BY WorkType DEF Reserve, Go
<1>3. /\ work'[w].pc \in {"dns", "probe"}
      /\ work'[w].owner = work[w].owner /\ work'[w].addrs = work[w].addrs
      /\ work'[w].pc = "probe" => work'[w].until = clock + MaxProbe
  BY WorkType DEF Reserve, Go, Work
<1>4. ApartOwners'
  BY <1>1, <1>2, <1>3 DEF ContactInv, ApartOwners
<1>5. ContactLocked'
  <2> SUFFICES ASSUME NEW v \in Workers, work'[v].pc \in {"probe", "orphan"}
               PROVE  /\ clock' <= work'[v].until
                      /\ \A a \in work'[v].addrs :
                           /\ a \in DOMAIN locks'
                           /\ locks'[a].owner = work'[v].owner
                           /\ locks'[a].expires > work'[v].until
    BY DEF ContactLocked, Contacting
  <2>1. CASE v = w
    <3>1. /\ now \in Nat /\ now + MaxWait >= clock /\ clock \in Nat
          /\ MaxProbe \in Nat /\ MaxWait \in Nat /\ LeaseTTL \in Nat
          /\ MaxProbe + MaxWait < LeaseTTL
      BY RecentType, TimingAssumption DEF TypeInv, TypeOK
    <3>2. clock <= clock + MaxProbe /\ now + LeaseTTL > clock + MaxProbe
      BY <3>1
    <3>3. work'[w].until = clock + MaxProbe
      BY <1>3, <2>1
    <3>4. \A a \in work[w].addrs :
            /\ a \in DOMAIN locks'
            /\ locks'[a].owner = work[w].owner
            /\ locks'[a].expires = now + LeaseTTL
      BY <1>1 DEF Locked
    <3> QED
      BY <1>1, <1>3, <2>1, <3>2, <3>3, <3>4
  <2>2. CASE v # w
    <3>1. work'[v] = work[v] /\ Contacting(v)
      BY <1>2, <2>2 DEF Contacting
    <3>2. \A a \in work[v].addrs : a \in DOMAIN locks' /\ locks'[a] = locks[a]
      <4> TAKE a \in work[v].addrs
      <4>1. a \in DOMAIN LiveLocks(now)
        BY <3>1, ContactSwept
      <4>2. a \notin work[w].addrs
        BY <1>1, <4>1 DEF Free
      <4> QED
        BY <1>1, <4>1, <4>2 DEF Locked
    <3> QED
      BY <1>1, <3>1, <3>2 DEF ContactInv, ContactLocked
  <2> QED
    BY <2>1, <2>2
<1> QED
  BY <1>4, <1>5 DEF ContactInv

LEMMA ContactRelease ==
  ASSUME TypeInv, ContactInv, NEW w \in Workers, Release(w)
  PROVE  ContactInv'
<1>1. \A v \in Workers : /\ v = w => work'[v] = IdleWork
                         /\ v # w => work'[v] = work[v]
  BY WorkType DEF Release
<1>2. ASSUME NEW v \in Workers, work'[v].pc \in {"probe", "orphan"}
      PROVE  /\ Contacting(v) /\ work'[v] = work[v]
             /\ \A a \in work[v].addrs : a \in DOMAIN locks =>
                  a \in DOMAIN locks' /\ locks'[a] = locks[a]
  <2>1. v # w /\ work'[v] = work[v] /\ Contacting(v)
    BY <1>1, <1>2, IdleType DEF Contacting
  <2>2. work[v].owner # work[w].owner
    BY <2>1 DEF ContactInv, ApartOwners, Contacting, Release
  <2>3. \A a \in work[v].addrs : a \in DOMAIN locks /\ locks[a].owner = work[v].owner
    BY <2>1 DEF ContactInv, ContactLocked
  <2> QED
    BY <2>1, <2>2, <2>3 DEF Release, OwnLocks, Restrict
<1>3. \A v \in Workers : work'[v].pc # "idle" =>
        work[v].pc # "idle" /\ work'[v].owner = work[v].owner
  BY <1>1, IdleType
<1>4. clock' = clock
  BY DEF Release, outside
<1> QED
  BY <1>2, <1>3, <1>4, ContactFrame

LEMMA ContactTick ==
  ASSUME TypeInv, ContactInv, Tick
  PROVE  ContactInv'
<1>1. work' = work /\ locks' = locks /\ clock' = clock + 1 /\ clock \in Nat
  BY DEF Tick, shared, TypeInv, TypeOK
<1>2. \A w \in Workers : Contacting(w) =>
        clock < work[w].until /\ work[w].until \in Nat
  BY WorkType DEF Tick, Work
<1>3. ContactLocked'
  BY <1>1, <1>2 DEF ContactInv, ContactLocked, Contacting
<1>4. ApartOwners'
  BY <1>1 DEF ContactInv, ApartOwners
<1> QED
  BY <1>3, <1>4 DEF ContactInv

-----------------------------------------------------------------------------
(* The other steps.                                                        *)

LEMMA ContactQueue ==
  ASSUME TypeInv, ContactInv, Requests \/ Background
  PROVE  ContactInv'
<1>1. UNCHANGED <<clock, locks, work>>
  BY DEF Requests, Background, Save, Archive, Restore, CancelRun, Pause,
         ChangePolicy, ChangeRole, RequestJob, ScheduleDue, Cleanup,
         outside, shared
<1> QED
  BY <1>1, ContactUntouched

LEMMA ContactClaimNothing ==
  ASSUME TypeInv, ContactInv, NEW w \in Workers, NEW now \in Recent,
         ClaimNothing(w, now)
  PROVE  ContactInv'
<1>1. /\ clock' = clock /\ locks' = LiveLocks(now) /\ work' = work
      /\ work' \in [Workers -> Work]
  BY DEF ClaimNothing, outside, TypeInv, TypeOK
<1> QED
  BY <1>1, ContactMoved DEF Contacting

\* Worker w alone moves, to a step outside of a contact.
LeavesContact(w) ==
  /\ \A v \in Workers \ {w} : work'[v] = work[v]
  /\ work'[w].owner = work[w].owner
  /\ work'[w].pc \notin {"probe", "orphan"}

LEMMA GoLeaves ==
  ASSUME TypeInv, NEW w \in Workers, NEW pc,
         pc \notin {"probe", "orphan"}, Go(w, pc)
  PROVE  LeavesContact(w)
BY WorkType DEF Go, LeavesContact, Work

LEMMA ContactGo ==
  ASSUME TypeInv, ContactInv, TypeInv', NEW w \in Workers, clock' = clock,
         locks' = locks \/ \E now \in Recent : locks' = LiveLocks(now),
         work[w].pc # "idle", LeavesContact(w)
  PROVE  ContactInv'
<1>1. work' \in [Workers -> Work]
  BY DEF TypeInv, TypeOK
<1> QED
  BY <1>1, ContactMoved DEF LeavesContact

LEMMA ContactLocal ==
  ASSUME TypeInv, ContactInv, TypeInv', NEW w \in Workers,
         \/ LostClaim(w) \/ GiveUp(w) \/ BeginMonitor(w) \/ BeginDiscovery(w)
         \/ \E a \in Addresses : Resolve(w, a)
         \/ \E r \in Outcomes : ProbeMonitor(w, r)
         \/ \E n \in 0..ChunkSize : ProbeDiscovery(w, n)
         \/ Fail(w) \/ FinishError(w)
  PROVE  ContactInv'
<1>1. clock' = clock /\ locks' = locks
  BY DEF LostClaim, GiveUp, BeginMonitor, BeginDiscovery, Resolve,
         ProbeMonitor, ProbeDiscovery, Fail, FinishError, outside, shared
<1>2. work[w].pc # "idle"
  BY DEF LostClaim, GiveUp, BeginMonitor, BeginDiscovery, Resolve,
         ProbeMonitor, ProbeDiscovery, Fail, FinishError
<1>3. LeavesContact(w)
  <2>1. CASE LostClaim(w) \/ GiveUp(w) \/ FinishError(w)
    BY <2>1, GoLeaves DEF LostClaim, GiveUp, FinishError
  <2>2. CASE BeginMonitor(w)
    BY <2>2, WorkType DEF Work, Go, LeavesContact, BeginMonitor
  <2>3. CASE BeginDiscovery(w)
    <3>1. CASE Go(w, "finish")
      BY <3>1, GoLeaves
    <3>2. CASE \E n, addrs : work' = [work EXCEPT ![w].pc = "reserve",
                               ![w].size = n, ![w].addrs = addrs]
      BY <3>2, WorkType DEF Work, LeavesContact
    <3> QED
      BY <2>3, <3>1, <3>2 DEF BeginDiscovery
  <2>4. ASSUME NEW a \in Addresses, Resolve(w, a) PROVE LeavesContact(w)
    BY <2>4, WorkType DEF Work, LeavesContact, Resolve
  <2>5. ASSUME NEW r \in Outcomes, ProbeMonitor(w, r) PROVE LeavesContact(w)
    BY <2>5, WorkType DEF Work, LeavesContact, ProbeMonitor
  <2>6. ASSUME NEW n \in 0..ChunkSize, ProbeDiscovery(w, n)
        PROVE  LeavesContact(w)
    BY <2>6, WorkType DEF Work, LeavesContact, ProbeDiscovery
  <2>7. CASE Fail(w)
    BY <2>7, WorkType DEF Work, LeavesContact, Fail
  <2> QED
    BY <2>1, <2>2, <2>3, <2>4, <2>5, <2>6, <2>7
<1> QED
  BY <1>1, <1>2, <1>3, ContactGo

LEMMA ContactTransaction ==
  ASSUME TypeInv, ContactInv, TypeInv', NEW w \in Workers, NEW now \in Recent,
         \/ ReserveRefused(w, now) \/ ReserveDns(w, now) \/ NameHost(w, now)
         \/ FinishMonitor(w, now) \/ FinishDiscovery(w, now)
         \/ FinishLost(w, now) \/ Defer(w, now)
  PROVE  ContactInv'
<1>1. clock' = clock
  BY DEF ReserveRefused, ReserveDns, NameHost, FinishMonitor, FinishDiscovery,
         FinishLost, Defer, outside
<1>2. locks' = locks \/ locks' = LiveLocks(now)
  BY DEF ReserveRefused, ReserveDns, NameHost, FinishMonitor, FinishDiscovery,
         FinishLost, Defer, shared
<1>3. work[w].pc # "idle"
  BY DEF ReserveRefused, ReserveDns, NameHost, FinishMonitor, FinishDiscovery,
         FinishLost, Defer
<1>4. LeavesContact(w)
  <2>1. CASE ReserveRefused(w, now)
    BY <2>1, WorkType DEF Work, LeavesContact, Deferred, ReserveRefused
  <2>2. CASE ReserveDns(w, now)
    BY <2>2, WorkType DEF Work, Go, LeavesContact, Deferred, ReserveDns
  <2>3. CASE NameHost(w, now)
    BY <2>3, WorkType DEF Work, LeavesContact, NameHost
  <2>4. CASE \/ FinishMonitor(w, now) \/ FinishDiscovery(w, now)
             \/ FinishLost(w, now) \/ Defer(w, now)
    BY <2>4, GoLeaves DEF FinishMonitor, FinishDiscovery, FinishLost, Defer
  <2> QED
    BY <2>1, <2>2, <2>3, <2>4
<1> QED
  BY <1>1, <1>2, <1>3, <1>4, ContactGo

\* A probe that outlives its worker keeps its addresses and its claim.
LEMMA ContactCrash ==
  ASSUME TypeInv, ContactInv, TypeInv', NEW w \in Workers,
         Crash(w) \/ OrphanEnds(w)
  PROVE  ContactInv'
<1>1. clock' = clock /\ locks' = locks /\ work' \in [Workers -> Work]
  BY DEF Crash, OrphanEnds, outside, shared, TypeInv, TypeOK
<1>2. \A v \in Workers \ {w} : work'[v] = work[v]
  BY WorkType DEF Crash, OrphanEnds
<1>3. \/ work'[w] = IdleWork
      \/ Contacting(w) /\ work'[w] = [work[w] EXCEPT !.pc = "orphan"]
  BY WorkType DEF Crash, OrphanEnds, Contacting
<1>4. CASE work'[w] = IdleWork
  BY <1>1, <1>2, <1>4, IdleType, ContactMoved
<1>5. CASE Contacting(w) /\ work'[w] = [work[w] EXCEPT !.pc = "orphan"]
  <2>1. /\ work'[w].owner = work[w].owner /\ work'[w].addrs = work[w].addrs
        /\ work'[w].until = work[w].until /\ work[w].pc # "idle"
    BY <1>5, WorkType DEF Work, Contacting
  <2> QED
    BY <1>1, <1>2, <1>5, <2>1, ContactMoved
<1> QED
  BY <1>3, <1>4, <1>5

-----------------------------------------------------------------------------
(* The theorem.                                                            *)

LEMMA ContactInit == Init => ContactInv
BY IdleType DEF Init, NoWork, ContactInv, ApartOwners, ContactLocked, Contacting

LEMMA ContactNext == TypeInv /\ TypeInv' /\ ContactInv /\ [Next]_vars => ContactInv'
<1> SUFFICES ASSUME TypeInv, TypeInv', ContactInv, [Next]_vars
             PROVE  ContactInv'
  OBVIOUS
<1>1. CASE Requests \/ Background
  BY <1>1, ContactQueue
<1>2. ASSUME NEW w \in Workers, Claim(w) PROVE ContactInv'
  BY <1>2, ContactClaim, ContactClaimNothing DEF Claim
<1>3. ASSUME NEW w \in Workers, Execute(w) PROVE ContactInv'
  BY <1>3, ContactLocal, ContactTransaction, ContactReserve, ContactRelease
  DEF Execute
<1>4. ASSUME NEW w \in Workers, Mishap(w) \/ OrphanEnds(w) PROVE ContactInv'
  BY <1>4, ContactLocal, ContactCrash DEF Mishap
<1>5. CASE Tick
  BY <1>5, ContactTick
<1>6. CASE UNCHANGED vars
  BY <1>6, ContactUntouched DEF vars
<1> QED
  BY <1>1, <1>2, <1>3, <1>4, <1>5, <1>6 DEF Next

\* No two probe processes ever contact one address at the same time, whatever
\* is cancelled, reconfigured, delayed or killed (reserve, claim_job,
\* execute_job's finally).
THEOREM NoContactShared == Spec => []NoSharedContact
<1>1. Spec => []ContactInv
  BY TypeCorrect, ContactInit, ContactNext, PTL DEF Spec
<1>2. TypeInv /\ ContactInv => NoSharedContact
  BY ContactSafe
<1> QED
  BY <1>1, <1>2, TypeCorrect, PTL

-----------------------------------------------------------------------------
-----------------------------------------------------------------------------
(* What a transaction may do to the table of jobs.                         *)

Same == jobs' = jobs /\ nextId' = nextId

\* Outstanding rows are cancelled, or swept because their claim expired.
IsEnded(old, new) ==
  /\ old.status \in ActiveStatus
  /\ \E status \in {"cancelled", "error"} :
       /\ new = [old EXCEPT !.status = status]
       /\ old.status = "queued" => status = "cancelled"
Ends ==
  /\ nextId' = nextId /\ DOMAIN jobs' = DOMAIN jobs
  /\ \A j \in DOMAIN jobs : jobs'[j] = jobs[j] \/ IsEnded(jobs[j], jobs'[j])

\* Finished rows are deleted.
Forgets ==
  /\ DOMAIN jobs' \subseteq DOMAIN jobs /\ nextId' = nextId
  /\ \A j \in DOMAIN jobs' : jobs'[j] = jobs[j]
  /\ \A j \in DOMAIN jobs \ DOMAIN jobs' : jobs[j].status \in FinalStatus

\* A row is inserted, perhaps after finished ones were pruned.
Adds(s, actor, key) ==
  /\ nextId <= MaxJobs /\ nextId' = nextId + 1 /\ nextId \notin DOMAIN jobs
  /\ nextId \in DOMAIN jobs' /\ DOMAIN jobs' \subseteq DOMAIN jobs \cup {nextId}
  /\ \A j \in DOMAIN jobs' \cap DOMAIN jobs : jobs'[j] = jobs[j]
  /\ \A j \in DOMAIN jobs \ DOMAIN jobs' : jobs[j].status \in FinalStatus
  /\ jobs'[nextId] = NewJob(s, actor, key)
  /\ ActiveOf(s) = {} /\ ScopeOpen(s) /\ ~QueueFull /\ archived' = archived
  /\ \/ actor = System /\ key = NoKey
     \/ /\ actor \in Users /\ key \in Keys /\ SameRequest(actor, s, key) = {}
        /\ cfg[s].lastRequest = NoTime \/ clock >= cfg[s].lastRequest + ManualGap
        /\ cfg' = [cfg EXCEPT ![s].lastRequest = clock]

\* A queued row is claimed, after a sweep.
Starts(now, j, o) ==
  /\ nextId' = nextId /\ DOMAIN jobs' = DOMAIN jobs
  /\ j \in Claimable(now) /\ o \in FreshOwners
  /\ Cardinality(StillRunning(now)) < MaxRunning
  /\ jobs'[j] = Claimed(jobs[j], o, now)
  /\ \A i \in DOMAIN jobs \ {j} :
       \/ jobs'[i] = jobs[i] /\ i \notin Expired(now)
       \/ IsEnded(jobs[i], jobs'[i])

\* How far a discovery run has come.
Progress(job) == <<job.cursor, job.processed, job.scanned>>

\* The worker of a running row gives it back, finished or queued once more.
Returns(w) ==
  LET i == work[w].job IN
  /\ nextId' = nextId /\ DOMAIN jobs' = DOMAIN jobs
  /\ i \in DOMAIN jobs /\ jobs[i].status = "running"
  /\ SameJob(jobs[i], jobs'[i])
  /\ jobs'[i].status \in {"queued"} \cup FinalStatus
  /\ \A j \in DOMAIN jobs \ {i} : jobs'[j] = jobs[j]
  /\ \/ jobs[i].scope \in Monitors
     \/ \E now \in Recent : FinishDiscovery(w, now)
     \/ /\ jobs'[i].status = "queued" /\ jobs'[i].owner = NoOwner
        /\ Progress(jobs'[i]) = Progress(jobs[i])

JobsGoOn ==
  \/ Same \/ Ends \/ Forgets
  \/ \E s \in Scopes, actor \in Users \cup {System}, key \in Keys \cup {NoKey} :
       Adds(s, actor, key)
  \/ \E now \in Recent, j \in DOMAIN jobs, o \in Owners : Starts(now, j, o)
  \/ \E w \in Workers : Returns(w)

LEMMA RowsKnown ==
  ASSUME TypeInv
  PROVE  /\ jobs \in [DOMAIN jobs -> Job] /\ nextId \in Nat /\ nextId > 0
         /\ \A j \in DOMAIN jobs : j \in Nat /\ j < nextId /\ jobs[j] \in Job
         /\ cfg \in [DOMAIN cfg -> Config] /\ clock \in Nat /\ clock > 0
BY DEF TypeInv, TypeOK

LEMMA CancelEnds ==
  ASSUME TypeInv, NEW S, S \subseteq JobsOf(ActiveStatus), NEW status \in {"cancelled", "error"},
         status = "cancelled" \/ \A j \in S : jobs[j].status = "running",
         jobs' = WithStatus(S, status), nextId' = nextId
  PROVE  Ends
<1>1. DOMAIN jobs' = DOMAIN jobs
  BY DEF WithStatus
<1>2. ASSUME NEW j \in DOMAIN jobs
      PROVE  jobs'[j] = jobs[j] \/ IsEnded(jobs[j], jobs'[j])
  <2>1. CASE j \in S
    BY <2>1 DEF WithStatus, JobsOf, IsEnded
  <2>2. CASE j \notin S
    BY <2>2 DEF WithStatus
  <2> QED
    BY <2>1, <2>2
<1> QED
  BY <1>1, <1>2 DEF Ends

LEMMA InsertAdds ==
  ASSUME TypeInv, NEW s, NEW actor, NEW key, Insert(s, actor, key),
         ActiveOf(s) = {}, ScopeOpen(s), ~QueueFull, archived' = archived,
         \/ actor = System /\ key = NoKey
         \/ /\ actor \in Users /\ key \in Keys /\ SameRequest(actor, s, key) = {}
            /\ cfg[s].lastRequest = NoTime \/ clock >= cfg[s].lastRequest + ManualGap
            /\ cfg' = [cfg EXCEPT ![s].lastRequest = clock]
  PROVE  Adds(s, actor, key)
<1>1. Pruned(KindOf(s)) \subseteq JobsOf(FinalStatus)
  BY DEF Pruned, FinalOf
<1>2. nextId \notin DOMAIN jobs
  BY RowsKnown
<1> QED
  BY <1>1, <1>2 DEF Adds, Insert, JobsOf

LEMMA QueueGoes ==
  ASSUME TypeInv, Requests \/ Background
  PROVE  JobsGoOn
<1>1. ASSUME NEW s \in Scopes, NEW on, NEW sch, NEW t, NEW d, Save(s, on, sch, t, d)
      PROVE  Ends
  BY <1>1, CancelEnds DEF Save, CancelScope, ActiveOf
<1>2. ASSUME NEW m \in Monitors, Archive(m) PROVE Same \/ Ends
  BY <1>2, CancelEnds DEF Archive, CancelScope, ActiveOf, Same
<1>3. ASSUME NEW j \in DOMAIN jobs, CancelRun(j) PROVE Ends
  BY <1>3, CancelEnds DEF CancelRun
<1>4. CASE Pause
  BY <1>4, CancelEnds DEF Pause, JobsGoOn
<1>5. CASE \/ \E m \in Monitors : Restore(m)
           \/ \E p \in Policies \ {policy} : ChangePolicy(p)
           \/ \E u \in Users : ChangeRole(u)
  BY <1>5 DEF Restore, ChangePolicy, ChangeRole, rows, JobsGoOn, Same
<1>6. ASSUME NEW u \in Users, NEW s \in Scopes, NEW k \in Keys, RequestJob(u, s, k)
      PROVE  Adds(s, u, k)
  BY <1>6, InsertAdds DEF RequestJob, outside
<1>7. ASSUME NEW s \in Scopes, NEW now \in Recent, ScheduleDue(s, now)
      PROVE  Same \/ Forgets \/ Adds(s, System, NoKey)
  <2>1. CASE Insert(s, System, NoKey) /\ ActiveOf(s) = {} /\ ~QueueFull
    BY <1>7, <2>1, InsertAdds DEF ScheduleDue, outside
  <2>2. CASE nextId' = nextId /\ jobs' = Restrict(jobs, DOMAIN jobs \ Pruned(KindOf(s)))
    BY <2>2 DEF Forgets, Restrict, Pruned, FinalOf, JobsOf
  <2>3. CASE nextId' = nextId /\ jobs' = jobs
    BY <2>3 DEF Same
  <2> QED
    BY <1>7, <2>1, <2>2, <2>3 DEF ScheduleDue
<1>8. CASE Cleanup
  <2>1. Forgets
    BY <1>8 DEF Cleanup, Forgets, Restrict, JobsOf
  <2> QED
    BY <2>1 DEF JobsGoOn
<1>9. CASE Requests
  BY <1>1, <1>2, <1>3, <1>4, <1>5, <1>6, <1>9 DEF Requests, JobsGoOn
<1>10. CASE Background
  BY <1>7, <1>8, <1>10 DEF Background, JobsGoOn
<1> QED
  BY <1>9, <1>10

LEMMA SweepEnds ==
  ASSUME TypeInv, NEW now, NEW S, S \subseteq JobsOf({"queued"}),
         NEW i \in DOMAIN jobs, NEW new, new = SweptJobs(now, S)[i]
  PROVE  \/ new = jobs[i] /\ i \notin Expired(now)
         \/ IsEnded(jobs[i], new)
<1>1. CASE i \in Expired(now)
  BY <1>1 DEF SweptJobs, Expired, JobsOf, IsEnded, ActiveStatus
<1>2. CASE i \notin Expired(now) /\ i \in S
  BY <1>2 DEF SweptJobs, JobsOf, IsEnded, ActiveStatus
<1>3. CASE i \notin Expired(now) /\ i \notin S
  BY <1>3 DEF SweptJobs
<1> QED
  BY <1>1, <1>2, <1>3

LEMMA ClaimNothingEnds ==
  ASSUME TypeInv, NEW w \in Workers, NEW now \in Recent, ClaimNothing(w, now)
  PROVE  Ends
<1>1. PICK S : S \subseteq JobsOf({"queued"}) /\ jobs' = SweptJobs(now, S)
  <2>1. {} \subseteq JobsOf({"queued"}) /\ Refused(now) \subseteq JobsOf({"queued"})
    BY DEF Refused, Ready
  <2> QED
    BY <2>1 DEF ClaimNothing
<1>2. DOMAIN jobs' = DOMAIN jobs /\ nextId' = nextId
  BY <1>1 DEF ClaimNothing, SweptJobs
<1> QED
  BY <1>1, <1>2, SweepEnds DEF Ends

LEMMA ClaimStarts ==
  ASSUME TypeInv, NEW w \in Workers, NEW now \in Recent, ClaimJob(w, now)
  PROVE  \E j \in DOMAIN jobs, o \in Owners :
           /\ Starts(now, j, o)
           /\ work' = [work EXCEPT ![w] = [IdleWork EXCEPT !.pc = "claimed",
                                         !.job = j, !.owner = o,
                                         !.kind = KindOf(jobs[j].scope)]]
<1>1. PICK j \in Claimable(now), o \in FreshOwners :
        /\ \E S : /\ S \subseteq JobsOf({"queued"})
                  /\ jobs' = [SweptJobs(now, S) EXCEPT ![j] = Claimed(jobs[j], o, now)]
        /\ work' = [work EXCEPT ![w] = [IdleWork EXCEPT !.pc = "claimed",
                                         !.job = j, !.owner = o,
                                         !.kind = KindOf(jobs[j].scope)]]
  <2>1. \A j : {i \in Refused(now) : Precedes(i, j)} \subseteq JobsOf({"queued"})
    BY DEF Refused, Ready
  <2> QED
    BY <2>1 DEF ClaimJob
<1>2. PICK S : /\ S \subseteq JobsOf({"queued"})
               /\ jobs' = [SweptJobs(now, S) EXCEPT ![j] = Claimed(jobs[j], o, now)]
  BY <1>1
<1>3. j \in DOMAIN jobs /\ o \in Owners
  BY DEF Claimable, Ready, JobsOf, FreshOwners
<1>4. /\ DOMAIN jobs' = DOMAIN jobs /\ jobs'[j] = Claimed(jobs[j], o, now)
      /\ \A i \in DOMAIN jobs \ {j} : jobs'[i] = SweptJobs(now, S)[i]
  BY <1>2, <1>3 DEF SweptJobs
<1>5. \A i \in DOMAIN jobs \ {j} : \/ jobs'[i] = jobs[i] /\ i \notin Expired(now)
                                   \/ IsEnded(jobs[i], jobs'[i])
  BY <1>2, <1>4, SweepEnds
<1>6. nextId' = nextId /\ Cardinality(StillRunning(now)) < MaxRunning
  BY DEF ClaimJob
<1> QED
  BY <1>1, <1>3, <1>4, <1>5, <1>6 DEF Starts

LEMMA FinishReturns ==
  ASSUME TypeInv, NEW w \in Workers, NEW now \in Recent,
         FinishMonitor(w, now) \/ FinishDiscovery(w, now)
  PROVE  Returns(w)
<1> DEFINE i == work[w].job
<1>1. /\ i \in DOMAIN jobs /\ jobs[i] \in Job /\ jobs \in [DOMAIN jobs -> Job]
      /\ jobs[i].status = "running" /\ nextId' = nextId
  BY RowsKnown DEF FinishMonitor, FinishDiscovery, Owned
<1>2. CASE FinishMonitor(w, now)
  <2> DEFINE r == [jobs[i] EXCEPT !.status = "completed", !.processed = 1]
  <2>1. r \in Job /\ SameJob(jobs[i], r) /\ r.status = "completed"
    BY <1>1 DEF Job, SameJob, FinalStatus
  <2>2. jobs' = [jobs EXCEPT ![i] = r]
    BY <1>1, <1>2 DEF FinishMonitor
  <2>3. jobs[i].scope \in Monitors
    BY <1>1, <1>2 DEF FinishMonitor, TypeInv, WorkOK, KindOf
  <2> HIDE DEF r
  <2> QED
    BY <1>1, <2>1, <2>2, <2>3 DEF Returns, FinalStatus
<1>3. CASE FinishDiscovery(w, now)
  <2> DEFINE r == Advanced(jobs[i], work[w].size, now)
  <2>1. jobs' = [jobs EXCEPT ![i] = r]
    BY <1>3 DEF FinishDiscovery
  <2>2. /\ jobs[i].scope \in Profiles /\ work[w].size \in Nat /\ now \in Nat
    BY <1>3, OwnedRow, WorkType, RecentType DEF FinishDiscovery, ScopeOfWork, TypeInv, Work
  <2>3. r \in Job /\ SameJob(jobs[i], r)
    BY <1>1, <2>2, AdvancedType
  <2>4. r.status \in {"completed", "partial", "queued"}
    BY <1>1 DEF Advanced, Job
  <2> HIDE DEF r
  <2> QED
    BY <1>1, <1>3, <2>1, <2>3, <2>4 DEF Returns, FinalStatus
<1> QED
  BY <1>2, <1>3

LEMMA DeferReturns ==
  ASSUME TypeInv, NEW w \in Workers, NEW now \in Recent, Defer(w, now)
  PROVE  Same \/ Returns(w)
<1> DEFINE i == work[w].job
           avail == AtLeast(now + DeferDelay, work[w].notBefore)
           r == [jobs[i] EXCEPT !.status = "queued", !.owner = NoOwner,
                                !.lease = NoTime, !.avail = avail]
           mine == {j \in JobsOf({"running"}) :
                      j = work[w].job /\ jobs[j].owner = work[w].owner}
<1>1. jobs' = [j \in DOMAIN jobs |-> IF j \in mine THEN r ELSE jobs[j]] /\ nextId' = nextId
  BY DEF Defer
<1>2. CASE i \in mine
  <2>1. i \in DOMAIN jobs /\ jobs[i] \in Job /\ jobs[i].status = "running"
    BY <1>2, RowsKnown DEF JobsOf
  <2>2. /\ SameJob(jobs[i], r) /\ r.status = "queued" /\ r.owner = NoOwner
        /\ Progress(r) = Progress(jobs[i])
    BY <2>1 DEF SameJob, Job, Progress
  <2> HIDE DEF r
  <2>3. jobs'[i] = r /\ \A j \in DOMAIN jobs \ {i} : jobs'[j] = jobs[j]
    BY <1>1, <1>2, <2>1
  <2> QED
    BY <1>1, <2>1, <2>2, <2>3 DEF Returns
<1>3. CASE i \notin mine
  <2>1. mine = {}
    BY <1>3
  <2> HIDE DEF mine, r
  <2>2. jobs' = [j \in DOMAIN jobs |-> jobs[j]]
    BY <1>1, <2>1
  <2> QED
    BY <1>1, <2>2, RowsKnown DEF Same
<1> QED
  BY <1>2, <1>3

LEMMA WorkerGoes ==
  ASSUME TypeInv, NEW w \in Workers, Claim(w) \/ Execute(w) \/ Mishap(w) \/ OrphanEnds(w)
  PROVE  JobsGoOn
<1>1. CASE Claim(w)
  BY <1>1, ClaimNothingEnds, ClaimStarts DEF Claim, JobsGoOn
<1>2. CASE \E now \in Recent :
             FinishMonitor(w, now) \/ FinishDiscovery(w, now) \/ Defer(w, now)
  BY <1>2, FinishReturns, DeferReturns DEF JobsGoOn
<1>3. CASE FinishError(w)
  <2>1. CASE Owned(w, clock)
    <3>1. {work[w].job} \subseteq JobsOf(ActiveStatus) /\ jobs[work[w].job].status = "running"
      BY <2>1 DEF Owned, JobsOf, ActiveStatus
    <3>2. jobs' = WithStatus({work[w].job}, "error") /\ nextId' = nextId
      BY <1>3, <2>1 DEF FinishError
    <3> QED
      BY <3>1, <3>2, CancelEnds DEF JobsGoOn
  <2>2. CASE ~Owned(w, clock)
    BY <1>3, <2>2 DEF FinishError, JobsGoOn, Same
  <2> QED
    BY <2>1, <2>2
<1>4. CASE \/ BeginMonitor(w) \/ BeginDiscovery(w) \/ LostClaim(w)
           \/ \E a \in Addresses : Resolve(w, a)
           \/ \E r \in Outcomes : ProbeMonitor(w, r)
           \/ \E n \in 0..ChunkSize : ProbeDiscovery(w, n)
           \/ Release(w)
           \/ \E now \in Recent : \/ Reserve(w, now) \/ ReserveRefused(w, now)
                                  \/ ReserveDns(w, now) \/ NameHost(w, now)
                                  \/ FinishLost(w, now)
           \/ Fail(w) \/ GiveUp(w) \/ Crash(w) \/ OrphanEnds(w)
  <2>1. UNCHANGED rows
    BY <1>4 DEF BeginMonitor, BeginDiscovery, LostClaim, Resolve, ProbeMonitor,
                ProbeDiscovery, Release, Reserve, ReserveRefused, ReserveDns, NameHost,
                FinishLost, Fail, GiveUp, Crash, OrphanEnds
  <2> QED
    BY <2>1 DEF rows, JobsGoOn, Same
<1> QED
  BY <1>1, <1>2, <1>3, <1>4 DEF Execute, Mishap

LEMMA JobsAlwaysGoOn ==
  ASSUME TypeInv, [Next]_vars
  PROVE  JobsGoOn
<1>1. CASE Tick \/ UNCHANGED vars
  BY <1>1 DEF Tick, vars, rows, JobsGoOn, Same
<1> QED
  BY <1>1, QueueGoes, WorkerGoes DEF Next

\* What becomes of one row.
LEMMA RowsGo ==
  ASSUME TypeInv, JobsGoOn
  PROVE  /\ nextId' = nextId \/ nextId' = nextId + 1
         /\ \A j \in DOMAIN jobs' :
              \/ /\ j = nextId /\ nextId' = nextId + 1 /\ j \notin DOMAIN jobs
                 /\ \E s \in Scopes, actor \in Users \cup {System}, key \in Keys \cup {NoKey} :
                      Adds(s, actor, key)
              \/ /\ j \in DOMAIN jobs /\ j < nextId /\ SameJob(jobs[j], jobs'[j])
                 /\ jobs'[j].status \in ActiveStatus => jobs[j].status \in ActiveStatus
<1>1. ASSUME NEW j \in DOMAIN jobs, NEW new, new = jobs[j] \/ IsEnded(jobs[j], new)
      PROVE  /\ SameJob(jobs[j], new)
             /\ new.status \in ActiveStatus => jobs[j].status \in ActiveStatus
  BY <1>1, RowsKnown DEF IsEnded, SameJob, Job
<1>2. ASSUME NEW j \in DOMAIN jobs
      PROVE  j < nextId /\ SameJob(jobs[j], jobs[j])
  BY <1>2, RowsKnown DEF SameJob
<1>3. CASE Same \/ Ends \/ Forgets
  BY <1>1, <1>2, <1>3 DEF Same, Ends, Forgets
<1>4. ASSUME NEW s \in Scopes, NEW actor \in Users \cup {System}, NEW key \in Keys \cup {NoKey},
             Adds(s, actor, key), NEW j \in DOMAIN jobs'
      PROVE  \/ j = nextId /\ nextId' = nextId + 1 /\ j \notin DOMAIN jobs
             \/ j \in DOMAIN jobs /\ jobs'[j] = jobs[j]
  BY <1>4 DEF Adds
<1>5. CASE \E s \in Scopes, actor \in Users \cup {System}, key \in Keys \cup {NoKey} :
             Adds(s, actor, key)
  <2>1. nextId' = nextId + 1
    BY <1>5 DEF Adds
  <2> QED
    BY <1>2, <1>4, <1>5, <2>1
<1>6. ASSUME NEW now \in Recent, NEW j \in DOMAIN jobs, NEW o \in Owners, Starts(now, j, o),
             NEW i \in DOMAIN jobs'
      PROVE  /\ i \in DOMAIN jobs /\ SameJob(jobs[i], jobs'[i])
             /\ jobs'[i].status \in ActiveStatus => jobs[i].status \in ActiveStatus
  <2>1. CASE i = j
    <3>1. jobs[j] \in Job /\ jobs'[j] = Claimed(jobs[j], o, now)
      BY <1>6, RowsKnown DEF Starts
    <3>2. SameJob(jobs[j], Claimed(jobs[j], o, now))
      BY <3>1 DEF SameJob, Claimed, Job
    <3>3. jobs[j].status \in ActiveStatus
      BY <1>6 DEF Starts, Claimable, Ready, JobsOf, ActiveStatus
    <3> QED
      BY <2>1, <3>1, <3>2, <3>3
  <2>2. CASE i # j
    BY <1>1, <1>6, <2>2 DEF Starts
  <2> QED
    BY <2>1, <2>2
<1>7. CASE \E now \in Recent, j \in DOMAIN jobs, o \in Owners : Starts(now, j, o)
  <2>1. nextId' = nextId /\ DOMAIN jobs' = DOMAIN jobs
    BY <1>7 DEF Starts
  <2> QED
    BY <1>2, <1>6, <1>7, <2>1
<1>8. CASE \E w \in Workers : Returns(w)
  <2>1. PICK w \in Workers : Returns(w)
    BY <1>8
  <2>2. nextId' = nextId /\ DOMAIN jobs' = DOMAIN jobs
    BY <2>1 DEF Returns
  <2>3. ASSUME NEW j \in DOMAIN jobs
        PROVE  /\ SameJob(jobs[j], jobs'[j])
               /\ jobs'[j].status \in ActiveStatus => jobs[j].status \in ActiveStatus
    <3>1. CASE j = work[w].job
      BY <2>1, <3>1 DEF Returns, ActiveStatus
    <3>2. CASE j # work[w].job
      BY <1>2, <2>1, <3>2 DEF Returns
    <3> QED
      BY <3>1, <3>2
  <2> QED
    BY <1>2, <2>2, <2>3
<1> QED
  BY <1>3, <1>5, <1>7, <1>8 DEF JobsGoOn

-----------------------------------------------------------------------------
(* Outstanding work and idempotency keys.                                  *)

LEMMA NewRow ==
  ASSUME NEW s, NEW actor, NEW key, Adds(s, actor, key)
  PROVE  /\ jobs'[nextId].scope = s /\ jobs'[nextId].actor = actor
         /\ jobs'[nextId].key = key /\ jobs'[nextId].created = clock
         /\ jobs'[nextId].status = "queued"
BY DEF Adds, NewJob

LEMMA OutstandingStep ==
  ASSUME TypeInv, OneOutstanding, JobsGoOn
  PROVE  OneOutstanding'
<1> SUFFICES ASSUME NEW i \in DOMAIN jobs', NEW j \in DOMAIN jobs',
                    jobs'[i].status \in ActiveStatus, jobs'[j].status \in ActiveStatus,
                    jobs'[i].scope = jobs'[j].scope
             PROVE  i = j
  BY DEF OneOutstanding, JobsOf
<1>1. ASSUME NEW n \in DOMAIN jobs', NEW o \in DOMAIN jobs', n = nextId,
             jobs'[o].status \in ActiveStatus,
             jobs'[n].scope = jobs'[o].scope
      PROVE  o = nextId
  <2>1. n \notin DOMAIN jobs
    BY <1>1, RowsKnown
  <2>2. PICK s \in Scopes, actor \in Users \cup {System}, key \in Keys \cup {NoKey} :
          Adds(s, actor, key)
    BY <1>1, <2>1, RowsGo
  <2>3. ActiveOf(s) = {} /\ jobs'[n].scope = s
    BY <1>1, <2>2, NewRow DEF Adds
  <2>4. CASE o \in DOMAIN jobs /\ jobs[o].status \in ActiveStatus /\ SameJob(jobs[o], jobs'[o])
    BY <1>1, <2>3, <2>4 DEF ActiveOf, JobsOf, SameJob
  <2> QED
    BY <1>1, <2>4, RowsGo
<1>2. CASE i = nextId \/ j = nextId
  BY <1>1, <1>2
<1>3. CASE i # nextId /\ j # nextId
  <2>1. /\ i \in DOMAIN jobs /\ jobs[i].status \in ActiveStatus /\ SameJob(jobs[i], jobs'[i])
        /\ j \in DOMAIN jobs /\ jobs[j].status \in ActiveStatus /\ SameJob(jobs[j], jobs'[j])
    BY <1>3, RowsGo
  <2> QED
    BY <2>1 DEF OneOutstanding, JobsOf, SameJob
<1> QED
  BY <1>2, <1>3

\* At most one job of an asset or a profile is outstanding, however requests,
\* schedules, deferrals and re-queued chunks interleave (enqueue, defer,
\* finish_discovery).
THEOREM OutstandingOnce == Spec => []OneOutstanding
<1>1. Init => OneOutstanding
  BY DEF Init, NoWork, OneOutstanding, JobsOf
<1>2. TypeInv /\ OneOutstanding /\ [Next]_vars => OneOutstanding'
  BY JobsAlwaysGoOn, OutstandingStep
<1> QED
  BY <1>1, <1>2, TypeCorrect, PTL DEF Spec

LEMMA RequestStep ==
  ASSUME TypeInv, IdempotentRequests, JobsGoOn
  PROVE  IdempotentRequests'
<1> SUFFICES ASSUME NEW i \in DOMAIN jobs', NEW j \in DOMAIN jobs',
                    jobs'[i].scope = jobs'[j].scope, jobs'[i].actor = jobs'[j].actor,
                    jobs'[i].key = jobs'[j].key, jobs'[i].key # NoKey
             PROVE  i = j
  BY DEF IdempotentRequests
<1>1. ASSUME NEW n \in DOMAIN jobs', NEW o \in DOMAIN jobs', n = nextId,
             jobs'[n].scope = jobs'[o].scope, jobs'[n].actor = jobs'[o].actor,
             jobs'[n].key = jobs'[o].key, jobs'[n].key # NoKey
      PROVE  o = nextId
  <2>1. n \notin DOMAIN jobs
    BY <1>1, RowsKnown
  <2>2. PICK s \in Scopes, actor \in Users \cup {System}, key \in Keys \cup {NoKey} :
          Adds(s, actor, key)
    BY <1>1, <2>1, RowsGo
  <2>3. /\ SameRequest(actor, s, key) = {}
        /\ jobs'[n].scope = s /\ jobs'[n].actor = actor /\ jobs'[n].key = key
    BY <1>1, <2>2, NewRow DEF Adds
  <2>4. CASE o \in DOMAIN jobs /\ SameJob(jobs[o], jobs'[o])
    BY <1>1, <2>3, <2>4 DEF SameRequest, SameJob
  <2> QED
    BY <1>1, <2>4, RowsGo
<1>2. CASE i = nextId \/ j = nextId
  BY <1>1, <1>2
<1>3. CASE i # nextId /\ j # nextId
  <2>1. /\ i \in DOMAIN jobs /\ SameJob(jobs[i], jobs'[i])
        /\ j \in DOMAIN jobs /\ SameJob(jobs[j], jobs'[j])
    BY <1>3, RowsGo
  <2> QED
    BY <2>1 DEF IdempotentRequests, SameJob
<1> QED
  BY <1>2, <1>3

\* A retained idempotency key of one principal stands for one job of a scope,
\* also after that job was cancelled or its configuration changed (enqueue).
THEOREM RequestsOnce == Spec => []IdempotentRequests
<1>1. Init => IdempotentRequests
  BY DEF Init, NoWork, IdempotentRequests
<1>2. TypeInv /\ IdempotentRequests /\ [Next]_vars => IdempotentRequests'
  BY JobsAlwaysGoOn, RequestStep
<1> QED
  BY <1>1, <1>2, TypeCorrect, PTL DEF Spec

-----------------------------------------------------------------------------
(* Configurations.                                                         *)

\* The transactions that write configurations.
ConfigsGoOn ==
  \/ cfg' = cfg
  \/ \E s \in Scopes, on, scheduled \in BOOLEAN, t \in Thresholds,
        delay \in 1..Interval : Save(s, on, scheduled, t, delay)
  \/ (\E m \in Monitors : Archive(m)) \/ Pause
  \/ \E s \in DOMAIN cfg, due \in Nat : cfg' = [cfg EXCEPT ![s].due = due]
  \/ \E u \in Users, s \in Scopes, k \in Keys : RequestJob(u, s, k)
  \/ \E w \in Workers, now \in Recent : FinishDiscovery(w, now)

\* The transactions that write configurations or measurements, or archive.
StepsKnown ==
  \/ UNCHANGED <<cfg, health>> /\ archived' \subseteq archived
  \/ \E s \in Scopes, on, scheduled \in BOOLEAN, t \in Thresholds,
        delay \in 1..Interval : Save(s, on, scheduled, t, delay)
  \/ (\E m \in Monitors : Archive(m)) \/ Pause
  \/ \E s \in Scopes, now \in Recent : ScheduleDue(s, now)
  \/ \E u \in Users, s \in Scopes, k \in Keys : RequestJob(u, s, k)
  \/ \E w \in Workers, now \in Recent :
       \/ ClaimJob(w, now) \/ ClaimNothing(w, now)
       \/ FinishMonitor(w, now) \/ FinishDiscovery(w, now)

LEMMA StepsAlwaysKnown ==
  ASSUME TypeInv, [Next]_vars
  PROVE  StepsKnown
<1>1. CASE \/ \E m \in Monitors : Restore(m)
           \/ \E j \in DOMAIN jobs : CancelRun(j)
           \/ \E p \in Policies \ {policy} : ChangePolicy(p)
           \/ \E u \in Users : ChangeRole(u)
           \/ Cleanup \/ Tick \/ UNCHANGED vars
  BY <1>1 DEF Restore, CancelRun, ChangePolicy, ChangeRole, Cleanup, Tick, rows, outside, vars,
              StepsKnown
<1>2. ASSUME NEW w \in Workers,
             (\E now \in Recent : Defer(w, now)) \/ FinishError(w)
      PROVE  StepsKnown
  BY <1>2 DEF Defer, FinishError, outside, StepsKnown
<1>3. ASSUME NEW w \in Workers,
             \/ BeginMonitor(w) \/ BeginDiscovery(w) \/ LostClaim(w)
             \/ \E a \in Addresses : Resolve(w, a)
             \/ \E r \in Outcomes : ProbeMonitor(w, r)
             \/ \E n \in 0..ChunkSize : ProbeDiscovery(w, n)
             \/ Release(w)
             \/ \E now \in Recent : \/ Reserve(w, now) \/ ReserveRefused(w, now)
                                    \/ ReserveDns(w, now) \/ NameHost(w, now)
                                    \/ FinishLost(w, now)
             \/ Fail(w) \/ GiveUp(w) \/ Crash(w) \/ OrphanEnds(w)
      PROVE  StepsKnown
  <2>1. UNCHANGED rows /\ UNCHANGED outside
    BY <1>3 DEF BeginMonitor, BeginDiscovery, LostClaim, Resolve, ProbeMonitor,
                ProbeDiscovery, Release, Reserve, ReserveRefused, ReserveDns, NameHost,
                FinishLost, Fail, GiveUp, Crash, OrphanEnds
  <2> QED
    BY <2>1 DEF rows, outside, StepsKnown
<1>4. CASE Requests
  BY <1>1, <1>4 DEF Requests, StepsKnown
<1>5. CASE Background
  BY <1>1, <1>5 DEF Background, StepsKnown
<1>6. ASSUME NEW w \in Workers, Claim(w) \/ Mishap(w) \/ OrphanEnds(w) PROVE StepsKnown
  <2>1. CASE Claim(w)
    BY <2>1 DEF Claim, StepsKnown
  <2> QED
    BY <1>3, <1>6, <2>1 DEF Mishap
<1>7. ASSUME NEW w \in Workers, Execute(w) PROVE StepsKnown
  <2>1. CASE \E now \in Recent : FinishDiscovery(w, now) \/ FinishMonitor(w, now)
    BY <2>1 DEF StepsKnown
  <2> QED
    BY <1>2, <1>3, <1>7, <2>1 DEF Execute
<1> QED
  BY <1>1, <1>4, <1>5, <1>6, <1>7 DEF Next

LEMMA ScheduledRow ==
  ASSUME TypeInv, NEW s \in Scopes, NEW now \in Recent, ScheduleDue(s, now)
  PROVE  s \in DOMAIN cfg /\ \E due \in Nat : cfg' = [cfg EXCEPT ![s].due = due]
<1>1. s \in DOMAIN cfg /\ now \in Nat
  BY RecentType DEF ScheduleDue, ScopeOpen, TypeInv
<1>2. now + Interval \in Nat /\ now + RetryDelay \in Nat
  BY <1>1, TimingAssumption
<1>3. \/ cfg' = [cfg EXCEPT ![s].due = now + Interval]
      \/ cfg' = [cfg EXCEPT ![s].due = now + RetryDelay]
  BY DEF ScheduleDue
<1> QED
  BY <1>1, <1>2, <1>3

LEMMA ConfigsAlwaysGoOn ==
  ASSUME TypeInv, [Next]_vars
  PROVE  ConfigsGoOn
<1>1. CASE \E s \in Scopes, now \in Recent : ScheduleDue(s, now)
  BY <1>1, ScheduledRow DEF ConfigsGoOn
<1>2. CASE \E w \in Workers, now \in Recent :
             ClaimJob(w, now) \/ ClaimNothing(w, now) \/ FinishMonitor(w, now)
  BY <1>2 DEF ClaimJob, ClaimNothing, FinishMonitor, ConfigsGoOn
<1>3. CASE UNCHANGED <<cfg, health>>
  BY <1>3 DEF ConfigsGoOn
<1> QED
  BY <1>1, <1>2, <1>3, StepsAlwaysKnown DEF StepsKnown, ConfigsGoOn

LEMMA DisabledRow ==
  ASSUME TypeInv, NEW S, NEW s \in DOMAIN cfg
  PROVE  /\ Disabled(S)[s].lastRequest = cfg[s].lastRequest
         /\ Disabled(S)[s].cursor = cfg[s].cursor
         /\ s \in S => ~Disabled(S)[s].enabled
         /\ s \notin S => Disabled(S)[s] = cfg[s]
<1>1. cfg[s] \in Config
  BY RowsKnown
<1> QED
  BY <1>1 DEF Disabled, Config

\* Configurations stay, and do not forget the last manual request.
LEMMA RequestsRemembered ==
  ASSUME TypeInv, ConfigsGoOn
  PROVE  /\ DOMAIN cfg \subseteq DOMAIN cfg'
         /\ \A s \in DOMAIN cfg : cfg'[s].lastRequest >= cfg[s].lastRequest
<1>1. /\ cfg \in [DOMAIN cfg -> Config]
      /\ \A s \in DOMAIN cfg : cfg[s].lastRequest \in Nat /\ cfg[s] \in Config
  BY RowsKnown DEF Config
<1>2. ASSUME NEW s \in Scopes, NEW on, NEW sch, NEW t, NEW d, Save(s, on, sch, t, d)
      PROVE  /\ DOMAIN cfg \subseteq DOMAIN cfg'
             /\ \A x \in DOMAIN cfg : cfg'[x].lastRequest = cfg[x].lastRequest
  BY <1>2 DEF Save, Saved, LastRequest
<1>3. ASSUME NEW S, cfg' = Disabled(S)
      PROVE  /\ DOMAIN cfg \subseteq DOMAIN cfg'
             /\ \A x \in DOMAIN cfg : cfg'[x].lastRequest = cfg[x].lastRequest
  <2>1. DOMAIN Disabled(S) = DOMAIN cfg
    BY DEF Disabled
  <2> QED
    BY <1>3, <2>1, DisabledRow
<1>4. CASE (\E m \in Monitors : Archive(m)) \/ Pause
  <2>1. \E S : cfg' = Disabled(S)
    BY <1>4 DEF Archive, Pause
  <2> QED
    BY <1>1, <1>3, <2>1
<1>5. CASE \E s \in DOMAIN cfg, due \in Nat : cfg' = [cfg EXCEPT ![s].due = due]
  BY <1>1, <1>5 DEF Config
<1>6. ASSUME NEW u \in Users, NEW s \in Scopes, NEW k \in Keys, RequestJob(u, s, k)
      PROVE  /\ DOMAIN cfg = DOMAIN cfg'
             /\ \A x \in DOMAIN cfg : cfg'[x].lastRequest >= cfg[x].lastRequest
  <2>1. /\ s \in DOMAIN cfg /\ cfg' = [cfg EXCEPT ![s].lastRequest = clock]
        /\ cfg[s].lastRequest = 0 \/ clock >= cfg[s].lastRequest + ManualGap
    BY <1>6 DEF RequestJob, ScopeOpen, NoTime
  <2>2. clock \in Nat /\ ManualGap \in Nat /\ clock >= cfg[s].lastRequest
    BY <1>1, <2>1, TimingAssumption, RowsKnown
  <2>3. \A x \in DOMAIN cfg : cfg'[x].lastRequest = IF x = s THEN clock ELSE cfg[x].lastRequest
    BY <1>1, <2>1 DEF Config
  <2> QED
    BY <1>1, <2>1, <2>2, <2>3
<1>7. ASSUME NEW w \in Workers, NEW now \in Recent, FinishDiscovery(w, now)
      PROVE  /\ DOMAIN cfg = DOMAIN cfg'
             /\ \A x \in DOMAIN cfg : cfg'[x].lastRequest = cfg[x].lastRequest
  <2>1. PICK s, c : cfg' = [cfg EXCEPT ![s].cursor = c]
    BY <1>7 DEF FinishDiscovery
  <2> QED
    BY <1>1, <2>1 DEF Config
<1> QED
  BY <1>1, <1>2, <1>4, <1>5, <1>6, <1>7 DEF ConfigsGoOn

-----------------------------------------------------------------------------
(* Manual requests.                                                        *)

\* The configuration remembers when the latest manual job was made.
ManualInv ==
  \A j \in DOMAIN jobs :
    jobs[j].actor # System =>
      /\ jobs[j].scope \in DOMAIN cfg /\ jobs[j].created > 0
      /\ jobs[j].created <= cfg[jobs[j].scope].lastRequest

LEMMA ManualStep ==
  ASSUME TypeInv, TypeInv', ManualInv, JobsGoOn, ConfigsGoOn
  PROVE  ManualInv'
<1> SUFFICES ASSUME NEW j \in DOMAIN jobs', jobs'[j].actor # System
             PROVE  /\ jobs'[j].scope \in DOMAIN cfg' /\ jobs'[j].created > 0
                    /\ jobs'[j].created <= cfg'[jobs'[j].scope].lastRequest
  BY DEF ManualInv
<1>1. CASE j \in DOMAIN jobs /\ SameJob(jobs[j], jobs'[j])
  <2> DEFINE s == jobs[j].scope
  <2>1. /\ s \in DOMAIN cfg /\ jobs[j].created > 0
        /\ jobs[j].created <= cfg[s].lastRequest
        /\ jobs'[j].scope = s /\ jobs'[j].created = jobs[j].created
    BY <1>1 DEF ManualInv, SameJob
  <2>2. cfg[s] \in Config /\ jobs[j] \in Job
    BY <1>1, <2>1, RowsKnown
  <2>3. cfg[s].lastRequest \in Nat /\ jobs[j].created \in Nat
    BY <2>2 DEF Config, Job
  <2>4. s \in DOMAIN cfg' /\ cfg'[s].lastRequest >= cfg[s].lastRequest
    BY <2>1, RequestsRemembered
  <2>5. cfg'[s].lastRequest \in Nat
    BY <2>4 DEF TypeInv, TypeOK, Config
  <2> HIDE DEF s
  <2> QED
    BY <2>1, <2>3, <2>4, <2>5
<1>2. ASSUME NEW s \in Scopes, NEW actor \in Users \cup {System}, NEW key \in Keys \cup {NoKey},
             Adds(s, actor, key), j = nextId
      PROVE  /\ jobs'[j].scope \in DOMAIN cfg' /\ jobs'[j].created > 0
             /\ jobs'[j].created <= cfg'[jobs'[j].scope].lastRequest
  <2>1. jobs'[j].scope = s /\ jobs'[j].actor = actor /\ jobs'[j].created = clock
    BY <1>2, NewRow
  <2>2. s \in DOMAIN cfg /\ cfg' = [cfg EXCEPT ![s].lastRequest = clock]
    BY <1>2, <2>1 DEF Adds, ScopeOpen
  <2>3. cfg[s] \in Config /\ clock \in Nat /\ clock > 0
    BY <2>2, RowsKnown
  <2>4. s \in DOMAIN cfg' /\ cfg'[s].lastRequest = clock
    BY <2>2, <2>3 DEF Config
  <2> QED
    BY <2>1, <2>3, <2>4
<1> QED
  BY <1>1, <1>2, RowsGo

LEMMA SpacingStep ==
  ASSUME TypeInv, ManualInv, ManualSpacing, JobsGoOn
  PROVE  ManualSpacing'
<1> SUFFICES ASSUME NEW i \in DOMAIN jobs', NEW j \in DOMAIN jobs',
                    jobs'[i].scope = jobs'[j].scope, i < j,
                    jobs'[i].actor # System, jobs'[j].actor # System
             PROVE  jobs'[j].created >= jobs'[i].created + ManualGap
  BY DEF ManualSpacing
<1>1. CASE i \in DOMAIN jobs /\ SameJob(jobs[i], jobs'[i])
           /\ j \in DOMAIN jobs /\ SameJob(jobs[j], jobs'[j])
  BY <1>1 DEF ManualSpacing, SameJob
<1>2. ASSUME i \in DOMAIN jobs, SameJob(jobs[i], jobs'[i]), j = nextId,
             NEW s \in Scopes, NEW actor \in Users \cup {System}, NEW key \in Keys \cup {NoKey},
             Adds(s, actor, key)
      PROVE  jobs'[j].created >= jobs'[i].created + ManualGap
  <2>1. jobs'[j].scope = s /\ jobs'[j].actor = actor /\ jobs'[j].created = clock
    BY <1>2, NewRow
  <2>2. cfg[s].lastRequest = 0 \/ clock >= cfg[s].lastRequest + ManualGap
    BY <1>2, <2>1 DEF Adds, NoTime
  <2>3. /\ s \in DOMAIN cfg /\ jobs[i].created > 0 /\ jobs[i].created <= cfg[s].lastRequest
        /\ jobs'[i].created = jobs[i].created
    BY <1>2, <2>1 DEF ManualInv, SameJob
  <2>4. /\ cfg[s].lastRequest \in Nat /\ jobs[i].created \in Nat /\ clock \in Nat
        /\ ManualGap \in Nat
    BY <1>2, <2>3, RowsKnown, TimingAssumption DEF Config, Job
  <2> QED
    BY <2>1, <2>2, <2>3, <2>4
<1>3. CASE i = nextId
  <2>1. j = nextId \/ j \in DOMAIN jobs
    BY RowsGo
  <2>2. j \in Nat /\ nextId \in Nat /\ j <= nextId
    BY <2>1, RowsKnown
  <2> QED
    BY <1>3, <2>2
<1> QED
  BY <1>1, <1>2, <1>3, RowsGo

\* Manual jobs of one scope are a minute apart, whoever requests them and
\* however the configuration is saved in between (enqueue, save_monitor).
THEOREM ManualApart == Spec => []ManualSpacing
<1>1. Init => ManualInv /\ ManualSpacing
  BY DEF Init, NoWork, ManualInv, ManualSpacing
<1>2. TypeInv /\ TypeInv' /\ ManualInv /\ ManualSpacing /\ [Next]_vars
        => (ManualInv /\ ManualSpacing)'
  BY JobsAlwaysGoOn, ConfigsAlwaysGoOn, ManualStep, SpacingStep
<1> QED
  BY <1>1, <1>2, TypeCorrect, PTL DEF Spec

-----------------------------------------------------------------------------
(* Slots.                                                                  *)

LEMMA RunningGoes ==
  ASSUME TypeInv, JobsGoOn
  PROVE  \/ JobsOf({"running"})' \subseteq JobsOf({"running"})
         \/ \E now \in Recent, j \in DOMAIN jobs, o \in Owners :
              /\ Starts(now, j, o)
              /\ JobsOf({"running"})' \subseteq StillRunning(now) \cup {j}
<1>1. ASSUME NEW j \in DOMAIN jobs, IsEnded(jobs[j], jobs'[j])
      PROVE  jobs'[j].status # "running"
  BY <1>1, RowsKnown DEF IsEnded, Job
<1>2. CASE Same \/ Ends \/ Forgets
  BY <1>1, <1>2 DEF Same, Ends, Forgets, JobsOf
<1>3. CASE \E s \in Scopes, actor \in Users \cup {System}, key \in Keys \cup {NoKey} :
             Adds(s, actor, key)
  BY <1>3, NewRow DEF Adds, JobsOf
<1>4. CASE \E w \in Workers : Returns(w)
  BY <1>4 DEF Returns, JobsOf, FinalStatus
<1>5. ASSUME NEW now \in Recent, NEW j \in DOMAIN jobs, NEW o \in Owners, Starts(now, j, o)
      PROVE  JobsOf({"running"})' \subseteq StillRunning(now) \cup {j}
  <2>1. ASSUME NEW i \in DOMAIN jobs', jobs'[i].status = "running", i # j
        PROVE  i \in StillRunning(now)
    BY <1>1, <1>5, <2>1 DEF Starts, StillRunning, JobsOf
  <2> QED
    BY <2>1 DEF JobsOf
<1> QED
  BY <1>2, <1>3, <1>4, <1>5 DEF JobsGoOn

LEMMA TableFinite ==
  ASSUME TypeInv
  PROVE  IsFiniteSet(DOMAIN jobs)
<1>1. IsFiniteSet(1..(nextId - 1))
  BY RowsKnown, FS_Interval
<1> QED
  BY <1>1, FS_Subset DEF TypeInv, TypeOK

LEMMA RunningFinite ==
  ASSUME TypeInv, NEW S, S \subseteq DOMAIN jobs
  PROVE  IsFiniteSet(S) /\ Cardinality(S) \in Nat
BY TableFinite, FS_Subset, FS_CardinalityType

LEMMA SlotsStep ==
  ASSUME TypeInv, SharedSlots, JobsGoOn
  PROVE  SharedSlots'
<1>1. JobsOf({"running"}) \subseteq DOMAIN jobs /\ MaxRunning \in Nat
  BY LimitAssumption DEF JobsOf
<1>2. \A i \in JobsOf({"running"})' : i \in DOMAIN jobs => jobs'[i].scope = jobs[i].scope
  BY RowsGo, RowsKnown DEF JobsOf, SameJob
<1>3. CASE JobsOf({"running"})' \subseteq JobsOf({"running"})
  <2>1. Cardinality(JobsOf({"running"})') <= Cardinality(JobsOf({"running"}))
    BY <1>1, <1>3, RunningFinite, FS_Subset
  <2>2. Cardinality(JobsOf({"running"})') \in Nat /\ Cardinality(JobsOf({"running"})) \in Nat
    BY <1>1, <1>3, RunningFinite
  <2>3. Cardinality(JobsOf({"running"})') <= MaxRunning
    BY <1>1, <2>1, <2>2 DEF SharedSlots
  <2>4. ASSUME NEW i \in JobsOf({"running"})', NEW j \in JobsOf({"running"})',
               jobs'[i].scope \in Profiles, jobs'[j].scope \in Profiles
        PROVE  i = j
    BY <1>1, <1>2, <1>3, <2>4 DEF SharedSlots
  <2> QED
    BY <2>3, <2>4 DEF SharedSlots
<1>4. ASSUME NEW now \in Recent, NEW j \in DOMAIN jobs, NEW o \in Owners, Starts(now, j, o),
             JobsOf({"running"})' \subseteq StillRunning(now) \cup {j}
      PROVE  SharedSlots'
  <2>1. /\ StillRunning(now) \subseteq JobsOf({"running"})
        /\ j \notin StillRunning(now)
    BY <1>4 DEF Starts, StillRunning, Claimable, Ready, JobsOf
  <2>2. IsFiniteSet(StillRunning(now)) /\ Cardinality(StillRunning(now)) \in Nat
    BY <1>1, <2>1, RunningFinite
  <2>3. /\ IsFiniteSet(StillRunning(now) \cup {j})
        /\ Cardinality(StillRunning(now) \cup {j}) = Cardinality(StillRunning(now)) + 1
    BY <2>1, <2>2, FS_AddElement
  <2>4. /\ Cardinality(JobsOf({"running"})') \in Nat
        /\ Cardinality(JobsOf({"running"})') <= Cardinality(StillRunning(now)) + 1
    BY <1>4, <2>3, FS_Subset, FS_CardinalityType
  <2>5. Cardinality(JobsOf({"running"})') <= MaxRunning
    BY <1>1, <1>4, <2>2, <2>4 DEF Starts
  <2>6. ASSUME NEW i \in JobsOf({"running"})', NEW k \in JobsOf({"running"})',
               jobs'[i].scope \in Profiles, jobs'[k].scope \in Profiles
        PROVE  i = k
    <3>1. jobs[i].scope \in Profiles /\ jobs[k].scope \in Profiles
      BY <1>1, <1>2, <1>4, <2>1, <2>6
    <3>2. jobs[j].scope \in Profiles => \A n \in StillRunning(now) : jobs[n].scope \notin Profiles
      BY <1>4 DEF Starts, Claimable
    <3>3. \A n, m \in StillRunning(now) :
            jobs[n].scope \in Profiles /\ jobs[m].scope \in Profiles => n = m
      BY <2>1 DEF SharedSlots
    <3> QED
      BY <1>4, <3>1, <3>2, <3>3
  <2> QED
    BY <2>5, <2>6 DEF SharedSlots
<1> QED
  BY <1>3, <1>4, RunningGoes

\* The shared slots and the single running discovery hold across claims,
\* sweeps, requeues and crashes (claim_job).
THEOREM SlotsKept == Spec => []SharedSlots
<1>1. Init => SharedSlots
  <2> SUFFICES ASSUME Init PROVE SharedSlots
    OBVIOUS
  <2>1. JobsOf({"running"}) = {}
    BY DEF Init, NoWork, JobsOf
  <2> QED
    BY <2>1, FS_EmptySet, LimitAssumption DEF SharedSlots
<1>2. TypeInv /\ SharedSlots /\ [Next]_vars => SharedSlots'
  BY JobsAlwaysGoOn, SlotsStep
<1> QED
  BY <1>1, <1>2, TypeCorrect, PTL DEF Spec

-----------------------------------------------------------------------------
(* Limits of the queue and of the configurations.                          *)

\* A table or queue never outgrows its limit.
QueueBounded == Cardinality(JobsOf(ActiveStatus)) <= QueueLimit
EnabledBounded == \A k \in Kinds : Cardinality(EnabledOf(k)) <= EnabledLimit

LEMMA ActiveGoes ==
  ASSUME TypeInv, JobsGoOn
  PROVE  \/ JobsOf(ActiveStatus)' \subseteq JobsOf(ActiveStatus)
         \/ ~QueueFull /\ JobsOf(ActiveStatus)' \subseteq JobsOf(ActiveStatus) \cup {nextId}
<1>1. CASE Same \/ Ends \/ Forgets
  <2>1. \A j \in DOMAIN jobs' : j \in DOMAIN jobs /\ (jobs'[j] = jobs[j] \/ jobs[j].status \in ActiveStatus)
    BY <1>1 DEF Same, Ends, Forgets, IsEnded
  <2> QED
    BY <2>1 DEF JobsOf
<1>2. CASE \E s \in Scopes, actor \in Users \cup {System}, key \in Keys \cup {NoKey} :
             Adds(s, actor, key)
  BY <1>2 DEF Adds, JobsOf
<1>3. CASE \E w \in Workers : Returns(w)
  <2>1. "running" \in ActiveStatus
    BY DEF ActiveStatus
  <2> QED
    BY <1>3, <2>1 DEF Returns, JobsOf
<1>4. CASE \E now \in Recent, j \in DOMAIN jobs, o \in Owners : Starts(now, j, o)
  <2>1. PICK now \in Recent, j \in DOMAIN jobs, o \in Owners : Starts(now, j, o)
    BY <1>4
  <2>2. jobs[j].status \in ActiveStatus
    BY <2>1 DEF Starts, Claimable, Ready, JobsOf, ActiveStatus
  <2>3. \A i \in DOMAIN jobs' : i \in DOMAIN jobs /\ (jobs'[i] = jobs[i] \/ jobs[i].status \in ActiveStatus)
    BY <2>1, <2>2 DEF Starts, IsEnded
  <2> QED
    BY <2>3 DEF JobsOf
<1> QED
  BY <1>1, <1>2, <1>3, <1>4 DEF JobsGoOn

LEMMA QueueBoundStep ==
  ASSUME TypeInv, QueueBounded, JobsGoOn
  PROVE  QueueBounded'
<1> DEFINE old == JobsOf(ActiveStatus)
           new == JobsOf(ActiveStatus)'
<1>1. IsFiniteSet(old) /\ Cardinality(old) \in Nat /\ QueueLimit \in Nat
  BY RunningFinite, LimitAssumption DEF JobsOf
<1>2. IsFiniteSet(old \cup {nextId}) /\ Cardinality(old \cup {nextId}) <= Cardinality(old) + 1
  BY <1>1, FS_AddElement
<1>3. new \subseteq old \/ (~QueueFull /\ new \subseteq old \cup {nextId})
  BY ActiveGoes
<1> HIDE DEF old, new
<1>4. CASE new \subseteq old
  <2>1. Cardinality(new) <= Cardinality(old) /\ Cardinality(new) \in Nat
    BY <1>1, <1>4, FS_Subset, FS_CardinalityType
  <2>2. Cardinality(new) <= QueueLimit
    BY <1>1, <2>1 DEF QueueBounded, old
  <2> QED
    BY <2>2 DEF QueueBounded, new
<1>5. CASE ~QueueFull /\ new \subseteq old \cup {nextId}
  <2>1. Cardinality(new) <= Cardinality(old \cup {nextId}) /\ Cardinality(new) \in Nat
        /\ Cardinality(old \cup {nextId}) \in Nat
    BY <1>2, <1>5, FS_Subset, FS_CardinalityType
  <2>2. Cardinality(old) < QueueLimit
    BY <1>1, <1>5 DEF QueueFull, old
  <2>3. Cardinality(new) <= QueueLimit
    BY <1>1, <1>2, <2>1, <2>2
  <2> QED
    BY <2>3 DEF QueueBounded, new
<1> QED
  BY <1>3, <1>4, <1>5

\* What is enabled after a step was enabled before, or was saved under the limit.
LEMMA EnabledGoes ==
  ASSUME TypeInv, ConfigsGoOn, NEW k \in Kinds
  PROVE  \/ EnabledOf(k)' \subseteq EnabledOf(k)
         \/ \E s \in Scopes : /\ Cardinality(EnabledOf(k) \ {s}) < EnabledLimit
                               /\ EnabledOf(k)' \subseteq (EnabledOf(k) \ {s}) \cup {s}
<1>1. \A s \in DOMAIN cfg : cfg[s] \in Config
  BY RowsKnown
<1>2. ASSUME NEW s \in Scopes, NEW on \in BOOLEAN, NEW sch, NEW t, NEW d, Save(s, on, sch, t, d)
      PROVE  \/ EnabledOf(k)' \subseteq EnabledOf(k)
             \/ /\ Cardinality(EnabledOf(k) \ {s}) < EnabledLimit
                /\ EnabledOf(k)' \subseteq (EnabledOf(k) \ {s}) \cup {s}
  <2>1. DOMAIN cfg' = DOMAIN cfg \cup {s} /\ cfg'[s].enabled = on
        /\ \A x \in DOMAIN cfg \ {s} : cfg'[x] = cfg[x]
    BY <1>2 DEF Save, Saved
  <2>2. on => Cardinality(EnabledOf(KindOf(s)) \ {s}) < EnabledLimit
    BY <1>2 DEF Save
  <2>3. CASE on /\ KindOf(s) = k
    BY <2>1, <2>2, <2>3 DEF EnabledOf
  <2>4. CASE ~(on /\ KindOf(s) = k)
    BY <2>1, <2>4 DEF EnabledOf
  <2> QED
    BY <2>3, <2>4
<1>3. CASE (\E m \in Monitors : Archive(m)) \/ Pause
  <2>1. PICK S : cfg' = Disabled(S)
    BY <1>3 DEF Archive, Pause
  <2>2. DOMAIN cfg' = DOMAIN cfg /\ \A x \in DOMAIN cfg : cfg'[x].enabled => cfg[x].enabled
    BY <1>1, <2>1, DisabledRow DEF Disabled
  <2> QED
    BY <2>2 DEF EnabledOf
<1>4. CASE \/ \E s \in DOMAIN cfg, due \in Nat : cfg' = [cfg EXCEPT ![s].due = due]
           \/ \E u \in Users, s \in Scopes, key \in Keys : RequestJob(u, s, key)
           \/ \E w \in Workers, now \in Recent : FinishDiscovery(w, now)
  <2>1. \/ \E s, due : cfg' = [cfg EXCEPT ![s].due = due]
        \/ \E s, c : cfg' = [cfg EXCEPT ![s].lastRequest = c]
        \/ \E s, c : cfg' = [cfg EXCEPT ![s].cursor = c]
        \/ cfg' = cfg
    BY <1>4 DEF RequestJob, FinishDiscovery
  <2>2. DOMAIN cfg' = DOMAIN cfg /\ \A x \in DOMAIN cfg : cfg'[x].enabled = cfg[x].enabled
    BY <1>1, <2>1, RowsKnown DEF Config
  <2> QED
    BY <2>2 DEF EnabledOf
<1>5. CASE cfg' = cfg
  BY <1>5 DEF EnabledOf
<1>6. CASE \E s \in Scopes, on, scheduled \in BOOLEAN, t \in Thresholds, delay \in 1..Interval :
             Save(s, on, scheduled, t, delay)
  BY <1>2, <1>6
<1> QED
  BY <1>3, <1>4, <1>5, <1>6 DEF ConfigsGoOn

LEMMA EnabledBoundStep ==
  ASSUME TypeInv, EnabledBounded, ConfigsGoOn
  PROVE  EnabledBounded'
<1>1. IsFiniteSet(DOMAIN cfg)
  BY ScopeAssumption, FS_Subset DEF TypeInv, TypeOK
<1>2. ASSUME NEW k \in Kinds
      PROVE  Cardinality(EnabledOf(k)') <= EnabledLimit
  <2> DEFINE old == EnabledOf(k)
             new == EnabledOf(k)'
  <2>1. IsFiniteSet(old) /\ Cardinality(old) \in Nat /\ Cardinality(old) <= EnabledLimit
        /\ EnabledLimit \in Nat
    BY <1>1, FS_Subset, FS_CardinalityType, LimitAssumption DEF EnabledBounded, EnabledOf
  <2>2. \/ new \subseteq old
        \/ \E s \in Scopes : Cardinality(old \ {s}) < EnabledLimit /\ new \subseteq (old \ {s}) \cup {s}
    BY EnabledGoes
  <2> HIDE DEF old, new
  <2>3. CASE new \subseteq old
    BY <2>1, <2>3, FS_Subset, FS_CardinalityType DEF new
  <2>4. ASSUME NEW s \in Scopes, Cardinality(old \ {s}) < EnabledLimit,
               new \subseteq (old \ {s}) \cup {s}
        PROVE  Cardinality(new) <= EnabledLimit
    <3> DEFINE rest == old \ {s}
    <3>1. IsFiniteSet(rest) /\ Cardinality(rest) \in Nat /\ s \notin rest
      BY <2>1, FS_Subset, FS_CardinalityType
    <3>2. Cardinality(rest) < EnabledLimit /\ new \subseteq rest \cup {s}
      BY <2>4
    <3> HIDE DEF rest
    <3>3. IsFiniteSet(rest \cup {s}) /\ Cardinality(rest \cup {s}) = Cardinality(rest) + 1
      BY <3>1, FS_AddElement
    <3>4. Cardinality(new) <= Cardinality(rest) + 1 /\ Cardinality(new) \in Nat
      BY <3>2, <3>3, FS_Subset, FS_CardinalityType
    <3> QED
      BY <2>1, <3>1, <3>2, <3>4
  <2>5. Cardinality(new) <= EnabledLimit
    BY <2>2, <2>3, <2>4 DEF new
  <2> QED
    BY <2>5 DEF new
<1> QED
  BY <1>2 DEF EnabledBounded

\* However requests, schedulers, retries and sweeps interleave, there are never
\* more outstanding jobs, nor more enabled configurations of a kind, than the
\* limits say: who gives a job back does not take a new place for it, and what is
\* counted before a row is written is counted in its transaction (enqueue,
\* schedule_due, save_monitor, save_profile).
THEOREM LimitsKept == Spec => [](QueueBounded /\ EnabledBounded)
<1>1. Init => QueueBounded /\ EnabledBounded
  <2> SUFFICES ASSUME Init PROVE QueueBounded /\ EnabledBounded
    OBVIOUS
  <2>1. JobsOf(ActiveStatus) = {} /\ DOMAIN cfg = {} /\ \A k \in Kinds : EnabledOf(k) = {}
    BY DEF Init, NoWork, JobsOf, EnabledOf
  <2>2. Cardinality({}) = 0 /\ QueueLimit \in Nat /\ EnabledLimit \in Nat
    BY FS_EmptySet, LimitAssumption
  <2>3. QueueBounded
    BY <2>1, <2>2 DEF QueueBounded
  <2>4. ASSUME NEW k \in Kinds PROVE Cardinality(EnabledOf(k)) <= EnabledLimit
    <3>1. EnabledOf(k) = {}
      BY <2>1
    <3> QED
      BY ONLY <2>2, <3>1
  <2> QED
    BY <2>3, <2>4 DEF EnabledBounded
<1>2. TypeInv /\ QueueBounded /\ EnabledBounded /\ [Next]_vars
        => QueueBounded' /\ EnabledBounded'
  BY JobsAlwaysGoOn, ConfigsAlwaysGoOn, QueueBoundStep, EnabledBoundStep
<1> QED
  BY <1>1, <1>2, TypeCorrect, PTL DEF Spec

-----------------------------------------------------------------------------
(* Measurements.                                                           *)

\* What may become of a monitor: it is disabled, saved anew, or goes on.
MonitorGoesOn(m) ==
  \/ /\ ~cfg'[m].enabled
     /\ \/ ActiveOf(m)' = {}
        \/ m \in DOMAIN cfg /\ (m \in archived' => m \in archived)
  \/ /\ health'[m] = NoMeasurement /\ cfg'[m].threshold \in Thresholds
     /\ m \notin archived'
  \/ /\ m \in DOMAIN cfg /\ (m \in archived' => m \in archived)
     /\ cfg'[m].enabled = cfg[m].enabled
     /\ cfg'[m].gen = cfg[m].gen /\ cfg'[m].threshold = cfg[m].threshold
     /\ \/ health'[m] = health[m]
        \/ \E outcome \in {"up", "down", "unknown"} :
             health'[m] = StateAfter(health[m], outcome, cfg[m].threshold, cfg[m].gen)

LEMMA MonitorGoes ==
  ASSUME TypeInv, StepsKnown, NEW m \in Monitors, m \in DOMAIN cfg'
  PROVE  MonitorGoesOn(m)
<1>1. /\ cfg \in [DOMAIN cfg -> Config] /\ health \in [Monitors -> Health]
      /\ \A s \in DOMAIN cfg : cfg[s] \in Config
  BY RowsKnown DEF TypeInv, TypeOK
<1>2. CASE UNCHANGED <<cfg, health>> /\ archived' \subseteq archived
  BY <1>2 DEF MonitorGoesOn
<1>3. ASSUME NEW s \in Scopes, NEW on, NEW sch, NEW t \in Thresholds, NEW d,
             Save(s, on, sch, t, d)
      PROVE  MonitorGoesOn(m)
  <2>1. s \notin archived /\ archived' = archived
    BY <1>3 DEF Save, outside
  <2>2. CASE s = m
    <3>1. health'[m] = NoMeasurement
      BY <1>1, <1>3, <2>2 DEF Save
    <3>2. cfg'[m].threshold = t
      BY <1>3, <2>2 DEF Save, Saved
    <3> QED
      BY <2>1, <2>2, <3>1, <3>2 DEF MonitorGoesOn
  <2>3. CASE s # m
    <3>1. m \in DOMAIN cfg /\ cfg'[m] = cfg[m]
      BY <1>3, <2>3 DEF Save
    <3>2. health'[m] = health[m]
      BY <1>1, <1>3, <2>3 DEF Save
    <3> QED
      BY <2>1, <3>1, <3>2 DEF MonitorGoesOn
  <2> QED
    BY <2>2, <2>3
<1>4. ASSUME NEW n \in Monitors, Archive(n)
      PROVE  MonitorGoesOn(m)
  <2>1. /\ cfg' = Disabled({n}) /\ health' = health /\ archived' = archived \cup {n}
        /\ m \in DOMAIN cfg
    BY <1>4 DEF Archive, Disabled
  <2>2. CASE n = m
    <3>1. ~cfg'[m].enabled
      BY <2>1, <2>2, DisabledRow
    <3>2. jobs' = CancelScope(m)
      BY <1>4, <2>1, <2>2 DEF Archive
    <3>3. ActiveOf(m)' = {}
      BY <3>2, RowsKnown DEF CancelScope, WithStatus, ActiveOf, JobsOf, Job, ActiveStatus
    <3> QED
      BY <3>1, <3>3 DEF MonitorGoesOn
  <2>3. CASE n # m
    <3>1. cfg'[m] = cfg[m]
      BY <2>1, <2>3, DisabledRow
    <3> QED
      BY <2>1, <2>3, <3>1 DEF MonitorGoesOn
  <2> QED
    BY <2>2, <2>3
<1>5. CASE Pause
  <2>1. cfg' = Disabled(DOMAIN cfg) /\ archived' = archived /\ m \in DOMAIN cfg
    BY <1>5 DEF Pause, outside, Disabled
  <2>2. ~cfg'[m].enabled
    BY <2>1, DisabledRow
  <2> QED
    BY <2>1, <2>2 DEF MonitorGoesOn
<1>6. ASSUME NEW s, cfg' = [cfg EXCEPT ![s] = cfg'[s]], s \in DOMAIN cfg,
             cfg'[s].enabled = cfg[s].enabled, cfg'[s].gen = cfg[s].gen,
             cfg'[s].threshold = cfg[s].threshold, archived' = archived, health' = health
      PROVE  MonitorGoesOn(m)
  <2>1. m \in DOMAIN cfg /\ (m # s => cfg'[m] = cfg[m])
    BY <1>6
  <2> QED
    BY <1>6, <2>1 DEF MonitorGoesOn
<1>7. CASE \E s \in Scopes, now \in Recent : ScheduleDue(s, now)
  <2>1. PICK s, now : s \in Scopes /\ now \in Recent /\ ScheduleDue(s, now)
    BY <1>7
  <2>2. s \in DOMAIN cfg /\ archived' = archived /\ health' = health
    BY <2>1, ScheduledRow DEF ScheduleDue, outside
  <2>3. \E due \in Nat : cfg' = [cfg EXCEPT ![s].due = due]
    BY <2>1, ScheduledRow
  <2> QED
    BY <1>1, <1>6, <2>2, <2>3 DEF Config
<1>8. CASE \E u \in Users, s \in Scopes, k \in Keys : RequestJob(u, s, k)
  <2>1. PICK u, s, k : RequestJob(u, s, k)
    BY <1>8
  <2>2. /\ s \in DOMAIN cfg /\ archived' = archived /\ health' = health
        /\ cfg' = [cfg EXCEPT ![s].lastRequest = clock]
    BY <2>1 DEF RequestJob, ScopeOpen, outside
  <2> QED
    BY <1>1, <1>6, <2>2 DEF Config
<1>9. ASSUME NEW w \in Workers, NEW now \in Recent, FinishDiscovery(w, now)
      PROVE  MonitorGoesOn(m)
  <2>1. PICK s, c : cfg' = [cfg EXCEPT ![s].cursor = c]
    BY <1>9 DEF FinishDiscovery
  <2>2. archived' = archived /\ health' = health
    BY <1>9 DEF FinishDiscovery, outside
  <2>3. m \in DOMAIN cfg
    BY <2>1
  <2>4. /\ cfg'[m].enabled = cfg[m].enabled /\ cfg'[m].gen = cfg[m].gen
        /\ cfg'[m].threshold = cfg[m].threshold
    BY <1>1, <2>1, <2>3 DEF Config
  <2> QED
    BY <2>2, <2>3, <2>4 DEF MonitorGoesOn
<1>10. ASSUME NEW w \in Workers, NEW now \in Recent,
              ClaimJob(w, now) \/ ClaimNothing(w, now)
       PROVE  MonitorGoesOn(m)
  <2>1. health' = SweptHealth(now) /\ cfg' = cfg /\ archived' = archived
    BY <1>10 DEF ClaimJob, ClaimNothing, outside
  <2>2. \/ health'[m] = health[m]
        \/ health'[m] = StateAfter(health[m], "unknown", cfg[m].threshold, cfg[m].gen)
    BY <2>1 DEF SweptHealth
  <2> QED
    BY <2>1, <2>2 DEF MonitorGoesOn
<1>11. ASSUME NEW w \in Workers, NEW now \in Recent, FinishMonitor(w, now)
       PROVE  MonitorGoesOn(m)
  <2> DEFINE s == ScopeOfWork(w)
  <2>1. cfg' = cfg /\ archived' = archived
    BY <1>11 DEF FinishMonitor, outside
  <2>2. /\ jobs[work[w].job].gen = cfg[s].gen
        /\ work[w].outcome \in {"up", "down", "unknown"}
    BY <1>11, WorkType DEF FinishMonitor, Owned, EnabledJob, ScopeOfWork, Work
  <2>3. health' = [health EXCEPT ![s] =
                     StateAfter(@, work[w].outcome, cfg[s].threshold, cfg[s].gen)]
    BY <1>11, <2>2 DEF FinishMonitor
  <2> HIDE DEF s
  <2>4. \/ health'[m] = health[m]
        \/ m = s /\ health'[m] = StateAfter(health[m], work[w].outcome, cfg[m].threshold,
                                           cfg[m].gen)
    BY <1>1, <2>3
  <2> QED
    BY <2>1, <2>2, <2>4 DEF MonitorGoesOn
<1> QED
  BY <1>2, <1>3, <1>4, <1>5, <1>7, <1>8, <1>9, <1>10, <1>11 DEF StepsKnown

LEMMA StateMeasured ==
  ASSUME NEW h \in Health, NEW outcome \in {"up", "down", "unknown"}, NEW t \in Nat \ {0}, NEW g
  PROVE  LET new == StateAfter(h, outcome, t, g) IN
         /\ new.gen = g
         /\ new.failures >= t => new.stable = "down"
BY DEF StateAfter, Health

LEMMA MeasureStep ==
  ASSUME TypeInv, CurrentMeasurement, FailureStreak, StepsKnown, JobsGoOn
  PROVE  CurrentMeasurement' /\ FailureStreak'
<1>1. ASSUME NEW m \in Monitors, m \in DOMAIN cfg', cfg'[m].enabled
      PROVE  /\ health'[m].gen \in {0, cfg'[m].gen} /\ m \notin archived'
             /\ health'[m].failures >= cfg'[m].threshold => health'[m].stable = "down"
  <2>1. CASE health'[m] = NoMeasurement /\ cfg'[m].threshold \in Thresholds /\ m \notin archived'
    <3>1. cfg'[m].threshold \in Nat /\ cfg'[m].threshold > 0
      <4>1. \A t \in Thresholds : t \in Nat /\ t # 0
        BY LimitAssumption
      <4> QED
        BY <2>1, <4>1
    <3>2. health'[m].gen = 0 /\ health'[m].failures = 0
      BY <2>1 DEF NoMeasurement
    <3> QED
      BY <2>1, <3>1, <3>2
  <2>2. CASE /\ m \in DOMAIN cfg /\ (m \in archived' => m \in archived)
             /\ cfg'[m].enabled = cfg[m].enabled
             /\ cfg'[m].gen = cfg[m].gen /\ cfg'[m].threshold = cfg[m].threshold
             /\ \/ health'[m] = health[m]
                \/ \E outcome \in {"up", "down", "unknown"} :
                     health'[m] = StateAfter(health[m], outcome, cfg[m].threshold, cfg[m].gen)
    <3>1. health[m].gen \in {0, cfg[m].gen} /\ m \notin archived
      BY <1>1, <2>2 DEF CurrentMeasurement
    <3>2. health[m].failures >= cfg[m].threshold => health[m].stable = "down"
      BY <1>1, <2>2 DEF FailureStreak
    <3>3. health[m] \in Health /\ cfg[m].threshold \in Nat \ {0}
      BY <2>2, RowsKnown, LimitAssumption DEF TypeInv, TypeOK, Config
    <3>4. CASE health'[m] = health[m]
      BY <2>2, <3>1, <3>2, <3>4
    <3>5. ASSUME NEW outcome \in {"up", "down", "unknown"},
                 health'[m] = StateAfter(health[m], outcome, cfg[m].threshold, cfg[m].gen)
          PROVE  /\ health'[m].gen = cfg[m].gen
                 /\ health'[m].failures >= cfg[m].threshold => health'[m].stable = "down"
      BY <3>3, <3>5, StateMeasured
    <3> QED
      BY <2>2, <3>1, <3>4, <3>5
  <2> QED
    BY <1>1, <2>1, <2>2, MonitorGoes DEF MonitorGoesOn
<1>2. ASSUME NEW m \in Monitors, m \in DOMAIN cfg', m \in archived'
      PROVE  ActiveOf(m)' = {}
  <2>1. ActiveOf(m)' = {} \/ (m \in DOMAIN cfg /\ m \in archived)
    BY <1>2, MonitorGoes DEF MonitorGoesOn
  <2>2. CASE m \in DOMAIN cfg /\ m \in archived
    <3>1. ActiveOf(m) = {}
      BY <2>2 DEF CurrentMeasurement
    <3> SUFFICES ASSUME NEW j \in DOMAIN jobs', jobs'[j].status \in ActiveStatus,
                        jobs'[j].scope = m
                 PROVE  FALSE
      BY DEF ActiveOf, JobsOf
    <3>2. CASE j \in DOMAIN jobs /\ SameJob(jobs[j], jobs'[j])
               /\ jobs[j].status \in ActiveStatus
      BY <3>1, <3>2 DEF ActiveOf, JobsOf, SameJob
    <3>3. ASSUME NEW s \in Scopes, NEW actor \in Users \cup {System},
                 NEW key \in Keys \cup {NoKey}, Adds(s, actor, key), j = nextId
          PROVE  FALSE
      BY <2>2, <3>3, NewRow DEF Adds, ScopeOpen
    <3> QED
      BY <3>2, <3>3, RowsGo
  <2> QED
    BY <2>1, <2>2
<1> QED
  BY <1>1, <1>2 DEF CurrentMeasurement, FailureStreak

LEMMA MeasureInit == Init => CurrentMeasurement /\ FailureStreak
BY DEF Init, NoWork, CurrentMeasurement, FailureStreak

LEMMA MeasureNext ==
  TypeInv /\ CurrentMeasurement /\ FailureStreak /\ [Next]_vars
    => (CurrentMeasurement /\ FailureStreak)'
BY StepsAlwaysKnown, JobsAlwaysGoOn, MeasureStep

\* What is shown for an enabled monitor was measured under its present
\* configuration, and an archived asset has neither an enabled monitor nor an
\* outstanding job (save_monitor, finish_monitor, claim_job, archive_monitors).
THEOREM MeasurementCurrent == Spec => []CurrentMeasurement
BY MeasureInit, MeasureNext, TypeCorrect, PTL DEF Spec

\* A monitor that reached its threshold of failures is shown Down, whatever was
\* saved, swept or recorded in between (state_after, save_monitor).
THEOREM StreakShown == Spec => []FailureStreak
BY MeasureInit, MeasureNext, TypeCorrect, PTL DEF Spec

-----------------------------------------------------------------------------
(* The queue implements the lifecycle.                                     *)

\* The arcs of one row, and the claim of a row that goes on running.
LEMMA RowArcs ==
  ASSUME TypeInv, JobsGoOn, NEW j \in DOMAIN jobs
  PROVE  /\ j \notin DOMAIN jobs' => jobs[j].status \in Lifecycle!Ended
         /\ j \in DOMAIN jobs' =>
              \/ jobs'[j].status = jobs[j].status /\ jobs'[j].owner = jobs[j].owner
              \/ /\ <<jobs[j].status, jobs'[j].status>> \in Lifecycle!Arcs
                 /\ jobs[j].status # "running" \/ jobs'[j].status # "running"
<1>1. jobs[j] \in Job
  BY RowsKnown
<1>2. ASSUME IsEnded(jobs[j], jobs'[j])
      PROVE  /\ <<jobs[j].status, jobs'[j].status>> \in Lifecycle!Arcs
             /\ jobs'[j].status # "running"
  <2>1. PICK status \in {"cancelled", "error"} :
          /\ jobs'[j] = [jobs[j] EXCEPT !.status = status]
          /\ jobs[j].status = "queued" => status = "cancelled"
    BY <1>2 DEF IsEnded
  <2>2. jobs'[j].status = status
    BY <1>1, <2>1 DEF Job
  <2>3. jobs[j].status \in {"queued", "running"}
    BY <1>2 DEF IsEnded, ActiveStatus
  <2> QED
    BY <2>1, <2>2, <2>3 DEF Lifecycle!Arcs, Lifecycle!Ended
<1>3. CASE Same \/ Ends
  BY <1>2, <1>3 DEF Same, Ends
<1>4. CASE \/ Forgets
           \/ \E s \in Scopes, actor \in Users \cup {System}, key \in Keys \cup {NoKey} :
                Adds(s, actor, key)
  BY <1>4 DEF Forgets, Adds, FinalStatus, Lifecycle!Ended
<1>5. ASSUME NEW now \in Recent, NEW i \in DOMAIN jobs, NEW o \in Owners, Starts(now, i, o)
      PROVE  /\ j \in DOMAIN jobs'
             /\ \/ jobs'[j].status = jobs[j].status /\ jobs'[j].owner = jobs[j].owner
                \/ /\ <<jobs[j].status, jobs'[j].status>> \in Lifecycle!Arcs
                   /\ jobs[j].status # "running" \/ jobs'[j].status # "running"
  <2>1. CASE i = j
    <3>1. jobs[j].status = "queued"
      BY <1>5, <2>1 DEF Starts, Claimable, Ready, JobsOf
    <3>2. jobs'[j].status = "running"
      BY <1>1, <1>5, <2>1 DEF Starts, Claimed, Job
    <3> QED
      BY <1>5, <3>1, <3>2 DEF Starts, Lifecycle!Arcs
  <2>2. CASE i # j
    BY <1>2, <1>5, <2>2 DEF Starts
  <2> QED
    BY <2>1, <2>2
<1>6. ASSUME NEW w \in Workers, Returns(w)
      PROVE  /\ j \in DOMAIN jobs'
             /\ \/ jobs'[j] = jobs[j]
                \/ /\ <<jobs[j].status, jobs'[j].status>> \in Lifecycle!Arcs
                   /\ jobs'[j].status # "running"
  <2>1. CASE j = work[w].job
    <3>1. jobs[j].status = "running" /\ jobs'[j].status \in {"queued"} \cup Lifecycle!Ended
      BY <1>6, <2>1 DEF Returns, FinalStatus, Lifecycle!Ended
    <3> QED
      BY <1>6, <3>1 DEF Returns, Lifecycle!Arcs, Lifecycle!Ended
  <2>2. CASE j # work[w].job
    BY <1>6, <2>2 DEF Returns
  <2> QED
    BY <2>1, <2>2
<1> QED
  BY <1>3, <1>4, <1>5, <1>6 DEF JobsGoOn

LEMMA ShownStatus ==
  /\ \A j \in 1..MaxJobs :
       /\ j >= nextId => JobStatus[j] = "none"
       /\ ~(j >= nextId) => JobStatus[j] = IF j \in DOMAIN jobs THEN jobs[j].status
                                           ELSE "forgotten"
       /\ JobHolder[j] = IF j \in DOMAIN jobs /\ jobs[j].status = "running"
                         THEN jobs[j].owner ELSE NoOwner
BY DEF JobStatus, JobHolder

LEMMA ShownStatusNext ==
  /\ \A j \in 1..MaxJobs :
       /\ j >= nextId' => JobStatus'[j] = "none"
       /\ ~(j >= nextId') => JobStatus'[j] = IF j \in DOMAIN jobs' THEN jobs'[j].status
                                             ELSE "forgotten"
       /\ JobHolder'[j] = IF j \in DOMAIN jobs' /\ jobs'[j].status = "running"
                          THEN jobs'[j].owner ELSE NoOwner
BY DEF JobStatus, JobHolder

LEMMA ShownRunning ==
  ASSUME TypeInv, TypeInv'
  PROVE  /\ Lifecycle!Running(JobStatus) = JobsOf({"running"}) \cap 1..MaxJobs
         /\ Lifecycle!Running(JobStatus') = JobsOf({"running"})' \cap 1..MaxJobs
<1>1. \A j \in DOMAIN jobs : j \in Nat /\ j < nextId /\ nextId \in Nat
  BY RowsKnown
<1>2. \A j \in DOMAIN jobs' : j \in Nat /\ j < nextId' /\ nextId' \in Nat
  BY DEF TypeInv, TypeOK
<1>3. \A j \in 1..MaxJobs : JobStatus[j] = "running" <=> j \in JobsOf({"running"})
  <2> TAKE j \in 1..MaxJobs
  <2>1. CASE j >= nextId
    BY <1>1, <2>1, ShownStatus DEF JobsOf
  <2>2. CASE ~(j >= nextId)
    BY <2>2, ShownStatus DEF JobsOf
  <2> QED
    BY <2>1, <2>2
<1>4. \A j \in 1..MaxJobs : JobStatus'[j] = "running" <=> j \in JobsOf({"running"})'
  <2> TAKE j \in 1..MaxJobs
  <2>1. CASE j >= nextId'
    BY <1>2, <2>1, ShownStatusNext DEF JobsOf
  <2>2. CASE ~(j >= nextId')
    BY <2>2, ShownStatusNext DEF JobsOf
  <2> QED
    BY <2>1, <2>2
<1>5. JobsOf({"running"}) \subseteq DOMAIN jobs /\ JobsOf({"running"})' \subseteq DOMAIN jobs'
  BY DEF JobsOf
<1> QED
  BY <1>3, <1>4, <1>5 DEF Lifecycle!Running

LEMMA LifecycleArcs ==
  ASSUME TypeInv, TypeInv', JobsGoOn, NEW j \in 1..MaxJobs
  PROVE  JobStatus'[j] = JobStatus[j] \/ <<JobStatus[j], JobStatus'[j]>> \in Lifecycle!Arcs
<1>1. nextId \in Nat /\ nextId' \in Nat /\ (nextId' = nextId \/ nextId' = nextId + 1)
  BY RowsKnown, RowsGo DEF TypeInv, TypeOK
<1>2. \A i \in DOMAIN jobs : i \in Nat /\ i < nextId
  BY RowsKnown
<1>3. CASE j >= nextId'
  BY <1>1, <1>3, ShownStatus, ShownStatusNext
<1>4. CASE j >= nextId /\ ~(j >= nextId')
  <2>1. j = nextId /\ nextId' = nextId + 1
    BY <1>1, <1>4
  <2>2. \E s \in Scopes, actor \in Users \cup {System}, key \in Keys \cup {NoKey} :
          Adds(s, actor, key)
    BY <1>1, <2>1 DEF JobsGoOn, Same, Ends, Forgets, Starts, Returns
  <2>3. j \in DOMAIN jobs' /\ jobs'[j].status = "queued"
    BY <2>1, <2>2, NewRow DEF Adds
  <2> QED
    BY <1>4, <2>3, ShownStatus, ShownStatusNext DEF Lifecycle!Arcs
<1>5. CASE ~(j >= nextId) /\ j \notin DOMAIN jobs
  <2>1. j \notin DOMAIN jobs' /\ ~(j >= nextId')
    BY <1>1, <1>5, RowsGo
  <2> QED
    BY <1>5, <2>1, ShownStatus, ShownStatusNext
<1>6. CASE ~(j >= nextId) /\ j \in DOMAIN jobs
  <2>1. ~(j >= nextId')
    BY <1>1, <1>6
  <2>2. JobStatus[j] = jobs[j].status
    BY <1>6, ShownStatus
  <2>3. CASE j \in DOMAIN jobs'
    BY <1>6, <2>1, <2>2, <2>3, ShownStatusNext, RowArcs
  <2>4. CASE j \notin DOMAIN jobs'
    <3>1. JobStatus'[j] = "forgotten" /\ JobStatus[j] \in Lifecycle!Ended
      BY <1>6, <2>1, <2>2, <2>4, ShownStatusNext, RowArcs
    <3> QED
      BY <3>1 DEF Lifecycle!Arcs
  <2> QED
    BY <2>3, <2>4
<1> QED
  BY <1>3, <1>4, <1>5, <1>6

LEMMA LifecycleCounts ==
  ASSUME NEW S
  PROVE  Lifecycle!Cardinality(S) = Cardinality(S)
BY DEF Lifecycle!Cardinality, Cardinality

LEMMA LifecycleStep ==
  ASSUME TypeInv, TypeInv', SharedSlots', JobsGoOn
  PROVE  Lifecycle!Next
<1> DEFINE was == Lifecycle!Running(JobStatus)
           runs == Lifecycle!Running(JobStatus')
<1>1. /\ was = JobsOf({"running"}) \cap 1..MaxJobs
      /\ runs = JobsOf({"running"})' \cap 1..MaxJobs
  BY ShownRunning
<1>2. Lifecycle!Started = runs \ was
  BY DEF Lifecycle!Started
<1> HIDE DEF was, runs
<1>3. \/ Lifecycle!Started = {}
      \/ \E now \in Recent, j \in DOMAIN jobs, o \in Owners :
           Starts(now, j, o) /\ Lifecycle!Started = {j} /\ j \in 1..MaxJobs
  <2>1. CASE JobsOf({"running"})' \subseteq JobsOf({"running"})
    BY <1>1, <1>2, <2>1
  <2>2. ASSUME NEW now \in Recent, NEW j \in DOMAIN jobs, NEW o \in Owners, Starts(now, j, o),
               JobsOf({"running"})' \subseteq StillRunning(now) \cup {j}
        PROVE  Lifecycle!Started = {} \/ (Lifecycle!Started = {j} /\ j \in 1..MaxJobs)
    <3>1. StillRunning(now) \subseteq JobsOf({"running"})
      BY DEF StillRunning
    <3>2. Lifecycle!Started \subseteq {j} /\ Lifecycle!Started \subseteq 1..MaxJobs
      BY <1>1, <1>2, <2>2, <3>1
    <3> QED
      BY <3>2
  <2> QED
    BY <2>1, <2>2, RunningGoes
<1>4. Cardinality(Lifecycle!Started) <= 1
  <2>1. CASE Lifecycle!Started = {}
    BY <2>1, FS_EmptySet
  <2>2. ASSUME NEW j, Lifecycle!Started = {j} PROVE Cardinality(Lifecycle!Started) <= 1
    <3>1. Cardinality({j}) = 1
      BY FS_Singleton
    <3> QED
      BY <2>2, <3>1
  <2> QED
    BY <1>3, <2>1, <2>2
<1>5. Cardinality(runs) <= MaxRunning
  <2>1. JobsOf({"running"})' \subseteq DOMAIN jobs' /\ IsFiniteSet(DOMAIN jobs')
    <3>1. IsFiniteSet(1..(nextId' - 1)) /\ DOMAIN jobs' \subseteq 1..(nextId' - 1)
      <4>1. nextId' \in Nat /\ DOMAIN jobs' \subseteq 1..(nextId' - 1)
        BY DEF TypeInv, TypeOK
      <4>2. \A n \in Nat : IsFiniteSet(1..(n - 1))
        BY FS_Interval
      <4> QED
        BY <4>1, <4>2
    <3> QED
      BY <3>1, FS_Subset DEF JobsOf
  <2>2. IsFiniteSet(JobsOf({"running"})')
    BY <2>1, FS_Subset
  <2>3. runs \subseteq JobsOf({"running"})'
    BY <1>1
  <2>4. /\ Cardinality(runs) <= Cardinality(JobsOf({"running"})')
        /\ Cardinality(runs) \in Nat /\ Cardinality(JobsOf({"running"})') \in Nat
    BY <2>2, <2>3, FS_Subset, FS_CardinalityType
  <2>5. Cardinality(JobsOf({"running"})') <= MaxRunning
    BY DEF SharedSlots
  <2> QED
    BY <2>4, <2>5, LimitAssumption
<1>6. ASSUME NEW j \in 1..MaxJobs, NEW i \in 1..MaxJobs,
             JobStatus[j] = "none", JobStatus'[j] # "none", JobStatus[i] # "none"
      PROVE  i < j
  <2>1. ~(i >= nextId) /\ ~(j >= nextId')
    BY <1>6, ShownStatus, ShownStatusNext
  <2>2. nextId \in Nat /\ (j >= nextId \/ (j \in DOMAIN jobs /\ jobs[j].status = "none"))
    BY <1>6, ShownStatus, RowsKnown
  <2>3. j >= nextId
    BY <2>2, RowsKnown DEF Job, ActiveStatus, FinalStatus
  <2> QED
    BY <2>1, <2>2, <2>3
<1>7. Lifecycle!Advance
  <2>1. \A j \in Lifecycle!Admitted, i \in 1..MaxJobs : JobStatus[i] # "none" => i < j
    BY <1>6 DEF Lifecycle!Admitted
  <2> QED
    <3>1. \A j \in 1..MaxJobs :
            \/ JobStatus'[j] = JobStatus[j]
            \/ <<JobStatus[j], JobStatus'[j]>> \in Lifecycle!Arcs
      BY LifecycleArcs
    <3>2. Cardinality(Lifecycle!Running(JobStatus')) <= MaxRunning
      BY <1>5 DEF runs
    <3> QED
      BY <1>4, <2>1, <3>1, <3>2, LifecycleCounts DEF Lifecycle!Advance
<1>8. ASSUME NEW j \in 1..MaxJobs, j \notin runs PROVE JobHolder'[j] = NoOwner
  BY <1>1, <1>8, ShownStatusNext DEF JobsOf
<1>9. ASSUME NEW j \in runs \ Lifecycle!Started PROVE JobHolder'[j] = JobHolder[j]
  <2>1. j \in JobsOf({"running"}) /\ j \in JobsOf({"running"})' /\ j \in 1..MaxJobs
    BY <1>1, <1>2
  <2>2. jobs'[j].owner = jobs[j].owner
    BY <2>1, RowArcs DEF JobsOf
  <2> QED
    BY <2>1, <2>2, ShownStatus, ShownStatusNext DEF JobsOf
<1>10. ASSUME NEW j \in Lifecycle!Started
       PROVE  JobHolder'[j] \in Owners \ {JobHolder[i] : i \in 1..MaxJobs}
  <2>1. PICK now \in Recent, o \in Owners :
          Starts(now, j, o) /\ j \in 1..MaxJobs /\ j \in DOMAIN jobs
    BY <1>3, <1>10
  <2>2. JobHolder'[j] = o
    <3>1. j \in DOMAIN jobs' /\ jobs'[j] = Claimed(jobs[j], o, now) /\ jobs[j] \in Job
      BY <2>1, RowsKnown DEF Starts
    <3>2. jobs'[j].status = "running" /\ jobs'[j].owner = o
      BY <3>1 DEF Claimed, Job
    <3> QED
      BY <2>1, <3>1, <3>2, ShownStatusNext
  <2>3. ASSUME NEW i \in 1..MaxJobs PROVE JobHolder[i] # o
    <3>1. CASE i \in DOMAIN jobs /\ jobs[i].status = "running"
      BY <2>1, <3>1, ShownStatus DEF Starts, FreshOwners, JobsOf, ActiveStatus
    <3>2. CASE ~(i \in DOMAIN jobs /\ jobs[i].status = "running")
      BY <2>1, <3>2, ShownStatus, SentinelAssumption
    <3> QED
      BY <3>1, <3>2
  <2> QED
    BY <2>2, <2>3
<1>11. Lifecycle!Hold
  BY <1>8, <1>9, <1>10 DEF Lifecycle!Hold, runs
<1> QED
  BY <1>7, <1>11 DEF Lifecycle!Next

LEMMA LifecycleInit == Init => Lifecycle!Init
<1> SUFFICES ASSUME Init PROVE Lifecycle!Init
  OBVIOUS
<1>1. \A j \in 1..MaxJobs : j >= nextId /\ j \notin DOMAIN jobs
  BY DEF Init, NoWork
<1> QED
  BY <1>1 DEF Lifecycle!Init, JobStatus, JobHolder

\* The queue implements the lifecycle of its jobs: every transaction of every
\* process moves the jobs it touches along legal arcs, starts at most one under a
\* claim nobody else has, and admits them in order (enqueue, claim_job, defer,
\* finish_monitor, finish_discovery, finish_error, cleanup).
THEOREM QueueImplemented == Spec => LifecycleKept
<1>1. TypeInv /\ TypeInv' /\ SharedSlots' /\ [Next]_vars
        => [Lifecycle!Next]_<<JobStatus, JobHolder>>
  BY JobsAlwaysGoOn, LifecycleStep
<1> QED
  BY <1>1, LifecycleInit, TypeCorrect, SlotsKept, PTL
  DEF Spec, LifecycleKept, Lifecycle!Spec

-----------------------------------------------------------------------------
(* Coverage of a discovery run.                                            *)

\* Positions of a profile, counted once round its targets.
Around(p) == AtLeast(1, Count(p))
Wrapped(x, m) == IF x < m THEN x ELSE x - m
Stretch(c, n, m) == {Wrapped(c + i, m) : i \in 0..(n - 1)}

LEMMA ModWrapped ==
  ASSUME NEW x \in Nat, NEW m \in Nat, m > 0, x < m + m
  PROVE  x % m = Wrapped(x, m)
<1>1. CASE x < m
  BY <1>1 DEF Wrapped
<1>2. CASE x >= m
  <2>1. x % m = x - m
    BY <1>2
  <2> QED
    BY <1>2, <2>1 DEF Wrapped
<1> QED
  BY <1>1, <1>2

LEMMA AroundType ==
  ASSUME NEW p \in Profiles
  PROVE  /\ Count(p) \in Nat /\ Around(p) \in Nat /\ Around(p) > 0 /\ Around(p) >= Count(p)
         /\ Count(p) > 0 => Around(p) = Count(p)
<1>1. Count(p) \in Nat
  BY ScopeAssumption DEF Count
<1> QED
  BY <1>1 DEF Around, AtLeast

\* A run has recorded as many consecutive positions as it has processed, and
\* stands behind them.
Covered(job) ==
  LET m == Around(job.scope) IN
  /\ job.processed <= Count(job.scope)
  /\ job.status = "completed" => job.processed = Count(job.scope)
  /\ \E c \in 0..(m - 1) :
       /\ job.cursor = Wrapped(c + job.processed, m)
       /\ job.scanned = Stretch(c, job.processed, m)
CoveredInv == \A j \in DOMAIN jobs : jobs[j].scope \in Profiles => Covered(jobs[j])

\* An outstanding run stands where its profile does.
CursorInv ==
  /\ \A p \in Profiles \cap DOMAIN cfg : cfg[p].cursor < Around(p)
  /\ \A j \in JobsOf(ActiveStatus) :
       jobs[j].scope \in Profiles =>
         /\ jobs[j].scope \in DOMAIN cfg
         /\ jobs[j].cursor = cfg[jobs[j].scope].cursor

\* A worker's chunk is what is left of its run, at most.
SizeInv ==
  \A w \in Workers :
    LET i == work[w].job IN
    /\ work[w].pc # "idle" /\ i \in DOMAIN jobs
    /\ jobs[i].owner = work[w].owner /\ jobs[i].scope \in Profiles
    => jobs[i].processed + work[w].size <= Count(jobs[i].scope)

CoverageInv == CoveredInv /\ CursorInv /\ SizeInv

LEMMA CoveredAll ==
  ASSUME NEW m \in Nat, NEW c \in 0..(m - 1)
  PROVE  Stretch(c, m, m) = 0..(m - 1)
<1>1. ASSUME NEW i \in 0..(m - 1) PROVE Wrapped(c + i, m) \in 0..(m - 1)
  BY DEF Wrapped
<1>2. ASSUME NEW x \in 0..(m - 1) PROVE \E i \in 0..(m - 1) : x = Wrapped(c + i, m)
  <2>1. CASE x >= c
    <3>1. x - c \in 0..(m - 1) /\ Wrapped(c + (x - c), m) = x
      BY <2>1 DEF Wrapped
    <3> QED
      BY <3>1
  <2>2. CASE x < c
    <3>1. x + m - c \in 0..(m - 1) /\ Wrapped(c + (x + m - c), m) = x
      BY <2>2 DEF Wrapped
    <3> QED
      BY <3>1
  <2> QED
    BY <2>1, <2>2
<1> QED
  BY <1>1, <1>2 DEF Stretch

LEMMA CoverageSafe ==
  ASSUME TypeInv, CoverageInv
  PROVE  RunCoverage
<1> SUFFICES ASSUME NEW j \in DOMAIN jobs, jobs[j].scope \in Profiles
             PROVE  /\ jobs[j].status = "completed" =>
                         jobs[j].scanned = 0..(Count(jobs[j].scope) - 1)
                    /\ jobs[j].status \in ActiveStatus =>
                         jobs[j].cursor = cfg[jobs[j].scope].cursor
  BY DEF RunCoverage
<1>1. ASSUME jobs[j].status = "completed"
      PROVE  jobs[j].scanned = 0..(Count(jobs[j].scope) - 1)
  <2> DEFINE n == Count(jobs[j].scope)
             m == Around(jobs[j].scope)
  <2>1. PICK c \in 0..(m - 1) : /\ jobs[j].processed = n
                                /\ jobs[j].scanned = Stretch(c, n, m)
    BY <1>1 DEF CoverageInv, CoveredInv, Covered
  <2>2. n \in Nat /\ m \in Nat /\ (n > 0 => m = n)
    BY AroundType
  <2> HIDE DEF n, m
  <2>3. CASE n = 0
    <3>1. 0..(n - 1) = {}
      BY <2>3
    <3> QED
      BY <2>1, <3>1 DEF n, Stretch
  <2>4. CASE n > 0
    <3>1. Stretch(c, m, m) = 0..(m - 1)
      BY <2>2, CoveredAll
    <3> QED
      BY <2>1, <2>2, <2>4, <3>1 DEF n
  <2> QED
    BY <2>2, <2>3, <2>4
<1>2. jobs[j].status \in ActiveStatus => jobs[j].cursor = cfg[jobs[j].scope].cursor
  BY DEF CoverageInv, CursorInv, JobsOf
<1> QED
  BY <1>1, <1>2

\* Recording n more positions keeps a run covered.
LEMMA CoveredAdvance ==
  ASSUME NEW job \in Job, job.scope \in Profiles, Covered(job), NEW n \in Nat,
         job.processed + n <= Count(job.scope), NEW now \in Nat, job.status # "completed"
  PROVE  LET new == Advanced(job, n, now) IN
         Covered(new) /\ new.cursor < Around(job.scope) /\ new.scope = job.scope
<1> DEFINE p == job.processed
           total == Count(job.scope)
           m == Around(job.scope)
           new == Advanced(job, n, now)
<1>1. /\ total \in Nat /\ m \in Nat /\ m > 0 /\ m >= total /\ p \in Nat /\ p + n <= total
      /\ job.cursor \in Nat
  BY AroundType DEF Job
<1>2. PICK c \in 0..(m - 1) : /\ job.cursor = Wrapped(c + p, m)
                              /\ job.scanned = Stretch(c, p, m)
  BY DEF Covered
<1>3. /\ new.scope = job.scope /\ new.processed = p + n
      /\ new.cursor = (job.cursor + n) % m
      /\ new.scanned = job.scanned \cup {(job.cursor + i) % m : i \in 0..(n - 1)}
      /\ new.status = "completed" => p + n >= total
  BY DEF Advanced, Job, Around
<1> HIDE DEF p, total, m, new
<1>4. job.cursor \in 0..(m - 1)
  BY <1>1, <1>2 DEF Wrapped
<1>5. ASSUME NEW i \in 0..n PROVE (job.cursor + i) % m = Wrapped(c + (p + i), m)
  <2>1. job.cursor + i \in Nat /\ job.cursor + i < m + m
    BY <1>1, <1>4
  <2>2. (job.cursor + i) % m = Wrapped(job.cursor + i, m)
    BY <1>1, <2>1, ModWrapped
  <2>3. CASE c + p < m
    BY <1>1, <1>2, <2>2, <2>3 DEF Wrapped
  <2>4. CASE c + p >= m
    BY <1>1, <1>2, <2>2, <2>4 DEF Wrapped
  <2> QED
    BY <1>1, <2>3, <2>4
<1>6. new.cursor = Wrapped(c + (p + n), m) /\ new.cursor < m
  BY <1>1, <1>3, <1>5 DEF Wrapped
<1>7. {(job.cursor + i) % m : i \in 0..(n - 1)} = {Wrapped(c + i, m) : i \in p..(p + n - 1)}
  <2>1. ASSUME NEW i \in 0..(n - 1)
        PROVE  /\ p + i \in p..(p + n - 1)
               /\ (job.cursor + i) % m = Wrapped(c + (p + i), m)
    BY <1>1, <1>5
  <2>2. ASSUME NEW i \in p..(p + n - 1)
        PROVE  /\ i - p \in 0..(n - 1)
               /\ (job.cursor + (i - p)) % m = Wrapped(c + i, m)
    <3>1. i - p \in 0..(n - 1) /\ i - p \in 0..n /\ p + (i - p) = i
      BY <1>1
    <3>2. (job.cursor + (i - p)) % m = Wrapped(c + (p + (i - p)), m)
      BY <1>5, <3>1
    <3> QED
      BY <3>1, <3>2
  <2> QED
    BY <2>1, <2>2
<1>8. 0..((p + n) - 1) = 0..(p - 1) \cup p..(p + n - 1)
  BY <1>1
<1>9. new.scanned = Stretch(c, p + n, m)
  <2>1. ASSUME NEW A, NEW B
        PROVE  {Wrapped(c + i, m) : i \in A \cup B}
                 = {Wrapped(c + i, m) : i \in A} \cup {Wrapped(c + i, m) : i \in B}
    OBVIOUS
  <2>2. Stretch(c, p + n, m) = {Wrapped(c + i, m) : i \in 0..(p - 1) \cup p..(p + n - 1)}
    <3>1. Stretch(c, p + n, m) = {Wrapped(c + i, m) : i \in 0..((p + n) - 1)}
      BY DEF Stretch
    <3>2. ASSUME NEW A, NEW B, A = B
          PROVE  {Wrapped(c + i, m) : i \in A} = {Wrapped(c + i, m) : i \in B}
      BY <3>2
    <3> QED
      BY <1>8, <3>1, <3>2
  <2>3. Stretch(c, p, m) = {Wrapped(c + i, m) : i \in 0..(p - 1)}
    BY DEF Stretch
  <2> QED
    BY <1>2, <1>3, <1>7, <2>1, <2>2, <2>3
<1>10. p + n <= total /\ (new.status = "completed" => p + n = total)
  BY <1>1, <1>3
<1>11. Covered(new)
  <2>1. /\ new.processed <= Count(new.scope)
        /\ new.status = "completed" => new.processed = Count(new.scope)
    BY <1>3, <1>10 DEF total
  <2>2. /\ c \in 0..(Around(new.scope) - 1)
        /\ new.cursor = Wrapped(c + new.processed, Around(new.scope))
        /\ new.scanned = Stretch(c, new.processed, Around(new.scope))
    <3>1. Around(new.scope) = m
      BY <1>3 DEF m
    <3>2. new.cursor = Wrapped(c + new.processed, Around(new.scope))
      BY <1>3, <1>6, <3>1
    <3>3. new.scanned = Stretch(c, new.processed, Around(new.scope))
      BY <1>3, <1>9, <3>1
    <3> QED
      BY <3>1, <3>2, <3>3
  <2> QED
    BY <2>1, <2>2 DEF Covered
<1> QED
  BY <1>3, <1>6, <1>11 DEF m, new

\* A run goes on: where it stands, or by a recorded chunk.
LEMMA ProgressGoes ==
  ASSUME TypeInv, JobsGoOn, NEW j \in DOMAIN jobs, j \in DOMAIN jobs',
         jobs[j].scope \in Profiles
  PROVE  \/ /\ Progress(jobs'[j]) = Progress(jobs[j])
            /\ jobs'[j].status = "completed" => jobs[j].status = "completed"
            /\ jobs'[j].owner \in {jobs[j].owner, NoOwner} \cup FreshOwners
         \/ \E w \in Workers, now \in Recent :
              /\ FinishDiscovery(w, now) /\ work[w].job = j
              /\ \A i \in DOMAIN jobs \ {j} : jobs'[i] = jobs[i]
<1>1. jobs[j] \in Job
  BY RowsKnown
<1>2. CASE jobs'[j] = jobs[j]
  BY <1>2 DEF Progress
<1>3. CASE IsEnded(jobs[j], jobs'[j])
  BY <1>1, <1>3 DEF IsEnded, Progress, Job
<1>4. CASE \/ Same \/ Ends \/ Forgets
           \/ \E s \in Scopes, actor \in Users \cup {System}, key \in Keys \cup {NoKey} :
                Adds(s, actor, key)
  BY <1>2, <1>3, <1>4 DEF Same, Ends, Forgets, Adds
<1>5. ASSUME NEW now \in Recent, NEW i \in DOMAIN jobs, NEW o \in Owners, Starts(now, i, o)
      PROVE  /\ Progress(jobs'[j]) = Progress(jobs[j])
             /\ jobs'[j].status = "completed" => jobs[j].status = "completed"
             /\ jobs'[j].owner \in {jobs[j].owner, NoOwner} \cup FreshOwners
  <2>1. CASE i = j
    BY <1>1, <1>5, <2>1 DEF Starts, Claimed, Progress, Job
  <2>2. CASE i # j
    <3>1. CASE jobs'[j] = jobs[j]
      BY <3>1 DEF Progress
    <3>2. CASE IsEnded(jobs[j], jobs'[j])
      BY <1>1, <3>2 DEF IsEnded, Progress, Job
    <3> QED
      BY <1>5, <2>2, <3>1, <3>2 DEF Starts
  <2> QED
    BY <2>1, <2>2
<1>6. ASSUME NEW w \in Workers, Returns(w), j = work[w].job
      PROVE  \/ \E now \in Recent : FinishDiscovery(w, now)
             \/ /\ Progress(jobs'[j]) = Progress(jobs[j])
                /\ jobs'[j].status = "queued" /\ jobs'[j].owner = NoOwner
  BY <1>6, ScopeAssumption DEF Returns
<1>7. CASE \E w \in Workers : Returns(w)
  <2>1. PICK w \in Workers : Returns(w)
    BY <1>7
  <2>2. CASE j = work[w].job
    BY <1>6, <2>1, <2>2 DEF Returns
  <2>3. CASE j # work[w].job
    BY <1>2, <2>1, <2>3 DEF Returns
  <2> QED
    BY <2>2, <2>3
<1> QED
  BY <1>4, <1>5, <1>7 DEF JobsGoOn

LEMMA ChunkLimitBound ==
  ASSUME NEW job \in Job, job.scope \in Profiles, ~RunOver(job), NEW n \in 1..ChunkLimit(job)
  PROVE  job.processed + n <= Count(job.scope)
<1>1. /\ Count(job.scope) \in Nat /\ job.processed \in Nat /\ ChunkSize \in Nat
      /\ ~(job.processed >= Count(job.scope))
  BY AroundType, TimingAssumption DEF Job, RunOver
<1> DEFINE limit == AtLeast(1, Rate["discovery"] \div AtLeast(1, Ports))
           left == AtMost(Count(job.scope) - job.processed, limit)
<1>2. ChunkLimit(job) = AtMost(ChunkSize, left)
  BY DEF ChunkLimit
<1>3. limit \in Int
  <2>1. Rate["discovery"] \in Nat /\ AtLeast(1, Ports) \in Nat /\ AtLeast(1, Ports) > 0
    BY LimitAssumption, TimingAssumption DEF AtLeast, Kinds
  <2>2. Rate["discovery"] \div AtLeast(1, Ports) \in Int
    BY <2>1
  <2> QED
    BY <2>2 DEF AtLeast
<1> HIDE DEF limit
<1>4. left \in Int /\ left <= Count(job.scope) - job.processed
  BY <1>1, <1>3 DEF AtMost
<1> HIDE DEF left
<1>5. ChunkLimit(job) \in Int /\ ChunkLimit(job) <= left
  BY <1>1, <1>2, <1>4 DEF AtMost
<1> QED
  BY <1>1, <1>4, <1>5

\* How a worker may come to its claim and its chunk.
WorkGoesOn ==
  \A w \in Workers :
    work'[w].pc # "idle" =>
      \/ /\ work[w].pc # "idle" /\ work'[w].job = work[w].job
         /\ work'[w].owner = work[w].owner /\ work'[w].size = work[w].size
      \/ work'[w].size = 0
      \/ /\ jobs' = jobs /\ work'[w].job = work[w].job /\ work[w].job \in DOMAIN jobs
         /\ jobs[work[w].job].scope \in Profiles
         /\ jobs[work[w].job].processed + work'[w].size <= Count(jobs[work[w].job].scope)

\* Worker w alone moves, with the chunk it has.
KeepsChunk(w) ==
  /\ \A v \in Workers \ {w} : work'[v] = work[v]
  /\ work'[w].pc # "idle" =>
       /\ work[w].pc # "idle" /\ work'[w].job = work[w].job
       /\ work'[w].owner = work[w].owner /\ work'[w].size = work[w].size

LEMMA GoKeeps ==
  ASSUME TypeInv, NEW w \in Workers, NEW pc, work[w].pc # "idle", Go(w, pc)
  PROVE  KeepsChunk(w)
BY WorkType DEF Go, KeepsChunk, Work

LEMMA ChunksKept ==
  ASSUME TypeInv, NEW w \in Workers,
         \/ BeginMonitor(w) \/ LostClaim(w) \/ GiveUp(w) \/ FinishError(w) \/ Release(w)
         \/ \E a \in Addresses : Resolve(w, a)
         \/ \E r \in Outcomes : ProbeMonitor(w, r)
         \/ \E n \in 0..ChunkSize : ProbeDiscovery(w, n)
         \/ Fail(w) \/ Crash(w) \/ OrphanEnds(w)
         \/ \E now \in Recent :
              \/ Reserve(w, now) \/ ReserveRefused(w, now)
              \/ ReserveDns(w, now) \/ NameHost(w, now)
              \/ FinishMonitor(w, now) \/ FinishDiscovery(w, now)
              \/ FinishLost(w, now) \/ Defer(w, now)
  PROVE  KeepsChunk(w)
<1>1. ASSUME NEW r, work' = [work EXCEPT ![w] = r],
             r = IdleWork \/ (/\ work[w].pc # "idle" /\ r.job = work[w].job
                             /\ r.owner = work[w].owner /\ r.size = work[w].size)
      PROVE  KeepsChunk(w)
  BY <1>1, WorkType, IdleType DEF KeepsChunk
<1>2. CASE LostClaim(w) \/ GiveUp(w) \/ FinishError(w)
  BY <1>2, GoKeeps DEF LostClaim, GiveUp, FinishError
<1>3. CASE BeginMonitor(w)
  <2>1. CASE Go(w, "charge")
    BY <1>3, <2>1, GoKeeps DEF BeginMonitor
  <2>2. CASE \E t : work' = [work EXCEPT ![w].pc = "reserve", ![w].addrs = t]
    BY <1>3, <2>2, WorkType DEF Work, KeepsChunk, BeginMonitor
  <2> QED
    BY <1>3, <2>1, <2>2 DEF BeginMonitor
<1>4. CASE Release(w) \/ OrphanEnds(w)
  BY <1>1, <1>4 DEF Release, OrphanEnds
<1>5. ASSUME NEW a \in Addresses, Resolve(w, a) PROVE KeepsChunk(w)
  BY <1>5, WorkType DEF Work, KeepsChunk, Resolve
<1>6. ASSUME NEW r \in Outcomes, ProbeMonitor(w, r) PROVE KeepsChunk(w)
  BY <1>6, WorkType DEF Work, KeepsChunk, ProbeMonitor
<1>7. ASSUME NEW n \in 0..ChunkSize, ProbeDiscovery(w, n) PROVE KeepsChunk(w)
  BY <1>7, WorkType DEF Work, KeepsChunk, ProbeDiscovery
<1>8. CASE Fail(w)
  BY <1>8, WorkType DEF Work, KeepsChunk, Fail
<1>9. CASE Crash(w)
  <2>1. \/ work' = [work EXCEPT ![w] = IdleWork]
        \/ work' = [work EXCEPT ![w] = [work[w] EXCEPT !.pc = "orphan"]]
    BY <1>9, WorkType DEF Crash
  <2>2. LET r == [work[w] EXCEPT !.pc = "orphan"] IN
        r.job = work[w].job /\ r.owner = work[w].owner /\ r.size = work[w].size
    BY WorkType DEF Work
  <2> QED
    BY <1>1, <1>9, <2>1, <2>2 DEF Crash
<1>10. ASSUME NEW now \in Recent, Reserve(w, now) PROVE KeepsChunk(w)
  <2>1. CASE Go(w, "dns")
    BY <1>10, <2>1, GoKeeps DEF Reserve
  <2>2. CASE work' = [work EXCEPT ![w].pc = "probe", ![w].until = clock + MaxProbe]
    BY <1>10, <2>2, WorkType DEF Work, KeepsChunk, Reserve
  <2> QED
    BY <1>10, <2>1, <2>2 DEF Reserve
<1>11. ASSUME NEW now \in Recent, NEW o, Deferred(w, now, o), work[w].pc # "idle"
       PROVE  KeepsChunk(w)
  BY <1>11, WorkType DEF Work, KeepsChunk, Deferred
<1>12. ASSUME NEW now \in Recent, ReserveRefused(w, now) PROVE KeepsChunk(w)
  BY <1>11, <1>12 DEF ReserveRefused
<1>13. ASSUME NEW now \in Recent, ReserveDns(w, now) PROVE KeepsChunk(w)
  BY <1>11, <1>13, GoKeeps DEF ReserveDns
<1>14. ASSUME NEW now \in Recent, NameHost(w, now) PROVE KeepsChunk(w)
  BY <1>14, WorkType DEF Work, KeepsChunk, NameHost
<1>15. ASSUME NEW now \in Recent,
              \/ FinishMonitor(w, now) \/ FinishDiscovery(w, now)
              \/ FinishLost(w, now) \/ Defer(w, now)
       PROVE  KeepsChunk(w)
  BY <1>15, GoKeeps DEF FinishMonitor, FinishDiscovery, FinishLost, Defer
<1> QED
  BY <1>2, <1>3, <1>4, <1>5, <1>6, <1>7, <1>8, <1>9, <1>10, <1>12, <1>13, <1>14, <1>15

LEMMA ChunkGoes ==
  ASSUME TypeInv, NEW w \in Workers, BeginDiscovery(w)
  PROVE  WorkGoesOn
<1> DEFINE job == jobs[work[w].job]
<1>1. /\ work[w].job \in DOMAIN jobs /\ job \in Job /\ job.scope \in Profiles
      /\ jobs' = jobs /\ work[w].pc # "idle"
  BY OwnedRow DEF BeginDiscovery, ScopeOfWork, rows
<1>2. CASE Go(w, "finish")
  BY <1>1, <1>2, GoKeeps DEF KeepsChunk, WorkGoesOn
<1>3. CASE ~Go(w, "finish")
  <2>1. PICK n \in 1..ChunkLimit(job) :
          /\ ~RunOver(job)
          /\ work' = [work EXCEPT ![w].pc = "reserve", ![w].size = n,
                                  ![w].addrs = Chunk(job, n)]
    BY <1>3 DEF BeginDiscovery
  <2>2. job.processed + n <= Count(job.scope)
    BY <1>1, <2>1, ChunkLimitBound
  <2>3. /\ \A v \in Workers \ {w} : work'[v] = work[v]
        /\ work'[w].job = work[w].job /\ work'[w].size = n
    BY <2>1, WorkType DEF Work
  <2> HIDE DEF job
  <2>4. \A v \in Workers \ {w} : work'[v].pc # "idle" =>
          /\ work[v].pc # "idle" /\ work'[v].job = work[v].job
          /\ work'[v].owner = work[v].owner /\ work'[v].size = work[v].size
    BY <2>3
  <2> QED
    BY <1>1, <2>2, <2>3, <2>4 DEF WorkGoesOn, job
<1> QED
  BY <1>2, <1>3

LEMMA WorkAlwaysGoesOn ==
  ASSUME TypeInv, [Next]_vars
  PROVE  WorkGoesOn
<1>1. CASE work' = work
  BY <1>1 DEF WorkGoesOn
<1>2. CASE Requests \/ Background \/ Tick \/ UNCHANGED vars
  <2>1. work' = work
    BY <1>2 DEF Requests, Background, Save, Archive, Restore, CancelRun, Pause, ChangePolicy,
                ChangeRole, RequestJob, ScheduleDue, Cleanup, Tick, vars
  <2> QED
    BY <1>1, <2>1
<1>3. ASSUME NEW w \in Workers, KeepsChunk(w) PROVE WorkGoesOn
  BY <1>3 DEF KeepsChunk, WorkGoesOn
<1>4. ASSUME NEW w \in Workers, Claim(w) PROVE WorkGoesOn
  <2>1. CASE \E now \in Recent : ClaimNothing(w, now)
    BY <1>1, <2>1 DEF ClaimNothing
  <2>2. ASSUME NEW now \in Recent, ClaimJob(w, now) PROVE WorkGoesOn
    <3>1. PICK j \in DOMAIN jobs, o \in Owners :
            work' = [work EXCEPT ![w] = [IdleWork EXCEPT !.pc = "claimed", !.job = j,
                                           !.owner = o, !.kind = KindOf(jobs[j].scope)]]
      BY <2>2, ClaimStarts
    <3>2. work'[w].size = 0 /\ \A v \in Workers \ {w} : work'[v] = work[v]
      BY <3>1, WorkType DEF IdleWork
    <3> QED
      BY <3>2 DEF WorkGoesOn
  <2> QED
    BY <1>4, <2>1, <2>2 DEF Claim
<1>5. ASSUME NEW w \in Workers, Execute(w) PROVE WorkGoesOn
  BY <1>3, <1>5, ChunkGoes, ChunksKept DEF Execute
<1>6. ASSUME NEW w \in Workers, Mishap(w) \/ OrphanEnds(w) PROVE WorkGoesOn
  BY <1>3, <1>6, ChunksKept DEF Mishap
<1> QED
  BY <1>2, <1>4, <1>5, <1>6 DEF Next

-----------------------------------------------------------------------------
(* The steps of coverage.                                                  *)

\* Cursors change when a profile is saved and when a chunk is recorded.
LEMMA CursorsGo ==
  ASSUME TypeInv, ConfigsGoOn
  PROVE  \/ /\ DOMAIN cfg' = DOMAIN cfg
            /\ \A s \in DOMAIN cfg : cfg'[s].cursor = cfg[s].cursor
         \/ \E s \in Scopes :
              /\ DOMAIN cfg' = DOMAIN cfg \cup {s} /\ cfg'[s].cursor = 0
              /\ \A x \in DOMAIN cfg \ {s} : cfg'[x] = cfg[x]
              /\ jobs' = CancelScope(s) /\ nextId' = nextId
         \/ \E w \in Workers, now \in Recent : FinishDiscovery(w, now)
<1>1. cfg \in [DOMAIN cfg -> Config]
  BY RowsKnown
<1>2. ASSUME NEW s \in Scopes, NEW on, NEW sch, NEW t, NEW d, Save(s, on, sch, t, d)
      PROVE  /\ DOMAIN cfg' = DOMAIN cfg \cup {s} /\ cfg'[s].cursor = 0
             /\ \A x \in DOMAIN cfg \ {s} : cfg'[x] = cfg[x]
             /\ jobs' = CancelScope(s) /\ nextId' = nextId
  BY <1>2 DEF Save, Saved
<1>3. CASE (\E m \in Monitors : Archive(m)) \/ Pause
  <2>1. PICK S : cfg' = Disabled(S)
    BY <1>3 DEF Archive, Pause
  <2>2. DOMAIN Disabled(S) = DOMAIN cfg
    BY DEF Disabled
  <2> QED
    BY <2>1, <2>2, DisabledRow
<1>4. CASE \E s \in DOMAIN cfg, due \in Nat : cfg' = [cfg EXCEPT ![s].due = due]
  BY <1>1, <1>4 DEF Config
<1>5. CASE \E u \in Users, s \in Scopes, k \in Keys : RequestJob(u, s, k)
  <2>1. PICK s : cfg' = [cfg EXCEPT ![s].lastRequest = clock]
    BY <1>5 DEF RequestJob
  <2> QED
    BY <1>1, <2>1 DEF Config
<1>6. CASE \E s \in Scopes, on, scheduled \in BOOLEAN, t \in Thresholds,
             delay \in 1..Interval : Save(s, on, scheduled, t, delay)
  BY <1>2, <1>6
<1> QED
  BY <1>3, <1>4, <1>5, <1>6 DEF ConfigsGoOn

LEMMA FinishDiscoveryRows ==
  ASSUME TypeInv, CoverageInv, NEW w \in Workers, NEW now \in Recent, FinishDiscovery(w, now)
  PROVE  LET i == work[w].job
             s == jobs[i].scope IN
         /\ i \in DOMAIN jobs /\ jobs[i].status = "running" /\ s \in Profiles
         /\ s \in DOMAIN cfg /\ DOMAIN cfg' = DOMAIN cfg /\ DOMAIN jobs' = DOMAIN jobs
         /\ jobs'[i].scope = s /\ Covered(jobs'[i]) /\ jobs'[i].owner = NoOwner
         /\ jobs'[i].cursor < Around(s) /\ cfg'[s].cursor = jobs'[i].cursor
         /\ \A x \in DOMAIN cfg \ {s} : cfg'[x] = cfg[x]
         /\ \A j \in DOMAIN jobs \ {i} : jobs'[j] = jobs[j]
<1> DEFINE i == work[w].job
           s == jobs[i].scope
           n == work[w].size
           new == Advanced(jobs[i], n, now)
<1>1. /\ i \in DOMAIN jobs /\ jobs[i] \in Job /\ jobs \in [DOMAIN jobs -> Job]
      /\ s \in Profiles /\ s \in DOMAIN cfg /\ n \in Nat /\ now \in Nat
      /\ cfg \in [DOMAIN cfg -> Config] /\ jobs[i].status = "running"
      /\ jobs[i].owner = work[w].owner /\ work[w].pc # "idle"
  BY OwnedRow, WorkType, RecentType, RowsKnown
  DEF FinishDiscovery, ScopeOfWork, TypeInv, Work, Owned
<1>2. Covered(jobs[i]) /\ jobs[i].processed + n <= Count(s)
  BY <1>1 DEF CoverageInv, CoveredInv, SizeInv
<1>3. Covered(new) /\ new.cursor < Around(s) /\ new.scope = s
  BY <1>1, <1>2, CoveredAdvance
<1>4. new.owner = NoOwner
  BY <1>1 DEF Advanced, Job
<1>5. jobs' = [jobs EXCEPT ![i] = new] /\ cfg' = [cfg EXCEPT ![new.scope].cursor = new.cursor]
  BY DEF FinishDiscovery
<1> HIDE DEF new, n, s, i
<1>6. /\ DOMAIN cfg' = DOMAIN cfg /\ cfg'[s].cursor = new.cursor
      /\ \A x \in DOMAIN cfg \ {s} : cfg'[x] = cfg[x]
  BY <1>1, <1>3, <1>5 DEF Config
<1>7. jobs'[i] = new /\ DOMAIN jobs' = DOMAIN jobs /\ \A j \in DOMAIN jobs \ {i} : jobs'[j] = jobs[j]
  BY <1>1, <1>5
<1> QED
  BY <1>1, <1>3, <1>4, <1>6, <1>7 DEF i, s

LEMMA CoveredKept ==
  ASSUME NEW old, NEW new, Covered(old), Progress(new) = Progress(old),
         new.scope = old.scope, new.status = "completed" => old.status = "completed"
  PROVE  Covered(new)
<1>1. new.cursor = old.cursor /\ new.processed = old.processed /\ new.scanned = old.scanned
  BY DEF Progress
<1> QED
  BY <1>1 DEF Covered

LEMMA CoveredNew ==
  ASSUME TypeInv, CoverageInv, NEW s \in Scopes, NEW actor, NEW key, Adds(s, actor, key),
         s \in Profiles
  PROVE  Covered(jobs'[nextId])
<1> DEFINE m == Around(s)
           c == cfg[s].cursor
<1>1. m \in Nat /\ m > 0 /\ Count(s) \in Nat
  BY AroundType
<1>2. c \in Nat /\ c < m
  BY RowsKnown DEF CoverageInv, CursorInv, Adds, ScopeOpen, Config
<1>3. LET new == jobs'[nextId] IN
      /\ new.scope = s /\ new.processed = 0 /\ new.scanned = {} /\ new.cursor = c
      /\ new.status = "queued"
  BY DEF Adds, NewJob
<1> HIDE DEF c
<1>4. c \in 0..(m - 1) /\ Wrapped(c + 0, m) = c /\ Stretch(c, 0, m) = {}
  BY <1>1, <1>2 DEF Wrapped, Stretch
<1> HIDE DEF m
<1>5. \E x \in 0..(m - 1) : /\ c = Wrapped(x + 0, m) /\ {} = Stretch(x, 0, m)
  BY <1>4
<1> QED
  BY <1>1, <1>3, <1>5 DEF Covered, m

LEMMA CoveredStep ==
  ASSUME TypeInv, CoverageInv, JobsGoOn
  PROVE  CoveredInv'
<1> SUFFICES ASSUME NEW j \in DOMAIN jobs', jobs'[j].scope \in Profiles
             PROVE  Covered(jobs'[j])
  BY DEF CoveredInv, Covered, Around, Count
<1>1. CASE j \in DOMAIN jobs /\ SameJob(jobs[j], jobs'[j])
  <2>1. jobs[j].scope = jobs'[j].scope /\ Covered(jobs[j])
    BY <1>1 DEF SameJob, CoverageInv, CoveredInv
  <2>2. CASE \E w \in Workers, now \in Recent : FinishDiscovery(w, now) /\ work[w].job = j
    BY <2>2, FinishDiscoveryRows
  <2>3. CASE /\ Progress(jobs'[j]) = Progress(jobs[j])
             /\ jobs'[j].status = "completed" => jobs[j].status = "completed"
    BY <2>1, <2>3, CoveredKept
  <2> QED
    BY <1>1, <2>1, <2>2, <2>3, ProgressGoes
<1>2. ASSUME NEW s \in Scopes, NEW actor \in Users \cup {System}, NEW key \in Keys \cup {NoKey},
             Adds(s, actor, key), j = nextId
      PROVE  Covered(jobs'[j])
  BY <1>2, CoveredNew, NewRow
<1> QED
  BY <1>1, <1>2, RowsGo

LEMMA SizeStep ==
  ASSUME TypeInv, CoverageInv, CoveredInv', JobsGoOn, WorkGoesOn, TypeInv'
  PROVE  SizeInv'
<1> SUFFICES ASSUME NEW w \in Workers, work'[w].pc # "idle", work'[w].job \in DOMAIN jobs',
                    jobs'[work'[w].job].owner = work'[w].owner,
                    jobs'[work'[w].job].scope \in Profiles
             PROVE  jobs'[work'[w].job].processed + work'[w].size
                      <= Count(jobs'[work'[w].job].scope)
  BY DEF SizeInv, Count
<1> DEFINE i == work'[w].job
<1>1. CASE work'[w].size = 0
  <2>1. Covered(jobs'[i])
    BY DEF CoveredInv, Covered, Around, Count
  <2>2. jobs'[i].processed \in Nat /\ jobs'[i].processed <= Count(jobs'[i].scope)
    BY <2>1 DEF Covered, TypeInv, TypeOK, Job
  <2> QED
    BY <1>1, <2>2
<1>2. CASE /\ jobs' = jobs /\ work'[w].job = work[w].job /\ work[w].job \in DOMAIN jobs
           /\ jobs[work[w].job].scope \in Profiles
           /\ jobs[work[w].job].processed + work'[w].size <= Count(jobs[work[w].job].scope)
  BY <1>2
<1>3. CASE /\ work[w].pc # "idle" /\ work'[w].job = work[w].job
           /\ work'[w].owner = work[w].owner /\ work'[w].size = work[w].size
  <2>1. i = work[w].job /\ work[w].job < nextId /\ work[w].owner \in Owners
    BY <1>3 DEF TypeInv, WorkOK
  <2>2. i \in DOMAIN jobs /\ SameJob(jobs[i], jobs'[i])
    BY <2>1, RowsGo, RowsKnown
  <2>3. jobs[i].scope = jobs'[i].scope /\ work[w].owner # NoOwner /\ work[w].owner \notin FreshOwners
    BY <2>1, <2>2, SentinelAssumption DEF SameJob, FreshOwners
  <2>4. CASE /\ Progress(jobs'[i]) = Progress(jobs[i])
             /\ jobs'[i].owner \in {jobs[i].owner, NoOwner} \cup FreshOwners
    <3>1. jobs[i].owner = work[w].owner /\ jobs'[i].processed = jobs[i].processed
      BY <1>3, <2>3, <2>4 DEF Progress
    <3> QED
      BY <1>3, <2>1, <2>2, <2>3, <3>1 DEF CoverageInv, SizeInv
  <2>5. ASSUME NEW v \in Workers, NEW now \in Recent, FinishDiscovery(v, now), work[v].job = i
        PROVE  FALSE
    BY <1>3, <2>3, <2>5, FinishDiscoveryRows
  <2> QED
    BY <2>2, <2>3, <2>4, <2>5, ProgressGoes
<1> QED
  BY <1>1, <1>2, <1>3 DEF WorkGoesOn

LEMMA CursorStep ==
  ASSUME TypeInv, CoverageInv, OneOutstanding, JobsGoOn, ConfigsGoOn
  PROVE  CursorInv'
<1>1. \A s \in Scopes : s \in Profiles => 0 < Around(s)
  BY AroundType
<1>2. CASE /\ DOMAIN cfg' = DOMAIN cfg
           /\ \A s \in DOMAIN cfg : cfg'[s].cursor = cfg[s].cursor
           /\ ~\E w \in Workers, now \in Recent : FinishDiscovery(w, now)
  <2>1. ASSUME NEW p \in Profiles, p \in DOMAIN cfg' PROVE cfg'[p].cursor < Around(p)
    BY <1>2, <2>1 DEF CoverageInv, CursorInv
  <2>2. ASSUME NEW j \in DOMAIN jobs', jobs'[j].status \in ActiveStatus,
               jobs'[j].scope \in Profiles
        PROVE  jobs'[j].scope \in DOMAIN cfg' /\ jobs'[j].cursor = cfg'[jobs'[j].scope].cursor
    <3>1. CASE j \in DOMAIN jobs /\ SameJob(jobs[j], jobs'[j]) /\ jobs[j].status \in ActiveStatus
      <4>1. jobs'[j].scope = jobs[j].scope
        BY <3>1 DEF SameJob
      <4>2. jobs'[j].cursor = jobs[j].cursor
        BY <1>2, <2>2, <3>1, <4>1, ProgressGoes DEF Progress
      <4>3. jobs[j].scope \in DOMAIN cfg /\ jobs[j].cursor = cfg[jobs[j].scope].cursor
        BY <2>2, <3>1, <4>1 DEF CoverageInv, CursorInv, JobsOf
      <4> QED
        BY <1>2, <4>1, <4>2, <4>3
    <3>2. ASSUME NEW s \in Scopes, NEW actor \in Users \cup {System},
                 NEW key \in Keys \cup {NoKey}, Adds(s, actor, key), j = nextId
          PROVE  jobs'[j].scope \in DOMAIN cfg' /\ jobs'[j].cursor = cfg'[jobs'[j].scope].cursor
      <4>1. /\ s \in DOMAIN cfg /\ jobs'[j] = NewJob(s, actor, key)
            /\ NewJob(s, actor, key).scope = s
            /\ NewJob(s, actor, key).cursor = cfg[s].cursor
        BY <3>2 DEF Adds, ScopeOpen, NewJob
      <4> QED
        BY <1>2, <4>1
    <3> QED
      BY <2>2, <3>1, <3>2, RowsGo
  <2> QED
    BY <2>1, <2>2 DEF CursorInv, JobsOf, Around, Count
<1>3. ASSUME NEW s \in Scopes, DOMAIN cfg' = DOMAIN cfg \cup {s}, cfg'[s].cursor = 0,
             \A x \in DOMAIN cfg \ {s} : cfg'[x] = cfg[x],
             jobs' = CancelScope(s), nextId' = nextId
      PROVE  CursorInv'
  <2>1. ASSUME NEW p \in Profiles, p \in DOMAIN cfg' PROVE cfg'[p].cursor < Around(p)
    BY <1>1, <1>3, <2>1 DEF CoverageInv, CursorInv
  <2>2. ASSUME NEW j \in DOMAIN jobs', jobs'[j].status \in ActiveStatus,
               jobs'[j].scope \in Profiles
        PROVE  jobs'[j].scope \in DOMAIN cfg' /\ jobs'[j].cursor = cfg'[jobs'[j].scope].cursor
    <3>1. j \in DOMAIN jobs /\ jobs[j] \in Job
      BY <1>3, RowsKnown DEF CancelScope, WithStatus
    <3>2. j \notin ActiveOf(s) /\ jobs'[j] = jobs[j]
      BY <1>3, <2>2, <3>1 DEF CancelScope, WithStatus, Job, ActiveStatus
    <3>3. jobs[j].scope # s /\ j \in JobsOf(ActiveStatus)
      BY <2>2, <3>1, <3>2 DEF ActiveOf, JobsOf
    <3> QED
      BY <1>3, <2>2, <3>2, <3>3 DEF CoverageInv, CursorInv
  <2> QED
    BY <2>1, <2>2 DEF CursorInv, JobsOf, Around, Count
<1>4. ASSUME NEW w \in Workers, NEW now \in Recent, FinishDiscovery(w, now)
      PROVE  CursorInv'
  <2> DEFINE i == work[w].job
             s == jobs[i].scope
  <2>1. /\ i \in DOMAIN jobs /\ jobs[i].status = "running" /\ s \in Profiles
        /\ s \in DOMAIN cfg /\ DOMAIN cfg' = DOMAIN cfg /\ DOMAIN jobs' = DOMAIN jobs
        /\ jobs'[i].scope = s
        /\ jobs'[i].cursor < Around(s) /\ cfg'[s].cursor = jobs'[i].cursor
        /\ \A x \in DOMAIN cfg \ {s} : cfg'[x] = cfg[x]
        /\ \A j \in DOMAIN jobs \ {i} : jobs'[j] = jobs[j]
    BY <1>4, FinishDiscoveryRows
  <2>2. ASSUME NEW p \in Profiles, p \in DOMAIN cfg' PROVE cfg'[p].cursor < Around(p)
    <3>1. CASE p = s
      BY <2>1, <3>1
    <3>2. CASE p # s
      BY <2>1, <2>2, <3>2 DEF CoverageInv, CursorInv
    <3> QED
      BY <3>1, <3>2
  <2>3. ASSUME NEW j \in DOMAIN jobs', jobs'[j].status \in ActiveStatus,
               jobs'[j].scope \in Profiles
        PROVE  jobs'[j].scope \in DOMAIN cfg' /\ jobs'[j].cursor = cfg'[jobs'[j].scope].cursor
    <3>1. CASE j = i
      BY <2>1, <3>1
    <3>2. CASE j # i
      <4>1. jobs'[j] = jobs[j] /\ j \in JobsOf(ActiveStatus) /\ i \in JobsOf(ActiveStatus)
        BY <2>1, <2>3, <3>2 DEF JobsOf, ActiveStatus
      <4>2. jobs[j].scope # s
        BY <3>2, <4>1 DEF OneOutstanding
      <4> QED
        BY <2>1, <2>3, <4>1, <4>2 DEF CoverageInv, CursorInv
    <3> QED
      BY <3>1, <3>2
  <2> QED
    BY <2>2, <2>3 DEF CursorInv, JobsOf, Around, Count
<1> QED
  BY <1>2, <1>3, <1>4, CursorsGo

\* A run recorded as completed has recorded every target of its profile, and an
\* outstanding one continues at the profile's cursor, through chunks, deferrals,
\* errors and lost claims (discovery_chunk, finish_discovery, save_profile).
THEOREM RunsCover == Spec => []RunCoverage
<1>1. Init => CoverageInv
  BY IdleType DEF Init, NoWork, CoverageInv, CoveredInv, CursorInv, SizeInv, JobsOf
<1>2. TypeInv /\ TypeInv' /\ OneOutstanding /\ CoverageInv /\ [Next]_vars => CoverageInv'
  BY JobsAlwaysGoOn, ConfigsAlwaysGoOn, WorkAlwaysGoesOn, CoveredStep, SizeStep, CursorStep
  DEF CoverageInv
<1>3. TypeInv /\ CoverageInv => RunCoverage
  BY CoverageSafe
<1> QED
  BY <1>1, <1>2, <1>3, TypeCorrect, OutstandingOnce, PTL DEF Spec

-----------------------------------------------------------------------------
(* Budgets.                                                                *)

BudgetKept == \A k \in Kinds, n \in Windows : budget[k][n] <= Rate[k]

LEMMA BudgetStep ==
  ASSUME TypeInv, BudgetKept, NEW w \in Workers, NEW now \in Recent, NEW k \in Kinds,
         NEW cost \in Nat, Affordable(k, now, cost),
         budget' = Counted(budget, k, Window(now), cost)
  PROVE  BudgetKept'
<1>1. budget \in [Kinds -> [Windows -> Nat]]
  BY DEF TypeInv, TypeOK
<1>2. ASSUME NEW x \in Kinds, NEW n \in Windows
      PROVE  budget'[x][n] = IF x = k /\ n = Window(now) THEN budget[x][n] + cost
                                                         ELSE budget[x][n]
  BY <1>1 DEF Counted
<1>3. ASSUME NEW x \in Kinds, NEW n \in Windows PROVE budget'[x][n] <= Rate[x]
  BY <1>2 DEF BudgetKept, Affordable
<1> QED
  BY <1>3 DEF BudgetKept, Windows

\* No window's budget is overspent by any kind of traffic: what a transaction
\* charges, it has checked in the same transaction (reserve, reserve_dns).
THEOREM BudgetsKept == Spec => []BudgetKept
<1>1. Init => BudgetKept
  <2>1. \A k \in Kinds : Rate[k] \in Nat
    BY LimitAssumption
  <2> QED
    BY <2>1 DEF Init, NoWork, BudgetKept
<1>2. ASSUME TypeInv, BudgetKept, [Next]_vars PROVE BudgetKept'
  <2>1. CASE budget' = budget
    BY <1>2, <2>1 DEF BudgetKept, Windows
  <2>2. CASE Requests \/ Background \/ Tick \/ UNCHANGED vars
    <3>1. budget' = budget
      BY <2>2 DEF Requests, Background, Save, Archive, Restore, CancelRun, Pause, ChangePolicy,
                  ChangeRole, RequestJob, ScheduleDue, Cleanup, Tick, vars, shared
    <3> QED
      BY <2>1, <3>1
  <2>3. ASSUME NEW w \in Workers, NEW now \in Recent, Reserve(w, now) PROVE BudgetKept'
    <3>1. Cost(w) \in Nat /\ work[w].kind \in Kinds
      BY <2>3, <1>2, CostType, WorkType DEF Reserve, Work, Kinds
    <3> QED
      BY <1>2, <2>3, <3>1, BudgetStep DEF Reserve
  <2>4. ASSUME NEW w \in Workers, NEW now \in Recent,
               ReserveDns(w, now) \/ NameHost(w, now)
        PROVE  BudgetKept'
    <3>1. DnsCost \in Nat /\ 1 \in Nat /\ "dns" \in Kinds
      BY TimingAssumption DEF Kinds
    <3> QED
      BY <1>2, <2>1, <2>4, <3>1, BudgetStep DEF ReserveDns, NameHost, SpendDns
  <2>5. ASSUME NEW w \in Workers,
               \/ Claim(w) \/ BeginMonitor(w) \/ BeginDiscovery(w) \/ LostClaim(w)
               \/ \E a \in Addresses : Resolve(w, a)
               \/ \E r \in Outcomes : ProbeMonitor(w, r)
               \/ \E n \in 0..ChunkSize : ProbeDiscovery(w, n)
               \/ FinishError(w) \/ Release(w)
               \/ \E now \in Recent :
                    \/ ReserveRefused(w, now) \/ FinishMonitor(w, now)
                    \/ FinishDiscovery(w, now) \/ FinishLost(w, now) \/ Defer(w, now)
               \/ Mishap(w) \/ OrphanEnds(w)
        PROVE  BudgetKept'
    <3>1. budget' = budget
      BY <2>5 DEF Claim, ClaimJob, ClaimNothing, BeginMonitor, BeginDiscovery, LostClaim,
                  Resolve, ProbeMonitor, ProbeDiscovery, FinishError, Release, ReserveRefused,
                  FinishMonitor, FinishDiscovery, FinishLost, Defer, Mishap, Fail, GiveUp,
                  Crash, OrphanEnds, shared
    <3> QED
      BY <2>1, <3>1
  <2> QED
    BY <1>2, <2>2, <2>3, <2>4, <2>5 DEF Next, Execute
<1> QED
  BY <1>1, <1>2, TypeCorrect, PTL DEF Spec

-----------------------------------------------------------------------------
(* Sums over the windows.                                                  *)

\* A set of numbers that is not empty has a least one.
LEMMA LeastExists ==
  ASSUME NEW S, S \subseteq Nat, S # {}
  PROVE  \E x \in S : \A y \in S : x <= y
<1>1. IsWellFoundedOn(OpToRel(<, Nat), Nat)
  BY NatLessThanWellFounded
<1>2. PICK x \in S : \A y \in S : ~(<<y, x>> \in OpToRel(<, Nat))
  BY <1>1, WFMin
<1>3. \A y \in S : ~(y < x)
  BY <1>2 DEF OpToRel
<1> QED
  BY <1>3

\* The totals of the windows up to m.
IsTotal(total, f, m) ==
  total = [n \in 0..m |-> f[n] + (IF n = 0 THEN 0 ELSE total[n - 1])]

LEMMA TotalExists ==
  ASSUME NEW f, NEW m \in Nat
  PROVE  \E total : IsTotal(total, f, m)
<1> DEFINE S == {n \in Nat : ~ \E total : IsTotal(total, f, n)}
<1> SUFFICES ASSUME S # {} PROVE FALSE
  OBVIOUS
<1>1. PICK x \in S : \A y \in S : x <= y
  BY LeastExists
<1>2. CASE x = 0
  <2> DEFINE t == [n \in 0..x |-> f[n] + 0]
  <2>1. t = [n \in 0..x |-> f[n] + (IF n = 0 THEN 0 ELSE t[n - 1])]
    BY <1>2
  <2>2. IsTotal(t, f, x)
    BY <2>1 DEF IsTotal
  <2> QED
    BY <1>1, <2>2
<1>3. CASE x # 0
  <2>1. x - 1 \in Nat /\ x - 1 \notin S
    BY <1>1, <1>3
  <2>2. PICK t : IsTotal(t, f, x - 1)
    BY <2>1
  <2> DEFINE u == [n \in 0..x |-> f[n] + (IF n = 0 THEN 0 ELSE t[n - 1])]
  <2>3. \A n \in 0..(x - 1) : u[n] = t[n]
    BY <1>1, <2>1, <2>2 DEF IsTotal
  <2>4. ASSUME NEW n \in 0..x
        PROVE  (IF n = 0 THEN 0 ELSE u[n - 1]) = (IF n = 0 THEN 0 ELSE t[n - 1])
    <3> HIDE DEF u
    <3>1. x \in Nat /\ (n # 0 => n - 1 \in 0..(x - 1))
      BY <1>1
    <3> QED
      BY <2>3, <3>1
  <2>5. u = [n \in 0..x |-> f[n] + (IF n = 0 THEN 0 ELSE u[n - 1])]
    BY <2>4
  <2>6. IsTotal(u, f, x)
    BY <2>5 DEF IsTotal
  <2> QED
    BY <1>1, <2>6
<1> QED
  BY <1>2, <1>3

LEMMA WindowsType ==
  /\ MaxClock \div WindowLength \in Nat
  /\ Windows = 0..(MaxClock \div WindowLength)
BY LimitAssumption, TimingAssumption DEF Windows

\* Sum(f, n) adds up f over the windows up to n.
LEMMA SumUnfolds ==
  ASSUME NEW f, NEW n \in Windows
  PROVE  Sum(f, n) = f[n] + (IF n = 0 THEN 0 ELSE Sum(f, n - 1))
<1>1. \E total : total = [x \in Windows |-> f[x] + (IF x = 0 THEN 0 ELSE total[x - 1])]
  <2>1. \E total : IsTotal(total, f, MaxClock \div WindowLength)
    BY WindowsType, TotalExists
  <2> QED
    BY <2>1, WindowsType DEF IsTotal
<1>2. Totals(f) = [x \in Windows |-> f[x] + (IF x = 0 THEN 0 ELSE Totals(f)[x - 1])]
  BY <1>1 DEF Totals
<1> QED
  BY <1>2 DEF Sum

\* No window is skipped: a property of the sums that every window inherits
\* from the one before it fails nowhere.
LEMMA NoFirst ==
  ASSUME NEW S, S \subseteq Windows,
         \A n \in S : n # 0 /\ n - 1 \in S
  PROVE  S = {}
<1> SUFFICES ASSUME S # {} PROVE FALSE
  OBVIOUS
<1>1. S \subseteq Nat
  BY WindowsType
<1>2. PICK x \in S : \A y \in S : x <= y
  BY <1>1, LeastExists
<1>3. x - 1 \in S /\ x \in Nat
  BY <1>1, <1>2
<1> QED
  BY <1>2, <1>3

LEMMA SumType ==
  ASSUME NEW f \in [Windows -> Nat]
  PROVE  \A n \in Windows : Sum(f, n) \in Nat
<1> DEFINE S == {n \in Windows : Sum(f, n) \notin Nat}
<1>1. ASSUME NEW n \in S PROVE n # 0 /\ n - 1 \in S
  <2>1. Sum(f, n) = f[n] + (IF n = 0 THEN 0 ELSE Sum(f, n - 1)) /\ f[n] \in Nat
    BY SumUnfolds
  <2>2. n # 0 /\ Sum(f, n - 1) \notin Nat
    BY <2>1
  <2>3. n - 1 \in Windows
    BY <2>2, WindowsType
  <2> QED
    BY <2>2, <2>3
<1>2. S = {}
  BY <1>1, NoFirst
<1> QED
  BY <1>2

LEMMA SumZero ==
  \A n \in Windows : Sum([x \in Windows |-> 0], n) = 0
<1> DEFINE f == [x \in Windows |-> 0]
           S == {n \in Windows : Sum(f, n) # 0}
<1>1. ASSUME NEW n \in S PROVE n # 0 /\ n - 1 \in S
  <2>1. Sum(f, n) = f[n] + (IF n = 0 THEN 0 ELSE Sum(f, n - 1)) /\ f[n] = 0
    BY SumUnfolds
  <2>2. n # 0 /\ Sum(f, n - 1) # 0
    BY <2>1
  <2>3. n - 1 \in Windows
    BY <2>2, WindowsType
  <2> QED
    BY <2>2, <2>3
<1>2. S = {}
  BY <1>1, NoFirst
<1> QED
  BY <1>2

\* What is added to one window is added to the sums from it on.
LEMMA SumAdded ==
  ASSUME NEW f \in [Windows -> Nat], NEW m \in Windows, NEW c \in Nat
  PROVE  \A n \in Windows :
           Sum([f EXCEPT ![m] = @ + c], n) = Sum(f, n) + (IF m <= n THEN c ELSE 0)
<1> DEFINE g == [f EXCEPT ![m] = @ + c]
           More(n) == IF m <= n THEN c ELSE 0
           S == {n \in Windows : Sum(g, n) # Sum(f, n) + More(n)}
<1>1. g \in [Windows -> Nat] /\ \A n \in Windows : g[n] = f[n] + (IF n = m THEN c ELSE 0)
  <2>1. g \in [Windows -> Nat]
    BY AddedType
  <2>2. \A n \in Windows : g[n] = f[n] + (IF n = m THEN c ELSE 0)
    BY AddedType
  <2> QED
    BY <2>1, <2>2
<1> HIDE DEF g
<1>2. ASSUME NEW n \in S PROVE n # 0 /\ n - 1 \in S
  <2>1. /\ Sum(f, n) = f[n] + (IF n = 0 THEN 0 ELSE Sum(f, n - 1))
        /\ Sum(g, n) = g[n] + (IF n = 0 THEN 0 ELSE Sum(g, n - 1))
        /\ f[n] \in Nat /\ g[n] = f[n] + (IF n = m THEN c ELSE 0)
    BY <1>1, SumUnfolds
  <2>2. n \in Nat /\ m \in Nat /\ Sum(f, n) \in Nat /\ Sum(g, n) \in Nat
    BY <1>1, SumType, WindowsType
  <2>3. n # 0
    BY <2>1, <2>2
  <2>4. n - 1 \in Windows
    BY <2>3, WindowsType
  <2>5. Sum(f, n - 1) \in Nat /\ Sum(g, n - 1) \in Nat
    BY <1>1, <2>4, SumType
  <2>6. Sum(g, n - 1) # Sum(f, n - 1) + More(n - 1)
    BY <2>1, <2>2, <2>3, <2>5
  <2> QED
    BY <2>3, <2>4, <2>6
<1>3. S = {}
  BY <1>2, NoFirst
<1> QED
  BY <1>3 DEF g

-----------------------------------------------------------------------------
(* Attempts and what was paid for them.                                    *)

\* Who has paid for an attempt that is still to come: it was charged before
\* the name was resolved, and is made with the resolved address.
Paid == {"dns", "resolve", "pin"}
InHand(k) == {w \in Workers : work[w].kind = k /\ work[w].pc \in Paid}

\* Such a payment was made in this window or an earlier one.
Outlay(k, n) == Sum(contacts[k], n) + (IF n >= Window(clock) THEN Cardinality(InHand(k)) ELSE 0)
PaidFor ==
  \A k \in Kinds \ {"dns"} :
    /\ IsFiniteSet(InHand(k))
    /\ \A n \in Windows : Outlay(k, n) <= Sum(budget[k], n)

\* A chunk is not empty, so that reserving it costs something.
ChunkReserved ==
  \A w \in Workers :
    work[w].pc = "reserve" /\ work[w].kind = "discovery" => work[w].size > 0

PaidInv == PaidFor /\ ChunkReserved

\* What an amount c, added in window m to kind k, adds to the sum of kind x up
\* to window n.
Share(x, n, k, m, c) == IF x = k /\ m <= n THEN c ELSE 0

LEMMA CountedSum ==
  ASSUME NEW b \in [Kinds -> [Windows -> Nat]], NEW k \in Kinds, NEW m \in Windows, NEW c \in Nat,
         NEW x \in Kinds, NEW n \in Windows
  PROVE  Sum(Counted(b, k, m, c)[x], n) = Sum(b[x], n) + Share(x, n, k, m, c)
<1>1. b[x] \in [Windows -> Nat] /\ Sum(b[x], n) \in Nat
  BY SumType
<1>2. CASE x = k
  <2>1. Counted(b, k, m, c)[x] = [b[x] EXCEPT ![m] = @ + c]
    BY <1>2 DEF Counted
  <2>2. Sum([b[x] EXCEPT ![m] = @ + c], n) = Sum(b[x], n) + (IF m <= n THEN c ELSE 0)
    BY <1>1, SumAdded
  <2> QED
    BY <1>2, <2>1, <2>2 DEF Share
<1>3. CASE x # k
  <2>1. Counted(b, k, m, c)[x] = b[x]
    BY <1>3 DEF Counted
  <2> QED
    BY <1>1, <1>3, <2>1 DEF Share
<1> QED
  BY <1>2, <1>3

\* Windows follow one another with the clock.
LEMMA WindowGrows ==
  ASSUME NEW s \in Nat, NEW t \in Nat, s <= t
  PROVE  Window(s) <= Window(t)
<1>1. WindowLength \in Nat /\ WindowLength > 0
  BY TimingAssumption
<1>2. /\ Window(s) \in Nat /\ Window(s) * WindowLength <= s
      /\ Window(t) \in Nat /\ t < (Window(t) + 1) * WindowLength
  BY <1>1 DEF Window
<1> QED
  BY <1>1, <1>2

LEMMA WindowsHeld ==
  ASSUME TypeInv, NEW now \in Recent
  PROVE  /\ Window(now) \in Windows /\ Window(clock) \in Windows /\ clock \in Recent
         /\ Window(now) <= Window(clock)
<1>1. now \in Nat /\ now <= clock /\ clock \in Nat /\ clock <= MaxClock /\ MaxClock \in Nat
  BY RecentType, LimitAssumption DEF TypeInv, TypeOK
<1>2. /\ Window(now) <= Window(clock)
      /\ Window(clock) <= Window(MaxClock)
  BY <1>1, WindowGrows
<1>3. clock \in Recent
  BY TimingAssumption DEF TypeInv, TypeOK, Recent
<1> QED
  BY <1>1, <1>2, <1>3, WindowType, WindowsType DEF Window

\* The same for a payment or an attempt of the moment.
LEMMA AddedSum ==
  ASSUME TypeInv, NEW b, b = budget \/ b = contacts, NEW k \in Kinds, NEW now \in Recent,
         NEW c \in Nat, NEW x \in Kinds, NEW n \in Windows
  PROVE  Sum(Counted(b, k, Window(now), c)[x], n) = Sum(b[x], n) + Share(x, n, k, Window(now), c)
<1>1. PICK m \in Windows : m = Window(now)
  BY WindowsHeld
<1>2. b \in [Kinds -> [Windows -> Nat]]
  BY DEF TypeInv, TypeOK
<1>3. Sum(Counted(b, k, m, c)[x], n) = Sum(b[x], n) + Share(x, n, k, m, c)
  BY <1>2, CountedSum
<1> QED
  BY <1>1, <1>3

\* Sums of the tables are numbers.
LEMMA TableSums ==
  ASSUME TypeInv, NEW k \in Kinds, NEW n \in Windows
  PROVE  Sum(budget[k], n) \in Nat /\ Sum(contacts[k], n) \in Nat
BY SumType DEF TypeInv, TypeOK

LEMMA PaidInit == Init => PaidInv
<1> SUFFICES ASSUME Init PROVE PaidInv
  OBVIOUS
<1>1. ASSUME NEW k \in Kinds
      PROVE  /\ InHand(k) = {} /\ budget[k] = [n \in Windows |-> 0]
             /\ contacts[k] = [n \in Windows |-> 0]
  BY IdleType DEF Init, NoWork, InHand, Paid
<1>2. IsFiniteSet({}) /\ Cardinality({}) = 0
  BY FS_EmptySet
<1>3. PaidFor
  BY <1>1, <1>2, SumZero DEF PaidFor, Outlay
<1>4. ChunkReserved
  BY IdleType DEF Init, NoWork, ChunkReserved
<1> QED
  BY <1>3, <1>4 DEF PaidInv

\* Nobody gets hold of a payment he did not make, and no chunk is emptied.
Honest(w) ==
  /\ work'[w].pc \in Paid => work[w].pc \in Paid /\ work'[w].kind = work[w].kind
  /\ work'[w].pc = "reserve" /\ work'[w].kind = "discovery" => work'[w].size > 0
HonestStep == \A w \in Workers : Honest(w)

\* A step without an attempt: payments are kept or forgone, budgets grow.
LEMMA PaidOn ==
  ASSUME TypeInv, TypeInv', PaidInv, HonestStep, contacts' = contacts,
         Window(clock) <= Window(clock'),
         \A k \in Kinds, n \in Windows : Sum(budget[k], n) <= Sum(budget'[k], n)
  PROVE  PaidInv'
<1>1. ASSUME NEW k \in Kinds \ {"dns"}
      PROVE  /\ IsFiniteSet(InHand(k)')
             /\ \A n \in Windows : Outlay(k, n)' <= Sum(budget'[k], n)
  <2>1. InHand(k)' \subseteq InHand(k)
    BY DEF HonestStep, Honest, InHand
  <2>2. IsFiniteSet(InHand(k))
    BY DEF PaidInv, PaidFor
  <2>3. /\ IsFiniteSet(InHand(k)') /\ Cardinality(InHand(k)') <= Cardinality(InHand(k))
        /\ Cardinality(InHand(k)) \in Nat /\ Cardinality(InHand(k)') \in Nat
    BY <2>1, <2>2, FS_Subset, FS_CardinalityType
  <2>4. ASSUME NEW n \in Windows PROVE Outlay(k, n)' <= Sum(budget'[k], n)
    <3>1. Outlay(k, n) <= Sum(budget[k], n)
      BY DEF PaidInv, PaidFor
    <3>2. /\ Sum(budget[k], n) \in Nat /\ Sum(contacts[k], n) \in Nat
          /\ Sum(budget'[k], n) \in Nat /\ n \in Nat
          /\ Sum(budget[k], n) <= Sum(budget'[k], n)
      <4>1. budget' \in [Kinds -> [Windows -> Nat]]
        BY DEF TypeInv, TypeOK
      <4> QED
        BY <4>1, TableSums, SumType, WindowsType
    <3>3. Window(clock) \in Nat /\ Window(clock') \in Nat
      BY WindowType DEF TypeInv, TypeOK
    <3> QED
      BY <2>3, <3>1, <3>2, <3>3 DEF Outlay
  <2> QED
    BY <2>3, <2>4
<1>2. PaidFor'
  BY <1>1 DEF PaidFor, Outlay
<1>3. ChunkReserved'
  BY DEF HonestStep, Honest, ChunkReserved
<1> QED
  BY <1>2, <1>3 DEF PaidInv

LEMMA HonestAlone ==
  ASSUME TypeInv, ChunkReserved, NEW w \in Workers, NEW r, work' = [work EXCEPT ![w] = r],
         r.pc \in Paid => work[w].pc \in Paid /\ r.kind = work[w].kind,
         r.pc = "reserve" /\ r.kind = "discovery" => r.size > 0
  PROVE  HonestStep
<1> SUFFICES ASSUME NEW v \in Workers PROVE Honest(v)
  BY DEF HonestStep
<1>1. work'[v] = IF v = w THEN r ELSE work[v]
  BY WorkType
<1> QED
  BY <1>1 DEF Honest, ChunkReserved

LEMMA HonestGo ==
  ASSUME TypeInv, ChunkReserved, NEW w \in Workers, NEW pc, Go(w, pc), pc # "reserve",
         pc \in Paid => work[w].pc \in Paid
  PROVE  HonestStep
<1> DEFINE r == [work[w] EXCEPT !.pc = pc]
<1>1. work' = [work EXCEPT ![w] = r]
  BY WorkType DEF Go
<1>2. r.pc = pc /\ r.kind = work[w].kind
  BY WorkType DEF Work
<1> HIDE DEF r
<1> QED
  BY <1>1, <1>2, HonestAlone

LEMMA HonestSame ==
  ASSUME ChunkReserved, work' = work
  PROVE  HonestStep
BY DEF HonestStep, Honest, ChunkReserved

\* Claims start without a payment.
LEMMA HonestClaim ==
  ASSUME TypeInv, ChunkReserved, NEW w \in Workers, Claim(w)
  PROVE  HonestStep
<1>1. CASE \E now \in Recent : ClaimNothing(w, now)
  BY <1>1, HonestSame DEF ClaimNothing
<1>2. ASSUME NEW now \in Recent, ClaimJob(w, now) PROVE HonestStep
  <2>1. PICK j \in DOMAIN jobs, o \in Owners :
          work' = [work EXCEPT ![w] = [IdleWork EXCEPT !.pc = "claimed", !.job = j,
                                         !.owner = o, !.kind = KindOf(jobs[j].scope)]]
    BY <1>2, ClaimStarts
  <2> DEFINE r == [IdleWork EXCEPT !.pc = "claimed", !.job = j, !.owner = o,
                                   !.kind = KindOf(jobs[j].scope)]
  <2>2. r.pc = "claimed"
    BY DEF IdleWork
  <2> HIDE DEF r
  <2> QED
    BY <2>1, <2>2, HonestAlone DEF Paid, r
<1> QED
  BY <1>1, <1>2 DEF Claim

\* A chunk has a target, and what a monitor reserves is no chunk.
LEMMA HonestBegin ==
  ASSUME TypeInv, ChunkReserved, NEW w \in Workers, BeginMonitor(w) \/ BeginDiscovery(w)
  PROVE  HonestStep
<1>1. CASE Go(w, "charge") \/ Go(w, "finish")
  BY <1>1, HonestGo DEF Paid
<1>2. CASE BeginMonitor(w) /\ ~Go(w, "charge")
  <2>1. /\ work' = [work EXCEPT ![w].pc = "reserve",
                                ![w].addrs = {MonitorTarget[ScopeOfWork(w)]}]
        /\ ScopeOfWork(w) \in Monitors /\ Owned(w, clock) /\ work[w].pc = "claimed"
    BY <1>2 DEF BeginMonitor
  <2>2. work[w].kind = "monitor"
    BY <2>1, OwnedRow, ScopeAssumption, WorkType DEF Work
  <2> DEFINE r == [work[w] EXCEPT !.pc = "reserve", !.addrs = {MonitorTarget[ScopeOfWork(w)]}]
  <2>3. work' = [work EXCEPT ![w] = r]
    BY <2>1, WorkType
  <2>4. r.pc = "reserve" /\ r.kind = "monitor"
    BY <2>2, WorkType DEF Work
  <2> HIDE DEF r
  <2> QED
    BY <2>3, <2>4, HonestAlone DEF Paid
<1>3. CASE BeginDiscovery(w) /\ ~Go(w, "finish")
  <2>1. PICK n \in 1..ChunkLimit(jobs[work[w].job]) :
          work' = [work EXCEPT ![w].pc = "reserve", ![w].size = n,
                               ![w].addrs = Chunk(jobs[work[w].job], n)]
    BY <1>3 DEF BeginDiscovery
  <2> DEFINE r == [work[w] EXCEPT !.pc = "reserve", !.size = n,
                                  !.addrs = Chunk(jobs[work[w].job], n)]
  <2>2. work' = [work EXCEPT ![w] = r]
    BY <2>1, WorkType
  <2>3. r.pc = "reserve" /\ r.size = n /\ n > 0
    BY WorkType DEF Work
  <2> HIDE DEF r
  <2> QED
    BY <2>2, <2>3, HonestAlone DEF Paid
<1> QED
  BY <1>1, <1>2, <1>3

LEMMA HonestExecute ==
  ASSUME TypeInv, ChunkReserved, NEW w \in Workers,
         \/ LostClaim(w) \/ GiveUp(w) \/ FinishError(w) \/ Release(w)
         \/ \E a \in Addresses : Resolve(w, a)
         \/ \E r \in Outcomes : ProbeMonitor(w, r)
         \/ \E n \in 0..ChunkSize : ProbeDiscovery(w, n)
         \/ Fail(w) \/ Crash(w) \/ OrphanEnds(w)
         \/ \E now \in Recent :
              \/ ReserveRefused(w, now) \/ ReserveDns(w, now) \/ NameHost(w, now)
              \/ FinishMonitor(w, now) \/ FinishDiscovery(w, now)
              \/ FinishLost(w, now) \/ Defer(w, now)
  PROVE  HonestStep
<1>1. ASSUME NEW r, work' = [work EXCEPT ![w] = r], r.kind = work[w].kind,
             r.pc # "reserve", r.pc \in Paid => work[w].pc \in Paid
      PROVE  HonestStep
  BY <1>1, HonestAlone
<1>2. CASE LostClaim(w) \/ GiveUp(w) \/ FinishError(w)
  BY <1>2, HonestGo DEF LostClaim, GiveUp, FinishError, Paid
<1>3. CASE work' = [work EXCEPT ![w] = IdleWork]
  BY <1>3, HonestAlone, IdleType DEF Paid
<1>4. ASSUME NEW a \in Addresses, Resolve(w, a) PROVE HonestStep
  <2> DEFINE r == [work[w] EXCEPT !.pc = "pin", !.addrs = {a}]
  <2>1. work' = [work EXCEPT ![w] = r]
    BY <1>4, WorkType DEF Resolve
  <2>2. r.pc = "pin" /\ r.kind = work[w].kind /\ work[w].pc \in Paid
    BY <1>4, WorkType DEF Work, Resolve, Paid
  <2> HIDE DEF r
  <2> QED
    BY <1>1, <2>1, <2>2
<1>5. ASSUME NEW r \in Outcomes, ProbeMonitor(w, r) PROVE HonestStep
  <2> DEFINE q == [work[w] EXCEPT !.pc = "finish", !.outcome = r]
  <2>1. work' = [work EXCEPT ![w] = q]
    BY <1>5, WorkType DEF ProbeMonitor
  <2>2. q.pc = "finish" /\ q.kind = work[w].kind
    BY WorkType DEF Work
  <2> HIDE DEF q
  <2> QED
    BY <1>1, <2>1, <2>2 DEF Paid
<1>6. ASSUME NEW pc \in {"finish", "naming"}, NEW n,
             work' = [work EXCEPT ![w].pc = pc, ![w].todo = n]
      PROVE  HonestStep
  <2> DEFINE q == [work[w] EXCEPT !.pc = pc, !.todo = n]
  <2>1. work' = [work EXCEPT ![w] = q]
    BY <1>6, WorkType
  <2>2. q.pc = pc /\ q.kind = work[w].kind
    BY WorkType DEF Work
  <2> HIDE DEF q
  <2> QED
    BY <1>1, <2>1, <2>2 DEF Paid
<1>7. ASSUME NEW n \in 0..ChunkSize, ProbeDiscovery(w, n) PROVE HonestStep
  BY <1>6, <1>7 DEF ProbeDiscovery
<1>8. ASSUME NEW now \in Recent, NameHost(w, now) PROVE HonestStep
  <2> DEFINE pc == IF work[w].todo = 1 THEN "finish" ELSE "naming"
  <2>1. work' = [work EXCEPT ![w].pc = pc, ![w].todo = work[w].todo - 1]
    BY <1>8, WorkType DEF NameHost, Work
  <2>2. pc \in {"finish", "naming"}
    OBVIOUS
  <2> HIDE DEF pc
  <2> QED
    BY <1>6, <2>1, <2>2
<1>9. CASE Fail(w)
  <2> DEFINE pc == IF work[w].kind = "monitor" THEN "finish" ELSE "fail"
             q == [work[w] EXCEPT !.outcome = "unknown", !.pc = pc]
  <2>1. work' = [work EXCEPT ![w] = q]
    BY <1>9, WorkType DEF Fail
  <2>2. q.pc = pc /\ q.kind = work[w].kind /\ pc \in {"finish", "fail"}
    BY WorkType DEF Work
  <2> HIDE DEF q, pc
  <2> QED
    BY <1>1, <2>1, <2>2 DEF Paid
<1>10. CASE Crash(w)
  <2> DEFINE q == [work[w] EXCEPT !.pc = "orphan"]
  <2>1. work' = [work EXCEPT ![w] = IdleWork] \/ work' = [work EXCEPT ![w] = q]
    BY <1>10, WorkType DEF Crash
  <2>2. q.pc = "orphan" /\ q.kind = work[w].kind
    BY WorkType DEF Work
  <2> HIDE DEF q
  <2> QED
    BY <1>1, <1>3, <2>1, <2>2 DEF Paid
<1>11. ASSUME NEW now \in Recent, NEW o, Deferred(w, now, o) PROVE HonestStep
  <2> DEFINE n == IF o THEN (Window(now) + 1) * WindowLength ELSE work[w].notBefore
             q == [work[w] EXCEPT !.pc = "defer", !.notBefore = n]
  <2>1. work' = [work EXCEPT ![w] = q]
    BY <1>11, WorkType DEF Deferred, Work
  <2>2. q.pc = "defer" /\ q.kind = work[w].kind
    BY WorkType DEF Work
  <2> HIDE DEF q, n
  <2> QED
    BY <1>1, <2>1, <2>2 DEF Paid
<1>12. ASSUME NEW now \in Recent, ReserveRefused(w, now) PROVE HonestStep
  BY <1>11, <1>12 DEF ReserveRefused
<1>13. ASSUME NEW now \in Recent, ReserveDns(w, now) PROVE HonestStep
  <2>1. CASE Go(w, "resolve")
    BY <1>13, <2>1, HonestGo DEF ReserveDns, Paid
  <2>2. CASE Deferred(w, now, Owned(w, now))
    BY <1>11, <2>2
  <2> QED
    BY <1>13, <2>1, <2>2 DEF ReserveDns
<1>14. ASSUME NEW now \in Recent,
              \/ FinishMonitor(w, now) \/ FinishDiscovery(w, now)
              \/ FinishLost(w, now) \/ Defer(w, now)
       PROVE  HonestStep
  <2>1. Go(w, "release")
    BY <1>14 DEF FinishMonitor, FinishDiscovery, FinishLost, Defer
  <2> QED
    BY <2>1, HonestGo DEF Paid
<1>15. CASE Release(w) \/ OrphanEnds(w)
  BY <1>3, <1>15 DEF Release, OrphanEnds
<1> QED
  BY <1>2, <1>4, <1>5, <1>7, <1>8, <1>9, <1>10, <1>12, <1>13, <1>14, <1>15

\* A reservation: the payment in hand grows by what was charged, or an attempt
\* is made for which the payment was in hand or is charged now.
LEMMA PaidTransfer ==
  ASSUME TypeInv, TypeInv', PaidFor, NEW w \in Workers, NEW now \in Recent, NEW kind,
         clock' = clock,
         NEW cost \in Nat, budget' = Counted(budget, kind, Window(now), cost),
         NEW made \in Nat,
         contacts' = IF made = 0 THEN contacts ELSE Counted(contacts, kind, Window(clock), made),
         \A v \in Workers \ {w} : work'[v] = work[v],
         work[w].kind = kind, work'[w].kind = kind,
         \/ made = 0 /\ cost = 1 /\ work[w].pc \notin Paid
         \/ made = 1 /\ cost = 0 /\ work[w].pc \in Paid /\ work'[w].pc \notin Paid
         \/ made = cost /\ work[w].pc \notin Paid /\ work'[w].pc \notin Paid
  PROVE  PaidFor'
<1>1. /\ Window(now) \in Windows /\ Window(clock) \in Windows /\ clock \in Recent
      /\ Window(now) <= Window(clock) /\ Windows \subseteq Nat
  BY WindowsHeld, WindowsType
<1>2. /\ budget \in [Kinds -> [Windows -> Nat]] /\ contacts \in [Kinds -> [Windows -> Nat]]
      /\ kind \in Kinds
  BY WorkType DEF TypeInv, TypeOK, Work, Kinds
<1>3. ASSUME NEW k \in Kinds \ {"dns"}, NEW n \in Windows
      PROVE  /\ Sum(budget'[k], n)
                  = Sum(budget[k], n) + (IF k = kind /\ Window(now) <= n THEN cost ELSE 0)
             /\ Sum(contacts'[k], n)
                  = Sum(contacts[k], n) + (IF k = kind /\ Window(clock) <= n THEN made ELSE 0)
             /\ Sum(budget[k], n) \in Nat /\ Sum(contacts[k], n) \in Nat
  <2>1. Sum(budget[k], n) \in Nat /\ Sum(contacts[k], n) \in Nat
    BY TableSums
  <2>2. Sum(budget'[k], n)
          = Sum(budget[k], n) + (IF k = kind /\ Window(now) <= n THEN cost ELSE 0)
    <3>1. Sum(Counted(budget, kind, Window(now), cost)[k], n)
            = Sum(budget[k], n) + Share(k, n, kind, Window(now), cost)
      BY <1>2, AddedSum
    <3> QED
      BY <3>1 DEF Share
  <2>3. CASE made = 0
    BY <2>1, <2>2, <2>3
  <2>4. CASE made # 0
    <3>1. contacts' = Counted(contacts, kind, Window(clock), made)
      BY <2>4
    <3>2. Sum(Counted(contacts, kind, Window(clock), made)[k], n)
            = Sum(contacts[k], n) + Share(k, n, kind, Window(clock), made)
      BY <1>1, <1>2, AddedSum
    <3> QED
      BY <2>1, <2>2, <3>1, <3>2 DEF Share
  <2> QED
    BY <2>3, <2>4
<1>4. ASSUME NEW k \in Kinds \ {"dns"}, k # kind
      PROVE  InHand(k)' = InHand(k)
  BY <1>4 DEF InHand
<1>5. /\ work'[w].pc \in Paid => InHand(kind)' = InHand(kind) \cup {w}
      /\ work'[w].pc \notin Paid => InHand(kind)' = InHand(kind) \ {w}
      /\ w \in InHand(kind) <=> work[w].pc \in Paid
  BY DEF InHand
<1>6. ASSUME NEW k \in Kinds \ {"dns"}
      PROVE  /\ IsFiniteSet(InHand(k)')
             /\ Cardinality(InHand(k)) \in Nat /\ Cardinality(InHand(k)') \in Nat
             /\ k # kind => Cardinality(InHand(k)') = Cardinality(InHand(k))
             /\ k = kind => Cardinality(InHand(k)') <= Cardinality(InHand(k)) + cost - made
  <2>1. IsFiniteSet(InHand(k)) /\ Cardinality(InHand(k)) \in Nat
    BY FS_CardinalityType DEF PaidFor
  <2>2. CASE k # kind
    BY <1>4, <2>1, <2>2
  <2>3. CASE k = kind /\ work'[w].pc \in Paid
    <3>1. InHand(k)' = InHand(k) \cup {w} /\ w \notin InHand(k) /\ cost = 1 /\ made = 0
      BY <1>5, <2>3
    <3>2. IsFiniteSet(InHand(k)') /\ Cardinality(InHand(k)') = Cardinality(InHand(k)) + 1
      BY <2>1, <3>1, FS_AddElement
    <3> QED
      BY <2>1, <2>3, <3>1, <3>2
  <2>4. CASE k = kind /\ work'[w].pc \notin Paid
    <3>1. InHand(k)' = InHand(k) \ {w}
      BY <1>5, <2>4
    <3>2. /\ IsFiniteSet(InHand(k)')
          /\ Cardinality(InHand(k)') = IF w \in InHand(k) THEN Cardinality(InHand(k)) - 1
                                                          ELSE Cardinality(InHand(k))
      BY <2>1, <3>1, FS_RemoveElement
    <3>3. Cardinality(InHand(k)') \in Nat
      BY <3>2, FS_CardinalityType
    <3>4. CASE w \in InHand(k)
      <4>1. made = 1 /\ cost = 0
        BY <1>5, <2>4, <3>4
      <4> QED
        BY <2>1, <2>4, <3>2, <3>3, <3>4, <4>1
    <3>5. CASE w \notin InHand(k)
      <4>1. (made = 0 /\ cost = 1) \/ made = cost
        BY <1>5, <2>4, <3>5
      <4> QED
        BY <2>1, <2>4, <3>2, <3>3, <3>5, <4>1
    <3> QED
      BY <3>4, <3>5
  <2> QED
    BY <2>2, <2>3, <2>4
<1>7. ASSUME NEW k \in Kinds \ {"dns"}, NEW n \in Windows
      PROVE  Outlay(k, n)' <= Sum(budget'[k], n)
  <2>1. Outlay(k, n) <= Sum(budget[k], n)
    BY DEF PaidFor
  <2>2. n \in Nat /\ Window(now) \in Nat /\ Window(clock) \in Nat /\ Window(clock)' = Window(clock)
    BY <1>1 DEF Window
  <2> QED
    BY <1>1, <1>3, <1>6, <2>1, <2>2 DEF Outlay
<1> QED
  BY <1>6, <1>7 DEF PaidFor

LEMMA PaidReserve ==
  ASSUME TypeInv, TypeInv', PaidInv, NEW w \in Workers, NEW now \in Recent, Reserve(w, now)
  PROVE  PaidInv'
<1> DEFINE kind == work[w].kind
           cost == Cost(w)
           made == IF work[w].pc = "charge" THEN 0 ELSE AtLeast(1, Cost(w))
<1>1. /\ cost \in Nat /\ work[w].size \in Nat /\ clock' = clock
      /\ work[w].pc \in {"charge", "pin", "reserve"} /\ kind \in {"monitor", "discovery"}
      /\ budget' = Counted(budget, kind, Window(now), cost)
  BY CostType, WorkType DEF Reserve, Work, outside
<1>2. made \in Nat /\ (made = 0 <=> work[w].pc = "charge")
  BY <1>1 DEF AtLeast
<1>3. contacts' = IF made = 0 THEN contacts ELSE Counted(contacts, kind, Window(clock), made)
  BY <1>2 DEF Reserve
<1>4. /\ \A v \in Workers \ {w} : work'[v] = work[v]
      /\ work'[w].kind = kind
      /\ work'[w].pc = IF work[w].pc = "charge" THEN "dns" ELSE "probe"
  <2>1. CASE work[w].pc = "charge"
    BY <2>1, WorkType DEF Reserve, Go, Work
  <2>2. CASE work[w].pc # "charge"
    BY <2>2, WorkType DEF Reserve, Work
  <2> QED
    BY <2>1, <2>2
<1>5. work[w].pc = "charge" => made = 0 /\ cost = 1
  BY DEF Cost
<1>6. work[w].pc = "pin" => made = 1 /\ cost = 0
  BY DEF Cost, AtLeast
<1>7. work[w].pc = "reserve" => made = cost
  <2> SUFFICES ASSUME work[w].pc = "reserve" PROVE cost >= 1
    BY <1>1 DEF AtLeast
  <2>1. CASE kind = "monitor"
    BY <2>1 DEF Cost
  <2>2. CASE kind = "discovery"
    <3>1. cost = work[w].size * Ports
      BY <2>2 DEF Cost
    <3>2. work[w].size > 0 /\ Ports \in Nat /\ Ports > 0
      BY <2>2, TimingAssumption DEF PaidInv, ChunkReserved
    <3> HIDE DEF cost
    <3> QED
      BY <1>1, <3>1, <3>2
  <2> QED
    BY <1>1, <2>1, <2>2
<1> HIDE DEF kind, cost, made
<1>8. PaidFor'
  <2>1. \/ made = 0 /\ cost = 1 /\ work[w].pc \notin Paid
        \/ made = 1 /\ cost = 0 /\ work[w].pc \in Paid /\ work'[w].pc \notin Paid
        \/ made = cost /\ work[w].pc \notin Paid /\ work'[w].pc \notin Paid
    BY <1>1, <1>4, <1>5, <1>6, <1>7 DEF Paid
  <2>2. work[w].kind = kind /\ work'[w].kind = kind /\ PaidFor
    BY <1>4 DEF kind, PaidInv
  <2> QED
    BY <1>1, <1>2, <1>3, <1>4, <2>1, <2>2, PaidTransfer
<1>9. ChunkReserved'
  BY <1>4 DEF PaidInv, ChunkReserved
<1> QED
  BY <1>8, <1>9 DEF PaidInv

\* What a step leaves to the budgets.
LEMMA BudgetsGrow ==
  ASSUME TypeInv, TypeInv',
         \/ budget' = budget
         \/ \E now \in Recent, cost \in Nat : SpendDns(now, cost)
  PROVE  \A k \in Kinds, n \in Windows : Sum(budget[k], n) <= Sum(budget'[k], n)
<1> TAKE k \in Kinds, n \in Windows
<1>1. Sum(budget[k], n) \in Nat
  BY TableSums
<1>2. CASE budget' = budget
  BY <1>1, <1>2
<1>3. ASSUME NEW now \in Recent, NEW cost \in Nat, SpendDns(now, cost)
      PROVE  Sum(budget[k], n) <= Sum(budget'[k], n)
  <2>1. "dns" \in Kinds
    BY DEF Kinds
  <2>2. Sum(Counted(budget, "dns", Window(now), cost)[k], n)
          = Sum(budget[k], n) + Share(k, n, "dns", Window(now), cost)
    BY <2>1, AddedSum
  <2> QED
    BY <1>1, <1>3, <2>2 DEF SpendDns, Share
<1> QED
  BY <1>2, <1>3

LEMMA PaidNext ==
  ASSUME TypeInv, TypeInv', PaidInv, [Next]_vars
  PROVE  PaidInv'
<1>1. clock \in Nat
  BY DEF TypeInv, TypeOK
<1>2. ASSUME contacts' = contacts, clock' = clock \/ clock' = clock + 1, HonestStep,
             budget' = budget \/ \E now \in Recent, cost \in Nat : SpendDns(now, cost)
      PROVE  PaidInv'
  <2>1. Window(clock) <= Window(clock')
    BY <1>1, <1>2, WindowGrows
  <2> QED
    BY <1>2, <2>1, BudgetsGrow, PaidOn
<1>3. ChunkReserved
  BY DEF PaidInv
<1>4. CASE Requests \/ Background \/ Tick \/ UNCHANGED vars
  <2>1. /\ budget' = budget /\ contacts' = contacts /\ work' = work
        /\ clock' = clock \/ clock' = clock + 1
    BY <1>4 DEF Requests, Background, Save, Archive, Restore, CancelRun, Pause, ChangePolicy,
                ChangeRole, RequestJob, ScheduleDue, Cleanup, Tick, vars, shared, outside
  <2> QED
    BY <1>2, <1>3, <2>1, HonestSame
<1>5. ASSUME NEW w \in Workers, Claim(w) PROVE PaidInv'
  <2>1. budget' = budget /\ contacts' = contacts /\ clock' = clock
    BY <1>5 DEF Claim, ClaimJob, ClaimNothing, outside
  <2> QED
    BY <1>2, <1>3, <1>5, <2>1, HonestClaim
<1>6. ASSUME NEW w \in Workers, NEW now \in Recent, Reserve(w, now) PROVE PaidInv'
  BY <1>6, PaidReserve
<1>7. ASSUME NEW w \in Workers, NEW now \in Recent, ReserveDns(w, now) \/ NameHost(w, now)
      PROVE  PaidInv'
  <2>1. DnsCost \in Nat /\ 1 \in Nat
    BY TimingAssumption
  <2>2. /\ contacts' = contacts /\ clock' = clock
        /\ budget' = budget \/ \E t \in Recent, cost \in Nat : SpendDns(t, cost)
    BY <1>7, <2>1 DEF ReserveDns, NameHost, outside
  <2> QED
    BY <1>2, <1>3, <1>7, <2>2, HonestExecute
<1>8. ASSUME NEW w \in Workers,
             \/ BeginMonitor(w) \/ BeginDiscovery(w) \/ LostClaim(w)
             \/ \E a \in Addresses : Resolve(w, a)
             \/ \E r \in Outcomes : ProbeMonitor(w, r)
             \/ \E n \in 0..ChunkSize : ProbeDiscovery(w, n)
             \/ FinishError(w) \/ Release(w)
             \/ \E now \in Recent :
                  \/ ReserveRefused(w, now) \/ FinishMonitor(w, now)
                  \/ FinishDiscovery(w, now) \/ FinishLost(w, now) \/ Defer(w, now)
             \/ Mishap(w) \/ OrphanEnds(w)
      PROVE  PaidInv'
  <2>1. budget' = budget /\ contacts' = contacts /\ clock' = clock
    BY <1>8 DEF BeginMonitor, BeginDiscovery, LostClaim,
                Resolve, ProbeMonitor, ProbeDiscovery, FinishError, Release, ReserveRefused,
                FinishMonitor, FinishDiscovery, FinishLost, Defer, Mishap, Fail, GiveUp,
                Crash, OrphanEnds, shared, outside
  <2>2. HonestStep
    BY <1>3, <1>8, HonestBegin, HonestExecute DEF Mishap
  <2> QED
    BY <1>2, <2>1, <2>2
<1> QED
  BY <1>4, <1>5, <1>6, <1>7, <1>8 DEF Next, Execute

\* No window's budget is overspent, and every attempt so far was paid for in
\* its own window or in an earlier one, although a name is resolved and a lock
\* is waited for between the payment and the attempt (reserve, reserve_dns).
THEOREM AttemptsPaid == Spec => []PaidContacts
<1>1. TypeInv /\ PaidInv /\ BudgetKept => PaidContacts
  <2> SUFFICES ASSUME TypeInv, PaidInv, BudgetKept, NEW k \in Kinds \ {"dns"}, NEW n \in Windows
               PROVE  Sum(contacts[k], n) <= Sum(budget[k], n)
    BY DEF PaidContacts, BudgetKept
  <2>1. Sum(budget[k], n) \in Nat /\ Sum(contacts[k], n) \in Nat
    BY TableSums
  <2>2. IsFiniteSet(InHand(k)) /\ Outlay(k, n) <= Sum(budget[k], n)
    BY DEF PaidInv, PaidFor
  <2>3. Cardinality(InHand(k)) \in Nat
    BY <2>2, FS_CardinalityType
  <2> QED
    BY <2>1, <2>2, <2>3 DEF Outlay
<1> QED
  BY <1>1, PaidInit, PaidNext, TypeCorrect, BudgetsKept, PTL DEF Spec
=============================================================================
