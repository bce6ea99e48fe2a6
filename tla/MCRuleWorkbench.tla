--------------------------- MODULE MCRuleWorkbench ---------------------------
(* Small instances of RuleWorkbench for TLC.  One run explores several       *)
(* scenes, each with its own actors, contents and bounds.                    *)
EXTENDS RuleWorkbench, TLC

VARIABLE scene

MCSymmetry ==
  Permutations(Owners) \cup Permutations(Threads) \cup Permutations(Humans)

\* The lifecycle is on and no rule exists yet.
Started ==
  /\ enabled = TRUE /\ activated = TRUE
  /\ policy \in Policies
  /\ admins = Humans
  /\ rule = [r \in Rules |-> NoRow]
  /\ revs = <<>> /\ runs = <<>> /\ reviews = <<>>
  /\ events = [r \in Rules |-> 0]
  /\ claims = [s \in {} |-> {}]
  /\ task = [t \in Threads |-> IdleTask]
  /\ page = [a \in Actors |-> [r \in Rules |-> NoPage]]
  /\ clock = 0

\* The rule and the content that a scene of one rule is about.
Worked == CHOOSE r \in Rules : TRUE
Written == CHOOSE c \in Contents : TRUE
Shipped == CHOOSE v \in Policies : TRUE
Within(count) == \A r \in Rules : events'[r] <= count

-----------------------------------------------------------------------------
\* Workflow: every actor acts on the current page; changes of role and
\* restarts with another validator come at any time.  A revision has one
\* report.
OneReport ==
  \A t \in Threads : task[t].pc = "running" => RunsOf(task[t].rev) = {}
WorkflowNext ==
  /\ \/ \E a \in Actors :
          Create(a, Worked, Written) \/ Request(a, Worked, View(Worked))
     \/ Operator
     \/ \E t \in Threads :
          \/ \E status \in {"valid", "invalid"} : ValidatorEnds(t, status)
          \/ RecordReport(t) \/ GiveBack(t) \/ OrphanEnds(t)
  /\ OneReport'
  /\ \A n \in DOMAIN revs' : revs'[n].content \in {Written, Blank}

\* Pages: actors with stale pages; reports are recorded at once.
PagesNext ==
  /\ \/ \E a \in Actors :
          \/ Create(a, Worked, Written)
          \/ Load(a, Worked)
          \/ Request(a, Worked, page[a][Worked])
     \/ \E t \in Threads :
          ValidatorEnds(t, "valid") \/ RecordReport(t) \/ GiveBack(t)
  /\ Within(7)
  /\ \A n \in DOMAIN revs' : n <= 2 /\ revs'[n].content = Written

\* Legacy: the catalog before, at and after the takeover, of which one rule
\* is then worked on.
LegacyNext ==
  /\ \/ \E a \in Actors :
          \/ \E c \in Contents : Create(a, Worked, c)
          \/ Request(a, Worked, View(Worked))
     \/ Legacy
     \/ \E flag \in BOOLEAN : Restart(flag, policy)
     \/ \E t \in Threads :
          \/ ValidatorEnds(t, "valid")
          \/ RecordReport(t) \/ GiveBack(t) \/ OrphanEnds(t)
  /\ Within(6)

Playing(name, step) == scene = name /\ step /\ scene' = scene

LifecycleSpec ==
  /\ \/ scene \in {"workflow", "pages"} /\ Started
     \/ scene = "legacy" /\ Init
  /\ policy = Shipped
  /\ [][\/ Playing("workflow", WorkflowNext)
        \/ Playing("pages", PagesNext)
        \/ Playing("legacy", LegacyNext)]_<<vars, scene>>

\* Pages with several threads, which take their time.
LateSpec ==
  /\ scene = "pages" /\ Started
  /\ [][Playing("pages", PagesNext)]_<<vars, scene>>

-----------------------------------------------------------------------------
\* Capacity: the drafts of one rule compete for validator slots.
CapacityNext ==
  \/ \E a \in Actors, r \in Rules, c \in Contents :
       \/ Create(a, r, c)
       \/ Succeed(a, r, View(r), c)
       \/ \E t \in Threads, n \in RevsOf(r) : BeginValidation(t, r, View(r), n)
  \/ \E t \in Threads :
       \/ ValidatorEnds(t, "valid")
       \/ RecordReport(t) \/ LoseReport(t)
       \/ GiveBack(t) \/ Die(t) \/ OrphanEnds(t)
  \/ Tick
CapacitySpec ==
  /\ scene = "capacity" /\ Started
  /\ [][Playing("capacity", CapacityNext)]_<<vars, scene>>
=============================================================================
