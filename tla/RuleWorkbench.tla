---------------------------- MODULE RuleWorkbench ----------------------------
(***************************************************************************)
(* The rule catalog with its actors, its validation threads and the        *)
(* operator, and the properties of the whole.                              *)
(***************************************************************************)
EXTENDS RuleValidation

\* What an actor asks for, according to the page it last loaded.
Request(a, r, p) ==
  \/ \E c \in Contents : Succeed(a, r, p, c)
  \/ Submit(r, p)
  \/ \E d \in {"approved", "rejected"} : Review(a, r, p, d)
  \/ Publish(a, r, p)
  \/ Withdraw(a, r, p)
  \/ \E n \in RevsOf(r) : Rollback(a, r, p, n)
  \/ Archive(r, p)
  \/ \E t \in Threads, n \in RevsOf(r) : BeginValidation(t, r, p, n)

Legacy ==
  \E r \in Rules :
    \/ \E c \in Contents : LegacyInsert(r, c) \/ LegacyUpdate(r, c)
    \/ LegacyDelete(r)

Operator ==
  \/ \E u \in Humans : ChangeRole(u)
  \/ \E flag \in BOOLEAN, v \in Policies : Restart(flag, v)

Validate(t) ==
  \/ \E status \in ReportStatus : ValidatorEnds(t, status)
  \/ RecordReport(t) \/ LoseReport(t)
  \/ GiveBack(t) \/ OrphanEnds(t)

Next ==
  \/ \E a \in Actors, r \in Rules :
       \/ \E c \in Contents : Create(a, r, c)
       \/ Load(a, r)
       \/ Request(a, r, page[a][r])
  \/ Legacy
  \/ Operator
  \/ \E t \in Threads : Validate(t) \/ Die(t)
  \/ Tick

Spec == Init /\ [][Next]_vars

-----------------------------------------------------------------------------
(* Properties.                                                             *)

\* A candidate under review or approved is still its rule's working revision:
\* no edit, rollback or concurrent request leaves a frozen candidate behind
\* that could be approved or released later (new_revision, derive).
FrozenIsWorking ==
  \A n \in DOMAIN revs :
    revs[n].state \in Frozen => rule[revs[n].rule].working = n

\* Whatever was published had a valid report of exactly that revision, and the
\* approval of that report by a person other than its author - through
\* withdrawals, rollbacks, revalidation and changes of role (submit, review,
\* publish, derive).
TwoPersonPublication ==
  \A n \in DOMAIN revs :
    revs[n].state = "published" =>
      /\ revs[n].submitted \in RunsOf(n)
      /\ runs[revs[n].submitted].status = "valid"
      /\ \E i \in ApprovalsOf(n) :
           /\ reviews[i].run = revs[n].submitted
           /\ reviews[i].reviewer \in Humans \ {revs[n].author}

\* What a page shows is so, but that reports of the revision may have been
\* recorded since.
Shows(p, r) ==
  /\ [p EXCEPT !.report = View(r).report] = View(r)
  /\ p.report # None => p.report \in RunsOf(p.working)

\* A row version names one state of the workflow: as long as the version an
\* actor's page shows is the current one, the rest of the page is true too, and
\* its report is one of that revision (check_version and every row_version+1).
\* Recording a report raises no version: the newest one, on which a submission
\* acts, may have come after the page was loaded (validate, submit).  Every
\* version of a managed rule and every report has its event, and there are no
\* others (event, validate).
Legacies(r) == {n \in RevsOf(r) : revs[n].author = Unknown}
PageCurrent ==
  \A r \in Rules :
    rule[r].status = "managed" =>
      /\ \A a \in Actors : page[a][r].version = rule[r].version => Shows(page[a][r], r)
      /\ events[r] + Cardinality(Legacies(r))
           = rule[r].version + Cardinality(ReportsOf(r))

\* The columns of a managed rule that was ever public hold the snapshot of its
\* published revision: switching the feature off does not bring mutable rules
\* back (publish, manage_existing, legacy_writable).
MirrorsPublished ==
  \A r \in Rules :
    rule[r].status = "managed" =>
      IF rule[r].published = None THEN rule[r].content = Blank
      ELSE /\ rule[r].published \in RevsOf(r)
           /\ rule[r].content = revs[rule[r].published].content

\* Validation keeps its limits: no more validator processes are alive than there
\* are slots, although claims expire, threads are late with giving them back, and
\* processes outlive their parents; and no revision collects more reports than it
\* may have, though the quota is looked at before the validator runs (validate,
\* run_validator).
ProcessBound ==
  /\ Cardinality(Processing) <= Slots
  /\ \A n \in DOMAIN revs : Cardinality(RunsOf(n)) <= RunLimit

\* What the second transaction of validate does not check again: that the
\* revision may still be validated (the refusal message of validate).
NoLateReport == \A i \in DOMAIN runs : runs[i].at \in Open

-----------------------------------------------------------------------------
(* The workbench implements the public catalog.                            *)

Catalog == INSTANCE RuleCatalog
  WITH Shelf <- Rules,
       shown <- [r \in Rules |-> rule[r].published],
       hidden <- {r \in Rules : rule[r].archived},
       approved <- {n \in DOMAIN revs : revs[n].state = "approved"}

\* Only an approved revision ever becomes public, and never an older one than
\* before; nothing else changes what is seen but archiving and restoring
\* (publish, archive, derive, manage_existing).
CatalogKept == Catalog!Spec

=============================================================================
