---------------------------- MODULE RuleTheorems ----------------------------
(***************************************************************************)
(* Types and safety of the rules, their validation and the public columns, *)
(* for every value of the constants.                                       *)
(*                                                                         *)
(* RowsInv says which revision may be in which state: only the working one *)
(* is frozen, the published one is public. Over it stand what the columns  *)
(* show (MirrorFor), how many events there are (CountFor), what a page of  *)
(* the present version shows (PagesInv), and whose process runs under      *)
(* which claim (ClaimInv). Publication is by two persons because a report  *)
(* and an approval are of a revision that nobody can edit any more.        *)
(***************************************************************************)
EXTENDS RuleWorkbench, FiniteSetTheorems, SequenceTheorems, WellFoundedInduction, TLAPS

-----------------------------------------------------------------------------
(* Numbers, sequences and sets.                                            *)

\* A set of naturals with a bound has a greatest element: the row that
\* ORDER BY id DESC LIMIT 1 finds.
LEMMA GreatestExists ==
  ASSUME NEW S, S \subseteq Nat, S # {}, NEW b \in Nat, \A i \in S : i <= b
  PROVE  Latest(S) \in S /\ \A j \in S : j <= Latest(S)
<1> DEFINE T == {k \in Nat : \E i \in S : k = b - i}
<1>1. T # {}
  <2>1. PICK i \in S : TRUE
    OBVIOUS
  <2>2. b - i \in T
    BY <2>1
  <2> QED
    BY <2>2
<1>2. IsWellFoundedOn(OpToRel(<, Nat), Nat)
  BY NatLessThanWellFounded
<1>3. PICK x \in T : \A y \in T : ~(<<y, x>> \in OpToRel(<, Nat))
  BY <1>1, <1>2, WFMin
<1>4. \A y \in T : ~(y < x)
  BY <1>3 DEF OpToRel
<1>5. PICK i \in S : x = b - i
  BY <1>3
<1>6. \A j \in S : j <= i
  BY <1>4, <1>5
<1> QED
  BY <1>5, <1>6 DEF Latest

LEMMA Tables ==
  ASSUME TypeOK
  PROVE  /\ Len(revs) \in Nat /\ DOMAIN revs = 1..Len(revs)
         /\ \A n \in DOMAIN revs : revs[n] \in Revision
         /\ Len(runs) \in Nat /\ DOMAIN runs = 1..Len(runs)
         /\ \A i \in DOMAIN runs : runs[i] \in Run
         /\ Len(reviews) \in Nat /\ DOMAIN reviews = 1..Len(reviews)
         /\ \A i \in DOMAIN reviews : reviews[i] \in ReviewRow
BY DEF TypeOK

\* The newest report of a revision is one of it, if it has any.
LEMMA NewestKnown ==
  ASSUME TypeOK, NEW n
  PROVE  /\ NewestReport(n) \in Nat
         /\ NewestReport(n) # None => NewestReport(n) \in RunsOf(n)
<1>1. /\ RunsOf(n) \subseteq 1..Len(runs) /\ Len(runs) \in Nat
  BY Tables DEF RunsOf
<1>2. ASSUME RunsOf(n) # {}
      PROVE  Latest(RunsOf(n)) \in RunsOf(n)
  <2>1. RunsOf(n) \subseteq Nat /\ \A i \in RunsOf(n) : i <= Len(runs)
    BY <1>1
  <2> QED
    BY <1>1, <1>2, <2>1, GreatestExists
<1> QED
  BY <1>1, <1>2 DEF NewestReport, None

\* A revision is marked: it is replaced by one that differs in its state.
LEMMA Marked ==
  ASSUME TypeOK, NEW n \in DOMAIN revs, NEW rev \in Revision
  PROVE  LET table == [revs EXCEPT ![n] = rev] IN
         /\ table \in Seq(Revision) /\ Len(table) = Len(revs)
         /\ DOMAIN table = DOMAIN revs
         /\ \A m \in DOMAIN revs : table[m] = IF m = n THEN rev ELSE revs[m]
BY Tables, ExceptSeq, LenProperties DEF TypeOK

\* A revision is appended.
LEMMA Appended ==
  ASSUME NEW table \in Seq(Revision), NEW rev \in Revision
  PROVE  LET t == Append(table, rev) IN
         /\ t \in Seq(Revision) /\ Len(t) = Len(table) + 1 /\ Len(table) \in Nat
         /\ DOMAIN table = 1..Len(table) /\ DOMAIN t = 1..Len(t)
         /\ \A m \in DOMAIN table : t[m] = table[m]
         /\ t[Len(table) + 1] = rev
BY AppendProperties, LenProperties

-----------------------------------------------------------------------------
(* The rows of the rules and their revisions.                              *)

Managed(r) == rule[r].status = "managed"
Public == {"published", "legacy_unreviewed"}

\* A managed rule points at revisions of its own: the working one, which is
\* the newest that may be frozen, and the public one, which never changes again.
RowFor(r) ==
  /\ rule[r].version >= 1
  /\ rule[r].status = "legacy" => rule[r].content \in Contents
  /\ Managed(r) =>
       /\ activated
       /\ rule[r].working \in RevsOf(r)
       /\ rule[r].published # None =>
            /\ rule[r].published \in RevsOf(r)
            /\ rule[r].published <= rule[r].working
            /\ revs[rule[r].published].state \in Public
  /\ ~Managed(r) =>
       /\ rule[r].published = None /\ ~rule[r].archived
       /\ rule[r].version = 1 /\ events[r] = 0
RowsInv ==
  /\ enabled => activated
  /\ \A r \in Rules : RowFor(r)
  /\ \A n \in DOMAIN revs :
       /\ Managed(revs[n].rule)
       /\ revs[n].state \in Frozen => rule[revs[n].rule].working = n

\* What a request that was accepted does.
Works(a, r, p) ==
  \/ \E c \in Contents : Succeed(a, r, p, c)
  \/ Submit(r, p)
  \/ \E d \in {"approved", "rejected"} : Review(a, r, p, d)
  \/ Publish(a, r, p)
  \/ Withdraw(a, r, p)
  \/ \E n \in RevsOf(r) : Rollback(a, r, p, n)
  \/ Archive(r, p)

\* Revisions keep everything but their state and report, and only the working
\* revision, while it is a candidate, changes that.
Kept(r) ==
  \A n \in DOMAIN revs :
    /\ revs'[n].rule = revs[n].rule /\ revs'[n].author = revs[n].author
    /\ revs'[n].content = revs[n].content
    /\ n # rule[r].working \/ revs[n].state \notin Frozen \cup {"draft"}
         => revs'[n] = revs[n]
Bumps(r, row) ==
  /\ row \in Row /\ row.status = "managed" /\ row.version = rule[r].version + 1
  /\ rule' = [rule EXCEPT ![r] = row]
\* No revision is added; perhaps the working one becomes public.
Settles(r, row) ==
  /\ Bumps(r, row)
  /\ Len(revs') = Len(revs) /\ row.working = rule[r].working
  /\ \/ row.published = rule[r].published /\ row.content = rule[r].content
     \/ /\ row.published = rule[r].working
        /\ row.content = revs[rule[r].working].content
        /\ revs'[rule[r].working].state = "published"
\* A draft is added, and the working revision before it is not frozen any more.
Extends(r, row) ==
  /\ Bumps(r, row)
  /\ Len(revs') = Len(revs) + 1 /\ row.working = Len(revs) + 1
  /\ revs'[Len(revs) + 1].rule = r /\ revs'[Len(revs) + 1].state = "draft"
  /\ revs'[Len(revs) + 1].author \in Actors
  /\ revs'[rule[r].working].state \notin Frozen
  /\ row.published = rule[r].published /\ row.content = rule[r].content
Evolves(r) ==
  /\ enabled /\ Managed(r)
  /\ events' = [events EXCEPT ![r] = @ + 1]
  /\ revs' \in Seq(Revision) /\ Kept(r)
  /\ \E row \in Row : Settles(r, row) \/ Extends(r, row)
  /\ UNCHANGED <<deployment, validating, admins, runs, page>>

LEMMA WorkingKnown ==
  ASSUME TypeOK, RowsInv, NEW r \in Rules, Managed(r)
  PROVE  /\ rule[r] \in Row /\ rule[r].working \in DOMAIN revs
         /\ revs[rule[r].working] \in Revision /\ revs[rule[r].working].rule = r
         /\ rule \in [Rules -> Row]
BY Tables DEF TypeOK, RowsInv, RowFor, RevsOf

\* Submit, review and publish mark the working revision.
LEMMA MarksEvolve ==
  ASSUME TypeOK, RowsInv, NEW r \in Rules, Managed(r), enabled,
         NEW rev \in Revision, NEW row \in Row,
         revs' = [revs EXCEPT ![rule[r].working] = rev],
         revs[rule[r].working].state \in Frozen \cup {"draft"},
         rev.rule = r, rev.author = revs[rule[r].working].author,
         rev.content = revs[rule[r].working].content,
         Bumps(r, row), row.working = rule[r].working,
         \/ row.published = rule[r].published /\ row.content = rule[r].content
         \/ /\ row.published = rule[r].working
            /\ row.content = revs[rule[r].working].content
            /\ rev.state = "published",
         Log(r), UNCHANGED <<deployment, validating, admins, runs, page>>
  PROVE  Evolves(r)
<1> DEFINE w == rule[r].working
<1>1. w \in DOMAIN revs /\ revs[w].rule = r
  BY WorkingKnown
<1>2. /\ revs' \in Seq(Revision) /\ Len(revs') = Len(revs)
      /\ \A m \in DOMAIN revs : revs'[m] = IF m = w THEN rev ELSE revs[m]
  BY <1>1, Marked
<1>3. Kept(r)
  BY <1>1, <1>2 DEF Kept
<1>4. Settles(r, row)
  BY <1>1, <1>2 DEF Settles
<1> QED
  BY <1>2, <1>3, <1>4 DEF Evolves, Log

\* New revisions, rollbacks and withdrawals add a draft to a table in which
\* the working revision is not frozen.
LEMMA AddsEvolve ==
  ASSUME TypeOK, RowsInv, NEW r \in Rules, Managed(r), enabled,
         NEW table \in Seq(Revision), Len(table) = Len(revs),
         NEW c \in Contents, NEW parent \in Nat, NEW a \in Actors,
         AddRevision(table, r, c, parent, a),
         \A m \in DOMAIN revs :
           /\ table[m].rule = revs[m].rule /\ table[m].author = revs[m].author
           /\ table[m].content = revs[m].content
           /\ m # rule[r].working \/ revs[m].state \notin Frozen \cup {"draft"}
                => table[m] = revs[m],
         table[rule[r].working].state \notin Frozen,
         Log(r), UNCHANGED <<deployment, validating, admins, runs, page>>
  PROVE  Evolves(r)
<1> DEFINE row == [rule[r] EXCEPT !.working = Len(table) + 1, !.version = @ + 1]
           draft == Draft(r, c, parent, a)
<1>1. rule[r] \in Row /\ rule \in [Rules -> Row] /\ Len(revs) \in Nat
      /\ DOMAIN revs = 1..Len(revs) /\ rule[r].working \in DOMAIN revs
  BY WorkingKnown, Tables
<1>2. draft \in Revision /\ draft.rule = r /\ draft.state = "draft" /\ draft.author = a
  BY DEF Draft, Revision, RevisionStates, None
<1>3. /\ revs' \in Seq(Revision) /\ Len(revs') = Len(revs) + 1
      /\ \A m \in DOMAIN revs : revs'[m] = table[m]
      /\ revs'[Len(revs) + 1] = draft
  BY <1>1, <1>2, Appended DEF AddRevision
<1>4. Kept(r)
  BY <1>3 DEF Kept
<1>5. row \in Row /\ row.status = "managed" /\ row.version = rule[r].version + 1
      /\ row.working = Len(revs) + 1 /\ row.published = rule[r].published
      /\ row.content = rule[r].content
  <2>1. rule[r].version + 1 \in Nat /\ Len(table) + 1 \in Nat
    BY <1>1 DEF Row
  <2>2. row \in Row
    BY <1>1, <2>1 DEF Row
  <2> QED
    BY <1>1, <2>1, <2>2 DEF Row, Managed
<1>6. rule' = [rule EXCEPT ![r] = row]
  BY <1>1 DEF AddRevision
<1>7. Extends(r, row)
  BY <1>1, <1>2, <1>3, <1>5, <1>6 DEF Extends, Bumps
<1> QED
  BY <1>3, <1>4, <1>5, <1>7 DEF Evolves, Log

LEMMA BumpedRow ==
  ASSUME TypeOK, RowsInv, NEW r \in Rules, Managed(r)
  PROVE  LET row == [rule[r] EXCEPT !.version = @ + 1] IN
         /\ row \in Row /\ row.status = "managed" /\ row.version = rule[r].version + 1
         /\ row.working = rule[r].working /\ row.published = rule[r].published
         /\ row.content = rule[r].content
         /\ Bumped(r) = [rule EXCEPT ![r] = row]
<1>1. rule[r] \in Row /\ rule \in [Rules -> Row]
  BY WorkingKnown
<1>2. rule[r].version + 1 \in Nat
  BY <1>1 DEF Row
<1> QED
  BY <1>1, <1>2 DEF Row, Managed, Bumped

LEMMA SubmitEvolves ==
  ASSUME TypeOK, RowsInv, NEW r \in Rules, NEW p \in Page, Submit(r, p)
  PROVE  Evolves(r)
<1> DEFINE w == rule[r].working
           i == Latest(RunsOf(w))
           rev == [revs[w] EXCEPT !.state = "in_review", !.submitted = i]
           row == [rule[r] EXCEPT !.version = @ + 1]
<1>1. Managed(r) /\ enabled /\ p.working = w /\ revs[w].state = "draft"
  BY DEF Submit, Candidate, Writable, Managed
<1>2. /\ revs[w] \in Revision /\ w \in DOMAIN revs /\ revs[w].rule = r
  BY <1>1, WorkingKnown
<1>3. i \in Nat
  BY <1>1, Tables DEF Submit, ValidReport, RunsOf
<1>4. rev \in Revision /\ rev.rule = r /\ rev.author = revs[w].author
      /\ rev.content = revs[w].content
  BY <1>2, <1>3 DEF Revision, RevisionStates, Frozen
<1>5. revs' = [revs EXCEPT ![w] = rev] /\ rule' = Bumped(r)
  BY <1>1, <1>2 DEF Submit
<1>6. /\ row \in Row /\ Bumps(r, row) /\ row.working = w
      /\ row.published = rule[r].published /\ row.content = rule[r].content
  BY <1>1, <1>5, BumpedRow DEF Bumps
<1>7. Log(r) /\ UNCHANGED <<deployment, validating, admins, runs, page>>
  BY DEF Submit
<1> HIDE DEF w, rev, row, i
<1> QED
  BY <1>1, <1>2, <1>4, <1>5, <1>6, <1>7, MarksEvolve DEF w

LEMMA ReviewEvolves ==
  ASSUME TypeOK, RowsInv, NEW r \in Rules, NEW p \in Page, NEW a \in Actors,
         NEW d \in {"approved", "rejected"}, Review(a, r, p, d)
  PROVE  Evolves(r)
<1> DEFINE w == rule[r].working
           rev == [revs[w] EXCEPT !.state = d]
           row == [rule[r] EXCEPT !.version = @ + 1]
<1>1. Managed(r) /\ enabled /\ p.working = w /\ revs[w].state = "in_review"
  BY DEF Review, Candidate, Writable, Managed
<1>2. /\ revs[w] \in Revision /\ w \in DOMAIN revs /\ revs[w].rule = r
  BY <1>1, WorkingKnown
<1>4. rev \in Revision /\ rev.rule = r /\ rev.author = revs[w].author
      /\ rev.content = revs[w].content
  BY <1>2 DEF Revision, RevisionStates, Frozen
<1>5. revs' = [revs EXCEPT ![w] = rev] /\ rule' = Bumped(r)
  BY <1>1, <1>2 DEF Review, InState
<1>6. /\ row \in Row /\ Bumps(r, row) /\ row.working = w
      /\ row.published = rule[r].published /\ row.content = rule[r].content
  BY <1>1, <1>5, BumpedRow DEF Bumps
<1>7. Log(r) /\ UNCHANGED <<deployment, validating, admins, runs, page>>
  BY DEF Review
<1> HIDE DEF w, rev, row
<1> QED
  BY <1>1, <1>2, <1>4, <1>5, <1>6, <1>7, MarksEvolve DEF w, Frozen

LEMMA PublishEvolves ==
  ASSUME TypeOK, RowsInv, NEW r \in Rules, NEW p \in Page, NEW a \in Actors,
         Publish(a, r, p)
  PROVE  Evolves(r)
<1> DEFINE w == rule[r].working
           rev == [revs[w] EXCEPT !.state = "published"]
           row == [rule[r] EXCEPT !.content = revs[w].content, !.published = w,
                                  !.version = @ + 1]
<1>1. Managed(r) /\ enabled /\ p.working = w /\ revs[w].state = "approved"
  BY DEF Publish, Candidate, Writable, Managed
<1>2. /\ revs[w] \in Revision /\ w \in DOMAIN revs /\ revs[w].rule = r
      /\ rule[r] \in Row /\ rule \in [Rules -> Row]
  BY <1>1, WorkingKnown
<1>3. rule[r].version + 1 \in Nat /\ w \in Nat
  BY <1>2 DEF Row
<1>4. rev \in Revision /\ rev.rule = r /\ rev.author = revs[w].author
      /\ rev.content = revs[w].content /\ rev.state = "published"
  BY <1>2 DEF Revision, RevisionStates
<1>5. revs' = [revs EXCEPT ![w] = rev] /\ rule' = [rule EXCEPT ![r] = row]
  BY <1>1, <1>2 DEF Publish, InState
<1>6. row \in Row
  BY <1>2, <1>3 DEF Row, Revision
<1>8. /\ Bumps(r, row) /\ row.working = w
      /\ row.published = w /\ row.content = revs[w].content
  BY <1>1, <1>2, <1>3, <1>5, <1>6 DEF Bumps, Row, Managed
<1>7. Log(r) /\ UNCHANGED <<deployment, validating, admins, runs, page>>
  BY DEF Publish
<1> HIDE DEF w, rev, row
<1> QED
  BY <1>1, <1>2, <1>4, <1>5, <1>6, <1>7, <1>8, MarksEvolve DEF w, Frozen

LEMMA AddEvolves ==
  ASSUME TypeOK, RowsInv, NEW r \in Rules, NEW p \in Page, NEW a \in Actors,
         \/ \E c \in Contents : Succeed(a, r, p, c)
         \/ \E n \in RevsOf(r) : Rollback(a, r, p, n)
         \/ Withdraw(a, r, p)
  PROVE  Evolves(r)
<1> DEFINE w == rule[r].working
<1>1. Managed(r) /\ enabled /\ w \in Nat
      /\ Log(r) /\ UNCHANGED <<deployment, validating, admins, runs, page>>
  BY WorkingKnown DEF Succeed, Rollback, Withdraw, Candidate, Writable, Managed, Row
<1>2. /\ revs \in Seq(Revision) /\ w \in DOMAIN revs /\ revs[w] \in Revision
  BY <1>1, WorkingKnown DEF TypeOK
<1>3. CASE \E c \in Contents : Succeed(a, r, p, c)
  <2>1. PICK c \in Contents : Succeed(a, r, p, c)
    BY <1>3
  <2>2. AddRevision(revs, r, c, w, a) /\ revs[w].state \notin Frozen
    BY <2>1 DEF Succeed, Candidate
  <2> QED
    BY <1>1, <1>2, <2>2, AddsEvolve
<1>4. CASE \E n \in RevsOf(r) : Rollback(a, r, p, n)
  <2>1. PICK n \in RevsOf(r) : Rollback(a, r, p, n)
    BY <1>4
  <2>2. AddRevision(revs, r, revs[n].content, w, a) /\ revs[w].state \notin Frozen
    BY <2>1 DEF Rollback
  <2>3. revs[n].content \in Contents
    BY <2>1, Tables DEF RevsOf, Revision
  <2> QED
    BY <1>1, <1>2, <2>2, <2>3, AddsEvolve
<1>5. CASE Withdraw(a, r, p)
  <2> DEFINE rev == [revs[w] EXCEPT !.state = "withdrawn"]
             table == [revs EXCEPT ![w] = rev]
  <2>1. /\ p.working = w /\ revs[w].state \in Frozen
        /\ AddRevision(table, r, revs[w].content, w, a)
    BY <1>2, <1>5 DEF Withdraw, Candidate, InState
  <2>2. rev \in Revision /\ rev.rule = revs[w].rule /\ rev.author = revs[w].author
        /\ rev.content = revs[w].content /\ rev.state \notin Frozen
        /\ revs[w].content \in Contents
    BY <1>2 DEF Revision, RevisionStates, Frozen
  <2>3. /\ table \in Seq(Revision) /\ Len(table) = Len(revs)
        /\ \A m \in DOMAIN revs : table[m] = IF m = w THEN rev ELSE revs[m]
    BY <1>2, <2>2, Marked
  <2>4. /\ table[w].state \notin Frozen
        /\ \A m \in DOMAIN revs :
           /\ table[m].rule = revs[m].rule /\ table[m].author = revs[m].author
           /\ table[m].content = revs[m].content
           /\ m # w \/ revs[m].state \notin Frozen \cup {"draft"} => table[m] = revs[m]
    BY <1>2, <2>1, <2>2, <2>3
  <2> HIDE DEF table, rev, w
  <2> QED
    BY <1>1, <1>2, <2>1, <2>2, <2>3, <2>4, AddsEvolve DEF w
<1> QED
  BY <1>3, <1>4, <1>5

LEMMA ArchiveEvolves ==
  ASSUME TypeOK, RowsInv, NEW r \in Rules, NEW p \in Page, Archive(r, p)
  PROVE  Evolves(r)
<1> DEFINE row == [rule[r] EXCEPT !.archived = ~@, !.version = @ + 1]
<1>1. Managed(r) /\ enabled /\ Log(r)
      /\ UNCHANGED <<deployment, validating, admins, runs, page, revs>>
      /\ rule' = [rule EXCEPT ![r].archived = ~@, ![r].version = @ + 1]
  BY DEF Archive, Managed
<1>2. rule[r] \in Row /\ rule \in [Rules -> Row] /\ revs \in Seq(Revision)
  BY <1>1, WorkingKnown DEF TypeOK
<1>3. rule[r].version + 1 \in Nat
  BY <1>2 DEF Row
<1>4. row \in Row /\ row.status = "managed" /\ row.version = rule[r].version + 1
      /\ row.working = rule[r].working /\ row.published = rule[r].published
      /\ row.content = rule[r].content
  BY <1>1, <1>2, <1>3 DEF Row, Managed
<1>5. rule' = [rule EXCEPT ![r] = row]
  BY <1>1, <1>2
<1>6. Settles(r, row)
  BY <1>1, <1>4, <1>5 DEF Settles, Bumps
<1>7. Kept(r)
  BY <1>1 DEF Kept
<1> QED
  BY <1>1, <1>2, <1>4, <1>6, <1>7 DEF Evolves, Log

LEMMA WorksEvolve ==
  ASSUME TypeOK, RowsInv, NEW r \in Rules, NEW p \in Page, NEW a \in Actors,
         Works(a, r, p)
  PROVE  Evolves(r)
BY SubmitEvolves, ReviewEvolves, PublishEvolves, AddEvolves, ArchiveEvolves DEF Works

-----------------------------------------------------------------------------
(* The takeover of the legacy catalog.                                     *)

Taken == {r \in Rules : rule[r].status = "legacy"}

\* Every legacy rule gets one revision, which is working and public at once.
LEMMA ManageTakesOver ==
  ASSUME TypeOK, RowsInv, Manage
  PROVE  /\ activated' = TRUE
         /\ revs' \in Seq(Revision) /\ DOMAIN revs \subseteq DOMAIN revs'
         /\ \A n \in DOMAIN revs : revs'[n] = revs[n]
         /\ \A n \in DOMAIN revs' \ DOMAIN revs :
              /\ revs'[n].rule \in Taken /\ revs'[n].state = "legacy_unreviewed"
              /\ revs'[n].author = Unknown
              /\ revs'[n].content = rule[revs'[n].rule].content
              /\ n = rule'[revs'[n].rule].working
         /\ rule' \in [Rules -> Row]
         /\ \A r \in Rules \ Taken : rule'[r] = rule[r]
         /\ \A r \in Taken : \E n \in DOMAIN revs' \ DOMAIN revs :
              /\ revs'[n].rule = r
              /\ rule'[r] = [rule[r] EXCEPT !.status = "managed", !.working = n,
                                            !.published = n]
<1> DEFINE k == Cardinality(Taken)
<1>1. PICK order \in [1..k -> Taken] :
        /\ \A r \in Taken : \E i \in DOMAIN order : order[i] = r
        /\ revs' = revs \o [i \in DOMAIN order |-> LegacyRevision(order[i])]
        /\ rule' = [r \in Rules |->
             IF r \notin Taken THEN rule[r]
             ELSE LET n == Len(revs) + CHOOSE i \in DOMAIN order : order[i] = r IN
                  [rule[r] EXCEPT !.status = "managed", !.working = n, !.published = n]]
        /\ activated' = TRUE
  BY DEF Manage, Taken
<1>2. IsFiniteSet(Taken) /\ k \in Nat
  BY RuleSetAssumption, FS_Subset, FS_CardinalityType DEF Taken
<1>3. \A i, j \in 1..k : order[i] = order[j] => i = j
  <2>1. order \in Surjection(1..k, Taken)
    BY <1>1 DEF Surjection
  <2>2. IsFiniteSet(1..k) /\ Cardinality(1..k) = k
    BY <1>2, FS_Interval
  <2>3. order \in Injection(1..k, Taken)
    BY <2>1, <2>2, FS_SurjSameCardinalityImpliesInj
  <2> QED
    BY <2>3 DEF Injection, IsInjective
<1> DEFINE more == [i \in DOMAIN order |-> LegacyRevision(order[i])]
<1>4. \A i \in 1..k : LegacyRevision(order[i]) \in Revision
  BY DEF LegacyRevision, Revision, RevisionStates, RowsInv, RowFor, Taken, None
<1>5. more \in Seq(Revision) /\ Len(more) = k /\ \A i \in 1..k : more[i] = LegacyRevision(order[i])
  <2>1. more = [i \in 1..k |-> LegacyRevision(order[i])]
    OBVIOUS
  <2> QED
    BY <1>2, <1>4, <2>1
<1>6. /\ revs' \in Seq(Revision) /\ Len(revs') = Len(revs) + k /\ Len(revs) \in Nat
      /\ DOMAIN revs = 1..Len(revs) /\ DOMAIN revs' = 1..Len(revs')
      /\ \A n \in 1..Len(revs') :
           revs'[n] = IF n <= Len(revs) THEN revs[n] ELSE more[n - Len(revs)]
  <2>1. revs \in Seq(Revision)
    BY DEF TypeOK
  <2>2. revs' = revs \o more
    BY <1>1
  <2> HIDE DEF more
  <2> QED
    BY <1>5, <2>1, <2>2, ConcatProperties, LenProperties
<1> HIDE DEF more
<1>7. ASSUME NEW r \in Taken
      PROVE  \E n \in DOMAIN revs' \ DOMAIN revs :
              /\ revs'[n].rule = r
              /\ rule'[r] = [rule[r] EXCEPT !.status = "managed", !.working = n,
                                            !.published = n]
  <2> DEFINE c == CHOOSE i \in DOMAIN order : order[i] = r
             n == Len(revs) + c
  <2>1. c \in 1..k /\ order[c] = r
    BY <1>1, <1>7
  <2>2. n \in DOMAIN revs' \ DOMAIN revs /\ revs'[n] = more[c]
    BY <1>2, <1>6, <2>1
  <2>3. revs'[n].rule = r
    BY <1>5, <2>1, <2>2 DEF LegacyRevision
  <2>4. rule'[r] = [rule[r] EXCEPT !.status = "managed", !.working = n, !.published = n]
    BY <1>1, <1>7 DEF Taken
  <2> QED
    BY <2>2, <2>3, <2>4
<1>8. rule' \in [Rules -> Row]
  <2>1. ASSUME NEW r \in Rules PROVE rule'[r] \in Row
    <3>1. CASE r \notin Taken
      BY <1>1, <3>1 DEF TypeOK
    <3>2. CASE r \in Taken
      <4>1. PICK n \in DOMAIN revs' :
              rule'[r] = [rule[r] EXCEPT !.status = "managed", !.working = n,
                                         !.published = n]
        BY <1>7, <3>2
      <4>2. n \in Nat /\ rule[r] \in Row
        BY <1>6 DEF TypeOK
      <4> QED
        BY <4>1, <4>2 DEF Row
    <3> QED
      BY <3>1, <3>2
  <2> QED
    BY <1>1, <2>1
<1>9. ASSUME NEW n \in DOMAIN revs' \ DOMAIN revs
      PROVE  /\ revs'[n].rule \in Taken /\ revs'[n].state = "legacy_unreviewed"
             /\ revs'[n].author = Unknown
             /\ revs'[n].content = rule[revs'[n].rule].content
             /\ n = rule'[revs'[n].rule].working
  <2> DEFINE i == n - Len(revs)
  <2>1. i \in 1..k /\ revs'[n] = more[i] /\ n = Len(revs) + i
    BY <1>2, <1>6
  <2>2. revs'[n] = LegacyRevision(order[i])
    BY <1>5, <2>1
  <2>3. order[i] \in Taken
    BY <2>1
  <2>4. PICK m \in DOMAIN revs' \ DOMAIN revs :
          /\ revs'[m].rule = order[i]
          /\ rule'[order[i]] = [rule[order[i]] EXCEPT !.status = "managed", !.working = m,
                                                      !.published = m]
    BY <1>7, <2>3
  <2>5. m = n
    <3> DEFINE j == m - Len(revs)
    <3>1. j \in 1..k /\ revs'[m] = more[j] /\ m = Len(revs) + j
      BY <1>2, <1>6
    <3>2. order[j] = order[i]
      BY <1>5, <2>4, <3>1 DEF LegacyRevision
    <3> QED
      BY <1>3, <2>1, <3>1, <3>2
  <2>6. rule[order[i]] \in Row
    BY <2>3 DEF TypeOK, Taken
  <2>7. /\ revs'[n].rule = order[i] /\ revs'[n].state = "legacy_unreviewed"
        /\ revs'[n].author = Unknown /\ revs'[n].content = rule[order[i]].content
    BY <2>2 DEF LegacyRevision
  <2>8. rule'[order[i]].working = n
    BY <2>4, <2>5, <2>6 DEF Row
  <2> QED
    BY <2>3, <2>7, <2>8
<1>10. activated' = TRUE /\ \A r \in Rules \ Taken : rule'[r] = rule[r]
  BY <1>1
<1>11. DOMAIN revs \subseteq DOMAIN revs' /\ \A n \in DOMAIN revs : revs'[n] = revs[n]
  BY <1>2, <1>6
<1> QED
  BY <1>6, <1>7, <1>8, <1>9, <1>10, <1>11

-----------------------------------------------------------------------------
(* Types.                                                                  *)

\* Threads validate, and reports are of, revisions that exist.
TasksInv ==
  /\ \A t \in Threads : task[t].pc # "idle" => task[t].rev \in DOMAIN revs
  /\ \A i \in DOMAIN runs : runs[i].rev \in DOMAIN revs

Begins(t) == \E a \in Actors, r \in Rules : \E n \in RevsOf(r) :
               BeginValidation(t, r, page[a][r], n)
Validates(t) ==
  \/ Begins(t)
  \/ \E status \in ReportStatus : ValidatorEnds(t, status)
  \/ RecordReport(t) \/ LoseReport(t)
  \/ GiveBack(t) \/ OrphanEnds(t) \/ Die(t)
LegacyStep(r) ==
  \/ \E c \in Contents : LegacyInsert(r, c) \/ LegacyUpdate(r, c)
  \/ LegacyDelete(r)

LEMMA StepCases ==
  ASSUME [Next]_vars
  PROVE  \/ \E a \in Actors, r \in Rules : Works(a, r, page[a][r])
         \/ \E a \in Actors, r \in Rules, c \in Contents : Create(a, r, c)
         \/ \E a \in Actors, r \in Rules : Load(a, r)
         \/ \E r \in Rules : LegacyStep(r)
         \/ \E u \in Humans : ChangeRole(u)
         \/ \E flag \in BOOLEAN, v \in Policies : Restart(flag, v)
         \/ \E t \in Threads : Validates(t)
         \/ Tick \/ UNCHANGED vars
<1>1. ASSUME NEW a \in Actors, NEW r \in Rules, Request(a, r, page[a][r])
      PROVE  \/ Works(a, r, page[a][r])
             \/ \E t \in Threads : Begins(t)
  BY <1>1 DEF Request, Works, Begins
<1> QED
  BY <1>1 DEF Next, Legacy, LegacyStep, Operator, Validate, Validates

LEMMA PageKnown ==
  ASSUME TypeOK, NEW a \in Actors, NEW r \in Rules
  PROVE  page[a][r] \in Page
BY DEF TypeOK

\* A view of a managed rule is a page.
LEMMA ViewType ==
  ASSUME TypeOK, RowsInv, NEW r \in Rules, Managed(r)
  PROVE  View(r) \in Page
<1>1. /\ rule[r] \in Row /\ revs[rule[r].working] \in Revision
  BY WorkingKnown
<1>2. NewestReport(rule[r].working) \in Nat
  BY NewestKnown
<1> QED
  BY <1>1, <1>2 DEF View, Page, Row, Revision, RevisionStates

LEMMA LogType ==
  ASSUME TypeOK, NEW r, events' = [events EXCEPT ![r] = @ + 1]
  PROVE  events' \in [Rules -> Nat]
<1>1. ASSUME NEW x \in Rules PROVE events'[x] \in Nat
  BY DEF TypeOK
<1> QED
  BY <1>1 DEF TypeOK

LEMMA LimitTypes ==
  /\ Slots \in Nat /\ ClaimTTL \in Nat /\ MaxRun \in Nat /\ RunLimit \in Nat
  /\ MaxRun < ClaimTTL
BY RuleLimitAssumption

LEMMA TypeWorks ==
  ASSUME TypeOK, RowsInv, NEW r \in Rules, NEW p \in Page, NEW a \in Actors,
         Works(a, r, p)
  PROVE  TypeOK'
<1>1. Evolves(r)
  BY WorksEvolve
<1>2. rule' \in [Rules -> Row] /\ events' \in [Rules -> Nat] /\ revs' \in Seq(Revision)
  <2>1. PICK row \in Row : rule' = [rule EXCEPT ![r] = row]
    BY <1>1 DEF Evolves, Settles, Extends, Bumps
  <2>2. rule' \in [Rules -> Row]
    BY <2>1 DEF TypeOK
  <2> QED
    BY <1>1, <2>2, LogType DEF Evolves
<1>3. reviews' \in Seq(ReviewRow)
  <2>1. CASE \E d \in {"approved", "rejected"} : Review(a, r, p, d)
    <3>1. PICK d \in {"approved", "rejected"} : Review(a, r, p, d)
      BY <2>1
    <3> DEFINE row == [rev |-> p.working, run |-> revs[p.working].submitted,
                       reviewer |-> a, decision |-> d]
    <3>2. revs[rule[r].working] \in Revision /\ p.working = rule[r].working
          /\ p.working \in Nat
      BY <3>1, WorkingKnown DEF Review, Candidate, Writable, Managed, Page
    <3>3. row \in ReviewRow
      BY <3>2 DEF ReviewRow, Revision
    <3>4. reviews' = Append(reviews, row) /\ reviews \in Seq(ReviewRow)
      BY <3>1 DEF Review, TypeOK
    <3> HIDE DEF row
    <3> QED
      BY <3>3, <3>4, AppendProperties
  <2>2. CASE ~\E d \in {"approved", "rejected"} : Review(a, r, p, d)
    BY <2>2 DEF Works, Succeed, Submit, Publish, Withdraw, Rollback, Archive, TypeOK
  <2> QED
    BY <2>1, <2>2
<1> QED
  BY <1>1, <1>2, <1>3 DEF Evolves, TypeOK, deployment, validating

LEMMA TypeCreate ==
  ASSUME TypeOK, NEW a \in Actors, NEW r \in Rules, NEW c \in Contents, Create(a, r, c)
  PROVE  TypeOK'
<1> DEFINE draft == Draft(r, c, None, a)
           row == [NoRow EXCEPT !.status = "managed", !.working = Len(revs) + 1]
<1>1. draft \in Revision /\ row \in Row
  <2>1. draft \in Revision
    BY DEF Draft, Revision, RevisionStates, None
  <2>2. row \in Row
    <3>1. Len(revs) + 1 \in Nat
      BY Tables
    <3> QED
      BY <3>1 DEF None, Row, NoRow
  <2> QED
    BY <2>1, <2>2
<1>2. revs' \in Seq(Revision)
  BY <1>1, AppendProperties DEF Create, TypeOK
<1>3. rule' \in [Rules -> Row] /\ events' \in [Rules -> Nat]
  BY <1>1, LogType DEF Create, Log, TypeOK
<1> QED
  BY <1>2, <1>3 DEF Create, TypeOK, deployment, validating

LEMMA TypeRestart ==
  ASSUME TypeOK, RowsInv, NEW flag \in BOOLEAN, NEW v \in Policies, Restart(flag, v)
  PROVE  TypeOK'
<1>1. task' \in [Threads -> Task]
  <2>1. ASSUME NEW t \in Threads PROVE task'[t] \in Task
    BY DEF Restart, TypeOK, Task, IdleTask, None, ReportStatus
  <2> QED
    BY <2>1 DEF Restart
<1>2. activated' \in BOOLEAN /\ rule' \in [Rules -> Row] /\ revs' \in Seq(Revision)
  BY ManageTakesOver DEF Restart, TypeOK
<1> QED
  BY <1>1, <1>2 DEF Restart, TypeOK

LEMMA TypeValidates ==
  ASSUME TypeOK, TasksInv, NEW t \in Threads, Validates(t)
  PROVE  TypeOK'
<1>1. CASE Begins(t)
  <2>0. PICK a \in Actors, r \in Rules :
          \E n \in RevsOf(r) : BeginValidation(t, r, page[a][r], n)
    BY <1>1 DEF Begins
  <2>1. PICK n \in RevsOf(r) : BeginValidation(t, r, page[a][r], n)
    BY <2>0
  <2>2. PICK s \in FreeSlots, o \in FreshOwners :
          /\ claims' = [x \in LiveClaims \cup {s} |->
                          IF x = s THEN [rev |-> n, owner |-> o, expires |-> clock + ClaimTTL]
                                   ELSE claims[x]]
          /\ task' = [task EXCEPT ![t] = [IdleTask EXCEPT !.pc = "running",
                                            !.rev = n, !.owner = o, !.until = clock + MaxRun]]
    BY <2>1 DEF BeginValidation
  <2>3. n \in Nat /\ o \in Owners /\ clock + ClaimTTL \in Nat /\ clock + MaxRun \in Nat
    <3>1. n \in Nat /\ o \in Owners
      BY Tables DEF RevsOf, FreshOwners
    <3> QED
      BY <3>1, LimitTypes DEF TypeOK
  <2>4. task' \in [Threads -> Task]
    BY <2>2, <2>3 DEF TypeOK, Task, IdleTask, ReportStatus
  <2>5. DOMAIN claims' \subseteq 1..Slots /\ claims' \in [DOMAIN claims' -> ClaimRow]
    BY <2>2, <2>3 DEF TypeOK, LiveClaims, FreeSlots, ClaimRow
  <2> QED
    BY <2>1, <2>4, <2>5 DEF BeginValidation, TypeOK, deployment
<1>2. CASE \E status \in ReportStatus : ValidatorEnds(t, status)
  <2>1. PICK status \in ReportStatus : ValidatorEnds(t, status)
    BY <1>2
  <2>2. task' = [task EXCEPT ![t] = [task[t] EXCEPT !.pc = "reported", !.status = status]]
    BY <2>1 DEF ValidatorEnds, TypeOK
  <2>3. task' \in [Threads -> Task]
    BY <2>2 DEF TypeOK, Task
  <2> QED
    BY <2>1, <2>3 DEF ValidatorEnds, TypeOK, deployment
<1>3. CASE LoseReport(t)
  <2>1. task' \in [Threads -> Task]
    BY <1>3 DEF LoseReport, TypeOK, Task
  <2> QED
    BY <1>3, <2>1 DEF LoseReport, TypeOK, deployment
<1>4. IdleTask \in Task
  BY DEF IdleTask, Task, None, ReportStatus
<1>5. CASE OrphanEnds(t)
  BY <1>4, <1>5 DEF OrphanEnds, TypeOK, deployment
<1>6. CASE Die(t)
  <2>1. task' \in [Threads -> Task]
    BY <1>4, <1>6 DEF Die, TypeOK, Task
  <2> QED
    BY <1>6, <2>1 DEF Die, TypeOK, deployment
<1>7. CASE GiveBack(t)
  <2>1. DOMAIN claims' \subseteq 1..Slots /\ claims' \in [DOMAIN claims' -> ClaimRow]
    BY <1>7 DEF GiveBack, TypeOK, Restrict
  <2>2. task' \in [Threads -> Task]
    BY <1>4, <1>7 DEF GiveBack, TypeOK
  <2> QED
    BY <1>7, <2>1, <2>2 DEF GiveBack, TypeOK, deployment
<1>8. CASE RecordReport(t)
  <2> DEFINE run == [rev |-> task[t].rev, policy |-> policy, status |-> task[t].status,
                     at |-> revs[task[t].rev].state]
  <2>1. task' \in [Threads -> Task]
    BY <1>8 DEF RecordReport, TypeOK, Task
  <2>2. events' \in [Rules -> Nat]
    BY <1>8, LogType DEF RecordReport, LogReport, Log
  <2>3. task[t].rev \in DOMAIN revs
    BY <1>8 DEF RecordReport, TasksInv
  <2>4. run \in Run
    BY <2>3, Tables DEF Run, TypeOK, Task, Revision
  <2>5. runs' = Append(runs, run) /\ runs \in Seq(Run)
    BY <1>8 DEF RecordReport, TypeOK
  <2> HIDE DEF run
  <2>6. runs' \in Seq(Run)
    BY <2>4, <2>5, AppendProperties
  <2> QED
    BY <1>8, <2>1, <2>2, <2>6 DEF RecordReport, TypeOK, deployment
<1> QED
  BY <1>1, <1>2, <1>3, <1>5, <1>6, <1>7, <1>8 DEF Validates

LEMMA TypeStarts == Init => TypeOK
<1> SUFFICES ASSUME Init PROVE TypeOK
  OBVIOUS
<1>1. NoRow \in Row /\ IdleTask \in Task /\ NoPage \in Page
  BY DEF NoRow, Row, IdleTask, Task, NoPage, Page, None, ReportStatus, RevisionStates
<1>2. DOMAIN claims \subseteq 1..Slots /\ claims \in [DOMAIN claims -> ClaimRow]
  BY DEF Init
<1>3. /\ rule \in [Rules -> Row] /\ task \in [Threads -> Task]
      /\ page \in [Actors -> [Rules -> Page]] /\ events \in [Rules -> Nat]
  BY <1>1 DEF Init
<1>4. revs \in Seq(Revision) /\ runs \in Seq(Run) /\ reviews \in Seq(ReviewRow)
  BY DEF Init
<1> QED
  BY <1>2, <1>3, <1>4 DEF Init, TypeOK

LEMMA TypeGoesOn ==
  ASSUME TypeOK, RowsInv, TasksInv, [Next]_vars
  PROVE  TypeOK'
<1>1. CASE \E a \in Actors, r \in Rules : Works(a, r, page[a][r])
  BY <1>1, TypeWorks, PageKnown
<1>2. CASE \E a \in Actors, r \in Rules, c \in Contents : Create(a, r, c)
  BY <1>2, TypeCreate
<1>3. CASE \E a \in Actors, r \in Rules : Load(a, r)
  <2>1. PICK a \in Actors, r \in Rules : Load(a, r)
    BY <1>3
  <2>2. page' \in [Actors -> [Rules -> Page]]
    BY <2>1, ViewType DEF Load, TypeOK, Managed
  <2> QED
    BY <2>1, <2>2 DEF Load, TypeOK, deployment, validating
<1>4. CASE \E r \in Rules : LegacyStep(r)
  <2>1. PICK r \in Rules : LegacyStep(r)
    BY <1>4
  <2>2. ASSUME NEW c \in Contents, LegacyInsert(r, c) \/ LegacyUpdate(r, c)
        PROVE  rule' \in [Rules -> Row]
    <3>1. /\ [rule[r] EXCEPT !.status = "legacy", !.content = c] \in Row
          /\ [rule[r] EXCEPT !.content = c] \in Row
      BY DEF TypeOK, Row
    <3> QED
      BY <2>2, <3>1 DEF LegacyInsert, LegacyUpdate, TypeOK
  <2>3. ASSUME LegacyDelete(r) PROVE rule' \in [Rules -> Row]
    <3>1. [rule[r] EXCEPT !.status = "deleted"] \in Row
      BY DEF TypeOK, Row
    <3> QED
      BY <2>3, <3>1 DEF LegacyDelete, TypeOK
  <2> QED
    BY <2>1, <2>2, <2>3
       DEF LegacyStep, LegacyInsert, LegacyUpdate, LegacyDelete, TypeOK, deployment, validating
<1>5. CASE \E u \in Humans : ChangeRole(u)
  BY <1>5 DEF ChangeRole, TypeOK, deployment, validating
<1>6. CASE \E flag \in BOOLEAN, v \in Policies : Restart(flag, v)
  BY <1>6, TypeRestart
<1>7. CASE \E t \in Threads : Validates(t)
  BY <1>7, TypeValidates
<1>8. CASE Tick
  BY <1>8 DEF Tick, TypeOK, deployment
<1>9. CASE UNCHANGED vars
  BY <1>9 DEF vars, TypeOK
<1> QED
  BY <1>1, <1>2, <1>3, <1>4, <1>5, <1>6, <1>7, <1>8, <1>9, StepCases

-----------------------------------------------------------------------------
(* The rows are sound.                                                     *)

LEMMA RowsStart == Init => RowsInv /\ TasksInv
<1> SUFFICES ASSUME Init PROVE RowsInv /\ TasksInv
  OBVIOUS
<1>1. \A r \in Rules : RowFor(r)
  BY DEF Init, RowFor, NoRow, Managed, None
<1>2. DOMAIN revs = {} /\ DOMAIN runs = {}
  BY DEF Init
<1>3. \A t \in Threads : task[t].pc = "idle"
  BY DEF Init, IdleTask
<1> QED
  BY <1>1, <1>2, <1>3 DEF Init, RowsInv, TasksInv

\* Rows of other rules, and revisions of other rules, are left alone.
LEMMA RowsOfOthers ==
  ASSUME TypeOK, RowsInv, NEW r \in Rules, Evolves(r), NEW q \in Rules, q # r
  PROVE  RowFor(q)' /\ rule'[q] = rule[q] /\ events'[q] = events[q]
<1>1. rule'[q] = rule[q] /\ events'[q] = events[q]
  BY DEF Evolves, Settles, Extends, Bumps, TypeOK
<1>2. rule[r].working \in DOMAIN revs /\ revs[rule[r].working].rule = r
  BY WorkingKnown DEF Evolves
<1>3. \A n \in DOMAIN revs : n \in DOMAIN revs' /\ revs'[n].rule = revs[n].rule
  BY Tables, LenProperties DEF Evolves, Settles, Extends, Kept
<1>4. \A n \in RevsOf(q) : n \in RevsOf(q)' /\ revs'[n] = revs[n]
  BY <1>2, <1>3 DEF RevsOf, Evolves, Kept
<1>5. RowFor(q)
  BY DEF RowsInv
<1> QED
  BY <1>1, <1>4, <1>5 DEF RowFor, Managed, Evolves, deployment

LEMMA RowOfIts ==
  ASSUME TypeOK, RowsInv, NEW r \in Rules, Evolves(r)
  PROVE  RowFor(r)' /\ rule'[r].working >= rule[r].working
<1> DEFINE w == rule[r].working
           pub == rule[r].published
<1>1. /\ Managed(r) /\ rule[r] \in Row /\ w \in DOMAIN revs /\ revs[w].rule = r
      /\ RowFor(r) /\ rule \in [Rules -> Row] /\ enabled /\ activated
      /\ w \in Nat /\ pub \in Nat /\ rule[r].version \in Nat
  BY WorkingKnown DEF Evolves, RowsInv, Row
<1>2. \A n \in DOMAIN revs : n \in DOMAIN revs' /\ revs'[n].rule = revs[n].rule
  BY Tables, LenProperties DEF Evolves, Settles, Extends, Kept
<1>3. Len(revs) \in Nat /\ DOMAIN revs = 1..Len(revs) /\ DOMAIN revs' = 1..Len(revs')
  BY Tables, LenProperties DEF Evolves
<1>4. pub # None => /\ pub \in RevsOf(r)' /\ pub <= w /\ revs'[pub].state \in Public
  BY <1>1, <1>2 DEF RowFor, RevsOf, Evolves, Kept, Public, Frozen
<1>5. PICK row \in Row : Settles(r, row) \/ Extends(r, row)
  BY DEF Evolves
<1>6. rule'[r] = row /\ row.version = rule[r].version + 1 /\ row.status = "managed"
  BY <1>1, <1>5 DEF Settles, Extends, Bumps
<1>7. activated'
  BY <1>1 DEF Evolves, deployment
<1>8. CASE Settles(r, row)
  <2>1. row.working = w /\ w \in RevsOf(r)'
    BY <1>1, <1>2, <1>8 DEF Settles, RevsOf
  <2>2. row.published = pub \/ (row.published = w /\ revs'[w].state = "published")
    BY <1>8 DEF Settles
  <2> QED
    BY <1>1, <1>4, <1>6, <1>7, <2>1, <2>2 DEF RowFor, Managed, Public
<1>9. CASE Extends(r, row)
  <2>1. row.working = Len(revs) + 1 /\ row.working \in RevsOf(r)' /\ row.published = pub
    BY <1>3, <1>9 DEF Extends, RevsOf
  <2>2. w <= row.working
    BY <1>1, <1>3, <2>1
  <2> QED
    BY <1>1, <1>3, <1>4, <1>6, <1>7, <2>1, <2>2 DEF RowFor, Managed
<1> QED
  BY <1>5, <1>8, <1>9

LEMMA RowsWork ==
  ASSUME TypeOK, RowsInv, NEW r \in Rules, Evolves(r)
  PROVE  RowsInv'
<1>1. \A q \in Rules : RowFor(q)'
  BY RowsOfOthers, RowOfIts
<1>2. enabled' => activated'
  BY DEF Evolves, deployment, RowsInv
<1>3. ASSUME NEW n \in DOMAIN revs'
      PROVE  /\ rule'[revs'[n].rule].status = "managed"
             /\ revs'[n].state \in Frozen => rule'[revs'[n].rule].working = n
  <2>1. /\ Managed(r) /\ rule \in [Rules -> Row] /\ rule[r].working \in DOMAIN revs
        /\ Len(revs) \in Nat /\ DOMAIN revs = 1..Len(revs) /\ DOMAIN revs' = 1..Len(revs')
    BY WorkingKnown, Tables, LenProperties DEF Evolves
  <2>2. PICK row \in Row : Settles(r, row) \/ Extends(r, row)
    BY DEF Evolves
  <2>3. rule'[r] = row /\ Managed(r)' /\ \A q \in Rules : q # r => rule'[q] = rule[q]
    BY <2>1, <2>2 DEF Settles, Extends, Bumps, Managed
  <2>4. CASE n \in DOMAIN revs
    <3>1. revs'[n].rule = revs[n].rule /\ Managed(revs[n].rule) /\ revs[n].rule \in Rules
      BY <2>4, Tables DEF Evolves, Kept, RowsInv, Revision
    <3>2. CASE revs[n].rule # r
      <4>1. revs'[n] = revs[n]
        BY <2>4, <3>2, WorkingKnown DEF Evolves, Kept
      <4> QED
        BY <2>3, <2>4, <3>1, <3>2, <4>1 DEF RowsInv, Managed
    <3>3. CASE revs[n].rule = r
      <4>1. ASSUME revs'[n].state \in Frozen PROVE n = rule[r].working
        BY <2>4, <3>3, <4>1 DEF Evolves, Kept, RowsInv
      <4>2. revs'[n].state \in Frozen => row.working = n
        <5>1. CASE Settles(r, row)
          BY <4>1, <5>1 DEF Settles
        <5>2. CASE Extends(r, row)
          BY <4>1, <5>2 DEF Extends
        <5> QED
          BY <2>2, <5>1, <5>2
      <4> QED
        BY <2>3, <3>1, <3>3, <4>2 DEF Managed
    <3> QED
      BY <3>2, <3>3
  <2>5. CASE n \notin DOMAIN revs
    <3>1. n = Len(revs) + 1 /\ revs'[n].rule = r /\ revs'[n].state = "draft"
      <4>1. CASE Settles(r, row)
        BY <2>1, <2>5, <4>1 DEF Settles
      <4>2. CASE Extends(r, row)
        <5>1. n = Len(revs) + 1
          BY <2>1, <2>5, <4>2 DEF Extends
        <5> QED
          BY <4>2, <5>1 DEF Extends
      <4> QED
        BY <2>2, <4>1, <4>2
    <3> QED
      BY <2>3, <3>1 DEF Frozen, Managed
  <2> QED
    BY <2>4, <2>5
<1> QED
  BY <1>1, <1>2, <1>3 DEF RowsInv, Managed

\* A rule is created with its first draft.
LEMMA Created ==
  ASSUME TypeOK, NEW a \in Actors, NEW r \in Rules, NEW c \in Contents, Create(a, r, c)
  PROVE  /\ rule[r].status = "unused" /\ enabled
         /\ revs' \in Seq(Revision) /\ DOMAIN revs' = DOMAIN revs \cup {Len(revs) + 1}
         /\ Len(revs) + 1 \notin DOMAIN revs /\ Len(revs) + 1 \in Nat
         /\ \A n \in DOMAIN revs : revs'[n] = revs[n]
         /\ revs'[Len(revs) + 1] = Draft(r, c, None, a)
         /\ \A q \in Rules : q # r => rule'[q] = rule[q] /\ events'[q] = events[q]
         /\ rule'[r] = [NoRow EXCEPT !.status = "managed", !.working = Len(revs) + 1]
         /\ events'[r] = events[r] + 1
<1> DEFINE draft == Draft(r, c, None, a)
<1>1. draft \in Revision
  BY DEF Draft, Revision, RevisionStates, None
<1>2. revs \in Seq(Revision) /\ revs' = Append(revs, draft)
  BY DEF Create, TypeOK
<1>3. /\ revs' \in Seq(Revision) /\ Len(revs') = Len(revs) + 1 /\ Len(revs) \in Nat
      /\ DOMAIN revs = 1..Len(revs) /\ DOMAIN revs' = 1..Len(revs')
      /\ \A m \in DOMAIN revs : revs'[m] = revs[m]
      /\ revs'[Len(revs) + 1] = draft
  <2> HIDE DEF draft
  <2> QED
    BY <1>1, <1>2, Appended
<1>4. DOMAIN revs' = DOMAIN revs \cup {Len(revs) + 1} /\ Len(revs) + 1 \notin DOMAIN revs
  BY <1>3
<1>5. /\ \A q \in Rules : q # r => rule'[q] = rule[q] /\ events'[q] = events[q]
      /\ rule'[r] = [NoRow EXCEPT !.status = "managed", !.working = Len(revs) + 1]
      /\ events'[r] = events[r] + 1
  BY DEF Create, Log, TypeOK
<1>6. rule[r].status = "unused" /\ enabled
  BY DEF Create
<1> QED
  BY <1>3, <1>4, <1>5, <1>6

LEMMA RowsCreate ==
  ASSUME TypeOK, RowsInv, NEW a \in Actors, NEW r \in Rules, NEW c \in Contents,
         Create(a, r, c)
  PROVE  RowsInv'
<1>1. enabled' = enabled /\ activated' = activated /\ enabled /\ activated
  BY DEF Create, deployment, RowsInv
<1>2. ASSUME NEW q \in Rules, q # r PROVE RowFor(q)'
  <2>1. rule'[q] = rule[q] /\ events'[q] = events[q] /\ RowFor(q)
    BY <1>2, Created DEF RowsInv
  <2>2. \A n \in RevsOf(q) : n \in RevsOf(q)' /\ revs'[n] = revs[n]
    BY Created DEF RevsOf
  <2> QED
    BY <1>1, <2>1, <2>2 DEF RowFor, Managed
<1>0. /\ revs'[Len(revs) + 1] = Draft(r, c, None, a)
      /\ Len(revs) + 1 \in DOMAIN revs'
  BY Created
<1>7. revs'[Len(revs) + 1].rule = r /\ revs'[Len(revs) + 1].state = "draft"
  BY <1>0 DEF Draft
<1>3. /\ rule'[r].status = "managed" /\ rule'[r].working = Len(revs) + 1
      /\ rule'[r].published = None /\ rule'[r].version = 1
  BY Created DEF NoRow
<1>4. RowFor(r)'
  <2>1. Len(revs) + 1 \in RevsOf(r)'
    BY <1>0, <1>7 DEF RevsOf
  <2> QED
    BY <1>1, <1>3, <2>1 DEF RowFor, Managed
<1>5. ASSUME NEW n \in DOMAIN revs'
      PROVE  /\ rule'[revs'[n].rule].status = "managed"
             /\ revs'[n].state \in Frozen => rule'[revs'[n].rule].working = n
  <2>1. CASE n \in DOMAIN revs
    <3>1. revs'[n] = revs[n] /\ Managed(revs[n].rule) /\ revs[n].rule \in Rules
      BY <2>1, Created, Tables DEF RowsInv, Revision
    <3>2. revs[n].rule # r
      BY <3>1, Created DEF Managed
    <3>3. rule'[revs[n].rule] = rule[revs[n].rule]
      BY <3>1, <3>2, Created
    <3> QED
      BY <2>1, <3>1, <3>3 DEF RowsInv, Managed
  <2>2. CASE n = Len(revs) + 1
    BY <1>3, <1>7, <2>2 DEF Frozen
  <2> QED
    BY <2>1, <2>2, Created
<1>6. \A q \in Rules : RowFor(q)'
  BY <1>2, <1>4
<1> QED
  BY <1>1, <1>5, <1>6 DEF RowsInv, Managed

\* What the legacy catalog may change: rules that are not managed yet.
LEMMA LegacyRows ==
  ASSUME TypeOK, RowsInv, NEW r \in Rules, LegacyStep(r)
  PROVE  /\ \A q \in Rules : q # r => rule'[q] = rule[q]
         /\ rule[r].status # "managed" /\ rule'[r].status # "managed"
         /\ \/ rule'[r].status = "legacy" /\ rule'[r].content \in Contents
            \/ rule'[r].status = "deleted"
         /\ rule'[r].published = rule[r].published /\ rule'[r].working = rule[r].working
         /\ rule'[r].archived = rule[r].archived /\ rule'[r].version = rule[r].version
         /\ UNCHANGED <<deployment, validating, admins, revs, runs, reviews, events, page>>
<1>1. rule[r] \in Row /\ rule \in [Rules -> Row]
  BY DEF TypeOK
<1>2. rule[r].status # "managed"
  <2>1. ~activated
    BY DEF LegacyStep, LegacyInsert, LegacyUpdate, LegacyDelete, LegacyWritable
  <2> QED
    BY <2>1 DEF RowsInv, RowFor, Managed
<1>3. CASE \E c \in Contents : LegacyInsert(r, c)
  BY <1>1, <1>2, <1>3 DEF LegacyInsert, Row
<1>4. CASE \E c \in Contents : LegacyUpdate(r, c)
  BY <1>1, <1>2, <1>4 DEF LegacyUpdate, InTable, Row
<1>5. CASE LegacyDelete(r)
  BY <1>1, <1>2, <1>5 DEF LegacyDelete, Row
<1> QED
  BY <1>3, <1>4, <1>5 DEF LegacyStep

LEMMA RowsLegacy ==
  ASSUME TypeOK, RowsInv, NEW r \in Rules, LegacyStep(r)
  PROVE  RowsInv'
<1>1. revs' = revs /\ events' = events /\ enabled' = enabled /\ activated' = activated
  BY LegacyRows DEF deployment
<1>2. ASSUME NEW q \in Rules PROVE RowFor(q)'
  <2>1. CASE q # r
    BY <1>1, <2>1, LegacyRows DEF RowsInv, RowFor, Managed, RevsOf
  <2>2. CASE q = r
    BY <1>1, <2>2, LegacyRows DEF RowsInv, RowFor, Managed
  <2> QED
    BY <2>1, <2>2
<1>3. ASSUME NEW n \in DOMAIN revs
      PROVE  rule'[revs[n].rule] = rule[revs[n].rule]
  <2>1. Managed(revs[n].rule) /\ revs[n].rule \in Rules
    BY Tables DEF RowsInv, Revision
  <2> QED
    BY <2>1, LegacyRows DEF Managed
<1> QED
  BY <1>1, <1>2, <1>3 DEF RowsInv, Managed

LEMMA RowsRestart ==
  ASSUME TypeOK, RowsInv, NEW flag \in BOOLEAN, NEW v \in Policies, Restart(flag, v)
  PROVE  RowsInv' /\ DOMAIN revs \subseteq DOMAIN revs'
<1>1. CASE flag
  <2>1. Manage /\ events' = events
    BY <1>1 DEF Restart
  <2>2. /\ activated' = TRUE /\ DOMAIN revs \subseteq DOMAIN revs'
        /\ \A n \in DOMAIN revs : revs'[n] = revs[n]
        /\ revs' \in Seq(Revision)
        /\ \A r \in Rules \ Taken : rule'[r] = rule[r]
    BY <2>1, ManageTakesOver
  <2>3. ASSUME NEW r \in Rules PROVE RowFor(r)'
    <3>1. RowFor(r)
      BY DEF RowsInv
    <3>2. CASE r \notin Taken
      <4>1. rule'[r] = rule[r]
        BY <2>2, <3>2
      <4>2. \A n \in RevsOf(r) : n \in RevsOf(r)' /\ revs'[n] = revs[n]
        BY <2>2 DEF RevsOf
      <4> QED
        BY <2>1, <2>2, <3>1, <4>1, <4>2 DEF RowFor, Managed
    <3>3. CASE r \in Taken
      <4>1. PICK n \in DOMAIN revs' \ DOMAIN revs :
              /\ revs'[n].rule = r
              /\ rule'[r] = [rule[r] EXCEPT !.status = "managed", !.working = n,
                                            !.published = n]
        BY <2>1, <3>3, ManageTakesOver
      <4>2. revs'[n].state = "legacy_unreviewed"
        BY <2>1, ManageTakesOver
      <4>3. n \in Nat /\ n \in RevsOf(r)'
        BY <2>2, <4>1, LenProperties DEF RevsOf
      <4>4. /\ rule'[r].status = "managed" /\ rule'[r].working = n
            /\ rule'[r].published = n /\ rule'[r].version = rule[r].version
        <5>1. rule[r] \in Row
          BY DEF TypeOK
        <5> QED
          BY <4>1, <5>1 DEF Row
      <4> QED
        BY <2>2, <3>1, <4>2, <4>3, <4>4 DEF RowFor, Managed, Public
    <3> QED
      BY <3>2, <3>3
  <2>4. ASSUME NEW n \in DOMAIN revs'
        PROVE  /\ rule'[revs'[n].rule].status = "managed"
               /\ revs'[n].state \in Frozen => rule'[revs'[n].rule].working = n
    <3>1. CASE n \in DOMAIN revs
      <4>1. /\ revs'[n] = revs[n] /\ Managed(revs[n].rule) /\ revs[n].rule \in Rules
        BY <2>2, <3>1, Tables DEF RowsInv, Revision
      <4>2. rule'[revs[n].rule] = rule[revs[n].rule]
        BY <2>2, <4>1 DEF Managed, Taken
      <4> QED
        BY <3>1, <4>1, <4>2 DEF RowsInv, Managed
    <3>2. CASE n \notin DOMAIN revs
      <4>1. /\ revs'[n].rule \in Taken /\ revs'[n].state = "legacy_unreviewed"
        BY <2>1, <3>2, ManageTakesOver
      <4>2. rule[revs'[n].rule] \in Row
        BY <4>1 DEF Taken, TypeOK
      <4>3. rule'[revs'[n].rule].status = "managed"
        <5>1. PICK m \in DOMAIN revs' :
                rule'[revs'[n].rule] = [rule[revs'[n].rule] EXCEPT
                   !.status = "managed", !.working = m, !.published = m]
          BY <2>1, <4>1, ManageTakesOver
        <5> QED
          BY <4>2, <5>1 DEF Row
      <4> QED
        BY <4>1, <4>3 DEF Frozen
    <3> QED
      BY <3>1, <3>2
  <2> QED
    BY <2>2, <2>3, <2>4 DEF RowsInv, Managed
<1>2. CASE ~flag
  <2>1. rule' = rule /\ revs' = revs /\ activated' = activated /\ ~enabled' /\ events' = events
    BY <1>2 DEF Restart
  <2> QED
    BY <2>1 DEF RowsInv, RowFor, Managed, RevsOf
<1> QED
  BY <1>1, <1>2

\* Steps of validation leave rules and revisions alone; a report has an event.
LEMMA ValidatesEffect ==
  ASSUME TypeOK, TasksInv, RowsInv, NEW t \in Threads, Validates(t)
  PROVE  /\ UNCHANGED <<deployment, admins, rule, revs, reviews, page, clock>>
         /\ \A q \in Threads : q # t => task'[q] = task[q]
         /\ ~RecordReport(t) => UNCHANGED <<events, runs>>
         /\ RecordReport(t) =>
              /\ task[t].rev \in DOMAIN revs
              /\ Managed(revs[task[t].rev].rule)
              /\ events' = [events EXCEPT ![revs[task[t].rev].rule] = @ + 1]
<1>1. UNCHANGED <<deployment, admins, rule, revs, reviews, page, clock>>
  BY DEF Validates, Begins, BeginValidation, ValidatorEnds, RecordReport, LoseReport,
         GiveBack, OrphanEnds, Die
<1>2. \A q \in Threads : q # t => task'[q] = task[q]
  BY DEF Validates, Begins, BeginValidation, ValidatorEnds, RecordReport, LoseReport,
         GiveBack, OrphanEnds, Die, TypeOK
<1>3. ~RecordReport(t) => UNCHANGED <<events, runs>>
  BY DEF Validates, Begins, BeginValidation, ValidatorEnds, LoseReport,
         GiveBack, OrphanEnds, Die
<1>4. RecordReport(t) =>
        /\ task[t].rev \in DOMAIN revs
        /\ Managed(revs[task[t].rev].rule)
        /\ events' = [events EXCEPT ![revs[task[t].rev].rule] = @ + 1]
  BY DEF RecordReport, LogReport, Log, TasksInv, RowsInv
<1> QED
  BY <1>1, <1>2, <1>3, <1>4

LEMMA RowsGoOn ==
  ASSUME TypeOK, RowsInv, TasksInv, [Next]_vars
  PROVE  RowsInv'
<1>1. CASE \E a \in Actors, r \in Rules : Works(a, r, page[a][r])
  BY <1>1, RowsWork, WorksEvolve, PageKnown
<1>2. CASE \E a \in Actors, r \in Rules, c \in Contents : Create(a, r, c)
  BY <1>2, RowsCreate
<1>3. CASE \E r \in Rules : LegacyStep(r)
  BY <1>3, RowsLegacy
<1>4. CASE \E flag \in BOOLEAN, v \in Policies : Restart(flag, v)
  BY <1>4, RowsRestart
<1>5. CASE \E t \in Threads : Validates(t)
  <2>1. PICK t \in Threads : Validates(t)
    BY <1>5
  <2>2. rule' = rule /\ revs' = revs /\ enabled' = enabled /\ activated' = activated
    BY <2>1, ValidatesEffect DEF deployment
  <2>3. ASSUME NEW r \in Rules, ~Managed(r) PROVE events'[r] = events[r]
    BY <2>1, <2>3, ValidatesEffect DEF TypeOK
  <2> QED
    BY <2>2, <2>3 DEF RowsInv, RowFor, Managed, RevsOf
<1>6. CASE \/ \E a \in Actors, r \in Rules : Load(a, r)
           \/ \E u \in Humans : ChangeRole(u)
           \/ Tick \/ UNCHANGED vars
  <2>1. /\ rule' = rule /\ revs' = revs /\ enabled' = enabled /\ activated' = activated
        /\ events' = events
    BY <1>6 DEF Load, ChangeRole, Tick, vars, deployment
  <2> QED
    BY <2>1 DEF RowsInv, RowFor, Managed, RevsOf
<1> QED
  BY <1>1, <1>2, <1>3, <1>4, <1>5, <1>6, StepCases

\* Revisions are never removed.
LEMMA RevisionsStay ==
  ASSUME TypeOK, RowsInv, TasksInv, [Next]_vars
  PROVE  /\ DOMAIN revs \subseteq DOMAIN revs'
         /\ \A n \in DOMAIN revs : /\ revs'[n].rule = revs[n].rule
                                   /\ revs'[n].author = revs[n].author
                                   /\ revs'[n].content = revs[n].content
                                   /\ revs[n].state \notin Frozen \cup {"draft"}
                                        => revs'[n] = revs[n]
<1>1. CASE \E a \in Actors, r \in Rules : Works(a, r, page[a][r])
  <2>1. PICK a \in Actors, r \in Rules : Works(a, r, page[a][r])
    BY <1>1
  <2>2. Evolves(r)
    BY <2>1, WorksEvolve, PageKnown
  <2>3. Len(revs') >= Len(revs) /\ DOMAIN revs' = 1..Len(revs')
    BY <2>2, Tables, LenProperties DEF Evolves, Settles, Extends
  <2> QED
    BY <2>2, <2>3, Tables DEF Evolves, Kept
<1>2. CASE \E a \in Actors, r \in Rules, c \in Contents : Create(a, r, c)
  BY <1>2, Created
<1>3. CASE \E r \in Rules : LegacyStep(r)
  BY <1>3, LegacyRows
<1>4. CASE \E flag \in BOOLEAN, v \in Policies : Restart(flag, v)
  BY <1>4, ManageTakesOver DEF Restart
<1>5. CASE \E t \in Threads : Validates(t)
  BY <1>5, ValidatesEffect
<1>6. CASE \/ \E a \in Actors, r \in Rules : Load(a, r)
           \/ \E u \in Humans : ChangeRole(u)
           \/ Tick \/ UNCHANGED vars
  BY <1>6 DEF Load, ChangeRole, Tick, vars
<1> QED
  BY <1>1, <1>2, <1>3, <1>4, <1>5, <1>6, StepCases

\* Reports are only added, by a thread that has validated.
LEMMA ReportsGrow ==
  ASSUME TypeOK, RowsInv, TasksInv, [Next]_vars
  PROVE  \/ runs' = runs
         \/ \E t \in Threads : RecordReport(t)
<1>1. CASE \E t \in Threads : Validates(t)
  BY <1>1, ValidatesEffect
<1>2. CASE \E a \in Actors, r \in Rules : Works(a, r, page[a][r])
  BY <1>2, WorksEvolve, PageKnown DEF Evolves
<1>3. CASE \E r \in Rules : LegacyStep(r)
  BY <1>3, LegacyRows
<1> QED
  BY <1>1, <1>2, <1>3, StepCases DEF Create, Load, ChangeRole, Restart, Tick, vars

LEMMA ReportRecorded ==
  ASSUME TypeOK, TasksInv, NEW t \in Threads, RecordReport(t)
  PROVE  /\ DOMAIN runs' = DOMAIN runs \cup {Len(runs) + 1} /\ Len(runs) \in Nat
         /\ Len(runs) + 1 \notin DOMAIN runs /\ DOMAIN runs = 1..Len(runs)
         /\ \A i \in DOMAIN runs : runs'[i] = runs[i]
         /\ runs'[Len(runs) + 1].rev = task[t].rev
         /\ runs'[Len(runs) + 1].status = task[t].status
<1> DEFINE run == [rev |-> task[t].rev, policy |-> policy, status |-> task[t].status,
                   at |-> revs[task[t].rev].state]
<1>1. task[t].rev \in DOMAIN revs
  BY DEF RecordReport, TasksInv
<1>2. run \in Run
  BY <1>1, Tables DEF Run, TypeOK, Task, Revision
<1>3. runs' = Append(runs, run) /\ runs \in Seq(Run)
  BY DEF RecordReport, TypeOK
<1>4. run.rev = task[t].rev /\ run.status = task[t].status
  OBVIOUS
<1> HIDE DEF run
<1>5. /\ runs' \in Seq(Run) /\ Len(runs') = Len(runs) + 1
      /\ \A i \in 1..Len(runs) : runs'[i] = runs[i]
      /\ runs'[Len(runs) + 1] = run
  BY <1>2, <1>3, AppendProperties
<1>6. Len(runs) \in Nat /\ DOMAIN runs = 1..Len(runs) /\ DOMAIN runs' = 1..Len(runs')
  BY <1>5, Tables, LenProperties
<1> QED
  BY <1>4, <1>5, <1>6

LEMMA TasksGoOn ==
  ASSUME TypeOK, RowsInv, TasksInv, [Next]_vars
  PROVE  TasksInv'
<1>1. ASSUME NEW i \in DOMAIN runs' PROVE runs'[i].rev \in DOMAIN revs'
  <2>1. CASE runs' = runs
    BY <2>1, RevisionsStay DEF TasksInv
  <2>2. CASE \E t \in Threads : RecordReport(t)
    <3>1. PICK t \in Threads : RecordReport(t)
      BY <2>2
    <3>2. task[t].rev \in DOMAIN revs
      BY <3>1 DEF RecordReport, TasksInv
    <3> QED
      BY <3>1, <3>2, ReportRecorded, RevisionsStay DEF TasksInv
  <2> QED
    BY <2>1, <2>2, ReportsGrow
<1>2. ASSUME NEW t \in Threads, task'[t].pc # "idle"
      PROVE  task'[t].rev \in DOMAIN revs'
  <2>1. SUFFICES \/ task[t].pc # "idle" /\ task'[t].rev = task[t].rev
                 \/ task'[t].rev \in DOMAIN revs
    BY RevisionsStay DEF TasksInv
  <2>2. CASE task'[t] = task[t]
    BY <1>2, <2>2
  <2>3. CASE \E flag \in BOOLEAN, v \in Policies : Restart(flag, v)
    <3>1. task'[t] = IF task[t].pc \in {"running", "orphan"}
                     THEN [task[t] EXCEPT !.pc = "orphan"] ELSE IdleTask
      BY <2>3 DEF Restart
    <3>2. task[t] \in Task /\ IdleTask.pc = "idle"
      BY DEF TypeOK, IdleTask
    <3> QED
      BY <1>2, <3>1, <3>2 DEF Task
  <2>4. CASE Validates(t)
    <3>1. task[t] \in Task /\ IdleTask.pc = "idle" /\ task \in [Threads -> Task]
      BY DEF TypeOK, IdleTask
    <3>2. CASE Begins(t)
      <4>1. PICK a \in Actors, r \in Rules :
              \E n \in RevsOf(r) : BeginValidation(t, r, page[a][r], n)
        BY <3>2 DEF Begins
      <4>2. PICK n \in RevsOf(r) : BeginValidation(t, r, page[a][r], n)
        BY <4>1
      <4>3. task'[t].rev = n
        BY <3>1, <4>2 DEF BeginValidation, IdleTask
      <4> QED
        BY <4>3 DEF RevsOf
    <3>3. CASE \E status \in ReportStatus : ValidatorEnds(t, status)
      BY <3>1, <3>3 DEF ValidatorEnds, Task
    <3>4. CASE RecordReport(t) \/ LoseReport(t)
      BY <3>1, <3>4 DEF RecordReport, LoseReport, Task
    <3>5. CASE GiveBack(t) \/ OrphanEnds(t)
      BY <1>2, <3>1, <3>5 DEF GiveBack, OrphanEnds
    <3>6. CASE Die(t)
      <4>1. task'[t] = IF task[t].pc = "running" THEN [task[t] EXCEPT !.pc = "orphan"]
                                                 ELSE IdleTask
        BY <3>1, <3>6 DEF Die
      <4> QED
        BY <1>2, <3>1, <4>1 DEF Task
    <3> QED
      BY <2>4, <3>2, <3>3, <3>4, <3>5, <3>6 DEF Validates
  <2>5. CASE \E q \in Threads : q # t /\ Validates(q)
    BY <2>2, <2>5, ValidatesEffect
  <2>6. CASE \E a \in Actors, r \in Rules : Works(a, r, page[a][r])
    BY <2>2, <2>6, WorksEvolve, PageKnown DEF Evolves, validating
  <2>7. CASE \E r \in Rules : LegacyStep(r)
    BY <2>2, <2>7, LegacyRows DEF validating
  <2> QED
    BY <2>2, <2>3, <2>4, <2>5, <2>6, <2>7, StepCases
       DEF Create, Load, ChangeRole, Tick, vars, validating
<1> QED
  BY <1>1, <1>2 DEF TasksInv

\* The inductive invariant that everything else about rules rests on.
CoreInv == TypeOK /\ RowsInv /\ TasksInv

LEMMA CoreStarts == Init => CoreInv
BY TypeStarts, RowsStart DEF CoreInv

LEMMA CoreGoesOn ==
  ASSUME CoreInv, [Next]_vars
  PROVE  CoreInv'
BY TypeGoesOn, RowsGoOn, TasksGoOn DEF CoreInv

-----------------------------------------------------------------------------
(* Columns mirror the published revision.                                  *)

MirrorFor(r) ==
  Managed(r) =>
    IF rule[r].published = None THEN rule[r].content = Blank
    ELSE /\ rule[r].published \in RevsOf(r)
         /\ rule[r].content = revs[rule[r].published].content

LEMMA MirrorParts == MirrorsPublished <=> \A r \in Rules : MirrorFor(r)
BY DEF MirrorsPublished, MirrorFor, Managed

LEMMA MirrorIfKept ==
  ASSUME CoreInv, [Next]_vars, NEW r \in Rules, MirrorFor(r),
         rule'[r].status = rule[r].status, rule'[r].published = rule[r].published,
         rule'[r].content = rule[r].content
  PROVE  MirrorFor(r)'
<1>1. \A n \in RevsOf(r) : n \in RevsOf(r)' /\ revs'[n].content = revs[n].content
  BY RevisionsStay DEF CoreInv, RevsOf
<1> QED
  BY <1>1 DEF MirrorFor, Managed

LEMMA MirrorGoesOn ==
  ASSUME CoreInv, [Next]_vars, NEW r \in Rules, MirrorFor(r)
  PROVE  MirrorFor(r)'
<1>1. CASE \E a \in Actors, q \in Rules : Works(a, q, page[a][q])
  <2>1. PICK a \in Actors, q \in Rules : Works(a, q, page[a][q])
    BY <1>1
  <2>2. Evolves(q)
    BY <2>1, WorksEvolve, PageKnown DEF CoreInv
  <2>3. CASE q # r
    <3>1. rule'[r] = rule[r]
      BY <2>2, <2>3, RowsOfOthers DEF CoreInv
    <3> QED
      BY <3>1, MirrorIfKept
  <2>4. CASE q = r
    <3>1. PICK row \in Row : Settles(r, row) \/ Extends(r, row)
      BY <2>2, <2>4 DEF Evolves
    <3>2. /\ rule'[r] = row /\ row.status = "managed" /\ rule[r].status = "managed"
          /\ rule[r].working \in DOMAIN revs /\ revs[rule[r].working].rule = r
      BY <2>2, <2>4, <3>1, WorkingKnown
         DEF Evolves, Settles, Extends, Bumps, CoreInv, Managed
    <3>3. CASE row.published = rule[r].published /\ row.content = rule[r].content
      BY <3>2, <3>3, MirrorIfKept
    <3>4. CASE ~(row.published = rule[r].published /\ row.content = rule[r].content)
      <4>1. /\ row.published = rule[r].working
            /\ row.content = revs[rule[r].working].content
        BY <3>1, <3>4 DEF Settles, Extends
      <4>2. rule[r].working # None /\ rule[r].working \in RevsOf(r)'
        BY <3>2, RevisionsStay, Tables DEF CoreInv, None, RevsOf
      <4>3. revs'[rule[r].working].content = revs[rule[r].working].content
        BY <3>2, RevisionsStay DEF CoreInv
      <4> QED
        BY <3>2, <4>1, <4>2, <4>3 DEF MirrorFor
    <3> QED
      BY <3>3, <3>4
  <2> QED
    BY <2>3, <2>4
<1>2. CASE \E a \in Actors, q \in Rules, c \in Contents : Create(a, q, c)
  <2>1. PICK a \in Actors, q \in Rules, c \in Contents : Create(a, q, c)
    BY <1>2
  <2>2. CASE q = r
    <3>1. rule'[r] = [NoRow EXCEPT !.status = "managed", !.working = Len(revs) + 1]
      BY <2>1, <2>2, Created DEF CoreInv
    <3>2. rule'[r].published = None /\ rule'[r].content = Blank
      BY <3>1 DEF NoRow
    <3> QED
      BY <3>2 DEF MirrorFor
  <2>3. CASE q # r
    <3>1. rule'[r] = rule[r]
      BY <2>1, <2>3, Created DEF CoreInv
    <3> QED
      BY <3>1, MirrorIfKept
  <2> QED
    BY <2>2, <2>3
<1>3. CASE \E q \in Rules : LegacyStep(q)
  <2>1. PICK q \in Rules : LegacyStep(q)
    BY <1>3
  <2>2. CASE q = r
    BY <2>1, <2>2, LegacyRows DEF CoreInv, MirrorFor, Managed
  <2>3. CASE q # r
    <3>1. rule'[r] = rule[r]
      BY <2>1, <2>3, LegacyRows DEF CoreInv
    <3> QED
      BY <3>1, MirrorIfKept
  <2> QED
    BY <2>2, <2>3
<1>4. CASE \E flag \in BOOLEAN, v \in Policies : Restart(flag, v)
  <2>1. CASE rule'[r] = rule[r]
    BY <2>1, MirrorIfKept
  <2>2. CASE Manage /\ r \in Taken
    <3>1. PICK n \in DOMAIN revs' \ DOMAIN revs :
            /\ revs'[n].rule = r
            /\ rule'[r] = [rule[r] EXCEPT !.status = "managed", !.working = n,
                                          !.published = n]
      BY <2>2, ManageTakesOver DEF CoreInv
    <3>2. revs'[n].content = rule[r].content
      BY <2>2, <3>1, ManageTakesOver DEF CoreInv
    <3>3. rule'[r].published = n /\ rule'[r].content = rule[r].content
      <4>1. rule[r] \in Row
        BY DEF CoreInv, TypeOK
      <4> QED
        BY <3>1, <4>1 DEF Row
    <3>4. n # None /\ n \in RevsOf(r)'
      <4>1. revs' \in Seq(Revision)
        BY <2>2, ManageTakesOver DEF CoreInv
      <4> QED
        BY <3>1, <4>1, LenProperties DEF None, RevsOf
    <3> QED
      BY <3>2, <3>3, <3>4 DEF MirrorFor
  <2> QED
    BY <1>4, <2>1, <2>2, ManageTakesOver DEF Restart, CoreInv
<1>5. CASE \E t \in Threads : Validates(t)
  <2>1. rule'[r] = rule[r]
    BY <1>5, ValidatesEffect DEF CoreInv
  <2> QED
    BY <2>1, MirrorIfKept
<1>6. CASE \/ \E a \in Actors, q \in Rules : Load(a, q)
           \/ \E u \in Humans : ChangeRole(u)
           \/ Tick \/ UNCHANGED vars
  <2>1. rule' = rule
    BY <1>6 DEF Load, ChangeRole, Tick, vars
  <2> QED
    BY <2>1, MirrorIfKept
<1> QED
  BY <1>1, <1>2, <1>3, <1>4, <1>5, <1>6, StepCases

-----------------------------------------------------------------------------
(* Two persons.                                                            *)

TwoPersonFor(n) ==
  /\ revs[n].submitted \in RunsOf(n)
  /\ runs[revs[n].submitted].status = "valid"
  /\ \E i \in ApprovalsOf(n) :
       /\ reviews[i].run = revs[n].submitted
       /\ reviews[i].reviewer \in Humans \ {revs[n].author}

LEMMA RunsStay ==
  ASSUME CoreInv, [Next]_vars
  PROVE  DOMAIN runs \subseteq DOMAIN runs' /\ \A i \in DOMAIN runs : runs'[i] = runs[i]
BY ReportsGrow, ReportRecorded DEF CoreInv

LEMMA ReviewsStay ==
  ASSUME CoreInv, [Next]_vars
  PROVE  /\ DOMAIN reviews \subseteq DOMAIN reviews'
         /\ \A i \in DOMAIN reviews : reviews'[i] = reviews[i]
<1>1. ASSUME NEW a \in Actors, NEW r \in Rules, NEW d \in {"approved", "rejected"},
             Review(a, r, page[a][r], d)
      PROVE  /\ DOMAIN reviews \subseteq DOMAIN reviews'
             /\ \A i \in DOMAIN reviews : reviews'[i] = reviews[i]
  <2> DEFINE p == page[a][r]
             row == [rev |-> p.working, run |-> revs[p.working].submitted,
                     reviewer |-> a, decision |-> d]
  <2>1. /\ revs[rule[r].working] \in Revision /\ p.working = rule[r].working
        /\ p.working \in Nat
    BY <1>1, WorkingKnown, PageKnown DEF Review, Candidate, Writable, Managed, Page, CoreInv
  <2>2. row \in ReviewRow
    BY <2>1 DEF ReviewRow, Revision
  <2>3. reviews' = Append(reviews, row) /\ reviews \in Seq(ReviewRow)
    BY <1>1 DEF Review, TypeOK, CoreInv
  <2> HIDE DEF row
  <2>4. /\ reviews' \in Seq(ReviewRow) /\ Len(reviews') = Len(reviews) + 1
        /\ \A i \in 1..Len(reviews) : reviews'[i] = reviews[i]
    BY <2>2, <2>3, AppendProperties
  <2>5. Len(reviews) \in Nat /\ DOMAIN reviews = 1..Len(reviews)
        /\ DOMAIN reviews' = 1..Len(reviews')
    BY <2>3, <2>4, LenProperties
  <2> QED
    BY <2>4, <2>5
<1>2. CASE \E a \in Actors, r \in Rules : Works(a, r, page[a][r])
  <2>1. PICK a \in Actors, r \in Rules : Works(a, r, page[a][r])
    BY <1>2
  <2>2. \/ \E d \in {"approved", "rejected"} : Review(a, r, page[a][r], d)
        \/ reviews' = reviews
    BY <2>1 DEF Works, Succeed, Submit, Publish, Withdraw, Rollback, Archive
  <2> QED
    BY <1>1, <2>2
<1>3. CASE \E t \in Threads : Validates(t)
  BY <1>3, ValidatesEffect DEF CoreInv
<1>4. CASE \E r \in Rules : LegacyStep(r)
  BY <1>4, LegacyRows DEF CoreInv
<1> QED
  BY <1>2, <1>3, <1>4, StepCases DEF Create, Load, ChangeRole, Restart, Tick, vars

\* Only a release publishes.
LEMMA PublishedBy ==
  ASSUME CoreInv, NEW a \in Actors, NEW r \in Rules, NEW p \in Page, Works(a, r, p),
         NEW n \in DOMAIN revs', revs'[n].state = "published",
         ~(n \in DOMAIN revs /\ revs[n].state = "published")
  PROVE  Publish(a, r, p) /\ n = rule[r].working /\ n \in DOMAIN revs
<1>1. Evolves(r)
  BY WorksEvolve DEF CoreInv
<1>2. PICK row \in Row : Settles(r, row) \/ Extends(r, row)
  BY <1>1 DEF Evolves
<1>3. /\ Len(revs) \in Nat /\ DOMAIN revs = 1..Len(revs) /\ DOMAIN revs' = 1..Len(revs')
      /\ rule[r].working \in DOMAIN revs /\ revs[rule[r].working] \in Revision
      /\ revs \in Seq(Revision)
  BY <1>1, Tables, LenProperties, WorkingKnown DEF Evolves, CoreInv, TypeOK
<1>4. n \in DOMAIN revs
  <2>1. CASE Settles(r, row)
    BY <1>3, <2>1 DEF Settles
  <2>2. CASE Extends(r, row)
    <3>1. revs'[Len(revs) + 1].state = "draft" /\ Len(revs') = Len(revs) + 1
      BY <2>2 DEF Extends
    <3> QED
      BY <1>3, <3>1
  <2> QED
    BY <1>2, <2>1, <2>2
<1>5. n = rule[r].working /\ revs[n].state \in Frozen \cup {"draft"} /\ revs'[n] # revs[n]
  BY <1>1, <1>4 DEF Evolves, Kept
<1>6. CASE Submit(r, p)
  <2>1. revs'[n].state = "in_review"
    BY <1>3, <1>5, <1>6 DEF Submit, Candidate
  <2> QED
    BY <2>1
<1>7. CASE \E d \in {"approved", "rejected"} : Review(a, r, p, d)
  <2>1. revs'[n].state \in {"approved", "rejected"}
    BY <1>3, <1>5, <1>7 DEF Review, Candidate, InState
  <2> QED
    BY <2>1
<1>8. CASE \/ \E c \in Contents : Succeed(a, r, p, c)
           \/ \E m \in RevsOf(r) : Rollback(a, r, p, m)
  <2>1. PICK c \in Contents, parent \in Nat : AddRevision(revs, r, c, parent, a)
    <3>1. p.working \in Nat /\ rule[r].working \in Nat
      BY <1>3 DEF Page
    <3>2. \A m \in RevsOf(r) : revs[m].content \in Contents
      BY Tables DEF RevsOf, Revision, CoreInv
    <3> QED
      BY <1>8, <3>1, <3>2 DEF Succeed, Rollback
  <2>2. Draft(r, c, parent, a) \in Revision
    BY DEF Draft, Revision, RevisionStates, None
  <2>3. revs'[n] = revs[n]
    BY <1>3, <1>4, <2>1, <2>2, AppendProperties DEF AddRevision
  <2> QED
    BY <1>5, <2>3
<1>9. CASE Withdraw(a, r, p)
  <2> DEFINE rev == [revs[n] EXCEPT !.state = "withdrawn"]
             table == [revs EXCEPT ![n] = rev]
  <2>1. AddRevision(table, r, revs[n].content, n, a)
    BY <1>3, <1>5, <1>9 DEF Withdraw, Candidate, InState
  <2>2. rev \in Revision /\ rev.state = "withdrawn" /\ Draft(r, revs[n].content, n, a) \in Revision
    <3>1. n \in Nat /\ revs[n] \in Revision
      BY <1>3, <1>5
    <3>2. rev \in Revision /\ rev.state = "withdrawn" /\ revs[n].content \in Contents
      BY <3>1 DEF Revision, RevisionStates
    <3>3. Draft(r, revs[n].content, n, a) \in Revision
      BY <3>1, <3>2 DEF Revision, RevisionStates, Draft, None
    <3> QED
      BY <3>2, <3>3
  <2>3. table \in Seq(Revision) /\ Len(table) = Len(revs) /\ table[n] = rev
    BY <1>4, <2>2, Marked DEF CoreInv
  <2>4. revs' = Append(table, Draft(r, revs[n].content, n, a))
    BY <2>1 DEF AddRevision
  <2> HIDE DEF table, rev
  <2>5. revs'[n] = rev
    BY <1>3, <1>4, <2>2, <2>3, <2>4, AppendProperties
  <2> QED
    BY <2>2, <2>5
<1>10. CASE Archive(r, p)
  BY <1>5, <1>10 DEF Archive
<1> QED
  BY <1>4, <1>5, <1>6, <1>7, <1>8, <1>9, <1>10 DEF Works

LEMMA TwoPersonIfKept ==
  ASSUME CoreInv, [Next]_vars, NEW n \in DOMAIN revs, TwoPersonFor(n), revs'[n] = revs[n]
  PROVE  TwoPersonFor(n)'
<1>1. revs[n].submitted \in DOMAIN runs /\ runs[revs[n].submitted].rev = n
  BY DEF TwoPersonFor, RunsOf
<1>2. revs'[n].submitted \in RunsOf(n)' /\ runs'[revs[n].submitted] = runs[revs[n].submitted]
  BY <1>1, RunsStay DEF RunsOf
<1>3. PICK i \in ApprovalsOf(n) : /\ reviews[i].run = revs[n].submitted
                                  /\ reviews[i].reviewer \in Humans \ {revs[n].author}
  BY DEF TwoPersonFor
<1>4. i \in ApprovalsOf(n)' /\ reviews'[i] = reviews[i]
  BY <1>3, ReviewsStay DEF ApprovalsOf
<1> QED
  BY <1>2, <1>3, <1>4 DEF TwoPersonFor

\* A release finds the report and the approval that it has to find.
LEMMA ReleasedByTwo ==
  ASSUME CoreInv, [Next]_vars, NEW a \in Actors, NEW r \in Rules, NEW p \in Page,
         Publish(a, r, p), NEW n, n = rule[r].working
  PROVE  TwoPersonFor(n)'
<1> DEFINE rev == [revs[n] EXCEPT !.state = "published"]
           best == Latest(ApprovalsOf(n))
<1>1. /\ n \in DOMAIN revs /\ revs[n] \in Revision /\ p.working = n
      /\ ValidReport(revs[n].submitted, n) /\ Approved(n)
      /\ runs' = runs /\ reviews' = reviews
  BY WorkingKnown DEF Publish, Candidate, Writable, Managed, CoreInv
<1>2. revs' = [revs EXCEPT ![n] = rev]
  BY <1>1 DEF Publish, InState
<1>3. revs'[n].submitted = revs[n].submitted /\ revs'[n].author = revs[n].author
  BY <1>1, <1>2 DEF Revision
<1>4. best \in ApprovalsOf(n)
  <2>1. /\ ApprovalsOf(n) # {} /\ ApprovalsOf(n) \subseteq Nat
        /\ Len(reviews) \in Nat /\ \A i \in ApprovalsOf(n) : i <= Len(reviews)
    BY <1>1, Tables DEF Approved, ApprovalsOf, CoreInv
  <2> QED
    BY <2>1, GreatestExists
<1>5. /\ reviews[best].run = revs[n].submitted
      /\ reviews[best].reviewer \in Humans \ {revs[n].author}
  BY <1>1 DEF Approved, OtherAdmin, HumanAdmin, CoreInv, TypeOK
<1>6. revs[n].submitted \in RunsOf(n) /\ runs[revs[n].submitted].status = "valid"
  BY <1>1 DEF ValidReport
<1>7. RunsOf(n)' = RunsOf(n) /\ ApprovalsOf(n)' = ApprovalsOf(n)
  BY <1>1 DEF RunsOf, ApprovalsOf
<1> HIDE DEF best
<1> QED
  BY <1>1, <1>3, <1>4, <1>5, <1>6, <1>7 DEF TwoPersonFor

LEMMA TwoPersonGoesOn ==
  ASSUME CoreInv, [Next]_vars, TwoPersonPublication
  PROVE  TwoPersonPublication'
<1> SUFFICES ASSUME NEW n \in DOMAIN revs', revs'[n].state = "published"
             PROVE  TwoPersonFor(n)'
  BY DEF TwoPersonPublication, TwoPersonFor
<1>1. CASE n \in DOMAIN revs /\ revs[n].state = "published"
  <2>1. TwoPersonFor(n)
    BY <1>1 DEF TwoPersonPublication, TwoPersonFor
  <2>2. revs'[n] = revs[n]
    BY <1>1, RevisionsStay DEF CoreInv, Frozen
  <2> QED
    BY <1>1, <2>1, <2>2, TwoPersonIfKept
<1>2. CASE ~(n \in DOMAIN revs /\ revs[n].state = "published")
  <2>1. CASE \E a \in Actors, r \in Rules : Works(a, r, page[a][r])
    <3>1. PICK a \in Actors, r \in Rules : Works(a, r, page[a][r])
      BY <2>1
    <3>2. page[a][r] \in Page
      BY PageKnown DEF CoreInv
    <3>3. Publish(a, r, page[a][r]) /\ n = rule[r].working
      BY <1>2, <3>1, <3>2, PublishedBy
    <3> QED
      BY <3>2, <3>3, ReleasedByTwo
  <2>2. CASE \E a \in Actors, r \in Rules, c \in Contents : Create(a, r, c)
    <3>1. PICK a \in Actors, r \in Rules, c \in Contents : Create(a, r, c)
      BY <2>2
    <3>2. \/ n \in DOMAIN revs /\ revs'[n] = revs[n]
          \/ revs'[n] = Draft(r, c, None, a)
      BY <3>1, Created DEF CoreInv
    <3> QED
      BY <1>2, <3>2 DEF Draft
  <2>3. CASE \E flag \in BOOLEAN, v \in Policies : Restart(flag, v)
    <3>1. CASE revs' = revs
      BY <1>2, <3>1
    <3>2. CASE Manage
      BY <1>2, <3>2, ManageTakesOver DEF CoreInv
    <3> QED
      BY <2>3, <3>1, <3>2 DEF Restart
  <2>4. CASE \E t \in Threads : Validates(t)
    BY <1>2, <2>4, ValidatesEffect DEF CoreInv
  <2>5. CASE \E r \in Rules : LegacyStep(r)
    BY <1>2, <2>5, LegacyRows DEF CoreInv
  <2>6. CASE \/ \E a \in Actors, r \in Rules : Load(a, r)
             \/ \E u \in Humans : ChangeRole(u)
             \/ Tick \/ UNCHANGED vars
    BY <1>2, <2>6 DEF Load, ChangeRole, Tick, vars
  <2> QED
    BY <2>1, <2>2, <2>3, <2>4, <2>5, <2>6, StepCases
<1> QED
  BY <1>1, <1>2

-----------------------------------------------------------------------------
(* Pages.                                                                  *)

\* No page shows a version that its rule has yet to reach, and a page of the
\* current version shows the rule as it is, or was when reports were missing.
PageFor(a, r) ==
  /\ page[a][r].version <= rule[r].version
  /\ ~Managed(r) => page[a][r].version = 0
  /\ Managed(r) /\ page[a][r].version = rule[r].version => Shows(page[a][r], r)
PagesInv == \A a \in Actors, r \in Rules : PageFor(a, r)

LEMMA PageIfKept ==
  ASSUME CoreInv, [Next]_vars, NEW a \in Actors, NEW r \in Rules, PageFor(a, r),
         page'[a][r] = page[a][r], rule'[r] = rule[r],
         Managed(r) => revs'[rule[r].working] = revs[rule[r].working]
  PROVE  PageFor(a, r)'
<1> DEFINE p == page[a][r]
<1>1. p \in Page
  BY PageKnown DEF CoreInv
<1>2. ASSUME Managed(r), Shows(p, r)
      PROVE  Shows(p, r)'
  <2>1. /\ p.version = rule[r].version /\ p.working = rule[r].working
        /\ p.published = rule[r].published /\ p.archived = rule[r].archived
        /\ p.state = IF rule[r].working = None THEN "draft" ELSE revs[rule[r].working].state
    BY <1>1, <1>2 DEF Shows, View, Page
  <2>2. [p EXCEPT !.report = View(r).report]' = View(r)'
    BY <1>1, <1>2, <2>1 DEF View, Page
  <2>3. p.report # None => p.report \in RunsOf(p.working)'
    BY <1>2, RunsStay DEF Shows, RunsOf
  <2> QED
    BY <2>2, <2>3 DEF Shows
<1> QED
  BY <1>2 DEF PageFor, Managed

\* Versions grow, so a page of an earlier version stays one.
LEMMA PageIfBumped ==
  ASSUME CoreInv, NEW a \in Actors, NEW r \in Rules, PageFor(a, r),
         page'[a][r] = page[a][r], rule'[r].version > page[a][r].version,
         rule'[r].status = "managed", rule'[r].version \in Nat
  PROVE  PageFor(a, r)'
<1>1. page[a][r].version \in Nat
  BY PageKnown DEF Page, CoreInv
<1> QED
  BY <1>1 DEF PageFor, Managed

LEMMA PageGoesOn ==
  ASSUME CoreInv, [Next]_vars, NEW a \in Actors, NEW r \in Rules, PageFor(a, r)
  PROVE  PageFor(a, r)'
<1>0. page[a][r].version \in Nat /\ rule[r].version \in Nat /\ rule[r] \in Row
      /\ rule[r].version >= 1
  BY PageKnown DEF Page, CoreInv, TypeOK, Row, RowsInv, RowFor
<1>1. CASE \E b \in Actors, q \in Rules : Works(b, q, page[b][q])
  <2>1. PICK b \in Actors, q \in Rules : Works(b, q, page[b][q])
    BY <1>1
  <2>2. Evolves(q) /\ page' = page
    BY <2>1, WorksEvolve, PageKnown DEF CoreInv, Evolves
  <2>3. CASE q # r
    <3>1. rule'[r] = rule[r]
      BY <2>2, <2>3, RowsOfOthers DEF CoreInv
    <3>2. Managed(r) => revs'[rule[r].working] = revs[rule[r].working]
      <4>1. Managed(r) => /\ rule[r].working \in DOMAIN revs
                          /\ revs[rule[r].working].rule = r
        BY WorkingKnown DEF CoreInv
      <4>2. revs[rule[q].working].rule = q
        BY <2>2, WorkingKnown DEF CoreInv, Evolves
      <4> QED
        BY <2>2, <2>3, <4>1, <4>2 DEF Evolves, Kept
    <3> QED
      BY <2>2, <3>1, <3>2, PageIfKept
  <2>4. CASE q = r
    <3>1. PICK row \in Row : Settles(r, row) \/ Extends(r, row)
      BY <2>2, <2>4 DEF Evolves
    <3>2. /\ rule'[r] = row /\ row.status = "managed" /\ row.version = rule[r].version + 1
      BY <3>1 DEF Settles, Extends, Bumps, CoreInv, TypeOK
    <3> QED
      BY <1>0, <2>2, <3>2, PageIfBumped DEF PageFor
  <2> QED
    BY <2>3, <2>4
<1>2. CASE \E b \in Actors, q \in Rules, c \in Contents : Create(b, q, c)
  <2>1. PICK b \in Actors, q \in Rules, c \in Contents : Create(b, q, c)
    BY <1>2
  <2>2. page' = page
    BY <2>1 DEF Create
  <2>3. CASE q = r
    <3>1. rule'[r] = [NoRow EXCEPT !.status = "managed", !.working = Len(revs) + 1]
          /\ rule[r].status = "unused"
      BY <2>1, <2>3, Created DEF CoreInv
    <3>2. rule'[r].version = 1 /\ rule'[r].status = "managed"
      BY <3>1 DEF NoRow
    <3>3. page[a][r].version = 0
      BY <3>1 DEF PageFor, Managed
    <3> QED
      BY <2>2, <3>2, <3>3, PageIfBumped
  <2>4. CASE q # r
    <3>1. rule'[r] = rule[r] /\ \A n \in DOMAIN revs : revs'[n] = revs[n]
      BY <2>1, <2>4, Created DEF CoreInv
    <3> QED
      BY <2>2, <3>1, PageIfKept, WorkingKnown DEF CoreInv
  <2> QED
    BY <2>3, <2>4
<1>3. CASE \E q \in Rules : LegacyStep(q)
  <2>1. PICK q \in Rules : LegacyStep(q)
    BY <1>3
  <2>2. CASE q = r
    BY <2>1, <2>2, LegacyRows DEF CoreInv, PageFor, Managed
  <2>3. CASE q # r
    <3>1. rule'[r] = rule[r] /\ revs' = revs /\ page' = page
      BY <2>1, <2>3, LegacyRows DEF CoreInv
    <3> QED
      BY <3>1, PageIfKept
  <2> QED
    BY <2>2, <2>3
<1>4. CASE \E flag \in BOOLEAN, v \in Policies : Restart(flag, v)
  <2>1. page' = page
    BY <1>4 DEF Restart
  <2>2. CASE Manage
    <3>1. CASE r \in Taken
      <4>1. PICK n \in DOMAIN revs' :
              rule'[r] = [rule[r] EXCEPT !.status = "managed", !.working = n,
                                         !.published = n]
        BY <2>2, <3>1, ManageTakesOver DEF CoreInv
      <4>2. rule'[r].status = "managed" /\ rule'[r].version = rule[r].version
        BY <1>0, <4>1 DEF Row
      <4>3. page[a][r].version = 0
        BY <3>1 DEF PageFor, Managed, Taken
      <4> QED
        BY <1>0, <2>1, <4>2, <4>3, PageIfBumped
    <3>2. CASE r \notin Taken
      <4>1. rule'[r] = rule[r] /\ \A n \in DOMAIN revs : revs'[n] = revs[n]
        BY <2>2, <3>2, ManageTakesOver DEF CoreInv
      <4> QED
        BY <2>1, <4>1, PageIfKept, WorkingKnown DEF CoreInv
    <3> QED
      BY <3>1, <3>2
  <2>3. CASE rule' = rule /\ revs' = revs
    BY <2>1, <2>3, PageIfKept
  <2> QED
    BY <1>4, <2>2, <2>3 DEF Restart
<1>5. CASE \E b \in Actors, q \in Rules : Load(b, q)
  <2>1. PICK b \in Actors, q \in Rules : Load(b, q)
    BY <1>5
  <2>2. rule' = rule /\ revs' = revs
    BY <2>1 DEF Load
  <2>3. CASE b = a /\ q = r
    <3>1. Managed(r) /\ page'[a][r] = View(r)
      BY <2>1, <2>3 DEF Load, Managed, CoreInv, TypeOK
    <3>2. View(r)' = View(r) /\ View(r).version = rule[r].version
          /\ View(r).working = rule[r].working /\ View(r).report = NewestReport(rule[r].working)
      <4>1. runs' = runs
        BY <2>1 DEF Load
      <4> QED
        BY <2>2, <4>1 DEF View, NewestReport, RunsOf
    <3>3. [View(r) EXCEPT !.report = View(r).report] = View(r)
      BY DEF View
    <3>4. View(r).report # None => View(r).report \in RunsOf(View(r).working)
      BY <3>2, NewestKnown DEF CoreInv
    <3>5. Shows(page[a][r], r)'
      <4>1. UNCHANGED runs
        BY <2>1 DEF Load
      <4> QED
        BY <3>1, <3>2, <3>3, <3>4, <4>1 DEF Shows, RunsOf
    <3> QED
      BY <1>0, <2>2, <3>1, <3>2, <3>5 DEF PageFor, Managed
  <2>4. CASE ~(b = a /\ q = r)
    <3>1. page'[a][r] = page[a][r]
      BY <2>1, <2>4 DEF Load, CoreInv, TypeOK
    <3> QED
      BY <2>2, <3>1, PageIfKept
  <2> QED
    BY <2>3, <2>4
<1>6. CASE \E t \in Threads : Validates(t)
  <2>1. rule' = rule /\ revs' = revs /\ page' = page
    BY <1>6, ValidatesEffect DEF CoreInv
  <2> QED
    BY <2>1, PageIfKept
<1>7. CASE \/ \E u \in Humans : ChangeRole(u)
           \/ Tick \/ UNCHANGED vars
  <2>1. rule' = rule /\ revs' = revs /\ page' = page
    BY <1>7 DEF ChangeRole, Tick, vars
  <2> QED
    BY <2>1, PageIfKept
<1> QED
  BY <1>1, <1>2, <1>3, <1>4, <1>5, <1>6, <1>7, StepCases

-----------------------------------------------------------------------------
(* Events.                                                                 *)

CountFor(r) ==
  Managed(r) => events[r] + Cardinality(Legacies(r))
                  = rule[r].version + Cardinality(ReportsOf(r))
CountInv == \A r \in Rules : CountFor(r)

LEMMA CountsKnown ==
  ASSUME CoreInv, NEW r
  PROVE  /\ IsFiniteSet(Legacies(r)) /\ Cardinality(Legacies(r)) \in Nat
         /\ IsFiniteSet(ReportsOf(r)) /\ Cardinality(ReportsOf(r)) \in Nat
         /\ IsFiniteSet(RunsOf(r)) /\ Cardinality(RunsOf(r)) \in Nat
<1>1. IsFiniteSet(DOMAIN revs) /\ IsFiniteSet(DOMAIN runs)
  BY Tables, FS_Interval DEF CoreInv
<1>2. /\ Legacies(r) \subseteq DOMAIN revs /\ ReportsOf(r) \subseteq DOMAIN runs
      /\ RunsOf(r) \subseteq DOMAIN runs
  BY DEF Legacies, RevsOf, ReportsOf, RunsOf
<1> QED
  BY <1>1, <1>2, FS_Subset, FS_CardinalityType

LEMMA ReportsKept ==
  ASSUME CoreInv, [Next]_vars, NEW r, runs' = runs
  PROVE  ReportsOf(r)' = ReportsOf(r)
<1>1. \A i \in DOMAIN runs : revs'[runs[i].rev].rule = revs[runs[i].rev].rule
  BY RevisionsStay DEF CoreInv, TasksInv
<1> QED
  BY <1>1 DEF ReportsOf

LEMMA LegaciesKept ==
  ASSUME CoreInv, [Next]_vars, NEW r,
         \A n \in DOMAIN revs' \ DOMAIN revs : revs'[n].rule # r \/ revs'[n].author # Unknown
  PROVE  Legacies(r)' = Legacies(r)
BY RevisionsStay DEF Legacies, RevsOf, CoreInv

LEMMA CountIfKept ==
  ASSUME CoreInv, [Next]_vars, NEW r \in Rules, CountFor(r), runs' = runs,
         \A n \in DOMAIN revs' \ DOMAIN revs : revs'[n].rule # r \/ revs'[n].author # Unknown,
         NEW k \in Nat, events'[r] = events[r] + k, rule'[r].version = rule[r].version + k,
         rule'[r].status = rule[r].status
  PROVE  CountFor(r)'
<1>1. Legacies(r)' = Legacies(r) /\ ReportsOf(r)' = ReportsOf(r)
  BY ReportsKept, LegaciesKept
<1>2. /\ events[r] \in Nat /\ rule[r].version \in Nat
      /\ Cardinality(Legacies(r)) \in Nat /\ Cardinality(ReportsOf(r)) \in Nat
  BY CountsKnown DEF CoreInv, TypeOK, Row
<1> QED
  BY <1>1, <1>2 DEF CountFor, Managed

\* A rule that is not managed has no revisions, and so no reports of them.
LEMMA NothingYet ==
  ASSUME CoreInv, NEW r \in Rules, ~Managed(r)
  PROVE  /\ \A n \in DOMAIN revs : revs[n].rule # r
         /\ Legacies(r) = {} /\ ReportsOf(r) = {}
         /\ events[r] = 0 /\ rule[r].version = 1
<1>1. \A n \in DOMAIN revs : revs[n].rule # r
  BY DEF CoreInv, RowsInv
<1> QED
  BY <1>1 DEF CoreInv, RowsInv, RowFor, TasksInv, Legacies, RevsOf, ReportsOf

LEMMA CountGoesOn ==
  ASSUME CoreInv, [Next]_vars, NEW r \in Rules, CountFor(r)
  PROVE  CountFor(r)'
<1>0. events[r] \in Nat /\ rule[r].version \in Nat /\ rule[r] \in Row
  BY DEF CoreInv, TypeOK, Row
<1>1. CASE \E a \in Actors, q \in Rules : Works(a, q, page[a][q])
  <2>1. PICK a \in Actors, q \in Rules : Works(a, q, page[a][q])
    BY <1>1
  <2>2. Evolves(q)
    BY <2>1, WorksEvolve, PageKnown DEF CoreInv
  <2>3. runs' = runs /\ Managed(q) /\ events' = [events EXCEPT ![q] = @ + 1]
    BY <2>2 DEF Evolves
  <2>4. PICK row \in Row : Settles(q, row) \/ Extends(q, row)
    BY <2>2 DEF Evolves
  <2>5. \A n \in DOMAIN revs' \ DOMAIN revs : revs'[n].author # Unknown
    <3>1. DOMAIN revs = 1..Len(revs) /\ DOMAIN revs' = 1..Len(revs') /\ Len(revs) \in Nat
      BY <2>2, Tables, LenProperties DEF CoreInv, Evolves
    <3>2. Unknown \notin Actors
      BY RuleSetAssumption
    <3>3. CASE Settles(q, row)
      BY <3>1, <3>3 DEF Settles
    <3>4. CASE Extends(q, row)
      <4>1. Len(revs') = Len(revs) + 1 /\ revs'[Len(revs) + 1].author \in Actors
        BY <3>4 DEF Extends
      <4>2. \A n \in DOMAIN revs' \ DOMAIN revs : n = Len(revs) + 1
        BY <3>1, <4>1
      <4> QED
        BY <3>2, <4>1, <4>2
    <3> QED
      BY <2>4, <3>3, <3>4
  <2>6. CASE q = r
    <3>1. /\ rule'[r].version = rule[r].version + 1 /\ rule'[r].status = rule[r].status
          /\ events'[r] = events[r] + 1
      BY <2>3, <2>4, <2>6 DEF Settles, Extends, Bumps, Managed, CoreInv, TypeOK
    <3> QED
      BY <2>3, <2>5, <3>1, CountIfKept
  <2>7. CASE q # r
    <3>1. rule'[r] = rule[r] /\ events'[r] = events[r]
      BY <2>2, <2>7, RowsOfOthers DEF CoreInv
    <3> QED
      BY <1>0, <2>3, <2>5, <3>1, CountIfKept
  <2> QED
    BY <2>6, <2>7
<1>2. CASE \E a \in Actors, q \in Rules, c \in Contents : Create(a, q, c)
  <2>1. PICK a \in Actors, q \in Rules, c \in Contents : Create(a, q, c)
    BY <1>2
  <2>2. runs' = runs
    BY <2>1 DEF Create
  <2>3. \A n \in DOMAIN revs' \ DOMAIN revs : revs'[n].author # Unknown /\ revs'[n].rule = q
    <3>1. \A n \in DOMAIN revs' \ DOMAIN revs : revs'[n] = Draft(q, c, None, a)
      BY <2>1, Created DEF CoreInv
    <3>2. Draft(q, c, None, a).author = a /\ Draft(q, c, None, a).rule = q /\ a # Unknown
      BY RuleSetAssumption DEF Draft
    <3> QED
      BY <3>1, <3>2
  <2>4. CASE q = r
    <3>1. ~Managed(r)
      BY <2>1, <2>4 DEF Create, Managed
    <3>2. Legacies(r)' = {} /\ ReportsOf(r)' = {}
      BY <2>2, <2>3, <3>1, NothingYet, LegaciesKept, ReportsKept
    <3>3. events'[r] = events[r] + 1
          /\ rule'[r] = [NoRow EXCEPT !.status = "managed", !.working = Len(revs) + 1]
      BY <2>1, <2>4, Created DEF CoreInv
    <3>4. events[r] = 0 /\ rule'[r].version = 1
      BY <3>1, <3>3, NothingYet DEF NoRow
    <3>5. Cardinality({}) = 0
      BY FS_EmptySet
    <3> QED
      BY <3>2, <3>3, <3>4, <3>5 DEF CountFor
  <2>5. CASE q # r
    <3>1. rule'[r] = rule[r] /\ events'[r] = events[r]
      BY <2>1, <2>5, Created DEF CoreInv
    <3> QED
      BY <1>0, <2>2, <2>3, <3>1, CountIfKept
  <2> QED
    BY <2>4, <2>5
<1>3. CASE \E q \in Rules : LegacyStep(q)
  <2>1. PICK q \in Rules : LegacyStep(q)
    BY <1>3
  <2>2. CASE q = r
    BY <2>1, <2>2, LegacyRows DEF CoreInv, CountFor, Managed
  <2>3. CASE q # r
    <3>1. rule'[r] = rule[r] /\ revs' = revs /\ runs' = runs /\ events' = events
      BY <2>1, <2>3, LegacyRows DEF CoreInv
    <3> QED
      BY <1>0, <3>1, CountIfKept
  <2> QED
    BY <2>2, <2>3
<1>4. CASE \E flag \in BOOLEAN, v \in Policies : Restart(flag, v)
  <2>1. runs' = runs /\ events' = events
    BY <1>4 DEF Restart
  <2>2. CASE Manage
    <3>1. \A n \in DOMAIN revs' \ DOMAIN revs : revs'[n].rule \in Taken
      BY <2>2, ManageTakesOver DEF CoreInv
    <3>2. CASE r \in Taken
      <4>1. ~Managed(r)
        BY <3>2 DEF Taken, Managed
      <4>2. PICK n \in DOMAIN revs' \ DOMAIN revs :
              /\ revs'[n].rule = r
              /\ rule'[r] = [rule[r] EXCEPT !.status = "managed", !.working = n,
                                            !.published = n]
        BY <2>2, <3>2, ManageTakesOver DEF CoreInv
      <4>3. rule'[r].version = 1 /\ rule'[r].working = n /\ events'[r] = 0
        BY <1>0, <2>1, <4>1, <4>2, NothingYet DEF Row
      <4>4. \A m \in DOMAIN revs' : revs'[m].rule = r => m = n
        <5>1. SUFFICES ASSUME NEW m \in DOMAIN revs', revs'[m].rule = r PROVE m = n
          OBVIOUS
        <5>2. m \notin DOMAIN revs
          BY <4>1, <5>1, NothingYet, RevisionsStay DEF CoreInv
        <5> QED
          BY <2>2, <4>3, <5>1, <5>2, ManageTakesOver DEF CoreInv
      <4>5. Legacies(r)' = {n}
        <5>1. revs'[n].author = Unknown
          BY <2>2, <4>2, ManageTakesOver DEF CoreInv
        <5> QED
          BY <4>2, <4>4, <5>1 DEF Legacies, RevsOf
      <4>6. ReportsOf(r)' = {}
        BY <2>1, <4>1, NothingYet, ReportsKept
      <4>7. Cardinality({}) = 0 /\ Cardinality({n}) = 1
        BY FS_EmptySet, FS_Singleton
      <4> QED
        BY <4>3, <4>5, <4>6, <4>7 DEF CountFor
    <3>3. CASE r \notin Taken
      <4>1. rule'[r] = rule[r]
        BY <2>2, <3>3, ManageTakesOver DEF CoreInv
      <4> QED
        BY <1>0, <2>1, <3>1, <3>3, <4>1, CountIfKept
    <3> QED
      BY <3>2, <3>3
  <2>3. CASE rule' = rule /\ revs' = revs
    BY <1>0, <2>1, <2>3, CountIfKept
  <2> QED
    BY <1>4, <2>2, <2>3 DEF Restart
<1>5. CASE \E t \in Threads : Validates(t)
  <2>1. PICK t \in Threads : Validates(t)
    BY <1>5
  <2>2. rule' = rule /\ revs' = revs
    BY <2>1, ValidatesEffect DEF CoreInv
  <2>3. CASE ~RecordReport(t)
    BY <1>0, <2>1, <2>2, <2>3, ValidatesEffect, CountIfKept DEF CoreInv
  <2>4. CASE RecordReport(t)
    <3> DEFINE n == task[t].rev
               i == Len(runs) + 1
    <3>1. n \in DOMAIN revs /\ events' = [events EXCEPT ![revs[n].rule] = @ + 1]
      BY <2>1, <2>4, ValidatesEffect DEF CoreInv
    <3>2. /\ DOMAIN runs' = DOMAIN runs \cup {i} /\ i \notin DOMAIN runs
          /\ \A j \in DOMAIN runs : runs'[j] = runs[j]
          /\ runs'[i].rev = n
      BY <2>4, ReportRecorded DEF CoreInv
    <3>3. Legacies(r)' = Legacies(r)
      BY <2>2 DEF Legacies, RevsOf
    <3> HIDE DEF n, i
    <3>4. CASE revs[n].rule = r
      <4>1. ReportsOf(r)' = ReportsOf(r) \cup {i} /\ i \notin ReportsOf(r)
        BY <2>2, <3>2, <3>4 DEF ReportsOf
      <4>2. Cardinality(ReportsOf(r)') = Cardinality(ReportsOf(r)) + 1
        BY <4>1, CountsKnown, FS_AddElement
      <4>3. events'[r] = events[r] + 1
        BY <3>1, <3>4 DEF CoreInv, TypeOK
      <4> QED
        BY <1>0, <2>2, <3>3, <4>2, <4>3, CountsKnown DEF CountFor, Managed
    <3>5. CASE revs[n].rule # r
      <4>1. ReportsOf(r)' = ReportsOf(r)
        BY <2>2, <3>2, <3>5 DEF ReportsOf
      <4>2. events'[r] = events[r]
        BY <3>1, <3>5 DEF CoreInv, TypeOK
      <4> QED
        BY <2>2, <3>3, <4>1, <4>2 DEF CountFor, Managed
    <3> QED
      BY <3>4, <3>5
  <2> QED
    BY <2>3, <2>4
<1>6. CASE \/ \E a \in Actors, q \in Rules : Load(a, q)
           \/ \E u \in Humans : ChangeRole(u)
           \/ Tick \/ UNCHANGED vars
  <2>1. rule' = rule /\ revs' = revs /\ runs' = runs /\ events' = events
    BY <1>6 DEF Load, ChangeRole, Tick, vars
  <2> QED
    BY <1>0, <2>1, CountIfKept
<1> QED
  BY <1>1, <1>2, <1>3, <1>4, <1>5, <1>6, StepCases

-----------------------------------------------------------------------------
(* Claims.                                                                 *)

\* A process is alive no longer than its deadline, which is before the end of
\* the claim that it runs under.
ProcessFor(t) ==
  task[t].pc \in {"running", "orphan"} =>
    /\ clock <= task[t].until
    /\ \E s \in DOMAIN claims :
         claims[s].owner = task[t].owner /\ task[t].until < claims[s].expires

\* A thread that may still record a report and holds its claim has room for it.
RoomFor(t) ==
  task[t].pc \in {"running", "reported"} /\ StillClaimed(t)
    => Cardinality(RunsOf(task[t].rev)) < RunLimit

\* Every validation has an identity of its own, its claims are of its revision,
\* and no revision is claimed twice at a time.
OwnersInv ==
  /\ \A t \in Threads : (task[t].owner = NoOwner) <=> (task[t].pc = "idle")
  /\ \A t, u \in Threads :
       task[t].owner = task[u].owner => t = u \/ task[t].owner = NoOwner
  /\ \A t \in Threads, s \in DOMAIN claims :
       claims[s].owner = task[t].owner => claims[s].rev = task[t].rev
  /\ \A s, x \in LiveClaims : claims[s].rev = claims[x].rev => s = x
ClaimInv ==
  /\ OwnersInv
  /\ \A t \in Threads : ProcessFor(t) /\ RoomFor(t)
  /\ \A n \in DOMAIN revs : Cardinality(RunsOf(n)) <= RunLimit

\* Most steps only take from what there is: claims are given back, time passes,
\* threads move on or forget.
Fades ==
  /\ DOMAIN claims' \subseteq DOMAIN claims
  /\ \A s \in DOMAIN claims' : claims'[s] = claims[s]
  /\ clock' >= clock /\ clock' \in Nat
  /\ \A t \in Threads :
       \/ task'[t] = IdleTask
       \/ /\ task'[t].owner = task[t].owner /\ task'[t].rev = task[t].rev
          /\ task'[t].until = task[t].until
          /\ (task'[t].pc = "idle") <=> (task[t].pc = "idle")
          /\ task'[t].pc \in {"running", "orphan"} =>
               /\ task[t].pc \in {"running", "orphan"}
               /\ clock' <= task[t].until
               /\ \A s \in DOMAIN claims :
                    claims[s].owner = task[t].owner => s \in DOMAIN claims'
          /\ task'[t].pc \in {"running", "reported"} =>
               task[t].pc \in {"running", "reported"}

LEMMA ClaimsKnown ==
  ASSUME TypeOK
  PROVE  /\ \A s \in DOMAIN claims : /\ claims[s] \in ClaimRow /\ claims[s].owner # NoOwner
                                     /\ claims[s].expires \in Nat
         /\ \A t \in Threads : task[t] \in Task /\ task[t].until \in Nat
         /\ clock \in Nat /\ task \in [Threads -> Task]
         /\ IdleTask.pc = "idle" /\ IdleTask.owner = NoOwner
BY RuleSetAssumption DEF TypeOK, ClaimRow, Task, IdleTask

LEMMA OwnersFade ==
  ASSUME TypeOK, OwnersInv, Fades
  PROVE  OwnersInv'
<1>1. \A t \in Threads : (task'[t].owner = NoOwner) <=> (task'[t].pc = "idle")
  BY ClaimsKnown DEF Fades, OwnersInv
<1>2. \A t, u \in Threads :
        task'[t].owner = task'[u].owner => t = u \/ task'[t].owner = NoOwner
  BY ClaimsKnown DEF Fades, OwnersInv
<1>3. \A t \in Threads, s \in DOMAIN claims' :
        claims'[s].owner = task'[t].owner => claims'[s].rev = task'[t].rev
  BY ClaimsKnown DEF Fades, OwnersInv
<1>4. \A s \in LiveClaims' : s \in LiveClaims /\ claims'[s] = claims[s]
  BY ClaimsKnown DEF Fades, LiveClaims
<1>5. \A s, x \in LiveClaims' : claims'[s].rev = claims'[x].rev => s = x
  BY <1>4 DEF OwnersInv
<1> QED
  BY <1>1, <1>2, <1>3, <1>5 DEF OwnersInv

LEMMA ProcessFades ==
  ASSUME TypeOK, NEW t \in Threads, ProcessFor(t), Fades
  PROVE  ProcessFor(t)'
<1> SUFFICES ASSUME task'[t].pc \in {"running", "orphan"}
             PROVE  /\ clock' <= task'[t].until
                    /\ \E s \in DOMAIN claims' :
                         /\ claims'[s].owner = task'[t].owner
                         /\ task'[t].until < claims'[s].expires
  BY DEF ProcessFor
<1>1. /\ task'[t].owner = task[t].owner /\ task'[t].until = task[t].until
      /\ task[t].pc \in {"running", "orphan"} /\ clock' <= task[t].until
      /\ \A s \in DOMAIN claims :
           claims[s].owner = task[t].owner => s \in DOMAIN claims'
  BY ClaimsKnown DEF Fades
<1>2. PICK s \in DOMAIN claims :
        claims[s].owner = task[t].owner /\ task[t].until < claims[s].expires
  BY <1>1 DEF ProcessFor
<1>3. s \in DOMAIN claims' /\ claims'[s] = claims[s]
  BY <1>1, <1>2 DEF Fades
<1> QED
  BY <1>1, <1>2, <1>3

\* A thread that holds its claim after such a step held it before.
LEMMA HeldBefore ==
  ASSUME TypeOK, NEW t \in Threads, Fades,
         task'[t].pc \in {"running", "reported"}, StillClaimed(t)'
  PROVE  /\ task[t].pc \in {"running", "reported"} /\ StillClaimed(t)
         /\ task'[t].rev = task[t].rev
<1>1. /\ task'[t].owner = task[t].owner /\ task'[t].rev = task[t].rev
      /\ task[t].pc \in {"running", "reported"}
  BY ClaimsKnown DEF Fades
<1>2. PICK s \in LiveClaims' : claims'[s].owner = task'[t].owner
  BY DEF StillClaimed
<1>3. s \in LiveClaims /\ claims'[s] = claims[s]
  BY <1>2, ClaimsKnown DEF Fades, LiveClaims
<1> QED
  BY <1>1, <1>2, <1>3 DEF StillClaimed

LEMMA OthersFade ==
  ASSUME CoreInv, ClaimInv, UNCHANGED validating
  PROVE  Fades
<1>1. \A t \in Threads : task[t].pc \in {"running", "orphan"} => clock <= task[t].until
  BY DEF ClaimInv, ProcessFor
<1> QED
  BY <1>1, ClaimsKnown DEF Fades, validating, CoreInv

LEMMA TickFades ==
  ASSUME CoreInv, ClaimInv, Tick
  PROVE  Fades
<1>1. clock' = clock + 1 /\ claims' = claims /\ task' = task
  BY DEF Tick
<1>2. \A t \in Threads : task[t].pc \in {"running", "orphan"} => clock' <= task[t].until
  BY <1>1, ClaimsKnown DEF Tick, Processing, CoreInv
<1> QED
  BY <1>1, <1>2, ClaimsKnown DEF Fades, CoreInv

LEMMA RestartFades ==
  ASSUME CoreInv, ClaimInv, NEW flag, NEW v, Restart(flag, v)
  PROVE  Fades
<1>1. clock' = clock /\ claims' = claims
  BY DEF Restart
<1>2. \A t \in Threads :
        task'[t] = IF task[t].pc \in {"running", "orphan"}
                   THEN [task[t] EXCEPT !.pc = "orphan"] ELSE IdleTask
  BY DEF Restart
<1>3. \A t \in Threads : task[t].pc \in {"running", "orphan"} => clock' <= task[t].until
  BY <1>1 DEF ClaimInv, ProcessFor
<1>4. \A t \in Threads : task[t].pc \in {"running", "orphan"} =>
        LET x == [task[t] EXCEPT !.pc = "orphan"] IN
          x.owner = task[t].owner /\ x.rev = task[t].rev /\ x.until = task[t].until
          /\ x.pc = "orphan"
  BY ClaimsKnown DEF Task, CoreInv
<1>5. \A t \in Threads :
        \/ task'[t] = IdleTask
        \/ /\ task'[t].owner = task[t].owner /\ task'[t].rev = task[t].rev
           /\ task'[t].until = task[t].until /\ task'[t].pc = "orphan"
           /\ task[t].pc \in {"running", "orphan"}
  BY <1>2, <1>4
<1> QED
  BY <1>1, <1>3, <1>5, ClaimsKnown DEF Fades, CoreInv

\* What one thread does fades, but for the beginning of a validation.
LEMMA ThreadFades ==
  ASSUME CoreInv, ClaimInv, NEW t \in Threads, Validates(t), ~Begins(t)
  PROVE  Fades
<1>1. /\ clock' = clock /\ \A q \in Threads : q # t => task'[q] = task[q]
  BY ValidatesEffect DEF CoreInv
<1>2. \A q \in Threads : task[q].pc \in {"running", "orphan"} => clock' <= task[q].until
  BY <1>1 DEF ClaimInv, ProcessFor
<1>3. clock \in Nat /\ task[t] \in Task /\ task \in [Threads -> Task]
  BY ClaimsKnown DEF CoreInv
<1>4. CASE \/ \E status \in ReportStatus : ValidatorEnds(t, status)
           \/ RecordReport(t) \/ LoseReport(t)
  <2>1. claims' = claims
    BY <1>4 DEF ValidatorEnds, RecordReport, LoseReport
  <2>2. /\ task'[t].owner = task[t].owner /\ task'[t].rev = task[t].rev
        /\ task'[t].until = task[t].until
        /\ \/ task[t].pc = "running" /\ task'[t].pc = "reported"
           \/ task[t].pc = "reported" /\ task'[t].pc = "closing"
    <3>1. CASE \E status \in ReportStatus : ValidatorEnds(t, status)
      BY <1>3, <3>1 DEF ValidatorEnds, Task
    <3>2. CASE RecordReport(t)
      BY <1>3, <3>2 DEF RecordReport, Task
    <3>3. CASE LoseReport(t)
      BY <1>3, <3>3 DEF LoseReport, Task
    <3> QED
      BY <1>4, <3>1, <3>2, <3>3
  <2> QED
    BY <1>1, <1>2, <1>3, <2>1, <2>2 DEF Fades
<1>5. CASE Die(t)
  <2>1. claims' = claims
    BY <1>5 DEF Die
  <2>2. task'[t] = IF task[t].pc = "running" THEN [task[t] EXCEPT !.pc = "orphan"]
                                             ELSE IdleTask
    BY <1>3, <1>5 DEF Die
  <2>3. \/ task'[t] = IdleTask
        \/ /\ task'[t].owner = task[t].owner /\ task'[t].rev = task[t].rev
           /\ task'[t].until = task[t].until
           /\ task[t].pc = "running" /\ task'[t].pc = "orphan"
    BY <1>3, <2>2 DEF Task
  <2> QED
    BY <1>1, <1>2, <1>3, <2>1, <2>3 DEF Fades
<1>6. CASE OrphanEnds(t)
  <2>1. claims' = claims /\ task'[t] = IdleTask
    BY <1>3, <1>6 DEF OrphanEnds
  <2> QED
    BY <1>1, <1>2, <1>3, <2>1 DEF Fades
<1>7. CASE GiveBack(t)
  <2>1. /\ claims' = Restrict(claims, DOMAIN claims \ OwnClaims(t))
        /\ task'[t] = IdleTask /\ task[t].pc = "closing"
    BY <1>3, <1>7 DEF GiveBack
  <2>2. /\ DOMAIN claims' = DOMAIN claims \ OwnClaims(t)
        /\ \A s \in DOMAIN claims' : claims'[s] = claims[s]
    BY <2>1 DEF Restrict
  <2>3. ASSUME NEW q \in Threads, q # t, task[q].pc \in {"running", "orphan"},
               NEW s \in DOMAIN claims, claims[s].owner = task[q].owner
        PROVE  s \in DOMAIN claims'
    <3>1. task[q].owner # NoOwner /\ task[t].owner # task[q].owner
      BY <2>3 DEF ClaimInv, OwnersInv
    <3> QED
      BY <2>2, <2>3, <3>1 DEF OwnClaims
  <2>4. \A q \in Threads : q # t => task'[q] = task[q]
    BY <1>1
  <2>5. ASSUME NEW q \in Threads, q # t
        PROVE  /\ task'[q].owner = task[q].owner /\ task'[q].rev = task[q].rev
               /\ task'[q].until = task[q].until /\ task'[q].pc = task[q].pc
               /\ task'[q].pc \in {"running", "orphan"} =>
                    /\ clock' <= task[q].until
                    /\ \A s \in DOMAIN claims :
                         claims[s].owner = task[q].owner => s \in DOMAIN claims'
    BY <1>2, <2>3, <2>4, <2>5
  <2>6. DOMAIN claims' \subseteq DOMAIN claims /\ clock' >= clock /\ clock' \in Nat
    BY <1>1, <1>3, <2>2
  <2> QED
    BY <2>1, <2>2, <2>5, <2>6 DEF Fades
<1> QED
  BY <1>4, <1>5, <1>6, <1>7 DEF Validates

LEMMA BeginClaims ==
  ASSUME CoreInv, ClaimInv, NEW t \in Threads, Begins(t)
  PROVE  OwnersInv' /\ \A u \in Threads : ProcessFor(u)' /\ RoomFor(u)'
<1>1. PICK a \in Actors, r \in Rules :
        \E n \in RevsOf(r) : BeginValidation(t, r, page[a][r], n)
  BY DEF Begins
<1>2. PICK n \in RevsOf(r) : BeginValidation(t, r, page[a][r], n)
  BY <1>1
<1> DEFINE claim(o) == [rev |-> n, owner |-> o, expires |-> clock + ClaimTTL]
           begun(o) == [IdleTask EXCEPT !.pc = "running", !.rev = n, !.owner = o,
                                        !.until = clock + MaxRun]
<1>3. PICK s \in FreeSlots, o \in FreshOwners :
        /\ claims' = [x \in LiveClaims \cup {s} |-> IF x = s THEN claim(o) ELSE claims[x]]
        /\ task' = [task EXCEPT ![t] = begun(o)]
  BY <1>2 DEF BeginValidation
<1>4. /\ clock' = clock /\ runs' = runs
      /\ Cardinality(RunsOf(n)) < RunLimit
      /\ \A x \in LiveClaims : claims[x].rev # n
  BY <1>2 DEF BeginValidation
<1>5. /\ o \in Owners /\ o # NoOwner /\ s \notin LiveClaims
      /\ \A x \in DOMAIN claims : claims[x].owner # o
      /\ \A u \in Threads : task[u].owner # o
  BY <1>3, RuleSetAssumption DEF FreshOwners, FreeSlots
<1>6. /\ DOMAIN claims' = LiveClaims \cup {s} /\ LiveClaims \subseteq DOMAIN claims
      /\ \A x \in LiveClaims : claims'[x] = claims[x]
      /\ claims'[s].rev = n /\ claims'[s].owner = o
      /\ claims'[s].expires = clock + ClaimTTL
  BY <1>3, <1>5 DEF LiveClaims
<1>7. /\ task'[t].pc = "running" /\ task'[t].rev = n /\ task'[t].owner = o
      /\ task'[t].until = clock + MaxRun
      /\ \A u \in Threads : u # t => task'[u] = task[u]
  BY <1>3, ClaimsKnown DEF CoreInv, IdleTask
<1> HIDE DEF claim, begun
<1>8. OwnersInv'
  <2>1. \A u \in Threads : (task'[u].owner = NoOwner) <=> (task'[u].pc = "idle")
    BY <1>5, <1>7 DEF ClaimInv, OwnersInv
  <2>2. \A u, q \in Threads :
          task'[u].owner = task'[q].owner => u = q \/ task'[u].owner = NoOwner
    BY <1>5, <1>7 DEF ClaimInv, OwnersInv
  <2>3. \A u \in Threads, x \in DOMAIN claims' :
          claims'[x].owner = task'[u].owner => claims'[x].rev = task'[u].rev
    <3>1. SUFFICES ASSUME NEW u \in Threads, NEW x \in DOMAIN claims',
                          claims'[x].owner = task'[u].owner
                   PROVE  claims'[x].rev = task'[u].rev
      OBVIOUS
    <3>2. CASE x = s
      BY <1>5, <1>6, <1>7, <3>1, <3>2
    <3>3. CASE x # s
      BY <1>5, <1>6, <1>7, <3>1, <3>3 DEF ClaimInv, OwnersInv
    <3> QED
      BY <3>2, <3>3
  <2>4. \A y, x \in LiveClaims' : claims'[y].rev = claims'[x].rev => y = x
    <3>1. LiveClaims' \subseteq LiveClaims \cup {s}
      BY <1>6 DEF LiveClaims
    <3>2. \A y, x \in LiveClaims \cup {s} : claims'[y].rev = claims'[x].rev => y = x
      BY <1>4, <1>6 DEF ClaimInv, OwnersInv
    <3> QED
      BY <3>1, <3>2
  <2> QED
    BY <2>1, <2>2, <2>3, <2>4 DEF OwnersInv
<1>9. ASSUME NEW u \in Threads PROVE ProcessFor(u)'
  <2>1. CASE u = t
    <3>1. clock \in Nat /\ clock <= clock + MaxRun /\ clock + MaxRun < clock + ClaimTTL
      BY ClaimsKnown, LimitTypes DEF CoreInv
    <3> QED
      BY <1>4, <1>6, <1>7, <2>1, <3>1 DEF ProcessFor
  <2>2. CASE u # t
    <3>1. SUFFICES ASSUME task[u].pc \in {"running", "orphan"} PROVE ProcessFor(u)'
      BY <1>7, <2>2 DEF ProcessFor
    <3>2. clock <= task[u].until
      BY <3>1 DEF ClaimInv, ProcessFor
    <3>3. PICK x \in DOMAIN claims :
            claims[x].owner = task[u].owner /\ task[u].until < claims[x].expires
      BY <3>1 DEF ClaimInv, ProcessFor
    <3>4. x \in LiveClaims
      BY <3>2, <3>3, ClaimsKnown DEF LiveClaims, CoreInv
    <3> QED
      BY <1>4, <1>6, <1>7, <2>2, <3>2, <3>3, <3>4 DEF ProcessFor
  <2> QED
    BY <2>1, <2>2
<1>10. ASSUME NEW u \in Threads PROVE RoomFor(u)'
  <2>1. \A m : RunsOf(m)' = RunsOf(m)
    BY <1>4 DEF RunsOf
  <2>2. CASE u = t
    BY <1>4, <1>7, <2>1, <2>2 DEF RoomFor
  <2>3. CASE u # t
    <3>1. StillClaimed(u)' => StillClaimed(u)
      <4>1. SUFFICES ASSUME NEW x \in LiveClaims', claims'[x].owner = task'[u].owner
                     PROVE  StillClaimed(u)
        BY DEF StillClaimed
      <4>2. x \in LiveClaims \cup {s}
        BY <1>6 DEF LiveClaims
      <4>3. x \in LiveClaims /\ claims[x].owner = task[u].owner
        BY <1>5, <1>6, <1>7, <2>3, <4>1, <4>2
      <4> QED
        BY <4>3 DEF StillClaimed
    <3> QED
      BY <1>7, <2>1, <2>3, <3>1 DEF RoomFor, ClaimInv
  <2> QED
    BY <2>2, <2>3
<1> QED
  BY <1>8, <1>9, <1>10

\* Reports are added one at a time, and only to a revision that has room.
LEMMA ReportsOfRevision ==
  ASSUME CoreInv, NEW t \in Threads, RecordReport(t), NEW m, m = task[t].rev
  PROVE  /\ \A n : n # m => RunsOf(n)' = RunsOf(n)
         /\ Cardinality(RunsOf(m)') = Cardinality(RunsOf(m)) + 1
         /\ StillClaimed(t) /\ task[t].pc = "reported"
<1> DEFINE i == Len(runs) + 1
<1>1. /\ DOMAIN runs' = DOMAIN runs \cup {i} /\ i \notin DOMAIN runs
      /\ \A j \in DOMAIN runs : runs'[j] = runs[j]
      /\ runs'[i].rev = m
  BY ReportRecorded DEF CoreInv
<1>2. StillClaimed(t) /\ task[t].pc = "reported"
  BY DEF RecordReport
<1> HIDE DEF i
<1>3. \A n : n # m => RunsOf(n)' = RunsOf(n)
  BY <1>1 DEF RunsOf
<1>4. RunsOf(m)' = RunsOf(m) \cup {i} /\ i \notin RunsOf(m)
  BY <1>1 DEF RunsOf
<1>5. Cardinality(RunsOf(m)') = Cardinality(RunsOf(m)) + 1
  BY <1>4, CountsKnown, FS_AddElement
<1> QED
  BY <1>2, <1>3, <1>5

\* Two threads that may both still record have claimed different revisions.
LEMMA ClaimedApart ==
  ASSUME CoreInv, OwnersInv, NEW t \in Threads, NEW u \in Threads, t # u,
         task[t].pc # "idle", StillClaimed(t), StillClaimed(u)
  PROVE  task[t].rev # task[u].rev
<1>1. PICK s \in LiveClaims : claims[s].owner = task[t].owner
  BY DEF StillClaimed
<1>2. PICK x \in LiveClaims : claims[x].owner = task[u].owner
  BY DEF StillClaimed
<1>3. s # x
  BY <1>1, <1>2 DEF OwnersInv
<1>4. claims[s].rev = task[t].rev /\ claims[x].rev = task[u].rev
  BY <1>1, <1>2 DEF OwnersInv, LiveClaims
<1> QED
  BY <1>3, <1>4 DEF OwnersInv

LEMMA RoomFades ==
  ASSUME CoreInv, ClaimInv, [Next]_vars, Fades, NEW t \in Threads
  PROVE  RoomFor(t)'
<1> SUFFICES ASSUME task'[t].pc \in {"running", "reported"}, StillClaimed(t)'
             PROVE  Cardinality(RunsOf(task[t].rev)') < RunLimit /\ task'[t].rev = task[t].rev
  BY DEF RoomFor, RunsOf
<1>1. /\ task[t].pc \in {"running", "reported"} /\ StillClaimed(t)
      /\ task'[t].rev = task[t].rev
  BY HeldBefore DEF CoreInv
<1>2. Cardinality(RunsOf(task[t].rev)) < RunLimit
  BY <1>1 DEF ClaimInv, RoomFor
<1>3. CASE runs' = runs
  BY <1>1, <1>2, <1>3 DEF RunsOf
<1>4. CASE \E u \in Threads : RecordReport(u)
  <2>1. PICK u \in Threads : RecordReport(u)
    BY <1>4
  <2>2. u # t
    <3>1. task'[u].pc = "closing"
      BY <2>1, ClaimsKnown DEF RecordReport, CoreInv, Task
    <3> QED
      BY <3>1
  <2>3. task[t].rev # task[u].rev
    BY <1>1, <2>1, <2>2, ReportsOfRevision, ClaimedApart DEF ClaimInv
  <2> QED
    BY <1>1, <1>2, <2>1, <2>3, ReportsOfRevision
<1> QED
  BY <1>3, <1>4, ReportsGrow DEF CoreInv

LEMMA QuotaGoesOn ==
  ASSUME CoreInv, ClaimInv, [Next]_vars, NEW n \in DOMAIN revs'
  PROVE  Cardinality(RunsOf(n)') <= RunLimit
<1>1. Cardinality(RunsOf(n)) <= RunLimit
  <2>1. CASE n \in DOMAIN revs
    BY <2>1 DEF ClaimInv
  <2>2. CASE n \notin DOMAIN revs
    <3>1. RunsOf(n) = {}
      BY <2>2 DEF RunsOf, CoreInv, TasksInv
    <3> QED
      BY <3>1, FS_EmptySet, LimitTypes
  <2> QED
    BY <2>1, <2>2
<1>2. CASE runs' = runs
  BY <1>1, <1>2 DEF RunsOf
<1>3. CASE \E u \in Threads : RecordReport(u)
  <2>1. PICK u \in Threads : RecordReport(u)
    BY <1>3
  <2>2. CASE n # task[u].rev
    BY <1>1, <2>1, <2>2, ReportsOfRevision
  <2>3. CASE n = task[u].rev
    <3>1. Cardinality(RunsOf(n)) < RunLimit
      BY <2>1, <2>3, ReportsOfRevision DEF ClaimInv, RoomFor
    <3>2. Cardinality(RunsOf(n)') = Cardinality(RunsOf(n)) + 1
      BY <2>1, <2>3, ReportsOfRevision
    <3>3. Cardinality(RunsOf(n)) \in Nat /\ RunLimit \in Nat
      BY CountsKnown, LimitTypes
    <3> QED
      BY <3>1, <3>2, <3>3
  <2> QED
    BY <2>2, <2>3
<1> QED
  BY <1>2, <1>3, ReportsGrow DEF CoreInv

LEMMA ClaimsGoOn ==
  ASSUME CoreInv, ClaimInv, [Next]_vars
  PROVE  ClaimInv'
<1>1. CASE Fades
  BY <1>1, OwnersFade, ProcessFades, RoomFades, QuotaGoesOn DEF ClaimInv, CoreInv
<1>2. CASE \E t \in Threads : Begins(t)
  BY <1>2, BeginClaims, QuotaGoesOn DEF ClaimInv
<1>3. Fades \/ \E t \in Threads : Begins(t)
  <2>1. CASE \E t \in Threads : Validates(t)
    BY <2>1, ThreadFades
  <2>2. CASE \E flag \in BOOLEAN, v \in Policies : Restart(flag, v)
    BY <2>2, RestartFades
  <2>3. CASE Tick
    BY <2>3, TickFades
  <2>4. CASE UNCHANGED validating
    BY <2>4, OthersFade
  <2>5. CASE \E a \in Actors, r \in Rules : Works(a, r, page[a][r])
    BY <2>4, <2>5, WorksEvolve, PageKnown DEF Evolves, CoreInv
  <2>6. CASE \E r \in Rules : LegacyStep(r)
    BY <2>4, <2>6, LegacyRows DEF CoreInv
  <2> QED
    BY <2>1, <2>2, <2>3, <2>4, <2>5, <2>6, StepCases
       DEF Create, Load, ChangeRole, vars, validating
<1> QED
  BY <1>1, <1>2, <1>3

\* Every process that is alive holds a slot that no other one holds.
LEMMA ProcessesFit ==
  ASSUME CoreInv, ClaimInv
  PROVE  Cardinality(Processing) <= Slots
<1> DEFINE slot == [t \in Processing |->
                      CHOOSE s \in DOMAIN claims : claims[s].owner = task[t].owner]
<1>1. \A t \in Processing : slot[t] \in DOMAIN claims /\ claims[slot[t]].owner = task[t].owner
  BY DEF Processing, ClaimInv, ProcessFor
<1>2. DOMAIN claims \subseteq 1..Slots
  BY DEF CoreInv, TypeOK
<1>4. slot \in [Processing -> 1..Slots]
  BY <1>1, <1>2
<1> HIDE DEF slot
<1>3. \A t, u \in Processing : slot[t] = slot[u] => t = u
  <2>1. SUFFICES ASSUME NEW t \in Processing, NEW u \in Processing, slot[t] = slot[u]
                 PROVE  t = u
    OBVIOUS
  <2>2. task[t].owner = task[u].owner
    BY <1>1, <2>1
  <2>3. t \in Threads /\ u \in Threads /\ task[t].pc # "idle"
    BY DEF Processing
  <2> QED
    BY <2>2, <2>3 DEF ClaimInv, OwnersInv
<1>5. slot \in Injection(Processing, 1..Slots)
  BY <1>3, <1>4 DEF Injection, IsInjective
<1>6. IsFiniteSet(1..Slots) /\ Cardinality(1..Slots) = Slots /\ Slots \in Nat
  BY LimitTypes, FS_Interval
<1> QED
  BY <1>5, <1>6, FS_Injection

-----------------------------------------------------------------------------
(* The public catalog.                                                     *)

ApprovedRevs == {n \in DOMAIN revs : revs[n].state = "approved"}

\* What a step has to keep for nobody to see a difference.
SameAt(r) ==
  rule'[r].published = rule[r].published /\ rule'[r].archived = rule[r].archived

LEMMA NothingSeen ==
  ASSUME \A r \in Rules : SameAt(r), ApprovedRevs' = ApprovedRevs
  PROVE  UNCHANGED Catalog!vars
<1>1. [r \in Rules |-> rule'[r].published] = [r \in Rules |-> rule[r].published]
  BY DEF SameAt
<1>2. {r \in Rules : rule'[r].archived} = {r \in Rules : rule[r].archived}
  BY DEF SameAt
<1> QED
  BY <1>1, <1>2 DEF Catalog!vars, ApprovedRevs

\* A request touches one rule, and of its revisions the working one.
LEMMA WorksApart ==
  ASSUME CoreInv, NEW r \in Rules, Evolves(r)
  PROVE  /\ \A q \in Rules : q # r => SameAt(q)
         /\ \A n : n # rule[r].working => (n \in ApprovedRevs' <=> n \in ApprovedRevs)
         /\ rule[r].working \in DOMAIN revs'
<1>1. \A q \in Rules : q # r => rule'[q] = rule[q]
  BY RowsOfOthers DEF CoreInv
<1>2. PICK row \in Row : Settles(r, row) \/ Extends(r, row)
  BY DEF Evolves
<1>3. /\ DOMAIN revs = 1..Len(revs) /\ DOMAIN revs' = 1..Len(revs') /\ Len(revs) \in Nat
      /\ rule[r].working \in DOMAIN revs
  BY Tables, LenProperties, WorkingKnown DEF CoreInv, Evolves
<1>4. \A n \in DOMAIN revs : n # rule[r].working => revs'[n] = revs[n]
  BY DEF Evolves, Kept
<1>5. /\ \A n \in DOMAIN revs' : n \in DOMAIN revs \/ revs'[n].state = "draft"
      /\ DOMAIN revs \subseteq DOMAIN revs'
  <2>1. CASE Settles(r, row)
    BY <1>3, <2>1 DEF Settles
  <2>2. CASE Extends(r, row)
    <3>1. Len(revs') = Len(revs) + 1 /\ revs'[Len(revs) + 1].state = "draft"
      BY <2>2 DEF Extends
    <3>2. \A n \in DOMAIN revs' : n \in DOMAIN revs \/ n = Len(revs) + 1
      BY <1>3, <3>1
    <3> QED
      BY <1>3, <3>1, <3>2
  <2> QED
    BY <1>2, <2>1, <2>2
<1> QED
  BY <1>1, <1>3, <1>4, <1>5 DEF SameAt, ApprovedRevs

LEMMA RevisionAdded ==
  ASSUME CoreInv, NEW r \in Rules, NEW table \in Seq(Revision), Len(table) = Len(revs),
         NEW c \in Contents, NEW parent \in Nat, NEW a \in Actors,
         AddRevision(table, r, c, parent, a)
  PROVE  /\ SameAt(r)
         /\ \A m \in DOMAIN revs : revs'[m] = table[m]
<1>1. Draft(r, c, parent, a) \in Revision
  BY DEF Draft, Revision, RevisionStates, None
<1>2. rule \in [Rules -> Row]
  BY DEF CoreInv, TypeOK
<1>3. SameAt(r)
  BY <1>2 DEF AddRevision, SameAt, Row
<1>4. DOMAIN revs = 1..Len(revs)
  BY Tables DEF CoreInv
<1> QED
  BY <1>1, <1>3, <1>4, Appended DEF AddRevision

\* What a request does to the rule and to the candidate.
LEMMA WorksSeen ==
  ASSUME CoreInv, NEW a \in Actors, NEW r \in Rules, NEW p \in Page, Works(a, r, p),
         NEW w, w = rule[r].working
  PROVE  \/ SameAt(r) /\ (revs[w].state = "approved" <=> revs'[w].state = "approved")
         \/ SameAt(r) /\ revs'[w].state = "approved"
         \/ SameAt(r) /\ revs[w].state = "approved" /\ revs'[w].state # "approved"
         \/ /\ revs[w].state = "approved" /\ revs'[w].state = "published"
            /\ ~rule[r].archived /\ ~rule'[r].archived /\ rule'[r].published = w
         \/ /\ revs' = revs /\ rule'[r].published = rule[r].published
            /\ rule'[r].archived = ~rule[r].archived
<1>1. /\ w \in DOMAIN revs /\ revs[w] \in Revision /\ Managed(r)
      /\ rule \in [Rules -> Row] /\ rule[r] \in Row
  <2>1. Managed(r)
    BY WorksEvolve DEF CoreInv, Evolves
  <2> QED
    BY <2>1, WorkingKnown DEF CoreInv
<1>2. CASE Submit(r, p)
  <2>1. SameAt(r) /\ p.working = w /\ revs[w].state = "draft"
    BY <1>1, <1>2 DEF Submit, Bumped, SameAt, Row, Candidate
  <2>2. revs'[w].state = "in_review"
    BY <1>1, <1>2, <2>1 DEF Submit, Revision
  <2> QED
    BY <2>1, <2>2
<1>3. CASE \E d \in {"approved", "rejected"} : Review(a, r, p, d)
  <2>1. SameAt(r) /\ p.working = w /\ revs[w].state = "in_review"
    BY <1>1, <1>3 DEF Review, Bumped, SameAt, Row, Candidate
  <2> QED
    BY <2>1
<1>4. CASE Publish(a, r, p)
  <2>1. p.working = w /\ revs[w].state = "approved" /\ ~rule[r].archived
    BY <1>4 DEF Publish, Candidate, Writable
  <2>2. revs'[w].state = "published"
    BY <1>1, <1>4, <2>1 DEF Publish, InState, Revision
  <2>3. rule'[r].published = w /\ ~rule'[r].archived
    BY <1>1, <1>4, <2>1 DEF Publish, Row
  <2> QED
    BY <2>1, <2>2, <2>3
<1>5. CASE Withdraw(a, r, p)
  <2> DEFINE rev == [revs[w] EXCEPT !.state = "withdrawn"]
             table == [revs EXCEPT ![w] = rev]
  <2>1. p.working = w /\ AddRevision(table, r, revs[w].content, w, a)
    BY <1>1, <1>5 DEF Withdraw, Candidate, InState
  <2>2. rev \in Revision /\ rev.state = "withdrawn" /\ revs[w].content \in Contents
        /\ w \in Nat
    BY <1>1, Tables DEF Revision, RevisionStates, Row
  <2>3. table \in Seq(Revision) /\ Len(table) = Len(revs) /\ table[w] = rev
    BY <1>1, <2>2, Marked DEF CoreInv
  <2> HIDE DEF table, rev
  <2>4. SameAt(r) /\ revs'[w].state = "withdrawn"
    BY <1>1, <2>1, <2>2, <2>3, RevisionAdded
  <2> QED
    BY <2>4
<1>6. CASE \/ \E c \in Contents : Succeed(a, r, p, c)
           \/ \E m \in RevsOf(r) : Rollback(a, r, p, m)
  <2>1. PICK c \in Contents, parent \in Nat : AddRevision(revs, r, c, parent, a)
    <3>1. p.working \in Nat /\ rule[r].working \in Nat
      BY <1>1 DEF Page, Row
    <3>2. \A m \in RevsOf(r) : revs[m].content \in Contents
      BY Tables DEF RevsOf, Revision, CoreInv
    <3> QED
      BY <1>6, <3>1, <3>2 DEF Succeed, Rollback
  <2>2. SameAt(r) /\ revs'[w] = revs[w]
    BY <1>1, <2>1, RevisionAdded DEF CoreInv, TypeOK
  <2> QED
    BY <2>2
<1>7. CASE Archive(r, p)
  <2>1. revs' = revs /\ rule'[r].published = rule[r].published
        /\ rule'[r].archived = ~rule[r].archived
    BY <1>1, <1>7 DEF Archive, Row
  <2> QED
    BY <2>1
<1> QED
  BY <1>2, <1>3, <1>4, <1>5, <1>6, <1>7 DEF Works

LEMMA WorksRefine ==
  ASSUME CoreInv, NEW a \in Actors, NEW r \in Rules, NEW p \in Page, Works(a, r, p)
  PROVE  [Catalog!Next]_(Catalog!vars)
<1> DEFINE shown == [q \in Rules |-> rule[q].published]
           hidden == {q \in Rules : rule[q].archived}
<1>1. PICK w : w = rule[r].working
  OBVIOUS
<1>2. Evolves(r) /\ Managed(r)
  BY WorksEvolve DEF CoreInv, Evolves
<1>3. /\ \A q \in Rules : q # r => SameAt(q)
      /\ \A n : n # w => (n \in ApprovedRevs' <=> n \in ApprovedRevs)
      /\ w \in DOMAIN revs' /\ w \in DOMAIN revs
  BY <1>1, <1>2, WorksApart, WorkingKnown DEF CoreInv
<1>4. CASE SameAt(r) /\ (revs[w].state = "approved" <=> revs'[w].state = "approved")
  <2>1. ApprovedRevs' = ApprovedRevs
    BY <1>3, <1>4 DEF ApprovedRevs
  <2> QED
    BY <1>3, <1>4, <2>1, NothingSeen
<1>5. CASE SameAt(r) /\ revs'[w].state = "approved"
  <2>1. shown' = shown /\ hidden' = hidden
    BY <1>3, <1>5 DEF SameAt
  <2>2. ApprovedRevs' = ApprovedRevs \cup {w} /\ w \in ApprovedRevs'
    BY <1>3, <1>5 DEF ApprovedRevs
  <2>3. Catalog!Approve(w)
    BY <2>1, <2>2 DEF Catalog!Approve, ApprovedRevs
  <2> QED
    BY <2>2, <2>3 DEF Catalog!Next, ApprovedRevs
<1>6. CASE SameAt(r) /\ revs[w].state = "approved" /\ revs'[w].state # "approved"
  <2>1. shown' = shown /\ hidden' = hidden
    BY <1>3, <1>6 DEF SameAt
  <2>2. ApprovedRevs' = ApprovedRevs \ {w} /\ w \in ApprovedRevs
    BY <1>3, <1>6 DEF ApprovedRevs
  <2>3. Catalog!Withdraw(w)
    BY <2>1, <2>2 DEF Catalog!Withdraw, ApprovedRevs
  <2> QED
    BY <2>2, <2>3 DEF Catalog!Next, ApprovedRevs
<1>7. CASE /\ revs[w].state = "approved" /\ revs'[w].state = "published"
           /\ ~rule[r].archived /\ ~rule'[r].archived /\ rule'[r].published = w
  <2>1. hidden' = hidden /\ r \notin hidden
    BY <1>3, <1>7 DEF SameAt
  <2>2. shown' = [shown EXCEPT ![r] = w] /\ shown'[r] = w
    BY <1>3, <1>7 DEF SameAt
  <2>3. ApprovedRevs' = ApprovedRevs \ {w} /\ w \in ApprovedRevs
    BY <1>3, <1>7 DEF ApprovedRevs
  <2>4. w > rule[r].published
    <3>1. w \in Nat /\ w >= 1 /\ rule[r].published \in Nat
      BY <1>3, Tables DEF CoreInv, TypeOK, Row
    <3>2. CASE rule[r].published = None
      BY <3>1, <3>2 DEF None
    <3>3. CASE rule[r].published # None
      <4>1. rule[r].published <= w /\ revs[rule[r].published].state \in Public
        BY <1>1, <1>2, <3>3 DEF CoreInv, RowsInv, RowFor
      <4> QED
        BY <1>7, <3>1, <4>1 DEF Public
    <3> QED
      BY <3>2, <3>3
  <2>5. w > shown[r]
    BY <2>4
  <2>6. Catalog!Next
    BY <2>1, <2>2, <2>3, <2>5 DEF Catalog!Next, Catalog!Release, ApprovedRevs
  <2> QED
    BY <2>6
<1>8. CASE /\ revs' = revs /\ rule'[r].published = rule[r].published
           /\ rule'[r].archived = ~rule[r].archived
  <2>1. shown' = shown /\ ApprovedRevs' = ApprovedRevs
    BY <1>3, <1>8 DEF SameAt, ApprovedRevs
  <2>2. hidden' = IF r \in hidden THEN hidden \ {r} ELSE hidden \cup {r}
    BY <1>3, <1>8 DEF SameAt
  <2>3. Catalog!Hide(r)
    BY <2>1, <2>2 DEF Catalog!Hide, ApprovedRevs
  <2> QED
    BY <2>3 DEF Catalog!Next
<1> QED
  BY <1>1, <1>4, <1>5, <1>6, <1>7, <1>8, WorksSeen

LEMMA TakeoverRefines ==
  ASSUME CoreInv, Manage
  PROVE  [Catalog!Next]_(Catalog!vars)
<1> DEFINE shown == [q \in Rules |-> rule[q].published]
           hidden == {q \in Rules : rule[q].archived}
<1>1. \A r \in Rules : /\ rule'[r].archived = rule[r].archived
                       /\ r \notin Taken => rule'[r] = rule[r]
                       /\ r \in Taken => rule[r].published = 0
  <2>1. SUFFICES ASSUME NEW r \in Rules
                 PROVE  /\ rule'[r].archived = rule[r].archived
                        /\ r \notin Taken => rule'[r] = rule[r]
                        /\ r \in Taken => rule[r].published = 0
    OBVIOUS
  <2>2. CASE r \in Taken
    <3>1. rule[r].published = 0 /\ rule[r] \in Row
      BY <2>2 DEF CoreInv, RowsInv, RowFor, Managed, Taken, None, TypeOK
    <3>2. PICK n \in DOMAIN revs' :
            rule'[r] = [rule[r] EXCEPT !.status = "managed", !.working = n,
                                       !.published = n]
      BY <2>2, ManageTakesOver DEF CoreInv
    <3> QED
      BY <2>2, <3>1, <3>2 DEF Row
  <2>3. CASE r \notin Taken
    BY <2>3, ManageTakesOver DEF CoreInv
  <2> QED
    BY <2>2, <2>3
<1>2. ApprovedRevs' = ApprovedRevs
  <2>1. /\ DOMAIN revs \subseteq DOMAIN revs' /\ \A n \in DOMAIN revs : revs'[n] = revs[n]
        /\ \A n \in DOMAIN revs' \ DOMAIN revs : revs'[n].state = "legacy_unreviewed"
    BY ManageTakesOver DEF CoreInv
  <2> QED
    BY <2>1 DEF ApprovedRevs
<1>3. hidden' = hidden
  BY <1>1
<1>4. \A s \in Rules : shown'[s] # shown[s] => shown[s] = 0
  BY <1>1
<1>5. shown' = [s \in Rules |-> shown'[s]]
  OBVIOUS
<1>6. Catalog!Adopt
  BY <1>2, <1>3, <1>4, <1>5 DEF Catalog!Adopt, ApprovedRevs
<1> QED
  BY <1>6 DEF Catalog!Next

LEMMA StepRefines ==
  ASSUME CoreInv, [Next]_vars
  PROVE  [Catalog!Next]_(Catalog!vars)
<1>1. CASE \E a \in Actors, r \in Rules : Works(a, r, page[a][r])
  BY <1>1, WorksRefine, PageKnown DEF CoreInv
<1>2. CASE \E a \in Actors, r \in Rules, c \in Contents : Create(a, r, c)
  <2>1. PICK a \in Actors, r \in Rules, c \in Contents : Create(a, r, c)
    BY <1>2
  <2>2. SameAt(r)
    <3>1. rule'[r] = [NoRow EXCEPT !.status = "managed", !.working = Len(revs) + 1]
      BY <2>1, Created DEF CoreInv
    <3>2. ~Managed(r)
      BY <2>1 DEF Create, Managed
    <3>3. rule[r].published = None /\ rule[r].archived = FALSE
      BY <3>2 DEF CoreInv, RowsInv, RowFor, TypeOK, Row
    <3> QED
      BY <3>1, <3>3 DEF NoRow, SameAt
  <2>3. \A q \in Rules : q # r => SameAt(q)
    BY <2>1, Created DEF CoreInv, SameAt
  <2>4. ApprovedRevs' = ApprovedRevs
    <3>1. /\ DOMAIN revs' = DOMAIN revs \cup {Len(revs) + 1}
          /\ Len(revs) + 1 \notin DOMAIN revs
          /\ \A n \in DOMAIN revs : revs'[n] = revs[n]
          /\ revs'[Len(revs) + 1] = Draft(r, c, None, a)
      BY <2>1, Created DEF CoreInv
    <3>2. revs'[Len(revs) + 1].state = "draft"
      BY <3>1 DEF Draft
    <3> QED
      BY <3>1, <3>2 DEF ApprovedRevs
  <2> QED
    BY <2>2, <2>3, <2>4, NothingSeen
<1>3. CASE \E r \in Rules : LegacyStep(r)
  <2>1. \A q \in Rules : SameAt(q)
    BY <1>3, LegacyRows DEF CoreInv, SameAt
  <2>2. revs' = revs
    BY <1>3, LegacyRows DEF CoreInv
  <2> QED
    BY <2>1, <2>2, NothingSeen DEF ApprovedRevs
<1>4. CASE rule' = rule /\ revs' = revs
  BY <1>4, NothingSeen DEF SameAt, ApprovedRevs
<1>5. CASE \E flag \in BOOLEAN, v \in Policies : Restart(flag, v)
  BY <1>4, <1>5, TakeoverRefines DEF Restart
<1>6. CASE \E t \in Threads : Validates(t)
  BY <1>4, <1>6, ValidatesEffect DEF CoreInv
<1> QED
  BY <1>1, <1>2, <1>3, <1>4, <1>5, <1>6, StepCases DEF Load, ChangeRole, Tick, vars

-----------------------------------------------------------------------------
(* Theorems.                                                               *)

RuleInv ==
  /\ CoreInv
  /\ \A r \in Rules : MirrorFor(r) /\ CountFor(r)
  /\ TwoPersonPublication
  /\ PagesInv
  /\ ClaimInv

LEMMA RuleStarts == Init => RuleInv
<1> SUFFICES ASSUME Init PROVE RuleInv
  OBVIOUS
<1>1. CoreInv
  BY CoreStarts
<1>2. \A r \in Rules : ~Managed(r)
  BY DEF Init, NoRow, Managed
<1>3. DOMAIN revs = {} /\ DOMAIN claims = {}
  BY DEF Init
<1>4. \A r \in Rules : MirrorFor(r) /\ CountFor(r)
  BY <1>2 DEF MirrorFor, CountFor
<1>5. TwoPersonPublication
  BY <1>3 DEF TwoPersonPublication
<1>6. PagesInv
  <2>1. \A a \in Actors, r \in Rules :
          page[a][r] = NoPage /\ rule[r].version = 1
    BY DEF Init, NoRow
  <2> QED
    BY <1>2, <2>1 DEF PagesInv, PageFor, NoPage
<1>7. ClaimInv
  <2>1. \A t \in Threads : task[t].pc = "idle" /\ task[t].owner = NoOwner
    BY DEF Init, IdleTask
  <2> QED
    BY <1>3, <2>1 DEF ClaimInv, OwnersInv, ProcessFor, RoomFor, LiveClaims
<1> QED
  BY <1>1, <1>4, <1>5, <1>6, <1>7 DEF RuleInv

LEMMA RuleGoesOn ==
  ASSUME RuleInv, [Next]_vars
  PROVE  RuleInv'
<1>1. CoreInv'
  BY CoreGoesOn DEF RuleInv
<1>2. \A r \in Rules : MirrorFor(r)' /\ CountFor(r)'
  BY MirrorGoesOn, CountGoesOn DEF RuleInv
<1>3. TwoPersonPublication'
  BY TwoPersonGoesOn DEF RuleInv
<1>4. PagesInv'
  BY PageGoesOn DEF RuleInv, PagesInv
<1>5. ClaimInv'
  BY ClaimsGoOn DEF RuleInv
<1> QED
  BY <1>1, <1>2, <1>3, <1>4, <1>5 DEF RuleInv

LEMMA RuleAlways == Spec => []RuleInv
BY RuleStarts, RuleGoesOn, PTL DEF Spec

\* The rows of detection_rules, rule_revisions, rule_validation_runs,
\* rule_reviews and rule_validation_claims, what the pages show and where the
\* threads are keep their types: the workflow writes nothing else.
THEOREM RuleTypes == Spec => []TypeOK
<1>1. RuleInv => TypeOK
  BY DEF RuleInv, CoreInv
<1> QED
  BY <1>1, RuleAlways, PTL

\* new_revision and derive refuse a frozen working revision, or mark it first,
\* and current_candidate names no other: a candidate under review or approved is
\* always the working one of its rule.
THEOREM CandidatesStay == Spec => []FrozenIsWorking
<1>1. RuleInv => FrozenIsWorking
  BY DEF RuleInv, CoreInv, RowsInv, FrozenIsWorking
<1> QED
  BY <1>1, RuleAlways, PTL

\* Nothing is published but with a valid report of that very revision and the
\* approval of that report by somebody else than its author, for any number of
\* people, tokens, revisions and installations (submit, review, publish).
THEOREM TwoPeoplePublish == Spec => []TwoPersonPublication
<1>1. RuleInv => TwoPersonPublication
  BY DEF RuleInv
<1> QED
  BY <1>1, RuleAlways, PTL

\* A page whose version is the current one shows the rule as it is, but for
\* reports recorded since it was loaded, on which a submission may act; and the
\* versions and reports of a rule are counted by its events (check_version,
\* every row_version+1, validate, event).
THEOREM PagesAreTrue == Spec => []PageCurrent
<1>1. RuleInv => PageCurrent
  BY DEF RuleInv, PagesInv, PageFor, CountFor, PageCurrent, Managed
<1> QED
  BY <1>1, RuleAlways, PTL

\* The columns that the legacy catalog reads are those of the published
\* revision, or the blank identity (publish, manage_existing).
THEOREM ColumnsMirror == Spec => []MirrorsPublished
<1>1. RuleInv => MirrorsPublished
  BY MirrorParts DEF RuleInv
<1> QED
  BY <1>1, RuleAlways, PTL

\* However claims expire, threads die and processes are orphaned, there are
\* never more validator processes than slots, nor more reports of a revision than
\* its quota (validate, run_validator): MaxRun < ClaimTTL is enough for it.
THEOREM ValidationBounded == Spec => []ProcessBound
<1>1. RuleInv => ProcessBound
  BY ProcessesFit DEF RuleInv, ClaimInv, ProcessBound
<1> QED
  BY <1>1, RuleAlways, PTL

\* The workbench implements the catalog that the public sees: what is shown
\* was approved before and is newer than what was shown, and every other step
\* adopts a legacy rule, approves, withdraws, hides or shows one, or changes
\* nothing (publish, derive, archive, manage_existing).
THEOREM CatalogImplemented == Spec => CatalogKept
<1>1. Init => Catalog!Init
  <2> SUFFICES ASSUME Init PROVE Catalog!Init
    OBVIOUS
  <2>1. \A r \in Rules : rule[r].published = 0 /\ rule[r].archived = FALSE
    BY DEF Init, NoRow, None
  <2>2. {n \in DOMAIN revs : revs[n].state = "approved"} = {}
    BY DEF Init
  <2> QED
    BY <2>1, <2>2 DEF Catalog!Init
<1>2. RuleInv /\ [Next]_vars => [Catalog!Next]_(Catalog!vars)
  BY StepRefines DEF RuleInv
<1> QED
  BY <1>1, <1>2, RuleAlways, PTL DEF Spec, CatalogKept, Catalog!Spec

=============================================================================
