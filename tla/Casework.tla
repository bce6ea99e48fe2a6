------------------------------ MODULE Casework ------------------------------
(* Investigation cases and captured evidence (app/services/case_service.py,   *)
(* app/services/investigation_snapshot_service.py) over the accounts of       *)
(* AccessControl.  An analyst loads a page of a case, sends a change with the *)
(* version the page shows, and the change is one transaction with its events. *)
(* Anything may happen between these steps, to the account too.               *)
EXTENDS AccessControl, SequencesExt

CONSTANTS
  Texts,          \* what the title and severity of a case say
  Targets,        \* assets, CVEs, actors and rules that may be referred to
  CaseLimit, EventLimit, NoteLimit, EvidenceLimit, ReferenceLimit,
  SnapshotLimit   \* LIMITS of case_service, made small

ASSUME CaseAssumption ==
  {CaseLimit, EventLimit, NoteLimit, EvidenceLimit, ReferenceLimit,
   SnapshotLimit} \subseteq Nat \ {0}

VARIABLES
  cases,      \* rows of cases by id, each with its entries and events
  snapshots,  \* rows of investigation_snapshots by id
  visit       \* what each process does for an analyst

caseVars == <<cases, snapshots, visit>>
accessVars == <<accountVars, sessionVars, tokenVars, clock, req>>
allVars == <<vars, caseVars>>

Unassigned == 0
Owners == 0..MaxAccounts
UserIds == {users[n].id : n \in DOMAIN users}
Staff == {"analyst", "admin"}

\* The changes an analyst may ask for: fields to set, or an entry to add.
Edits == [text : Texts] \cup [assignee : Owners] \cup [text : Texts, assignee : Owners]
CaseCalls ==
  [op : {"edit"}, set : Edits]
    \cup [op : {"transition"}, set : [status : {"open", "in_progress", "closed"}]]
    \cup [op : {"archive"}, set : [archived : BOOLEAN]]
    \cup [op : {"note"}] \cup [op : {"attach"}, snapshot : 1..SnapshotLimit]
    \cup [op : {"reference"}, target : Targets]
Creations ==
  [text : Texts, assignee : Owners, note : BOOLEAN, snapshot : 0..SnapshotLimit]

CaseInit ==
  /\ cases = <<>> /\ snapshots = <<>>
  /\ visit = [p \in Processes |-> Idle]

Leave(p) == visit' = [visit EXCEPT ![p] = Idle]
Doing(p, pc) == visit[p].pc = pc
Uid(p) == visit[p].actor.id
CaseOf(p) == cases[visit[p].case]

-----------------------------------------------------------------------------
(* A case and its chronology.                                              *)

Writable(row) == ~row.archived /\ row.status # "closed"
\* check_version
UpToDate(p) == visit[p].seen.ver = CaseOf(p).ver
\* validate_assignee
Assignable(id) ==
  id = Unassigned \/ \E n \in DOMAIN users :
                       users[n].id = id /\ users[n].role \in Staff

\* Variant: nothing holds the row of the account.
KnownBefore(p) == TRUE
\* The foreign keys of what is written to the account that writes it.
Known(p) == Uid(p) \in UserIds

\* event: the row with one more event, about fields that were set or an entry.
Told(row, p, kind, says) ==
  [row EXCEPT !.events = Append(@, [kind |-> kind, by |-> Uid(p), says |-> says])]
HasRoom(row) == Len(row.events) <= EventLimit

\* Variant: notes do not advance the version, as they leave the row alone.
AdvancedByFields(row, kind) ==
  [row EXCEPT !.ver = IF kind = "note_added" THEN @ ELSE @ + 1]
\* bump
Advanced(row, kind) == [row EXCEPT !.ver = @ + 1]

\* UPDATE cases SET: the row with the fields that are set.
Updated(row, set) ==
  [f \in DOMAIN row |-> IF f \in DOMAIN set THEN set[f] ELSE row[f]]

\* An update of the case a page shows, with its event and its audit entry.
Update(p, new, kind, says) ==
  LET row == Told(Advanced(new, kind), p, kind, says) IN
  /\ UpToDate(p) /\ Known(p) /\ HasRoom(row)
  /\ cases' = [cases EXCEPT ![visit[p].case] = row]
  /\ LogWithin("CHANGE") /\ Leave(p)

Edit(p, call) ==
  /\ call.op = "edit" /\ Writable(CaseOf(p))
  /\ "assignee" \in DOMAIN call.set => Assignable(call.set.assignee)
  /\ Update(p, Updated(CaseOf(p), call.set), "edited", call.set)
  /\ UNCHANGED snapshots

\* Variant: the chronology tells where the case came from.
MovedFrom(row, set) == [status |-> row.status]
\* What the event of a transition tells of the status.
Moved(row, set) == set
\* Only an administrator or the assigned analyst closes a case.
MayClose(p) ==
  visit[p].actor.role = "admin" \/ CaseOf(p).assignee = Uid(p)
Transition(p, call) ==
  /\ call.op = "transition" /\ ~CaseOf(p).archived
  /\ CaseOf(p).status # call.set.status
  /\ call.set.status = "closed" => MayClose(p)
  /\ Update(p, Updated(CaseOf(p), call.set), "transitioned", Moved(CaseOf(p), call.set))
  /\ UNCHANGED snapshots

AddNote(p, call) ==
  LET row == CaseOf(p) IN
  /\ call.op = "note" /\ Writable(row) /\ row.notes < NoteLimit
  /\ Update(p, [row EXCEPT !.notes = @ + 1], "note_added", [note |-> row.notes + 1])
  /\ UNCHANGED snapshots

AddReference(p, call) ==
  LET row == CaseOf(p) t == call.target IN
  /\ call.op = "reference" /\ Writable(row)
  /\ t \notin row.references /\ Cardinality(row.references) < ReferenceLimit
  /\ Update(p, [row EXCEPT !.references = @ \cup {t}], "reference_added", [target |-> t])
  /\ UNCHANGED snapshots

\* The route admits administrators only.
Archive(p, call) ==
  /\ call.op = "archive" /\ CaseOf(p).archived # call.set.archived
  /\ Update(p, Updated(CaseOf(p), call.set),
            IF call.set.archived THEN "archived" ELSE "restored", call.set)
  /\ UNCHANGED snapshots

-----------------------------------------------------------------------------
(* Evidence.                                                               *)

Shared(s) == \E c \in DOMAIN cases : s \in cases[c].evidence
\* Variant: the name decides, which another account may have taken over.
AuthorizedByName(p, s) ==
  s \in DOMAIN snapshots /\ (snapshots[s].name = visit[p].actor.name \/ Shared(s))
\* authorized_snapshot: for its principal, and for all once a case has it.
Authorized(p, s) ==
  s \in DOMAIN snapshots /\ (snapshots[s].principal = Uid(p) \/ Shared(s))
\* History: who shared a snapshot.
Share(p, s) ==
  snapshots' = IF Shared(s) THEN snapshots ELSE [snapshots EXCEPT ![s].sharer = Uid(p)]

\* Evidence that is there already is neither added nor refused.
Attach(p, call) ==
  LET row == CaseOf(p) s == call.snapshot IN
  /\ call.op = "attach" /\ Writable(row) /\ Authorized(p, s)
  /\ s \notin row.evidence /\ Cardinality(row.evidence) < EvidenceLimit
  /\ Update(p, [row EXCEPT !.evidence = @ \cup {s}], "evidence_attached", [snapshot |-> s])
  /\ Share(p, s)

\* create: a case with an initial note and evidence, each with an event.
Create(p, new) ==
  LET blank == [text |-> new.text, assignee |-> new.assignee, status |-> "open",
                archived |-> FALSE, ver |-> 1, notes |-> 0, references |-> {},
                evidence |-> {}, events |-> <<>>]
      opened == Told(blank, p, "created", [text |-> new.text, assignee |-> new.assignee])
      noted == IF ~new.note THEN opened
               ELSE Told([opened EXCEPT !.notes = 1], p, "note_added", [note |-> 1])
      row == IF new.snapshot = 0 THEN noted
             ELSE Told([noted EXCEPT !.evidence = {new.snapshot}], p,
                       "evidence_attached", [snapshot |-> new.snapshot])
  IN /\ Doing(p, "create") /\ Len(cases) < CaseLimit
     /\ Assignable(new.assignee) /\ Known(p) /\ HasRoom(row)
     /\ cases' = Append(cases, row)
     /\ \/ new.snapshot = 0 /\ UNCHANGED snapshots
        \/ Authorized(p, new.snapshot) /\ Share(p, new.snapshot)
     /\ LogWithin("CHANGE") /\ Leave(p)

\* capture looks at the quota, enriches without a lock, and looks again.
RoomToStore == Len(snapshots) < SnapshotLimit
Store(p) ==
  /\ Doing(p, "enrich") /\ RoomToStore /\ Known(p)
  /\ snapshots' = Append(snapshots, [principal |-> Uid(p),
                           name |-> visit[p].actor.name, sharer |-> Unassigned])
  /\ LogWithin("CHANGE") /\ Leave(p)
  /\ UNCHANGED cases

-----------------------------------------------------------------------------
(* Visits.                                                                 *)

\* A request for staff; the two reads of its authentication are one step.
Admitted(s) == Accepted(s) /\ users[s.sub].role \in Staff
Actor(s) == [id |-> s.uid, name |-> s.sub, role |-> users[s.sub].role]
Start(p, state) == visit' = [visit EXCEPT ![p] = state]

Shown(row) == [f \in DOMAIN row \ {"events"} |-> row[f]]
Load(p, s, c) ==
  /\ Doing(p, "idle") /\ Admitted(s)
  /\ Start(p, [pc |-> "page", session |-> s, case |-> c, seen |-> Shown(cases[c])])
Submit(p, call) ==
  /\ Doing(p, "page") /\ Admitted(visit[p].session)
  /\ call.op = "archive" => users[visit[p].session.sub].role = "admin"
  /\ Start(p, [pc |-> "change", call |-> call, actor |-> Actor(visit[p].session),
               case |-> visit[p].case, seen |-> visit[p].seen])
BeginCreate(p, s) ==
  /\ Doing(p, "idle") /\ Admitted(s)
  /\ Start(p, [pc |-> "create", actor |-> Actor(s)])
BeginCapture(p, s) ==
  /\ Doing(p, "idle") /\ Admitted(s) /\ RoomToStore
  /\ Start(p, [pc |-> "enrich", actor |-> Actor(s)])

Change(p) ==
  /\ Doing(p, "change")
  /\ LET call == visit[p].call IN
       \/ Edit(p, call) \/ Transition(p, call) \/ Archive(p, call)
       \/ AddNote(p, call) \/ AddReference(p, call) \/ Attach(p, call)

\* A transaction that is rolled back, or a page that is closed, changes nothing.
Abandon(p) == ~Doing(p, "idle") /\ Leave(p)

Look(p) ==
  /\ \/ \E s \in sessions : \/ \E c \in DOMAIN cases : Load(p, s, c)
                            \/ BeginCreate(p, s) \/ BeginCapture(p, s)
     \/ \E call \in CaseCalls : Submit(p, call)
     \/ Abandon(p)
  /\ UNCHANGED <<ledgerVars, cases, snapshots>>
Work(p) == Change(p) \/ Store(p) \/ \E new \in Creations : Create(p, new)

\* Variant: the key of the assignee does not notice a deleted account.
KeepAssignees == UNCHANGED cases
\* ON DELETE SET NULL: a case of a deleted account is unassigned.
Cascade ==
  cases' = [c \in DOMAIN cases |->
    [cases[c] EXCEPT !.assignee =
       IF @ \in {users'[n].id : n \in DOMAIN users'} THEN @ ELSE Unassigned]]

CaseNext ==
  \/ Next /\ Cascade /\ UNCHANGED <<snapshots, visit>>
  \/ (\E p \in Processes : Look(p) \/ Work(p)) /\ UNCHANGED accessVars
CaseSpec == Init /\ CaseInit /\ [][CaseNext]_allVars

-----------------------------------------------------------------------------
(* Properties.                                                             *)

\* What a case refers to is there, though accounts are deleted and captures overlap
\* with the requests on it: its owner is an account that exists, its evidence are
\* stored snapshots; and however many captures enrich at once, the quota of
\* snapshots holds (case_migrations.py:15-33, investigation_snapshot_service.py:99-123).
ReferencesHold ==
  /\ \A c \in DOMAIN cases :
       /\ cases[c].assignee \in {Unassigned} \cup UserIds
       /\ cases[c].evidence \subseteq DOMAIN snapshots
  /\ Len(snapshots) <= SnapshotLimit

\* What the chronology says last of a field.
Latest(row, f, first) ==
  LET said == {i \in DOMAIN row.events : f \in DOMAIN row.events[i].says}
  IN IF said = {} THEN first ELSE row.events[Max(said)].says[f]
AllOf(row, f) ==
  {row.events[i].says[f] : i \in {j \in DOMAIN row.events : f \in DOMAIN row.events[j].says}}

\* The chronology alone gives the case: what it says last of each field and all
\* entries it tells of, but for an owner whose account was deleted
\* (case_service.py:41-50).
ChronologyGivesCase ==
  \A c \in DOMAIN cases :
    LET row == cases[c] owner == Latest(row, "assignee", Unassigned) IN
    /\ row.text = Latest(row, "text", row.text)
    /\ row.status = Latest(row, "status", "open")
    /\ row.archived = Latest(row, "archived", FALSE)
    /\ row.assignee = IF owner \in UserIds THEN owner ELSE Unassigned
    /\ AllOf(row, "note") = 1..row.notes
    /\ AllOf(row, "target") = row.references
    /\ AllOf(row, "snapshot") = row.evidence

\* A change is made to the case its author saw: every field and entry is as on the
\* page, but that the owner's account may have been deleted (case_service.py:116-211).
SawWhatChanged ==
  [][\A p \in Processes :
       Doing(p, "change") /\ visit'[p] # visit[p] /\ cases' # cases =>
         LET seen == visit[p].seen row == CaseOf(p) IN
         /\ \A f \in DOMAIN seen \ {"assignee", "ver"} : seen[f] = row[f]
         /\ row.assignee \in {seen.assignee, Unassigned}]_allVars

\* A snapshot is shared with the team by its principal only, not by an account that
\* has taken over the name (investigation_snapshot_service.py:82-91).
SharedByPrincipal ==
  \A s \in DOMAIN snapshots :
    /\ snapshots[s].sharer \in {Unassigned, snapshots[s].principal}
    /\ Shared(s) => snapshots[s].sharer # Unassigned

\* No event is written in the name of an account that is gone, though it was
\* there when its request was authenticated (case_migrations.py:7-8).
NoDepartedAuthor ==
  [][\A c \in DOMAIN cases' : \A i \in DOMAIN cases'[c].events :
       (c \notin DOMAIN cases \/ i \notin DOMAIN cases[c].events)
         => cases'[c].events[i].by \in UserIds]_allVars
=============================================================================
