---------------------------- MODULE CaseTheorems ----------------------------
(***************************************************************************)
(* Investigation cases and evidence, for every value of the constants.     *)
(*                                                                         *)
(* A step on a case is a step of AccessControl (CasesOverAccess), so what  *)
(* AccessTheorems says of accounts holds here too. The chronology gives    *)
(* the case only beside OwnersPast: an account that is created has an id   *)
(* that no event has told of. And a page tells of the case only beside     *)
(* SeenKnown: a version that is still the page's is of the same row.       *)
(***************************************************************************)
EXTENDS Casework, AccessTheorems, WellFoundedInduction

CaseFields == {"text", "assignee", "status", "archived", "ver", "notes",
               "references", "evidence", "events"}
ShownFields == CaseFields \ {"events"}
RowType(row) ==
  /\ row = [f \in CaseFields |-> row[f]]
  /\ row.ver \in Nat /\ row.notes \in Nat
  /\ row.events \in Seq(Rows(row.events))
Owner(row) == Latest(row, "assignee", Unassigned)
CasesTyped ==
  cases \in Seq(Rows(cases)) /\ \A c \in DOMAIN cases : RowType(cases[c])
SnapshotsTyped ==
  /\ snapshots \in Seq(Rows(snapshots)) /\ Len(snapshots) <= SnapshotLimit
  /\ \A s \in DOMAIN snapshots : "sharer" \in DOMAIN snapshots[s]
EvidenceHeld ==
  \A c \in DOMAIN cases : cases[c].evidence \subseteq DOMAIN snapshots
\* No event tells of an account that is still to come.
OwnersPast == \A c \in DOMAIN cases : Owner(cases[c]) \in 0..lastUser

\* A version is of one row, but that its owner's account may have been deleted.
SeenKnown(seen, row) ==
  /\ DOMAIN seen = ShownFields /\ seen.ver \in Nat /\ seen.ver <= row.ver
  /\ seen.ver = row.ver =>
       /\ \A f \in ShownFields \ {"assignee"} : seen[f] = row[f]
       /\ row.assignee \in {seen.assignee, Unassigned}
VisitKnown(p) ==
  /\ visit[p].pc \in {"page", "change"} =>
       /\ visit[p].case \in DOMAIN cases
       /\ SeenKnown(visit[p].seen, cases[visit[p].case])
  /\ visit[p].pc = "change" => visit[p].call \in CaseCalls
VisitsKnown ==
  visit = [p \in Processes |-> visit[p]] /\ \A p \in Processes : VisitKnown(p)

CaseInv ==
  /\ CasesTyped /\ SnapshotsTyped /\ EvidenceHeld /\ OwnersPast /\ VisitsKnown
  /\ ChronologyGivesCase /\ SharedByPrincipal

-----------------------------------------------------------------------------
(* Cases over accounts.                                                    *)

LEMMA WorkLogs ==
  ASSUME NEW p \in Processes, Work(p)
  PROVE  LogWithin("CHANGE")
BY DEF Work, Change, Store, Create, Edit, Transition, Archive, AddNote,
       AddReference, Attach, Update

LEMMA CaseStepIsAccessStep ==
  ASSUME [CaseNext]_allVars
  PROVE  [Next]_vars
<1>1. CASE UNCHANGED allVars
  BY <1>1 DEF allVars
<1>2. ASSUME NEW p \in Processes, Look(p), UNCHANGED accessVars PROVE UNCHANGED vars
  BY <1>2 DEF Look, accessVars, vars
<1>3. ASSUME NEW p \in Processes, Work(p), UNCHANGED accessVars PROVE Next
  BY <1>3, WorkLogs DEF Next, Elsewhere, accessVars
<1> QED
  BY <1>1, <1>2, <1>3 DEF CaseNext

\* Cases change nothing of what is shown of accounts, sessions, tokens and the
\* ledger: an execution with cases is one of AccessControl (case_common.py:15-22).
THEOREM CasesOverAccess == CaseSpec => Spec
BY CaseStepIsAccessStep, PTL DEF CaseSpec, Spec

\* Beside the work on cases too there is an administrator, the audit chain
\* verifies, no token is served beyond its limit and closed sessions stay closed:
\* what the runs of the whole check is proved of the whole.
THEOREM AccessKeptByCases ==
  CaseSpec => [](AdministratorKept /\ LedgerVerifies /\ RateKept) /\ SessionsKept
BY CasesOverAccess, AdministratorAlways, LedgerAlwaysVerifies, RateAlwaysKept,
   SessionsAlwaysKept, PTL

LEMMA UsersKnown ==
  ASSUME TypeInv
  PROVE  /\ UserIds \subseteq 1..lastUser /\ lastUser \in Nat
         /\ Unassigned \notin UserIds
<1> AccountTypes /\ MaxAccounts \in Nat
  BY AccessAssumption DEF TypeInv, TypeOK
<1> QED
  BY DEF AccountTypes, User, UserIds, Unassigned

\* The id of an account that comes is past all ids before.
LEMMA AccountsGoOn ==
  ASSUME TypeInv, [Next]_vars
  PROVE  /\ lastUser' \in Nat /\ lastUser <= lastUser'
         /\ \A i \in UserIds' : i \in UserIds \/ i > lastUser
<1> AccountTypes' /\ MaxAccounts \in Nat
  BY TypeStep, AccessAssumption DEF TypeInv, TypeOK
<1> lastUser \in Nat /\ lastUser' \in Nat
  BY UserTypes DEF AccountTypes
<1>1. CASE UNCHANGED <<users, lastUser>>
  BY <1>1 DEF UserIds
<1>2. ASSUME NEW n \in Names, Replaced(n)
      PROVE  /\ lastUser <= lastUser'
             /\ \A i \in UserIds' : i \in UserIds \/ i > lastUser
  <2>1. DOMAIN users' \subseteq Names
    BY DEF AccountTypes
  <2>2. ASSUME NEW m \in DOMAIN users'
        PROVE  users'[m].id \in UserIds \/ users'[m].id > lastUser
    BY <1>2, <2>1 DEF Replaced, UserIds
  <2> QED
    BY <1>2, <2>2 DEF Replaced, UserIds
<1>3. ASSUME NEW p \in Processes, ActOnAccount(p)
      PROVE  UNCHANGED <<users, lastUser>> \/ \E n \in Names : Replaced(n)
  BY <1>3, Replacing
<1>4. CASE UNCHANGED accountVars
  BY <1>1, <1>4 DEF accountVars
<1> QED
  BY <1>1, <1>2, <1>3, <1>4, Frames

-----------------------------------------------------------------------------
(* A case and its chronology.                                              *)

\* The greatest of some positions of a sequence is one of them.
LEMMA MaxOf ==
  ASSUME NEW n \in Nat, NEW S, S \subseteq 1..n, S # {}
  PROVE  Max(S) \in S
<1> DEFINE below == {n - i : i \in S}
<1>1. below \subseteq Nat /\ below # {}
  <2> PICK i \in S : TRUE
    OBVIOUS
  <2> n - i \in below
    OBVIOUS
  <2> QED
    OBVIOUS
<1>2. IsWellFoundedOn(OpToRel(<, Nat), Nat)
  BY NatLessThanWellFounded
<1>3. PICK x \in below : \A y \in below : <<y, x>> \notin OpToRel(<, Nat)
  BY <1>1, <1>2, WFMin
<1>4. \A y \in below : ~(y < x)
  BY <1>1, <1>3 DEF OpToRel
<1>5. PICK i \in S : x = n - i
  BY <1>3
<1>6. \A j \in S : i >= j
  BY <1>4, <1>5
<1> QED
  BY <1>5, <1>6 DEF Max

\* What is said last is what the last event says, if it speaks of the field.
LEMMA LastSaid ==
  ASSUME NEW row, NEW new, NEW e,
         row.events \in Seq(Rows(row.events)), new.events = Append(row.events, e)
  PROVE  /\ \A f, first :
              Latest(new, f, first) =
                IF f \in DOMAIN e.says THEN e.says[f] ELSE Latest(row, f, first)
         /\ \A f :
              AllOf(new, f) =
                AllOf(row, f) \cup (IF f \in DOMAIN e.says THEN {e.says[f]} ELSE {})
<1> DEFINE old == row.events
           last == Len(old) + 1
<1>1. /\ Len(old) \in Nat /\ DOMAIN old = 1..Len(old) /\ DOMAIN new.events = 1..last
      /\ \A i \in 1..Len(old) : new.events[i] = old[i]
      /\ new.events[last] = e
  BY AppendRow
<1> HIDE DEF last
<1>2. last = Len(old) + 1 /\ last \in 1..last /\ 1..last = 1..Len(old) \cup {last}
  BY <1>1 DEF last
<1>3. ASSUME NEW f, NEW first
      PROVE  Latest(new, f, first) =
               IF f \in DOMAIN e.says THEN e.says[f] ELSE Latest(row, f, first)
  <2> DEFINE said == {i \in DOMAIN new.events : f \in DOMAIN new.events[i].says}
             before == {i \in DOMAIN old : f \in DOMAIN old[i].says}
  <2>1. CASE f \in DOMAIN e.says
    <3>1. last \in said /\ \A i \in said : last >= i
      BY <1>1, <1>2, <2>1
    <3>2. said \subseteq Nat
      BY <1>1, <1>2
    <3>3. Max(said) = last
      BY <3>1, <3>2 DEF Max
    <3>4. said # {}
      BY <3>1
    <3>5. Latest(new, f, first) = new.events[last].says[f]
      BY <3>3, <3>4 DEF Latest
    <3> QED
      BY <1>1, <2>1, <3>5
  <2>2. CASE f \notin DOMAIN e.says
    <3>1. said = before /\ before \subseteq 1..Len(old)
      BY <1>1, <1>2, <2>2
    <3>2. CASE before = {}
      BY <2>2, <3>1, <3>2 DEF Latest
    <3>3. CASE before # {}
      <4>1. Max(before) \in before
        BY <1>1, <3>1, <3>3, MaxOf
      <4>2. new.events[Max(before)] = old[Max(before)]
        BY <1>1, <3>1, <4>1
      <4> QED
        BY <2>2, <3>1, <3>3, <4>2 DEF Latest
    <3> QED
      BY <3>2, <3>3
  <2> QED
    BY <2>1, <2>2
<1>4. ASSUME NEW f
      PROVE  AllOf(new, f) =
               AllOf(row, f) \cup (IF f \in DOMAIN e.says THEN {e.says[f]} ELSE {})
  BY <1>1, <1>2 DEF AllOf
<1> QED
  BY <1>3, <1>4

\* An event of p's that says something of a case.
EventOf(p, kind, says) == [kind |-> kind, by |-> Uid(p), says |-> says]
\* The row after a change of what was old: the fields of new and one more event.
Recorded(row, old, new, p, kind, says) ==
  /\ RowType(row)
  /\ \A f \in ShownFields \ {"ver"} : row[f] = new[f]
  /\ row.events = Append(old.events, EventOf(p, kind, says))

LEMMA TellingRecords ==
  ASSUME NEW new, RowType(new), NEW p, NEW kind, NEW says
  PROVE  /\ Recorded(Told(new, p, kind, says), new, new, p, kind, says)
         /\ Told(new, p, kind, says).ver = new.ver
<1> DEFINE row == Told(new, p, kind, says)
           e == EventOf(p, kind, says)
<1>1. row = [f \in CaseFields |-> IF f = "events" THEN Append(new.events, e) ELSE new[f]]
  BY DEF Told, CaseFields, EventOf, RowType
<1> HIDE DEF row, e
<1>2. row = [f \in CaseFields |-> row[f]]
  BY <1>1
<1>3. /\ row.events = Append(new.events, e) /\ row.ver = new.ver
      /\ row.notes = new.notes /\ \A f \in ShownFields : row[f] = new[f]
  BY <1>1 DEF CaseFields, ShownFields
<1>4. row.events \in Seq(Rows(row.events))
  BY <1>3, AppendRow DEF RowType
<1>5. RowType(row)
  BY <1>2, <1>3, <1>4 DEF RowType
<1>6. Recorded(row, new, new, p, kind, says)
  BY <1>3, <1>5 DEF Recorded, e
<1> QED
  BY <1>3, <1>6 DEF row

LEMMA UpdateRecords ==
  ASSUME NEW old, NEW new, RowType(new), new.events = old.events,
         NEW p, NEW kind, NEW says
  PROVE  /\ Recorded(Told(Advanced(new, kind), p, kind, says), old, new, p, kind, says)
         /\ Told(Advanced(new, kind), p, kind, says).ver = new.ver + 1
<1>1. PICK next : next = Advanced(new, kind)
  OBVIOUS
<1>2. next = [f \in CaseFields |-> IF f = "ver" THEN new.ver + 1 ELSE new[f]]
  BY <1>1 DEF RowType, Advanced, CaseFields
<1>3. /\ next = [f \in CaseFields |-> next[f]] /\ next.ver = new.ver + 1
      /\ next.events = old.events /\ next.notes = new.notes
      /\ \A f \in ShownFields \ {"ver"} : next[f] = new[f]
  BY <1>2 DEF CaseFields, ShownFields
<1>4. RowType(next)
  BY <1>3 DEF RowType
<1>5. PICK row : row = Told(next, p, kind, says)
  OBVIOUS
<1>6. Recorded(row, next, next, p, kind, says) /\ row.ver = next.ver
  BY <1>4, <1>5, TellingRecords
<1>7. Recorded(row, old, new, p, kind, says)
  BY <1>3, <1>6 DEF Recorded
<1> QED
  BY <1>1, <1>3, <1>5, <1>6, <1>7

SetFields == {"text", "assignee", "status", "archived"}
Faithful(row) ==
  /\ row.text = Latest(row, "text", row.text)
  /\ row.status = Latest(row, "status", "open")
  /\ row.archived = Latest(row, "archived", FALSE)
  /\ AllOf(row, "note") = 1..row.notes
  /\ AllOf(row, "target") = row.references
  /\ AllOf(row, "snapshot") = row.evidence
OwnerAmong(row, ids) ==
  row.assignee = IF Owner(row) \in ids THEN Owner(row) ELSE Unassigned
OwnerTold(row) == OwnerAmong(row, UserIds)

LEMMA ChronologyByRow ==
  ChronologyGivesCase <=>
    \A c \in DOMAIN cases : Faithful(cases[c]) /\ OwnerTold(cases[c])
BY DEF ChronologyGivesCase, Faithful, OwnerTold, OwnerAmong, Owner

\* What an event says of a field, or what the field was.
Said(says, old, f) == IF f \in DOMAIN says THEN says[f] ELSE old[f]
\* The entries of an event.
Entries(says, f) == IF f \in DOMAIN says THEN {says[f]} ELSE {}

\* An update whose event says what it sets and adds keeps the chronology.
LEMMA TellingKeeps ==
  ASSUME NEW old, NEW new, NEW row, NEW p, NEW kind, NEW says,
         RowType(old), Faithful(old), Recorded(row, old, new, p, kind, says),
         \A f \in SetFields : new[f] = Said(says, old, f),
         new.notes \in {old.notes, old.notes + 1},
         Entries(says, "note") = (old.notes + 1)..new.notes,
         new.references = old.references \cup Entries(says, "target"),
         new.evidence = old.evidence \cup Entries(says, "snapshot")
  PROVE  /\ Faithful(row)
         /\ Owner(row) = IF "assignee" \in DOMAIN says THEN says["assignee"]
                         ELSE Owner(old)
         /\ row.assignee = Said(says, old, "assignee")
         /\ row.evidence = new.evidence
<1> PICK e : e = EventOf(p, kind, says)
  OBVIOUS
<1>1. e.says = says /\ row.events = Append(old.events, e)
  BY DEF EventOf, Recorded
<1>2. /\ \A f, first : Latest(row, f, first) =
           IF f \in DOMAIN says THEN says[f] ELSE Latest(old, f, first)
      /\ \A f : AllOf(row, f) = AllOf(old, f) \cup Entries(says, f)
  <2>1. old.events \in Seq(Rows(old.events))
    BY DEF RowType
  <2>2. /\ \A f, first : Latest(row, f, first) =
             IF f \in DOMAIN e.says THEN e.says[f] ELSE Latest(old, f, first)
        /\ \A f : AllOf(row, f) =
             AllOf(old, f) \cup (IF f \in DOMAIN e.says THEN {e.says[f]} ELSE {})
    BY <1>1, <2>1, LastSaid
  <2> QED
    BY <1>1, <2>2 DEF Entries
<1>3. \A f \in ShownFields \ {"ver"} : row[f] = new[f]
  BY DEF Recorded
<1>4. {"text", "assignee", "status", "archived", "notes", "references", "evidence"}
        = ShownFields \ {"ver"}
  BY DEF ShownFields, CaseFields
<1>5. /\ row.text = new.text /\ row.assignee = new.assignee /\ row.status = new.status
      /\ row.archived = new.archived /\ row.notes = new.notes
      /\ row.references = new.references /\ row.evidence = new.evidence
  BY <1>3, <1>4
<1>6. /\ row.text = Said(says, old, "text") /\ row.assignee = Said(says, old, "assignee")
      /\ row.status = Said(says, old, "status")
      /\ row.archived = Said(says, old, "archived")
  BY <1>5 DEF SetFields
<1>7. row.text = Latest(row, "text", row.text)
  BY <1>2, <1>6 DEF Said, Faithful
<1>8. row.status = Latest(row, "status", "open")
  BY <1>2, <1>6 DEF Said, Faithful
<1>9. row.archived = Latest(row, "archived", FALSE)
  BY <1>2, <1>6 DEF Said, Faithful
<1>10. AllOf(row, "note") = 1..row.notes
  <2> old.notes \in Nat
    BY DEF RowType
  <2>1. 1..new.notes = 1..old.notes \cup ((old.notes + 1)..new.notes)
    OBVIOUS
  <2> QED
    BY <1>2, <1>5, <2>1 DEF Faithful
<1>11. AllOf(row, "target") = row.references /\ AllOf(row, "snapshot") = row.evidence
  BY <1>2, <1>5 DEF Faithful
<1>12. Owner(row) = IF "assignee" \in DOMAIN says THEN says["assignee"] ELSE Owner(old)
  BY <1>2 DEF Owner
<1> QED
  BY <1>5, <1>6, <1>7, <1>8, <1>9, <1>10, <1>11, <1>12 DEF Faithful

-----------------------------------------------------------------------------
(* The changes of a case.                                                  *)

\* A row that may be written: its chronology is true of it.
Truthful(row) ==
  /\ RowType(row) /\ Faithful(row) /\ OwnerTold(row) /\ Owner(row) \in 0..lastUser
\* An update of a case in the name of an account that is there.
Written(c, row) ==
  /\ c \in DOMAIN cases /\ cases' = [cases EXCEPT ![c] = row]
  /\ Truthful(row) /\ row.ver = cases[c].ver + 1
  /\ \E e : row.events = Append(cases[c].events, e) /\ e.by \in UserIds

LEMMA RowsTruthful ==
  ASSUME CaseInv, NEW c \in DOMAIN cases
  PROVE  Truthful(cases[c]) /\ cases[c].evidence \subseteq DOMAIN snapshots
BY ChronologyByRow DEF CaseInv, CasesTyped, OwnersPast, EvidenceHeld, Truthful

LEMMA OwnerKeeps ==
  ASSUME TypeInv, NEW old, NEW row, NEW says, Truthful(old),
         Owner(row) = IF "assignee" \in DOMAIN says THEN says["assignee"]
                      ELSE Owner(old),
         row.assignee = Said(says, old, "assignee"),
         "assignee" \in DOMAIN says => Assignable(says["assignee"])
  PROVE  OwnerTold(row) /\ Owner(row) \in 0..lastUser
<1>1. UserIds \subseteq 1..lastUser /\ lastUser \in Nat
  BY UsersKnown
<1>2. CASE "assignee" \in DOMAIN says
  <2>1. says["assignee"] = Unassigned \/ says["assignee"] \in UserIds
    BY <1>2 DEF Assignable, UserIds
  <2> QED
    <3>1. Owner(row) = says["assignee"] /\ row.assignee = says["assignee"]
      BY <1>2 DEF Said
    <3>2. OwnerTold(row)
      BY <2>1, <3>1 DEF OwnerTold, OwnerAmong
    <3>3. Owner(row) \in 0..lastUser
      <4>1. \A a \in UserIds \cup {Unassigned} : a \in 0..lastUser
        BY <1>1 DEF Unassigned
      <4> QED
        BY <2>1, <3>1, <4>1
    <3> QED
      BY <3>2, <3>3
<1>3. CASE "assignee" \notin DOMAIN says
  BY <1>3 DEF OwnerTold, OwnerAmong, Said, Truthful
<1> QED
  BY <1>2, <1>3

LEMMA UpdateWrites ==
  ASSUME TypeInv, CaseInv, NEW p \in Processes, Doing(p, "change"),
         NEW new, NEW kind, NEW says, Update(p, new, kind, says),
         NEW old, old = CaseOf(p),
         RowType(new), new.events = old.events, new.ver = old.ver,
         \A f \in SetFields : new[f] = Said(says, old, f),
         new.notes \in {old.notes, old.notes + 1},
         Entries(says, "note") = (old.notes + 1)..new.notes,
         new.references = old.references \cup Entries(says, "target"),
         new.evidence = old.evidence \cup Entries(says, "snapshot"),
         "assignee" \in DOMAIN says => Assignable(says["assignee"])
  PROVE  \E row : Written(visit[p].case, row) /\ row.evidence = new.evidence
<1>1. visit[p].case \in DOMAIN cases
  BY DEF CaseInv, VisitsKnown, VisitKnown, Doing
<1>2. Truthful(old)
  BY <1>1, RowsTruthful DEF CaseOf
<1>3. PICK row : row = Told(Advanced(new, kind), p, kind, says)
  OBVIOUS
<1>4. Recorded(row, old, new, p, kind, says) /\ row.ver = old.ver + 1
  BY <1>3, UpdateRecords
<1>5. /\ Faithful(row) /\ row.evidence = new.evidence
      /\ Owner(row) = IF "assignee" \in DOMAIN says THEN says["assignee"] ELSE Owner(old)
      /\ row.assignee = Said(says, old, "assignee")
  BY <1>2, <1>4, TellingKeeps DEF Truthful
<1>6. OwnerTold(row) /\ Owner(row) \in 0..lastUser
  BY <1>2, <1>5, OwnerKeeps
<1>7. Truthful(row)
  BY <1>4, <1>5, <1>6 DEF Truthful, Recorded
<1>8. cases' = [cases EXCEPT ![visit[p].case] = row] /\ Known(p)
  BY <1>3 DEF Update
<1>9. row.events = Append(old.events, EventOf(p, kind, says))
      /\ EventOf(p, kind, says).by \in UserIds
  BY <1>4, <1>8 DEF Recorded, EventOf, Known
<1> QED
  BY <1>1, <1>4, <1>5, <1>7, <1>8, <1>9 DEF Written, CaseOf

\* An edit, a transition and the archive say what they set.
LEMMA SettingWrites ==
  ASSUME TypeInv, CaseInv, NEW p \in Processes, Doing(p, "change"),
         NEW set, NEW kind, Update(p, Updated(CaseOf(p), set), kind, set),
         DOMAIN set \subseteq SetFields,
         "assignee" \in DOMAIN set => Assignable(set["assignee"])
  PROVE  \E row : Written(visit[p].case, row) /\ row.evidence = CaseOf(p).evidence
<1>1. PICK old : old = CaseOf(p)
  OBVIOUS
<1>2. RowType(old)
  BY <1>1, RowsTruthful DEF CaseInv, VisitsKnown, VisitKnown, Doing, CaseOf, Truthful
<1>3. PICK new : new = Updated(old, set)
  OBVIOUS
<1>4. DOMAIN old = CaseFields
  BY <1>2 DEF RowType
<1>5. new = [f \in CaseFields |-> IF f \in DOMAIN set THEN set[f] ELSE old[f]]
  BY <1>3, <1>4 DEF Updated
<1>6. /\ new = [f \in CaseFields |-> new[f]]
      /\ \A f \in CaseFields \ SetFields : f \notin DOMAIN set /\ new[f] = old[f]
      /\ \A f \in SetFields : new[f] = Said(set, old, f)
  BY <1>5 DEF CaseFields, SetFields, Said
<1>7. {"ver", "notes", "references", "evidence", "events"} = CaseFields \ SetFields
  BY DEF CaseFields, SetFields
<1>8. /\ new.ver = old.ver /\ new.notes = old.notes /\ new.events = old.events
      /\ new.references = old.references /\ new.evidence = old.evidence
  BY <1>6, <1>7
<1>9. RowType(new)
  BY <1>2, <1>6, <1>8 DEF RowType
<1>10. /\ Entries(set, "note") = (old.notes + 1)..new.notes
       /\ Entries(set, "target") = {} /\ Entries(set, "snapshot") = {}
  <2>1. {"note", "target", "snapshot"} \cap DOMAIN set = {}
    BY DEF SetFields
  <2>2. (old.notes + 1)..new.notes = {}
    BY <1>2, <1>8 DEF RowType
  <2> QED
    BY <2>1, <2>2 DEF Entries
<1>11. Update(p, new, kind, set)
  BY <1>1, <1>3
<1> QED
  BY <1>1, <1>6, <1>8, <1>9, <1>10, <1>11, UpdateWrites

LEMMA EditWrites ==
  ASSUME TypeInv, CaseInv, NEW p \in Processes, Doing(p, "change"),
         NEW call \in CaseCalls, Edit(p, call)
  PROVE  \E row : Written(visit[p].case, row) /\ row.evidence = CaseOf(p).evidence
<1>1. call.op = "edit" /\ call.set \in Edits
  BY DEF Edit, CaseCalls
<1>2. DOMAIN call.set \subseteq SetFields
  BY <1>1 DEF Edits, SetFields
<1>3. PICK set : set = call.set
  OBVIOUS
<1>4. Update(p, Updated(CaseOf(p), set), "edited", set)
  BY <1>3 DEF Edit
<1>5. "assignee" \in DOMAIN set => Assignable(set["assignee"])
  BY <1>3 DEF Edit
<1> QED
  BY <1>2, <1>3, <1>4, <1>5, SettingWrites

LEMMA TransitionWrites ==
  ASSUME TypeInv, CaseInv, NEW p \in Processes, Doing(p, "change"),
         NEW call \in CaseCalls, Transition(p, call)
  PROVE  \E row : Written(visit[p].case, row) /\ row.evidence = CaseOf(p).evidence
<1>1. call.op = "transition" /\ DOMAIN call.set = {"status"}
  BY DEF Transition, CaseCalls
<1>2. PICK set : set = call.set
  OBVIOUS
<1>3. Update(p, Updated(CaseOf(p), set), "transitioned", set)
  BY <1>2 DEF Transition, Moved
<1>4. DOMAIN set \subseteq SetFields /\ "assignee" \notin DOMAIN set
  BY <1>1, <1>2 DEF SetFields
<1> QED
  BY <1>3, <1>4, SettingWrites

LEMMA ArchiveWrites ==
  ASSUME TypeInv, CaseInv, NEW p \in Processes, Doing(p, "change"),
         NEW call \in CaseCalls, Archive(p, call)
  PROVE  \E row : Written(visit[p].case, row) /\ row.evidence = CaseOf(p).evidence
<1>1. call.op = "archive" /\ DOMAIN call.set = {"archived"}
  BY DEF Archive, CaseCalls
<1>2. PICK set : set = call.set
  OBVIOUS
<1>3. PICK kind : Update(p, Updated(CaseOf(p), set), kind, set)
  BY <1>2 DEF Archive
<1>4. DOMAIN set \subseteq SetFields /\ "assignee" \notin DOMAIN set
  BY <1>1, <1>2 DEF SetFields
<1> QED
  BY <1>3, <1>4, SettingWrites

\* A note, a reference and evidence say what they add.
LEMMA NoteWrites ==
  ASSUME TypeInv, CaseInv, NEW p \in Processes, Doing(p, "change"),
         NEW call, AddNote(p, call)
  PROVE  \E row : Written(visit[p].case, row) /\ row.evidence = CaseOf(p).evidence
<1>1. PICK old : old = CaseOf(p)
  OBVIOUS
<1>2. RowType(old)
  BY <1>1, RowsTruthful DEF CaseInv, VisitsKnown, VisitKnown, Doing, CaseOf, Truthful
<1>3. PICK new : new = [old EXCEPT !.notes = @ + 1]
  OBVIOUS
<1>4. new = [f \in CaseFields |-> IF f = "notes" THEN old.notes + 1 ELSE old[f]]
  BY <1>2, <1>3 DEF RowType, CaseFields
<1>5. /\ new = [f \in CaseFields |-> new[f]] /\ new.notes = old.notes + 1
      /\ new.ver = old.ver /\ new.events = old.events
      /\ new.references = old.references /\ new.evidence = old.evidence
      /\ \A f \in SetFields : new[f] = old[f]
  BY <1>4 DEF CaseFields, SetFields
<1>6. RowType(new)
  BY <1>2, <1>5 DEF RowType
<1>7. PICK says : says = [note |-> old.notes + 1]
  OBVIOUS
<1>8. /\ Entries(says, "note") = {old.notes + 1}
      /\ Entries(says, "target") = {} /\ Entries(says, "snapshot") = {}
      /\ "assignee" \notin DOMAIN says
      /\ \A f \in SetFields : Said(says, old, f) = old[f]
  BY <1>7 DEF Entries, Said, SetFields
<1>9. (old.notes + 1)..new.notes = {old.notes + 1}
  BY <1>2, <1>5 DEF RowType
<1>10. Update(p, new, "note_added", says)
  BY <1>1, <1>3, <1>7 DEF AddNote
<1>11. /\ \A f \in SetFields : new[f] = Said(says, old, f)
       /\ new.notes \in {old.notes, old.notes + 1}
       /\ Entries(says, "note") = (old.notes + 1)..new.notes
       /\ new.references = old.references \cup Entries(says, "target")
       /\ new.evidence = old.evidence \cup Entries(says, "snapshot")
  BY <1>5, <1>8, <1>9
<1>12. \E row : Written(visit[p].case, row) /\ row.evidence = new.evidence
  BY <1>1, <1>5, <1>6, <1>8, <1>10, <1>11, UpdateWrites
<1> QED
  BY <1>1, <1>5, <1>12

LEMMA ReferenceWrites ==
  ASSUME TypeInv, CaseInv, NEW p \in Processes, Doing(p, "change"),
         NEW call, AddReference(p, call)
  PROVE  \E row : Written(visit[p].case, row) /\ row.evidence = CaseOf(p).evidence
<1>1. PICK old : old = CaseOf(p)
  OBVIOUS
<1>2. RowType(old)
  BY <1>1, RowsTruthful DEF CaseInv, VisitsKnown, VisitKnown, Doing, CaseOf, Truthful
<1>3. PICK new : new = [old EXCEPT !.references = @ \cup {call.target}]
  OBVIOUS
<1>4. new = [f \in CaseFields |-> IF f = "references" THEN old.references \cup {call.target}
                                  ELSE old[f]]
  BY <1>2, <1>3 DEF RowType, CaseFields
<1>5. /\ new = [f \in CaseFields |-> new[f]]
      /\ new.references = old.references \cup {call.target}
      /\ new.ver = old.ver /\ new.events = old.events
      /\ new.notes = old.notes /\ new.evidence = old.evidence
      /\ \A f \in SetFields : new[f] = old[f]
  BY <1>4 DEF CaseFields, SetFields
<1>6. RowType(new)
  BY <1>2, <1>5 DEF RowType
<1>7. PICK says : says = [target |-> call.target]
  OBVIOUS
<1>8. /\ Entries(says, "target") = {call.target}
      /\ Entries(says, "note") = {} /\ Entries(says, "snapshot") = {}
      /\ "assignee" \notin DOMAIN says
      /\ \A f \in SetFields : Said(says, old, f) = old[f]
  BY <1>7 DEF Entries, Said, SetFields
<1>9. (old.notes + 1)..new.notes = {}
  BY <1>2, <1>5 DEF RowType
<1>10. Update(p, new, "reference_added", says)
  BY <1>1, <1>3, <1>7 DEF AddReference
<1>11. /\ \A f \in SetFields : new[f] = Said(says, old, f)
       /\ new.notes \in {old.notes, old.notes + 1}
       /\ Entries(says, "note") = (old.notes + 1)..new.notes
       /\ new.references = old.references \cup Entries(says, "target")
       /\ new.evidence = old.evidence \cup Entries(says, "snapshot")
  BY <1>5, <1>8, <1>9
<1>12. \E row : Written(visit[p].case, row) /\ row.evidence = new.evidence
  BY <1>1, <1>5, <1>6, <1>8, <1>10, <1>11, UpdateWrites
<1> QED
  BY <1>1, <1>5, <1>12

LEMMA AttachWrites ==
  ASSUME TypeInv, CaseInv, NEW p \in Processes, Doing(p, "change"),
         NEW call, Attach(p, call)
  PROVE  \E row : /\ Written(visit[p].case, row)
                  /\ row.evidence = CaseOf(p).evidence \cup {call.snapshot}
<1>1. PICK old : old = CaseOf(p)
  OBVIOUS
<1>2. RowType(old)
  BY <1>1, RowsTruthful DEF CaseInv, VisitsKnown, VisitKnown, Doing, CaseOf, Truthful
<1>3. PICK new : new = [old EXCEPT !.evidence = @ \cup {call.snapshot}]
  OBVIOUS
<1>4. new = [f \in CaseFields |-> IF f = "evidence" THEN old.evidence \cup {call.snapshot}
                                  ELSE old[f]]
  BY <1>2, <1>3 DEF RowType, CaseFields
<1>5. /\ new = [f \in CaseFields |-> new[f]]
      /\ new.evidence = old.evidence \cup {call.snapshot}
      /\ new.ver = old.ver /\ new.events = old.events
      /\ new.notes = old.notes /\ new.references = old.references
      /\ \A f \in SetFields : new[f] = old[f]
  BY <1>4 DEF CaseFields, SetFields
<1>6. RowType(new)
  BY <1>2, <1>5 DEF RowType
<1>7. PICK says : says = [snapshot |-> call.snapshot]
  OBVIOUS
<1>8. /\ Entries(says, "snapshot") = {call.snapshot}
      /\ Entries(says, "note") = {} /\ Entries(says, "target") = {}
      /\ "assignee" \notin DOMAIN says
      /\ \A f \in SetFields : Said(says, old, f) = old[f]
  BY <1>7 DEF Entries, Said, SetFields
<1>9. (old.notes + 1)..new.notes = {}
  BY <1>2, <1>5 DEF RowType
<1>10. Update(p, new, "evidence_attached", says)
  BY <1>1, <1>3, <1>7 DEF Attach
<1>11. /\ \A f \in SetFields : new[f] = Said(says, old, f)
       /\ new.notes \in {old.notes, old.notes + 1}
       /\ Entries(says, "note") = (old.notes + 1)..new.notes
       /\ new.references = old.references \cup Entries(says, "target")
       /\ new.evidence = old.evidence \cup Entries(says, "snapshot")
  BY <1>5, <1>8, <1>9
<1>12. \E row : Written(visit[p].case, row) /\ row.evidence = new.evidence
  BY <1>1, <1>5, <1>6, <1>8, <1>10, <1>11, UpdateWrites
<1> QED
  BY <1>1, <1>5, <1>12

-----------------------------------------------------------------------------
(* A case that is created.                                                 *)

AuthorsKnown(row) == \A i \in DOMAIN row.events : row.events[i].by \in UserIds
\* A row that may be added.
Founded(row) == Truthful(row) /\ AuthorsKnown(row)

\* One more entry in the same transaction.
LEMMA EntryFounds ==
  ASSUME TypeInv, NEW old, Founded(old), NEW new, RowType(new),
         new.events = old.events, NEW p, Known(p), NEW kind, NEW says,
         \A f \in SetFields : new[f] = old[f] /\ f \notin DOMAIN says,
         new.notes \in {old.notes, old.notes + 1},
         Entries(says, "note") = (old.notes + 1)..new.notes,
         new.references = old.references \cup Entries(says, "target"),
         new.evidence = old.evidence \cup Entries(says, "snapshot"),
         NEW row, row = Told(new, p, kind, says)
  PROVE  Founded(row) /\ row.evidence = new.evidence
<1>2. Recorded(row, old, new, p, kind, says)
  BY TellingRecords DEF Recorded
<1>3. \A f \in SetFields : new[f] = Said(says, old, f)
  BY DEF Said
<1>4. "assignee" \notin DOMAIN says
  BY DEF SetFields
<1>5. /\ Faithful(row) /\ row.evidence = new.evidence
      /\ Owner(row) = Owner(old) /\ row.assignee = old.assignee
  <2> RowType(old) /\ Faithful(old)
    BY DEF Founded, Truthful
  <2> QED
    BY <1>2, <1>3, <1>4, TellingKeeps DEF Said
<1>6. Truthful(row)
  BY <1>2, <1>5 DEF Truthful, Founded, Recorded, OwnerTold, OwnerAmong
<1>7. AuthorsKnown(row)
  <2>1. PICK e : e = EventOf(p, kind, says)
    OBVIOUS
  <2>2. e.by \in UserIds /\ row.events = Append(old.events, e)
    BY <1>2, <2>1 DEF EventOf, Known, Recorded
  <2>3. old.events \in Seq(Rows(old.events))
    BY DEF Founded, Truthful, RowType
  <2>4. /\ DOMAIN row.events = 1..(Len(old.events) + 1) /\ Len(old.events) \in Nat
        /\ DOMAIN old.events = 1..Len(old.events)
        /\ \A i \in 1..Len(old.events) : row.events[i] = old.events[i]
        /\ row.events[Len(old.events) + 1] = e
    BY <2>2, <2>3, AppendRow
  <2> QED
    BY <2>2, <2>4 DEF Founded, AuthorsKnown
<1> QED
  BY <1>5, <1>6, <1>7 DEF Founded

BlankCase(text, assignee) ==
  [text |-> text, assignee |-> assignee, status |-> "open", archived |-> FALSE,
   ver |-> 1, notes |-> 0, references |-> {}, evidence |-> {}, events |-> <<>>]

LEMMA OpenedFounds ==
  ASSUME TypeInv, NEW text, NEW assignee, Assignable(assignee), NEW p, Known(p),
         NEW row, row = Told(BlankCase(text, assignee), p, "created",
                             [text |-> text, assignee |-> assignee])
  PROVE  Founded(row) /\ row.notes = 0 /\ row.evidence = {}
<1>1. PICK says : says = [text |-> text, assignee |-> assignee]
  OBVIOUS
<1>2. PICK blank : blank = BlankCase(text, assignee)
  OBVIOUS
<1>3. /\ blank = [f \in CaseFields |-> blank[f]]
      /\ blank.text = text /\ blank.assignee = assignee /\ blank.status = "open"
      /\ blank.archived = FALSE /\ blank.ver = 1 /\ blank.notes = 0
      /\ blank.references = {} /\ blank.evidence = {} /\ blank.events = <<>>
  BY <1>2 DEF BlankCase, CaseFields
<1>4. RowType(blank)
  <2>1. blank.events \in Seq(Rows(blank.events))
    BY <1>3, EmptySeq
  <2> QED
    BY <1>3, <2>1 DEF RowType
<1>5. Recorded(row, blank, blank, p, "created", says)
  BY <1>1, <1>2, <1>4, TellingRecords
<1>6. PICK e : e = EventOf(p, "created", says)
  OBVIOUS
<1>7. e.says = says /\ e.by \in UserIds /\ row.events = Append(<<>>, e)
  BY <1>3, <1>5, <1>6 DEF EventOf, Known, Recorded
<1>8. DOMAIN row.events = 1..1 /\ row.events[1] = e
  BY <1>7
<1>9. /\ Latest(row, "text", row.text) = text /\ Owner(row) = assignee
      /\ Latest(row, "status", "open") = "open"
      /\ Latest(row, "archived", FALSE) = FALSE
      /\ AllOf(row, "note") = {} /\ AllOf(row, "target") = {}
      /\ AllOf(row, "snapshot") = {}
  <2>1. /\ \A f, first : Latest(row, f, first) =
             IF f \in DOMAIN says THEN says[f] ELSE Latest(blank, f, first)
        /\ \A f : AllOf(row, f) = AllOf(blank, f) \cup
             (IF f \in DOMAIN says THEN {says[f]} ELSE {})
    <3>1. blank.events \in Seq(Rows(blank.events)) /\ row.events = Append(blank.events, e)
      BY <1>3, <1>4, <1>7 DEF RowType
    <3> QED
      BY <1>7, <3>1, LastSaid
  <2>2. \A f, first : Latest(blank, f, first) = first
    BY <1>3 DEF Latest
  <2>3. \A f : AllOf(blank, f) = {}
    BY <1>3 DEF AllOf
  <2>4. /\ DOMAIN says = {"text", "assignee"}
        /\ says["text"] = text /\ says["assignee"] = assignee
    BY <1>1
  <2>5. /\ Latest(row, "text", row.text) = text /\ Owner(row) = assignee
        /\ Latest(row, "status", "open") = "open"
        /\ Latest(row, "archived", FALSE) = FALSE
    <3>1. Latest(row, "text", row.text) = text
      BY <2>1, <2>4
    <3>2. Owner(row) = assignee
      BY <2>1, <2>4 DEF Owner
    <3>3. Latest(row, "status", "open") = "open"
      BY <2>1, <2>2, <2>4
    <3>4. Latest(row, "archived", FALSE) = FALSE
      <4>1. \A first : Latest(row, "archived", first) = first
        BY <2>1, <2>2, <2>4
      <4> QED
        BY <4>1, Zenon
    <3> QED
      BY <3>1, <3>2, <3>3, <3>4
  <2>6. /\ AllOf(row, "note") = {} /\ AllOf(row, "target") = {}
        /\ AllOf(row, "snapshot") = {}
    BY <2>1, <2>3, <2>4
  <2> QED
    BY <2>5, <2>6
<1>10. \A f \in ShownFields \ {"ver"} : row[f] = blank[f]
  BY <1>5 DEF Recorded
<1>11. {"text", "assignee", "status", "archived", "notes", "references", "evidence"}
         = ShownFields \ {"ver"}
  BY DEF ShownFields, CaseFields
<1>12. /\ row.text = text /\ row.assignee = assignee /\ row.status = "open"
       /\ row.archived = FALSE /\ row.notes = 0
       /\ row.references = {} /\ row.evidence = {}
  BY <1>3, <1>10, <1>11
<1>13. Faithful(row)
  BY <1>9, <1>12 DEF Faithful
<1>14. OwnerTold(row) /\ Owner(row) \in 0..lastUser
  <2>1. assignee \in UserIds \cup {Unassigned}
    BY DEF Assignable, UserIds
  <2>2. \A a \in UserIds \cup {Unassigned} : a \in 0..lastUser
    BY UsersKnown DEF Unassigned
  <2> QED
    BY <1>9, <1>12, <2>1, <2>2 DEF OwnerTold, OwnerAmong
<1>15. AuthorsKnown(row)
  BY <1>7, <1>8 DEF AuthorsKnown
<1> QED
  BY <1>5, <1>12, <1>13, <1>14, <1>15 DEF Founded, Truthful, Recorded

LEMMA CreateFounds ==
  ASSUME TypeInv, NEW p \in Processes, NEW new \in Creations, Create(p, new)
  PROVE  \E row : /\ cases' = Append(cases, row) /\ Founded(row)
                  /\ row.evidence = IF new.snapshot = 0 THEN {} ELSE {new.snapshot}
<1>1. PICK opened : opened = Told(BlankCase(new.text, new.assignee), p, "created",
                                  [text |-> new.text, assignee |-> new.assignee])
  OBVIOUS
<1>2. PICK noted :
        noted = IF ~new.note THEN opened
                ELSE Told([opened EXCEPT !.notes = 1], p, "note_added", [note |-> 1])
  OBVIOUS
<1>3. PICK row :
        row = IF new.snapshot = 0 THEN noted
              ELSE Told([noted EXCEPT !.evidence = {new.snapshot}], p,
                        "evidence_attached", [snapshot |-> new.snapshot])
  OBVIOUS
<1>4. Assignable(new.assignee) /\ Known(p) /\ cases' = Append(cases, row)
  BY <1>1, <1>2, <1>3 DEF Create, BlankCase
<1>5. Founded(opened) /\ opened.notes = 0 /\ opened.evidence = {}
  BY <1>1, <1>4, OpenedFounds
<1>6. Founded(noted) /\ noted.evidence = {}
  <2>1. CASE new.note
    <3>1. PICK with : with = [opened EXCEPT !.notes = 1]
      OBVIOUS
    <3>2. PICK says : says = [note |-> 1]
      OBVIOUS
    <3>3. RowType(opened)
      BY <1>5 DEF Founded, Truthful
    <3>4. with = [f \in CaseFields |-> IF f = "notes" THEN 1 ELSE opened[f]]
      BY <3>1, <3>3 DEF RowType, CaseFields
    <3>5. /\ with = [f \in CaseFields |-> with[f]] /\ with.notes = 1
          /\ with.ver = opened.ver /\ with.events = opened.events
          /\ with.references = opened.references /\ with.evidence = {}
          /\ \A f \in SetFields : with[f] = opened[f]
      BY <1>5, <3>4 DEF CaseFields, SetFields
    <3>6. RowType(with)
      BY <3>3, <3>5 DEF RowType
    <3>7. /\ Entries(says, "note") = {1} /\ Entries(says, "target") = {}
          /\ Entries(says, "snapshot") = {}
          /\ \A f \in SetFields : f \notin DOMAIN says
      BY <3>2 DEF Entries, SetFields
    <3>8. /\ with.notes \in {opened.notes, opened.notes + 1}
          /\ Entries(says, "note") = (opened.notes + 1)..with.notes
          /\ with.references = opened.references \cup Entries(says, "target")
          /\ with.evidence = opened.evidence \cup Entries(says, "snapshot")
      <4>1. with.notes \in {opened.notes, opened.notes + 1}
        BY <1>5, <3>5
      <4>2. (opened.notes + 1)..with.notes = {1}
        BY <1>5, <3>5
      <4>3. /\ with.references = opened.references \cup {}
            /\ with.evidence = opened.evidence \cup {}
        BY <1>5, <3>5
      <4> QED
        BY <3>7, <4>1, <4>2, <4>3
    <3>9. noted = Told(with, p, "note_added", says)
      BY <1>2, <2>1, <3>1, <3>2
    <3>10. \A f \in SetFields : with[f] = opened[f] /\ f \notin DOMAIN says
      BY <3>5, <3>7
    <3>11. Founded(opened) /\ with.events = opened.events
      BY <1>5, <3>5
    <3>12. Founded(noted) /\ noted.evidence = with.evidence
      BY <1>4, <3>6, <3>8, <3>9, <3>10, <3>11, EntryFounds
    <3> QED
      BY <3>5, <3>12
  <2> QED
    BY <1>2, <1>5, <2>1
<1>7. Founded(row) /\ row.evidence = IF new.snapshot = 0 THEN {} ELSE {new.snapshot}
  <2>1. CASE new.snapshot # 0
    <3>1. PICK with : with = [noted EXCEPT !.evidence = {new.snapshot}]
      OBVIOUS
    <3>2. PICK says : says = [snapshot |-> new.snapshot]
      OBVIOUS
    <3>3. RowType(noted)
      BY <1>6 DEF Founded, Truthful
    <3>4. with = [f \in CaseFields |-> IF f = "evidence" THEN {new.snapshot}
                                       ELSE noted[f]]
      BY <3>1, <3>3 DEF RowType, CaseFields
    <3>5. /\ with = [f \in CaseFields |-> with[f]] /\ with.notes = noted.notes
          /\ with.ver = noted.ver /\ with.events = noted.events
          /\ with.references = noted.references /\ with.evidence = {new.snapshot}
          /\ \A f \in SetFields : with[f] = noted[f]
      BY <3>4 DEF CaseFields, SetFields
    <3>6. RowType(with)
      BY <3>3, <3>5 DEF RowType
    <3>7. /\ Entries(says, "note") = {} /\ Entries(says, "target") = {}
          /\ Entries(says, "snapshot") = {new.snapshot}
          /\ \A f \in SetFields : f \notin DOMAIN says
      BY <3>2 DEF Entries, SetFields
    <3>8. /\ with.notes \in {noted.notes, noted.notes + 1}
          /\ Entries(says, "note") = (noted.notes + 1)..with.notes
          /\ with.references = noted.references \cup Entries(says, "target")
          /\ with.evidence = noted.evidence \cup Entries(says, "snapshot")
      <4> (noted.notes + 1)..noted.notes = {}
        BY <3>3 DEF RowType
      <4> QED
        BY <1>6, <3>5, <3>7
    <3>9. row = Told(with, p, "evidence_attached", says)
      BY <1>3, <2>1, <3>1, <3>2
    <3>10. \A f \in SetFields : with[f] = noted[f] /\ f \notin DOMAIN says
      BY <3>5, <3>7
    <3>11. Founded(row) /\ row.evidence = with.evidence
      BY <1>4, <1>6, <3>5, <3>6, <3>8, <3>9, <3>10, EntryFounds
    <3> QED
      BY <2>1, <3>5, <3>11
  <2> QED
    BY <1>3, <1>6, <2>1
<1> QED
  BY <1>4, <1>7

-----------------------------------------------------------------------------
(* The invariant through the steps.                                        *)

LEMMA RowsSeq ==
  ASSUME NEW n \in Nat, NEW l, l = [i \in 1..n |-> l[i]]
  PROVE  l \in Seq(Rows(l)) /\ Len(l) = n /\ DOMAIN l = 1..n
<1>1. DOMAIN l = 1..n /\ \A i \in 1..n : l[i] \in Rows(l)
  BY DEF Rows
<1>2. l \in Seq(Rows(l))
  BY <1>1, IsASeq
<1> QED
  BY <1>1, <1>2, LenProperties

LEMMA CasesAfter ==
  ASSUME NEW n \in Nat, cases' = [c \in 1..n |-> cases'[c]],
         \A c \in 1..n : /\ RowType(cases'[c]) /\ Faithful(cases'[c])
                         /\ OwnerAmong(cases'[c], UserIds')
                         /\ Owner(cases'[c]) \in 0..lastUser'
  PROVE  CasesTyped' /\ OwnersPast' /\ ChronologyGivesCase'
<1>1. PICK after : after = cases'
  OBVIOUS
<1>2. cases' \in Seq(Rows(cases')) /\ DOMAIN cases' = 1..n
  BY <1>1, RowsSeq
<1>3. OwnersPast'
  BY <1>2 DEF OwnersPast
<1>4. ChronologyGivesCase'
  BY <1>2 DEF ChronologyGivesCase, Faithful, OwnerAmong, Owner
<1> QED
  BY <1>2, <1>3, <1>4 DEF CasesTyped

\* What a row may become: it takes the next version, or loses its owner.
Follows(row, old) ==
  \/ row.ver = old.ver + 1
  \/ /\ \A f \in ShownFields \ {"assignee"} : row[f] = old[f]
     /\ row.assignee \in {old.assignee, Unassigned}

LEMMA SeenFollows ==
  ASSUME NEW old, NEW row, NEW seen, RowType(old), SeenKnown(seen, old),
         Follows(row, old)
  PROVE  SeenKnown(seen, row)
<1>1. CASE row.ver = old.ver + 1
  BY <1>1 DEF SeenKnown, RowType
<1>2. CASE /\ \A f \in ShownFields \ {"assignee"} : row[f] = old[f]
           /\ row.assignee \in {old.assignee, Unassigned}
  <2>1. "ver" \in ShownFields \ {"assignee"}
    BY DEF ShownFields, CaseFields
  <2>2. row.ver = old.ver
    BY <1>2, <2>1
  <2> QED
    BY <1>2, <2>2 DEF SeenKnown
<1> QED
  BY <1>1, <1>2 DEF Follows

LEMMA VisitsFollow ==
  ASSUME CaseInv, DOMAIN cases \subseteq DOMAIN cases',
         \A c \in DOMAIN cases : Follows(cases'[c], cases[c]),
         visit' = [p \in Processes |-> visit'[p]],
         \A p \in Processes : visit'[p] \in {visit[p], Idle}
  PROVE  VisitsKnown'
<1> SUFFICES ASSUME NEW p \in Processes PROVE VisitKnown(p)'
  BY DEF VisitsKnown
<1>1. CASE visit'[p] = Idle
  BY <1>1 DEF VisitKnown, Idle
<1>2. CASE visit'[p] = visit[p]
  <2>1. VisitKnown(p)
    BY DEF CaseInv, VisitsKnown
  <2>2. ASSUME visit[p].pc \in {"page", "change"}
        PROVE  /\ visit[p].case \in DOMAIN cases'
               /\ SeenKnown(visit[p].seen, cases'[visit[p].case])
    <3>1. PICK old : old = cases[visit[p].case]
      OBVIOUS
    <3>2. PICK row : row = cases'[visit[p].case]
      OBVIOUS
    <3>3. PICK seen : seen = visit[p].seen
      OBVIOUS
    <3>4. visit[p].case \in DOMAIN cases /\ SeenKnown(seen, old)
      BY <2>1, <2>2, <3>1, <3>3 DEF VisitKnown
    <3>5. RowType(old) /\ Follows(row, old)
      BY <3>1, <3>2, <3>4 DEF CaseInv, CasesTyped
    <3> QED
      BY <3>2, <3>3, <3>4, <3>5, SeenFollows
  <2> QED
    BY <1>2, <2>1, <2>2 DEF VisitKnown
<1> QED
  BY <1>1, <1>2

\* An account is deleted: its cases lose their owner, and nothing else.
LEMMA RowCascades ==
  ASSUME NEW ids, NEW after, NEW last \in Nat,
         \A i \in after : i \in ids \/ i > last,
         NEW old, RowType(old), Faithful(old), OwnerAmong(old, ids),
         Owner(old) \in 0..last,
         NEW row, row = [old EXCEPT !.assignee = IF @ \in after THEN @ ELSE Unassigned]
  PROVE  /\ RowType(row) /\ Faithful(row) /\ OwnerAmong(row, after)
         /\ Owner(row) = Owner(old) /\ Follows(row, old)
         /\ row.evidence = old.evidence /\ row.events = old.events
<1>1. row = [f \in CaseFields |->
        IF f = "assignee" THEN IF old.assignee \in after THEN old.assignee ELSE Unassigned
        ELSE old[f]]
  BY DEF RowType, CaseFields
<1>2. /\ row = [f \in CaseFields |-> row[f]]
      /\ row.assignee = IF old.assignee \in after THEN old.assignee ELSE Unassigned
      /\ row.text = old.text /\ row.status = old.status /\ row.archived = old.archived
      /\ row.ver = old.ver /\ row.notes = old.notes /\ row.references = old.references
      /\ row.evidence = old.evidence /\ row.events = old.events
      /\ \A f \in ShownFields \ {"assignee"} : row[f] = old[f]
  BY <1>1 DEF CaseFields, ShownFields
<1>3. \A f, first : Latest(row, f, first) = Latest(old, f, first)
  BY <1>2 DEF Latest
<1>4. \A f : AllOf(row, f) = AllOf(old, f)
  BY <1>2 DEF AllOf
<1>5. Owner(row) = Owner(old)
  BY <1>3 DEF Owner
<1>6. Faithful(row)
  <2>1. Latest(row, "archived", FALSE) = Latest(old, "archived", FALSE)
    BY <1>3, Zenon
  <2>2. row.text = Latest(row, "text", row.text)
    BY <1>2, <1>3 DEF Faithful
  <2>3. row.status = Latest(row, "status", "open")
    BY <1>2, <1>3 DEF Faithful
  <2> QED
    BY <1>2, <1>4, <2>1, <2>2, <2>3 DEF Faithful
<1>7. OwnerAmong(row, after)
  BY <1>2, <1>5 DEF OwnerAmong
<1>8. Follows(row, old)
  BY <1>2 DEF Follows
<1> QED
  BY <1>2, <1>5, <1>6, <1>7, <1>8 DEF RowType

LEMMA SharedHeld ==
  ASSUME CaseInv, NEW s, Shared(s)
  PROVE  /\ s \in DOMAIN snapshots /\ snapshots[s].sharer # Unassigned
         /\ snapshots[s].sharer = snapshots[s].principal
<1>1. s \in DOMAIN snapshots
  BY DEF CaseInv, EvidenceHeld, Shared
<1> QED
  BY <1>1 DEF CaseInv, SharedByPrincipal

\* No case has evidence that no case had.
LEMMA EvidenceStays ==
  ASSUME CaseInv, UNCHANGED snapshots,
         \A c \in DOMAIN cases' : \A s \in cases'[c].evidence : Shared(s)
  PROVE  SnapshotsTyped' /\ EvidenceHeld' /\ SharedByPrincipal'
<1>1. \A c \in DOMAIN cases' : \A s \in cases'[c].evidence :
        s \in DOMAIN snapshots /\ snapshots[s].sharer # Unassigned
  BY SharedHeld
<1>2. EvidenceHeld'
  BY <1>1 DEF EvidenceHeld
<1>3. SharedByPrincipal'
  BY <1>1 DEF CaseInv, SharedByPrincipal, Shared
<1> QED
  BY <1>2, <1>3 DEF CaseInv, SnapshotsTyped

\* A case has s, too, which its principal shares or somebody shared before.
LEMMA EvidenceShared ==
  ASSUME TypeInv, CaseInv, NEW p, NEW s, Known(p), Authorized(p, s), Share(p, s),
         \A c \in DOMAIN cases' : \A e \in cases'[c].evidence : e = s \/ Shared(e)
  PROVE  SnapshotsTyped' /\ EvidenceHeld' /\ SharedByPrincipal'
<1>1. CASE Shared(s)
  BY <1>1, EvidenceStays DEF Share
<1>2. CASE ~Shared(s)
  <2>1. PICK i : i = Uid(p)
    OBVIOUS
  <2>2. /\ s \in DOMAIN snapshots /\ snapshots[s].principal = i
        /\ snapshots' = [snapshots EXCEPT ![s].sharer = i] /\ i # Unassigned
    BY <1>2, <2>1, UsersKnown DEF Authorized, Share, Known
  <2>3. PICK n \in Nat : n = Len(snapshots) /\ DOMAIN snapshots = 1..n
    BY LenProperties DEF CaseInv, SnapshotsTyped
  <2>4. /\ snapshots' = [e \in 1..n |-> snapshots'[e]]
        /\ \A e \in 1..n \ {s} : snapshots'[e] = snapshots[e]
        /\ snapshots'[s] = [snapshots[s] EXCEPT !.sharer = i]
    BY <2>2, <2>3 DEF CaseInv, SnapshotsTyped
  <2>5. PICK was : was = snapshots[s]
    OBVIOUS
  <2>6. "sharer" \in DOMAIN was
    BY <2>2, <2>5 DEF CaseInv, SnapshotsTyped
  <2>7. /\ snapshots'[s].sharer = i /\ snapshots'[s].principal = was.principal
        /\ DOMAIN snapshots'[s] = DOMAIN was
    BY <2>4, <2>5, <2>6
  <2>8. PICK after : after = snapshots'
    OBVIOUS
  <2>9. after \in Seq(Rows(after)) /\ Len(after) = n /\ DOMAIN after = 1..n
    BY <2>4, <2>8, RowsSeq
  <2>10. SnapshotsTyped'
    BY <2>3, <2>4, <2>6, <2>5, <2>7, <2>8, <2>9 DEF CaseInv, SnapshotsTyped
  <2>11. EvidenceHeld'
    BY <2>2, <2>3, <2>8, <2>9, SharedHeld DEF EvidenceHeld
  <2>12. SharedByPrincipal'
    <3> SUFFICES ASSUME NEW e \in DOMAIN snapshots'
                 PROVE  /\ snapshots'[e].sharer \in {Unassigned, snapshots'[e].principal}
                        /\ Shared(e)' => snapshots'[e].sharer # Unassigned
      BY DEF SharedByPrincipal
    <3>1. CASE e = s
      BY <2>2, <2>5, <2>7, <3>1
    <3>2. CASE e # s
      <4>1. snapshots'[e] = snapshots[e] /\ e \in DOMAIN snapshots
        BY <2>3, <2>4, <2>8, <2>9, <3>2
      <4>2. Shared(e)' => Shared(e)
        BY <3>2 DEF Shared
      <4> QED
        BY <4>1, <4>2 DEF CaseInv, SharedByPrincipal
    <3> QED
      BY <3>1, <3>2
  <2> QED
    BY <2>10, <2>11, <2>12
<1> QED
  BY <1>1, <1>2

\* A snapshot that is stored is nobody's evidence yet.
LEMMA EvidenceStored ==
  ASSUME CaseInv, NEW row, row.sharer = Unassigned, "sharer" \in DOMAIN row,
         Len(snapshots) < SnapshotLimit, snapshots' = Append(snapshots, row),
         UNCHANGED cases
  PROVE  SnapshotsTyped' /\ EvidenceHeld' /\ SharedByPrincipal'
<1>1. PICK old : old = snapshots
  OBVIOUS
<1>2. PICK after : after = Append(old, row)
  OBVIOUS
<1>3. old \in Seq(Rows(old))
  BY <1>1 DEF CaseInv, SnapshotsTyped
<1>4. /\ after \in Seq(Rows(after)) /\ Len(old) \in Nat /\ Len(after) = Len(old) + 1
      /\ DOMAIN old = 1..Len(old) /\ DOMAIN after = 1..(Len(old) + 1)
      /\ \A i \in 1..Len(old) : after[i] = old[i]
      /\ after[Len(old) + 1] = row
  BY <1>2, <1>3, AppendRow
<1>5. snapshots' = after /\ SnapshotLimit \in Nat
  BY <1>1, <1>2, CaseAssumption
<1>6. SnapshotsTyped'
  <2>1. Len(after) <= SnapshotLimit
    BY <1>1, <1>4, <1>5
  <2>2. \A i \in DOMAIN after : "sharer" \in DOMAIN after[i]
    BY <1>1, <1>4 DEF CaseInv, SnapshotsTyped
  <2> QED
    BY <1>4, <1>5, <2>1, <2>2 DEF SnapshotsTyped
<1>7. EvidenceHeld'
  BY <1>1, <1>4, <1>5 DEF CaseInv, EvidenceHeld
<1>8. SharedByPrincipal'
  <2> SUFFICES ASSUME NEW s \in DOMAIN after
               PROVE  /\ after[s].sharer \in {Unassigned, after[s].principal}
                      /\ Shared(s) => after[s].sharer # Unassigned
    BY <1>5 DEF SharedByPrincipal, Shared
  <2>1. CASE s \in DOMAIN old
    BY <1>1, <1>4, <2>1 DEF CaseInv, SharedByPrincipal
  <2>2. CASE s \notin DOMAIN old
    <3>1. ~Shared(s)
      BY <1>1, <2>2, SharedHeld
    <3> QED
      BY <1>4, <2>2, <3>1
  <2> QED
    BY <2>1, <2>2
<1> QED
  BY <1>6, <1>7, <1>8

\* What the steps of cases never do.
EventsByKnown ==
  \A c \in DOMAIN cases' : \A i \in DOMAIN cases'[c].events :
    (c \notin DOMAIN cases \/ i \notin DOMAIN cases[c].events)
      => cases'[c].events[i].by \in UserIds

LEMMA CascadeStep ==
  ASSUME TypeInv, CaseInv, [Next]_vars, Cascade, UNCHANGED <<snapshots, visit>>
  PROVE  CaseInv' /\ EventsByKnown
<1>1. PICK n \in Nat : n = Len(cases) /\ DOMAIN cases = 1..n
  BY LenProperties DEF CaseInv, CasesTyped
<1>2. PICK after : after = UserIds'
  OBVIOUS
<1>3. cases' = [c \in 1..n |->
        [cases[c] EXCEPT !.assignee = IF @ \in after THEN @ ELSE Unassigned]]
  BY <1>1, <1>2 DEF Cascade, UserIds
<1>4. cases' = [c \in 1..n |-> cases'[c]] /\ DOMAIN cases' = 1..n
  BY <1>3
<1>5. ASSUME NEW c \in 1..n
      PROVE  /\ RowType(cases'[c]) /\ Faithful(cases'[c])
             /\ OwnerAmong(cases'[c], UserIds')
             /\ Owner(cases'[c]) \in 0..lastUser'
             /\ Follows(cases'[c], cases[c])
             /\ cases'[c].evidence = cases[c].evidence
             /\ cases'[c].events = cases[c].events
  <2>1. PICK old : old = cases[c]
    OBVIOUS
  <2>2. PICK row : row = [old EXCEPT !.assignee = IF @ \in after THEN @ ELSE Unassigned]
    OBVIOUS
  <2>3. PICK ids : ids = UserIds
    OBVIOUS
  <2>4. PICK last : last = lastUser
    OBVIOUS
  <2>5. /\ last \in Nat /\ lastUser' \in Nat /\ last <= lastUser'
        /\ \A i \in after : i \in ids \/ i > last
    BY <1>2, <2>3, <2>4, AccountsGoOn, UsersKnown
  <2>6. /\ RowType(old) /\ Faithful(old) /\ OwnerAmong(old, ids)
        /\ Owner(old) \in 0..last
    BY <1>1, <2>1, <2>3, <2>4, RowsTruthful DEF Truthful, OwnerTold
  <2>7. /\ RowType(row) /\ Faithful(row) /\ OwnerAmong(row, after)
        /\ Owner(row) = Owner(old) /\ Follows(row, old)
        /\ row.evidence = old.evidence /\ row.events = old.events
    BY <2>2, <2>5, <2>6, RowCascades
  <2>8. cases'[c] = row
    BY <1>3, <2>1, <2>2
  <2> QED
    BY <1>2, <2>1, <2>5, <2>6, <2>7, <2>8
<1>6. CasesTyped' /\ OwnersPast' /\ ChronologyGivesCase'
  BY <1>4, <1>5, CasesAfter
<1>7. SnapshotsTyped' /\ EvidenceHeld' /\ SharedByPrincipal'
  BY <1>1, <1>4, <1>5, EvidenceStays DEF Shared
<1>8. VisitsKnown'
  <2>1. visit' = [p \in Processes |-> visit'[p]]
    BY DEF CaseInv, VisitsKnown
  <2> QED
    BY <1>1, <1>4, <1>5, <2>1, VisitsFollow
<1>9. EventsByKnown
  BY <1>1, <1>4, <1>5 DEF EventsByKnown
<1> QED
  BY <1>6, <1>7, <1>8, <1>9 DEF CaseInv

\* A change of one case.
LEMMA WrittenStep ==
  ASSUME TypeInv, CaseInv, NEW p \in Processes, Leave(p),
         UNCHANGED <<users, lastUser>>, NEW i, NEW row, Written(i, row)
  PROVE  /\ CasesTyped' /\ OwnersPast' /\ ChronologyGivesCase' /\ VisitsKnown'
         /\ EventsByKnown
         /\ DOMAIN cases' = DOMAIN cases /\ cases'[i] = row
         /\ \A c \in DOMAIN cases \ {i} : cases'[c] = cases[c]
<1>1. PICK n \in Nat : n = Len(cases) /\ DOMAIN cases = 1..n
  BY LenProperties DEF CaseInv, CasesTyped
<1>2. /\ i \in 1..n /\ cases' = [cases EXCEPT ![i] = row] /\ Truthful(row)
      /\ row.ver = cases[i].ver + 1
  BY <1>1 DEF Written
<1>3. cases = [c \in 1..n |-> cases[c]]
  BY <1>1 DEF CaseInv, CasesTyped
<1>4. /\ cases' = [c \in 1..n |-> cases'[c]] /\ DOMAIN cases' = 1..n
      /\ cases'[i] = row /\ \A c \in 1..n \ {i} : cases'[c] = cases[c]
  BY <1>2, <1>3
<1>5. \A c \in 1..n : Truthful(cases'[c])
  BY <1>1, <1>2, <1>4, RowsTruthful
<1>6. UserIds' = UserIds
  BY DEF UserIds
<1>7. \A c \in 1..n : /\ RowType(cases'[c]) /\ Faithful(cases'[c])
                      /\ OwnerAmong(cases'[c], UserIds')
                      /\ Owner(cases'[c]) \in 0..lastUser'
  BY <1>5, <1>6 DEF Truthful, OwnerTold
<1>8. CasesTyped' /\ OwnersPast' /\ ChronologyGivesCase'
  BY <1>4, <1>7, CasesAfter
<1>9. VisitsKnown'
  <2>1. \A c \in 1..n : Follows(cases'[c], cases[c])
    BY <1>2, <1>4 DEF Follows
  <2>2. /\ visit' = [q \in Processes |-> visit'[q]]
        /\ \A q \in Processes : visit'[q] \in {visit[q], Idle}
    BY DEF Leave, CaseInv, VisitsKnown
  <2> QED
    BY <1>1, <1>4, <2>1, <2>2, VisitsFollow
<1>10. EventsByKnown
  <2>1. PICK old : old = cases[i].events
    OBVIOUS
  <2>2. PICK e : row.events = Append(old, e) /\ e.by \in UserIds
    BY <2>1 DEF Written
  <2>3. old \in Seq(Rows(old))
    BY <1>1, <1>2, <2>1, RowsTruthful DEF Truthful, RowType
  <2>4. /\ DOMAIN old = 1..Len(old) /\ DOMAIN row.events = 1..(Len(old) + 1)
        /\ Len(old) \in Nat /\ row.events[Len(old) + 1] = e
    BY <2>2, <2>3, AppendRow
  <2>5. \A j \in DOMAIN row.events : j \notin DOMAIN old => row.events[j].by \in UserIds
    BY <2>2, <2>4
  <2> QED
    BY <1>1, <1>4, <2>1, <2>5 DEF EventsByKnown
<1> QED
  BY <1>1, <1>4, <1>8, <1>9, <1>10

LEMMA ChangeStep ==
  ASSUME TypeInv, CaseInv, NEW p \in Processes, Change(p), UNCHANGED accessVars
  PROVE  CaseInv' /\ EventsByKnown /\ UpToDate(p)
<1>1. PICK call : call = visit[p].call
  OBVIOUS
<1>2. /\ Doing(p, "change") /\ call \in CaseCalls
      /\ visit[p].case \in DOMAIN cases
  BY <1>1 DEF Change, CaseInv, VisitsKnown, VisitKnown, Doing
<1>3. /\ \/ Edit(p, call) \/ Transition(p, call) \/ Archive(p, call)
         \/ AddNote(p, call) \/ AddReference(p, call) \/ Attach(p, call)
      /\ UNCHANGED <<users, lastUser>>
  BY <1>1 DEF Change, accessVars, accountVars
<1>4. Leave(p) /\ UpToDate(p) /\ Known(p)
  BY <1>3 DEF Edit, Transition, Archive, AddNote, AddReference, Attach, Update
<1>5. PICK i : i = visit[p].case
  OBVIOUS
<1>6. ASSUME NEW row, Written(i, row), row.evidence = cases[i].evidence,
             UNCHANGED snapshots
      PROVE  CaseInv' /\ EventsByKnown
  <2>1. /\ CasesTyped' /\ OwnersPast' /\ ChronologyGivesCase' /\ VisitsKnown'
        /\ EventsByKnown /\ DOMAIN cases' = DOMAIN cases /\ cases'[i] = row
        /\ \A c \in DOMAIN cases \ {i} : cases'[c] = cases[c]
    BY <1>3, <1>4, <1>6, WrittenStep
  <2>2. \A c \in DOMAIN cases' : \A s \in cases'[c].evidence : Shared(s)
    BY <1>6, <2>1 DEF Shared
  <2> QED
    BY <1>6, <2>1, <2>2, EvidenceStays DEF CaseInv
<1>7. ASSUME \/ Edit(p, call) \/ Transition(p, call) \/ Archive(p, call)
             \/ AddNote(p, call) \/ AddReference(p, call)
      PROVE  \E row : Written(i, row) /\ row.evidence = cases[i].evidence
  <2>1. \E row : Written(i, row) /\ row.evidence = CaseOf(p).evidence
    BY <1>2, <1>5, <1>7, EditWrites, TransitionWrites, ArchiveWrites, NoteWrites,
       ReferenceWrites
  <2> QED
    BY <1>5, <2>1 DEF CaseOf
<1>8. CASE \/ Edit(p, call) \/ Transition(p, call) \/ Archive(p, call)
           \/ AddNote(p, call) \/ AddReference(p, call)
  <2>1. UNCHANGED snapshots
    BY <1>8 DEF Edit, Transition, Archive, AddNote, AddReference
  <2>2. PICK row : Written(i, row) /\ row.evidence = cases[i].evidence
    BY <1>7, <1>8
  <2> QED
    BY <1>4, <1>6, <2>1, <2>2
<1>12. CASE Attach(p, call)
  <2>1. PICK row : /\ Written(i, row)
                   /\ row.evidence = cases[i].evidence \cup {call.snapshot}
    BY <1>2, <1>5, <1>12, AttachWrites DEF CaseOf
  <2>2. /\ CasesTyped' /\ OwnersPast' /\ ChronologyGivesCase' /\ VisitsKnown'
        /\ EventsByKnown /\ DOMAIN cases' = DOMAIN cases /\ cases'[i] = row
        /\ \A c \in DOMAIN cases \ {i} : cases'[c] = cases[c]
    BY <1>3, <1>4, <2>1, WrittenStep
  <2>3. \A c \in DOMAIN cases' : \A e \in cases'[c].evidence :
          e = call.snapshot \/ Shared(e)
    BY <2>1, <2>2 DEF Shared
  <2>4. Authorized(p, call.snapshot) /\ Share(p, call.snapshot)
    BY <1>12 DEF Attach
  <2> QED
    BY <1>4, <2>2, <2>3, <2>4, EvidenceShared DEF CaseInv
<1> QED
  BY <1>3, <1>4, <1>8, <1>12

LEMMA CreateStep ==
  ASSUME TypeInv, CaseInv, NEW p \in Processes, NEW new \in Creations,
         Create(p, new), UNCHANGED accessVars
  PROVE  CaseInv' /\ EventsByKnown
<1>1. PICK row : /\ cases' = Append(cases, row) /\ Founded(row)
                 /\ row.evidence = IF new.snapshot = 0 THEN {} ELSE {new.snapshot}
  BY CreateFounds
<1>2. /\ Known(p) /\ Leave(p) /\ UNCHANGED <<users, lastUser>>
      /\ \/ new.snapshot = 0 /\ UNCHANGED snapshots
         \/ Authorized(p, new.snapshot) /\ Share(p, new.snapshot)
  BY DEF Create, accessVars, accountVars
<1>3. PICK old : old = cases
  OBVIOUS
<1>4. PICK after : after = Append(old, row)
  OBVIOUS
<1>5. old \in Seq(Rows(old))
  BY <1>3 DEF CaseInv, CasesTyped
<1>6. PICK n \in Nat : n = Len(old)
  BY <1>5, AppendRow
<1>7. /\ after \in Seq(Rows(after)) /\ Len(after) = n + 1
      /\ DOMAIN old = 1..n /\ DOMAIN after = 1..(n + 1)
      /\ \A c \in 1..n : after[c] = old[c]
      /\ after[n + 1] = row
  BY <1>4, <1>5, <1>6, AppendRow
<1>8. cases' = after
  BY <1>1, <1>3, <1>4
<1>9. UserIds' = UserIds
  BY <1>2 DEF UserIds
<1>10. \A c \in 1..(n + 1) : Truthful(after[c])
  BY <1>1, <1>3, <1>7, RowsTruthful DEF Founded
<1>11. CasesTyped' /\ OwnersPast' /\ ChronologyGivesCase'
  <2>1. cases' = [c \in 1..(n + 1) |-> cases'[c]] /\ n + 1 \in Nat
    BY <1>7, <1>8
  <2>2. \A c \in 1..(n + 1) : /\ RowType(cases'[c]) /\ Faithful(cases'[c])
                              /\ OwnerAmong(cases'[c], UserIds')
                              /\ Owner(cases'[c]) \in 0..lastUser'
    BY <1>2, <1>8, <1>9, <1>10 DEF Truthful, OwnerTold
  <2>3. PICK m \in Nat : m = n + 1
    BY <2>1
  <2> QED
    BY <2>1, <2>2, <2>3, CasesAfter
<1>12. VisitsKnown'
  <2>1. /\ visit' = [q \in Processes |-> visit'[q]]
        /\ \A q \in Processes : visit'[q] \in {visit[q], Idle}
    BY <1>2 DEF Leave, CaseInv, VisitsKnown
  <2>2. /\ DOMAIN cases \subseteq DOMAIN cases'
        /\ \A c \in DOMAIN cases : cases'[c] = cases[c]
    BY <1>3, <1>7, <1>8
  <2>3. \A c \in DOMAIN cases : Follows(cases'[c], cases[c])
    BY <2>2 DEF Follows
  <2> QED
    BY <2>1, <2>2, <2>3, VisitsFollow
<1>13. \A c \in DOMAIN cases' : \A e \in cases'[c].evidence :
         (new.snapshot # 0 /\ e = new.snapshot) \/ Shared(e)
  BY <1>1, <1>3, <1>7, <1>8 DEF Shared
<1>14. SnapshotsTyped' /\ EvidenceHeld' /\ SharedByPrincipal'
  <2>1. CASE new.snapshot = 0 /\ UNCHANGED snapshots
    BY <1>13, <2>1, EvidenceStays
  <2>2. CASE Authorized(p, new.snapshot) /\ Share(p, new.snapshot)
    BY <1>2, <1>13, <2>2, EvidenceShared
  <2> QED
    BY <1>2, <2>1, <2>2
<1>15. EventsByKnown
  BY <1>1, <1>3, <1>7, <1>8 DEF EventsByKnown, Founded, AuthorsKnown
<1> QED
  BY <1>11, <1>12, <1>14, <1>15 DEF CaseInv

\* A step that leaves the cases, the accounts and the ids alone.
LEMMA CasesAlone ==
  ASSUME CaseInv, UNCHANGED <<cases, users, lastUser>>
  PROVE  CasesTyped' /\ OwnersPast' /\ ChronologyGivesCase' /\ EventsByKnown
<1>1. CasesTyped' /\ OwnersPast'
  BY DEF CaseInv, CasesTyped, OwnersPast
<1>2. UserIds' = UserIds
  BY DEF UserIds
<1>3. ChronologyGivesCase'
  BY <1>2 DEF CaseInv, ChronologyGivesCase
<1>4. EventsByKnown
  BY DEF EventsByKnown
<1> QED
  BY <1>1, <1>3, <1>4

LEMMA StoreStep ==
  ASSUME TypeInv, CaseInv, NEW p \in Processes, Store(p), UNCHANGED accessVars
  PROVE  CaseInv' /\ EventsByKnown
<1>1. PICK row : row = [principal |-> Uid(p), name |-> visit[p].actor.name,
                        sharer |-> Unassigned]
  OBVIOUS
<1>2. /\ Len(snapshots) < SnapshotLimit /\ snapshots' = Append(snapshots, row)
      /\ UNCHANGED <<cases, users, lastUser>> /\ Leave(p)
  BY <1>1 DEF Store, RoomToStore, accessVars, accountVars
<1>3. row.sharer = Unassigned /\ "sharer" \in DOMAIN row
  BY <1>1
<1>4. SnapshotsTyped' /\ EvidenceHeld' /\ SharedByPrincipal'
  BY <1>2, <1>3, EvidenceStored
<1>5. VisitsKnown'
  <2>1. /\ visit' = [q \in Processes |-> visit'[q]]
        /\ \A q \in Processes : visit'[q] \in {visit[q], Idle}
    BY <1>2 DEF Leave, CaseInv, VisitsKnown
  <2>2. \A c \in DOMAIN cases : Follows(cases'[c], cases[c])
    BY <1>2 DEF Follows
  <2> QED
    BY <1>2, <2>1, <2>2, VisitsFollow
<1> QED
  BY <1>2, <1>4, <1>5, CasesAlone DEF CaseInv

\* A page that is loaded shows the case as it is; what is sent with it is the same.
LEMMA LookStep ==
  ASSUME CaseInv, NEW p \in Processes, Look(p), UNCHANGED accessVars
  PROVE  CaseInv' /\ EventsByKnown
<1>1. UNCHANGED <<cases, snapshots, users, lastUser>>
  BY DEF Look, accessVars, accountVars
<1>2. SnapshotsTyped' /\ EvidenceHeld' /\ SharedByPrincipal'
  BY <1>1, EvidenceStays DEF Shared
<1>3. VisitsKnown'
  <2>1. ASSUME NEW state, Start(p, state),
               /\ state.pc \in {"page", "change"} =>
                    /\ state.case \in DOMAIN cases
                    /\ SeenKnown(state.seen, cases[state.case])
               /\ state.pc = "change" => state.call \in CaseCalls
        PROVE  VisitsKnown'
    BY <1>1, <2>1 DEF Start, CaseInv, VisitsKnown, VisitKnown
  <2>2. ASSUME NEW s \in sessions, NEW c \in DOMAIN cases, Load(p, s, c)
        PROVE  VisitsKnown'
    <3>1. PICK row : row = cases[c]
      OBVIOUS
    <3>2. PICK seen : seen = Shown(row)
      OBVIOUS
    <3>3. row.ver \in Nat /\ DOMAIN row = CaseFields
      BY <3>1 DEF CaseInv, CasesTyped, RowType
    <3>4. seen = [f \in ShownFields |-> row[f]]
      BY <3>2, <3>3 DEF Shown, ShownFields
    <3>5. SeenKnown(seen, row)
      BY <3>3, <3>4 DEF SeenKnown, ShownFields, CaseFields
    <3>6. Start(p, [pc |-> "page", session |-> s, case |-> c, seen |-> seen])
      BY <2>2, <3>1, <3>2 DEF Load
    <3> QED
      BY <2>1, <3>1, <3>5, <3>6
  <2>3. ASSUME NEW call \in CaseCalls, Submit(p, call)
        PROVE  VisitsKnown'
    <3>1. /\ visit[p].case \in DOMAIN cases
          /\ SeenKnown(visit[p].seen, cases[visit[p].case])
      BY <2>3 DEF Submit, Doing, CaseInv, VisitsKnown, VisitKnown
    <3>2. PICK state : state = [pc |-> "change", call |-> call,
                                actor |-> Actor(visit[p].session),
                                case |-> visit[p].case, seen |-> visit[p].seen]
      OBVIOUS
    <3>3. Start(p, state)
      BY <2>3, <3>2 DEF Submit
    <3>4. /\ state.pc = "change" /\ state.call = call
          /\ state.case = visit[p].case /\ state.seen = visit[p].seen
      BY <3>2
    <3> QED
      BY <2>1, <3>1, <3>3, <3>4
  <2>4. ASSUME NEW s \in sessions, BeginCreate(p, s) \/ BeginCapture(p, s)
        PROVE  VisitsKnown'
    <3>1. PICK actor : actor = Actor(s)
      OBVIOUS
    <3>2. PICK pc \in {"create", "enrich"} : Start(p, [pc |-> pc, actor |-> actor])
      BY <2>4, <3>1 DEF BeginCreate, BeginCapture
    <3> QED
      BY <2>1, <3>2
  <2>5. CASE Abandon(p)
    <3>1. Start(p, Idle)
      BY <2>5 DEF Abandon, Leave, Start
    <3> QED
      BY <2>1, <3>1 DEF Idle
  <2> QED
    BY <2>2, <2>3, <2>4, <2>5 DEF Look
<1> QED
  BY <1>1, <1>2, <1>3, CasesAlone DEF CaseInv

LEMMA CaseInvInit ==
  ASSUME Init, CaseInit
  PROVE  CaseInv
<1>1. cases = <<>> /\ snapshots = <<>> /\ visit = [p \in Processes |-> Idle]
  BY DEF CaseInit
<1>2. \A p \in Processes : visit[p].pc = "idle"
  BY <1>1 DEF Idle
<1>3. VisitsKnown
  BY <1>1, <1>2 DEF VisitsKnown, VisitKnown
<1>4. CasesTyped
  BY <1>1, EmptySeq DEF CasesTyped
<1>5. SnapshotsTyped
  BY <1>1, EmptySeq, CaseAssumption DEF SnapshotsTyped
<1>6. EvidenceHeld /\ OwnersPast /\ ChronologyGivesCase /\ SharedByPrincipal
  BY <1>1 DEF EvidenceHeld, OwnersPast, ChronologyGivesCase, SharedByPrincipal
<1> QED
  BY <1>3, <1>4, <1>5, <1>6 DEF CaseInv

LEMMA CaseStep ==
  ASSUME TypeInv, CaseInv, [CaseNext]_allVars
  PROVE  CaseInv' /\ EventsByKnown
<1>1. CASE UNCHANGED allVars
  <2>1. UNCHANGED <<cases, snapshots, visit, users, lastUser>>
    BY <1>1 DEF allVars, vars, caseVars, accountVars
  <2>2. SnapshotsTyped' /\ EvidenceHeld' /\ SharedByPrincipal'
    BY <2>1, EvidenceStays DEF Shared
  <2>3. VisitsKnown'
    BY <2>1 DEF CaseInv, VisitsKnown, VisitKnown
  <2> QED
    BY <2>1, <2>2, <2>3, CasesAlone DEF CaseInv
<1>2. CASE Next /\ Cascade /\ UNCHANGED <<snapshots, visit>>
  BY <1>2, CascadeStep
<1>3. ASSUME NEW p \in Processes, Look(p) \/ Work(p), UNCHANGED accessVars
      PROVE  CaseInv' /\ EventsByKnown
  BY <1>3, LookStep, ChangeStep, StoreStep, CreateStep DEF Work
<1> QED
  BY <1>1, <1>2, <1>3 DEF CaseNext

\* The inductive invariant of the cases, beside the types of accounts.
THEOREM CaseInvariant == CaseSpec => [](TypeInv /\ CaseInv)
<1>1. Init /\ CaseInit => TypeInv /\ CaseInv
  BY TypeInit, CaseInvInit
<1>2. TypeInv /\ CaseInv /\ [CaseNext]_allVars => (TypeInv /\ CaseInv)'
  BY CaseStepIsAccessStep, TypeStep, CaseStep
<1> QED
  BY <1>1, <1>2, PTL DEF CaseSpec

\* Owners and evidence of cases exist, and the quota of snapshots holds, whatever
\* accounts are deleted and however many captures overlap (case_migrations.py:15-33,
\* investigation_snapshot_service.py:99-123).
THEOREM ReferencesStay == CaseSpec => []ReferencesHold
<1>1. TypeInv /\ CaseInv => ReferencesHold
  BY ChronologyByRow DEF CaseInv, SnapshotsTyped, EvidenceHeld, ReferencesHold,
     OwnerTold, OwnerAmong
<1> QED
  BY <1>1, CaseInvariant, PTL

\* The chronology of a case gives all that the case says, but for an owner whose
\* account was deleted (case_service.py:41-50).
THEOREM ChronologyStaysTrue == CaseSpec => []ChronologyGivesCase
<1>1. TypeInv /\ CaseInv => ChronologyGivesCase
  BY DEF CaseInv
<1> QED
  BY <1>1, CaseInvariant, PTL

\* Only the principal of a snapshot shares it with the team, whoever takes over
\* the name of its account (investigation_snapshot_service.py:82-91).
THEOREM PrincipalsShare == CaseSpec => []SharedByPrincipal
<1>1. TypeInv /\ CaseInv => SharedByPrincipal
  BY DEF CaseInv
<1> QED
  BY <1>1, CaseInvariant, PTL

\* Every new event is in the name of an account that is there
\* (case_migrations.py:7-8).
THEOREM AuthorsAreThere == CaseSpec => NoDepartedAuthor
<1>1. TypeInv /\ CaseInv /\ [CaseNext]_allVars =>
        [\A c \in DOMAIN cases' : \A i \in DOMAIN cases'[c].events :
           (c \notin DOMAIN cases \/ i \notin DOMAIN cases[c].events)
             => cases'[c].events[i].by \in UserIds]_allVars
  BY CaseStep DEF EventsByKnown
<1> QED
  BY <1>1, CaseInvariant, PTL DEF CaseSpec, NoDepartedAuthor

\* A change is made to the case that its author saw (case_service.py:116-211).
THEOREM ChangesAreOfWhatWasSeen == CaseSpec => SawWhatChanged
<1> DEFINE Seen(p) ==
      Doing(p, "change") /\ visit'[p] # visit[p] /\ cases' # cases =>
        LET seen == visit[p].seen row == CaseOf(p) IN
        /\ \A f \in DOMAIN seen \ {"assignee", "ver"} : seen[f] = row[f]
        /\ row.assignee \in {seen.assignee, Unassigned}
<1>1. ASSUME TypeInv, CaseInv, CaseNext, NEW p \in Processes PROVE Seen(p)
  <2>1. SUFFICES ASSUME Doing(p, "change"), visit'[p] # visit[p], cases' # cases
                 PROVE  LET seen == visit[p].seen row == CaseOf(p) IN
                        /\ \A f \in DOMAIN seen \ {"assignee", "ver"} : seen[f] = row[f]
                        /\ row.assignee \in {seen.assignee, Unassigned}
    OBVIOUS
  <2>2. PICK q \in Processes : Work(q) /\ UNCHANGED accessVars
    BY <1>1, <2>1 DEF CaseNext, Look
  <2>3. Leave(q)
    BY <2>2 DEF Work, Change, Store, Create, Edit, Transition, Archive, AddNote,
                AddReference, Attach, Update
  <2>4. q = p
    BY <1>1, <2>1, <2>3 DEF Leave, CaseInv, VisitsKnown
  <2>5. Change(p)
    BY <2>1, <2>2, <2>4 DEF Work, Store, Create, Doing
  <2>6. UpToDate(p)
    BY <1>1, <2>2, <2>4, <2>5, ChangeStep
  <2>7. SeenKnown(visit[p].seen, CaseOf(p))
    BY <1>1, <2>1 DEF CaseInv, VisitsKnown, VisitKnown, Doing, CaseOf
  <2> QED
    BY <2>6, <2>7 DEF SeenKnown, UpToDate
<1>2. TypeInv /\ CaseInv /\ [CaseNext]_allVars => [\A p \in Processes : Seen(p)]_allVars
  BY <1>1
<1> QED
  BY <1>2, CaseInvariant, PTL DEF CaseSpec, SawWhatChanged
=============================================================================
