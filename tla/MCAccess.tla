------------------------------- MODULE MCAccess -------------------------------
(* Small instances of Casework, over AccessControl, for TLC.  A scene is a    *)
(* part of the whole with its own bounds; the initial state chooses it.       *)
EXTENDS Casework

CONSTANTS n1, n2, n3, t1, t2

VARIABLE scene
mcVars == <<allVars, scene>>

MCSymmetry == Permutations(Processes)

\* The users of an installation that was set up: a primary administrator n1 and
\* further accounts.
SetUp(roles) ==
  /\ users = [n \in DOMAIN roles |->
       [id |-> CASE n = n1 -> 1 [] n = n2 -> 2 [] n = n3 -> 3,
        role |-> roles[n], ver |-> 0, primary |-> n = n1]]
  /\ lastUser = Cardinality(DOMAIN roles) /\ setupDone = TRUE
\* Sessions that were issued at the first tick.
SignedIn(S) ==
  sessions = {[sub |-> n, uid |-> users[n].id, sv |-> 0, jti |-> users[n].id,
               exp |-> clock + SessionTTL] : n \in S}
Fresh ==
  /\ LedgerInit
  /\ revoked = {} /\ clock = 1
  /\ tokens = [t \in {} |-> NoName] /\ lastToken = 0
  /\ windows = [t \in {} |-> NoName]
  /\ req = [p \in Processes |-> Idle]
  /\ served = [t \in Ids |-> [w \in Windows |-> 0]]
  /\ updates = [n \in Names |-> 0]

Within(time) == clock' <= time
\* For these scenes an analyst is as good as a viewer.
Call(op) ==
  {c \in Calls : c.op \in op /\ (c.op \in {"create", "role"} => c.arg # "analyst")}
By(n, op) == \E p \in Processes, c \in Call(op), s \in {r \in sessions : r.sub = n} :
               Authenticate(p, s, c)
\* Scenes that are not about the ledger end every request without an entry.
Unlogged == \E p \in Processes : Serve(p) \/ (At(p, "log") /\ FailLog(p))

\* From an empty installation: racing setups, then an administrator.
SetupNext ==
  /\ \/ \E p \in Processes, n \in {n1, n2} : Setup(p, n)
     \/ By(n1, {"create"})
     \/ Unlogged \/ Tick
  /\ Within(2)

\* Administrators work on each other's accounts, which sign in and change their
\* passwords.
AccountsNext ==
  \/ By(n1, {"create", "role", "delete"}) \/ By(n2, {"role", "delete", "password"})
  \/ \E p \in Processes : Login(p, n2)
  \/ Unlogged

\* Sessions that are closed, replaced and expire.
SessionsNext ==
  /\ \/ By(n1, {"logout"}) \/ By(n2, {"logout", "password"})
     \/ \E p \in Processes : Login(p, n2)
     \/ Unlogged \/ Tick
  /\ Within(3)

\* Tokens in two windows, minted, used, revoked and removed.
TokensNext ==
  /\ \/ By(n1, {"revoke", "remove"})
     \/ \E p \in Processes, c \in Call({"mint"}), s \in sessions :
          /\ <<c.target, c.arg>> \in {<<1, <<"viewer", Never>>>>, <<2, <<"admin", 1>>>>}
          /\ Authenticate(p, s, c)
     \/ \E p \in Processes, t \in Ids, c \in Call({"export", "logout"}) :
          AuthenticateToken(p, t, c)
     \/ Unlogged \/ Tick
  /\ Within(3)

\* Writers of the ledger; one checkpoint is kept outside.
LedgerNext ==
  /\ \/ \E p \in Processes : Login(p, n1) \/ Steps(p)
     \/ By(n1, {"export"})
     \/ Elsewhere
  /\ Cardinality(checkpoints') <= 1 /\ Len(ledger') <= 3

\* A case that n1 has created for n2.
OneCase ==
  /\ cases = <<[text |-> t1, assignee |-> 2, status |-> "open", archived |-> FALSE,
               ver |-> 1, notes |-> 0, references |-> {}, evidence |-> {},
               events |-> <<[kind |-> "created", by |-> 1,
                             says |-> [text |-> t1, assignee |-> 2]]>>]>>
  /\ snapshots = <<>>
  /\ visit = [p \in Processes |-> Idle]
Visits(n, calls) ==
  \E p \in Processes :
    \/ \E s \in {r \in sessions : r.sub = n}, c \in DOMAIN cases : Load(p, s, c)
    \/ Doing(p, "page") /\ visit[p].session.sub = n /\ \E call \in calls : Submit(p, call)
Quietly(A) == A /\ UNCHANGED <<ledgerVars, cases, snapshots>>
Working(news) ==
  \E p \in Processes : \/ Change(p) \/ Store(p) \/ Quietly(Abandon(p))
                       \/ \E new \in news : Create(p, new)
\* One request of an administrator at a time.
OneAtATime == \E p \in Processes : \A q \in Processes \ {p} : req'[q] = Idle

\* Two people change a case while the account of one changes.
CasesNext ==
  \/ /\ \/ \E p \in Processes, s \in {r \in sessions : r.sub = n1},
             c \in {d \in Call({"delete", "role"}) : d.target = n2 /\ d.arg # "admin"} :
             Authenticate(p, s, c)
        \/ Unlogged
     /\ OneAtATime /\ (\A n \in DOMAIN users' : users'[n].ver <= 1)
     /\ Cascade /\ UNCHANGED <<snapshots, visit>>
  \/ /\ \/ Quietly(Visits(n1, [op : {"edit"}, set : {[text |-> t2], [assignee |-> 1]}]
                             \cup [op : {"archive"}, set : [archived : BOOLEAN]]))
        \/ Quietly(Visits(n2, [op : {"note"}] \cup [op : {"reference"}, target : Targets]
                             \cup [op : {"transition"}, set : [status : {"open", "closed"}]]))
        \/ Working({})
     /\ UNCHANGED accessVars

\* Captures and their use, by an account that is deleted and created again.
EvidenceNext ==
  \/ /\ \/ By(n1, {"delete", "create"}) \/ \E p \in Processes : Login(p, n2)
        \/ Unlogged
     /\ OneAtATime /\ Cascade /\ UNCHANGED <<snapshots, visit>>
  \/ /\ \/ Quietly(\E p \in Processes, s \in {r \in sessions : r.sub = n2} :
             BeginCapture(p, s) \/ BeginCreate(p, s))
        \/ Quietly(Visits(n1, [op : {"attach"}, snapshot : {1}]))
        \/ Working([text : {t1}, assignee : {0}, note : {TRUE}, snapshot : 0..1])
     /\ UNCHANGED accessVars

MCInit ==
  \/ /\ \/ scene = "setup" /\ Init
        \/ scene = "accounts" /\ Fresh /\ SetUp(n1 :> "admin" @@ n2 :> "admin") /\ SignedIn({n1, n2})
        \/ scene = "sessions" /\ Fresh /\ SetUp(n1 :> "admin" @@ n2 :> "viewer") /\ SignedIn({n1, n2})
        \/ scene = "tokens" /\ Fresh /\ SetUp(n1 :> "admin") /\ SignedIn({n1})
        \/ scene = "ledger" /\ Fresh /\ SetUp(n1 :> "admin") /\ SignedIn({n1})
        \/ scene = "evidence" /\ Fresh /\ SetUp(n1 :> "admin" @@ n2 :> "analyst") /\ SignedIn({n1, n2})
     /\ CaseInit
  \/ /\ scene = "cases" /\ Fresh /\ SetUp(n1 :> "admin" @@ n2 :> "analyst") /\ SignedIn({n1, n2})
     /\ OneCase
MCNext ==
  /\ \/ /\ \/ scene = "setup" /\ SetupNext
           \/ scene = "accounts" /\ AccountsNext
           \/ scene = "sessions" /\ SessionsNext
           \/ scene = "tokens" /\ TokensNext
           \/ scene = "ledger" /\ LedgerNext
        /\ Cascade /\ UNCHANGED <<snapshots, visit>>
     \/ scene = "cases" /\ CasesNext
     \/ scene = "evidence" /\ EvidenceNext
  /\ UNCHANGED scene
AccessSpec == MCInit /\ [][MCNext]_mcVars

\* An administrator deletes an account that is changing its password.
UntruthSpec ==
  /\ scene = "accounts" /\ Fresh /\ SetUp(n1 :> "admin" @@ n2 :> "viewer")
  /\ SignedIn({n1, n2}) /\ CaseInit
  /\ [][/\ By(n1, {"delete"}) \/ By(n2, {"password"}) \/ \E p \in Processes : Steps(p)
        /\ UNCHANGED <<caseVars, scene>>]_mcVars
=============================================================================
