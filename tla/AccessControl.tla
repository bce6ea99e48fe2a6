---------------------------- MODULE AccessControl ----------------------------
(* Accounts, sessions and API tokens (app/services/auth_service.py,           *)
(* app/services/api_token_service.py and their routes in app/main.py).  A     *)
(* request authenticates, looks, acts and logs in transactions of its own;    *)
(* between two of them anything may happen.  A password is not modelled: a    *)
(* check of one succeeds or fails.                                            *)
EXTENDS AuditLedger, FiniteSets, Functions

CONSTANTS
  Names,         \* usernames
  Roles,         \* VALID_ROLES
  Limits,        \* values of a token's rate_limit_per_min
  NoName,        \* no account, also the name of a caller that is a token
  SessionTTL,    \* JWT_EXPIRATION_HOURS
  TokenTTLs,     \* values of expires_in_days, of which Never is one
  Never,
  WindowLength,  \* one minute
  MaxClock, MaxAccounts, MaxSessions, MaxTokens, MaxVersion  \* bounds of the model

ASSUME AccessAssumption ==
  /\ {SessionTTL, WindowLength, MaxClock, MaxAccounts, MaxSessions, MaxTokens,
      MaxVersion, MaxLedger} \subseteq Nat
  /\ SessionTTL > 0 /\ WindowLength > 0 /\ MaxClock > 0
  /\ Limits \subseteq Nat \ {0} /\ Never \notin Nat
  /\ TokenTTLs \subseteq (Nat \ {0}) \cup {Never}
  /\ "admin" \in Roles /\ NoName \notin Names /\ NoOne \notin Processes

VARIABLES
  users,      \* rows of users by username
  lastUser,   \* the last AUTOINCREMENT id of users
  setupDone,  \* installation_metadata.admin_setup_completed
  sessions,   \* every JWT that was issued, valid or not
  revoked,    \* rows of revoked_sessions: jti and expiry
  tokens,     \* rows of api_tokens by id
  lastToken,  \* the last AUTOINCREMENT id of api_tokens
  windows,    \* rows of api_rate_windows by token
  clock,
  req,        \* what each process is doing
  served,     \* history: requests admitted per token and window
  updates     \* history: password updates of each account

accountVars == <<users, lastUser, setupDone, updates>>
sessionVars == <<sessions, revoked>>
tokenVars == <<tokens, lastToken, windows, served>>
vars == <<ledgerVars, accountVars, sessionVars, tokenVars, clock, req>>

Ids == 1..MaxTokens
Windows == 0..(MaxClock \div WindowLength)
Window(t) == t \div WindowLength

AdminOps == {"create", "role", "delete", "mint", "revoke", "remove", "export"}
\* What may be asked of a route behind authentication.
Calls ==
  [op : {"logout", "password", "export"}, target : {NoName}, arg : {NoName}]
    \cup [op : {"create", "role"}, target : Names, arg : Roles]
    \cup [op : {"delete"}, target : Names, arg : {NoName}]
    \cup [op : {"mint"}, target : Limits, arg : Roles \X TokenTTLs]
    \cup [op : {"revoke", "remove"}, target : Ids, arg : {NoName}]
SetupCall(n) == [op |-> "setup", target |-> n, arg |-> NoName]
Op(p) == req[p].call.op
Target(p) == req[p].call.target
Arg(p) == req[p].call.arg

Idle == [pc |-> "idle"]
Goto(p, pc) == req' = [req EXCEPT ![p].pc = pc]
Done(p) == req' = [req EXCEPT ![p] = Idle]
\* The handler goes on to its audit entry.
ToLog(p, what) == req' = [req EXCEPT ![p] = [pc |-> "log", what |-> what]]
At(p, pc) == req[p].pc = pc

Init ==
  /\ LedgerInit
  /\ users = [n \in {} |-> NoName] /\ lastUser = 0 /\ setupDone = FALSE
  /\ sessions = {} /\ revoked = {}
  /\ tokens = [t \in {} |-> NoName] /\ lastToken = 0
  /\ windows = [t \in {} |-> NoName]
  /\ clock = 1
  /\ req = [p \in Processes |-> Idle]
  /\ served = [t \in Ids |-> [w \in Windows |-> 0]]
  /\ updates = [n \in Names |-> 0]

-----------------------------------------------------------------------------
(* Accounts.                                                               *)

IsAdmin(n) == users[n].role = "admin"
Admins == {n \in DOMAIN users : IsAdmin(n)}
Primaries == {n \in DOMAIN users : users[n].primary}

\* The rows of users with n added.
WithUser(n, role, primary) ==
  [m \in DOMAIN users \cup {n} |->
     IF m = n THEN [id |-> lastUser + 1, role |-> role, ver |-> 0,
                    primary |-> primary]
     ELSE users[m]]
Bump(n, role) ==
  [users EXCEPT ![n].role = role, ![n].ver = @ + 1]

\* admin_required: no administrator, and none was ever set up.
AdminRequired == Admins = {} /\ ~setupDone

\* UNIQUE(username), and idx_primary_user for a primary account.
Insertable(n, primary) ==
  n \notin DOMAIN users /\ (primary => Primaries = {})
InsertUser(n, role, primary) ==
  /\ lastUser < MaxAccounts
  /\ users' = WithUser(n, role, primary)
  /\ lastUser' = lastUser + 1
  /\ setupDone' = (setupDone \/ primary)

\* complete_initial_setup under the write lock.
CompleteSetup(p) ==
  LET n == Target(p) IN
  \/ /\ AdminRequired /\ Insertable(n, TRUE)
     /\ InsertUser(n, "admin", TRUE)
     /\ req' = [req EXCEPT ![p] = [pc |-> "issue", actor |-> n,
                                     what |-> "INITIAL_SETUP_COMPLETED"]]
  \/ /\ ~AdminRequired \/ ~Insertable(n, TRUE)
     /\ Done(p) /\ UNCHANGED <<users, lastUser, setupDone>>

\* create_user; the name may have come up since the look.
CreateUser(p) ==
  LET n == Target(p)
      primary == Arg(p) = "admin" /\ Admins = {}
  IN \/ /\ Insertable(n, primary)
        /\ InsertUser(n, Arg(p), primary)
        /\ ToLog(p, "USER_CREATED")
     \/ /\ ~Insertable(n, primary)
        /\ Done(p) /\ UNCHANGED <<users, lastUser, setupDone>>

\* Variant: the last administrator is protected, the primary one is not.
MayDemoteAny(n) == IsAdmin(n) => Cardinality(Admins) > 1
\* The governance safeguards of update_user_role and delete_user_by_username.
MayDemote(n) ==
  ~users[n].primary /\ (IsAdmin(n) => Cardinality(Admins) > 1)

UpdateRole(p) ==
  LET n == Target(p)
      may == /\ n \in DOMAIN users
             /\ Arg(p) = "admin" \/ MayDemote(n)
  IN /\ UNCHANGED <<lastUser, setupDone>>
     /\ \/ /\ may /\ users[n].ver < MaxVersion
           /\ users' = Bump(n, Arg(p))
           /\ ToLog(p, "USER_ROLE_UPDATED")
        \/ ~may /\ Done(p) /\ UNCHANGED users

DeleteUser(p) ==
  LET n == Target(p)
      may == n \in DOMAIN users /\ MayDemote(n)
  IN /\ UNCHANGED <<lastUser, setupDone>>
     /\ \/ /\ may
           /\ users' = [m \in DOMAIN users \ {n} |-> users[m]]
           /\ ToLog(p, "USER_DELETED")
        \/ ~may /\ Done(p) /\ UNCHANGED users

\* update_user_password; the route ignores that no row may have been there.
UpdatePassword(p) ==
  LET n == req[p].actor IN
  /\ UNCHANGED <<lastUser, setupDone>>
  /\ ToLog(p, "PASSWORD_CHANGED")
  /\ \/ /\ n \in DOMAIN users /\ users[n].ver < MaxVersion
        /\ users' = Bump(n, users[n].role)
        /\ updates' = [updates EXCEPT ![n] = @ + 1]
     \/ n \notin DOMAIN users /\ UNCHANGED <<users, updates>>

-----------------------------------------------------------------------------
(* Sessions.                                                               *)

\* Variant: an account that has taken over the name inherits its sessions.
CurrentByName(s) ==
  s.exp > clock /\ s.sub \in DOMAIN users /\ users[s.sub].ver = s.sv
\* The checks of verify_access_token that need the account.
Current(s) ==
  /\ s.exp > clock
  /\ s.sub \in DOMAIN users
  /\ users[s.sub].id = s.uid /\ users[s.sub].ver = s.sv
IsRevoked(s) == \E r \in revoked : r.jti = s.jti
\* A session that a request may still be made with.
Accepted(s) == Current(s) /\ ~IsRevoked(s)

\* create_access_token reads the account again, whatever the login saw of it.
IssueSession(p) ==
  LET n == req[p].actor IN
  /\ At(p, "issue") /\ UNCHANGED <<ledgerVars, accountVars, tokenVars, clock, revoked>>
  /\ \/ /\ n \in DOMAIN users /\ Cardinality(sessions) < MaxSessions
        /\ sessions' = sessions \cup
             {[sub |-> n, uid |-> users[n].id, sv |-> users[n].ver,
               jti |-> Cardinality(sessions) + 1, exp |-> clock + SessionTTL]}
        /\ ToLog(p, req[p].what)
     \/ n \notin DOMAIN users /\ Done(p) /\ UNCHANGED sessions

\* revoke_session forgets the revocations of sessions that have expired.  A
\* token has no session to revoke.
RevokeSession(p) ==
  /\ revoked' = IF req[p].session = NoName THEN revoked
                ELSE {r \in revoked : r.exp >= clock} \cup
                       {[jti |-> req[p].session.jti, exp |-> req[p].session.exp]}
  /\ ToLog(p, "AUTH_LOGOUT")
  /\ UNCHANGED sessions

-----------------------------------------------------------------------------
(* API tokens.                                                             *)

MintToken(p) ==
  LET t == lastToken + 1 ttl == Arg(p)[2] IN
  /\ lastToken < MaxTokens
  /\ lastToken' = t
  /\ tokens' = [k \in DOMAIN tokens \cup {t} |->
       IF k = t THEN [active |-> TRUE, limit |-> Target(p),
                      role |-> Arg(p)[1],
                      expires |-> IF ttl = Never THEN Never ELSE clock + ttl]
       ELSE tokens[k]]
  /\ ToLog(p, "API_TOKEN_CREATED")
  /\ UNCHANGED <<windows, served>>

RevokeToken(p) ==
  LET t == Target(p) IN
  /\ UNCHANGED <<lastToken, windows, served>>
  /\ \/ /\ t \in DOMAIN tokens
        /\ tokens' = [tokens EXCEPT ![t].active = FALSE]
        /\ ToLog(p, "API_TOKEN_REVOKED")
     \/ t \notin DOMAIN tokens /\ Done(p) /\ UNCHANGED tokens

\* The row of api_rate_windows goes with its token.
WindowsWithout(t) == [k \in DOMAIN windows \ {t} |-> windows[k]]
RemoveToken(p) ==
  LET t == Target(p) IN
  /\ UNCHANGED <<lastToken, served>>
  /\ \/ /\ t \in DOMAIN tokens
        /\ tokens' = [k \in DOMAIN tokens \ {t} |-> tokens[k]]
        /\ windows' = WindowsWithout(t)
        /\ ToLog(p, "API_TOKEN_DELETED")
     \/ t \notin DOMAIN tokens /\ Done(p) /\ UNCHANGED <<tokens, windows>>

Usable(t) ==
  /\ t \in DOMAIN tokens /\ tokens[t].active
  /\ tokens[t].expires # Never => clock <= tokens[t].expires

\* The count of the fixed window after one more request.
NextCount(t) ==
  IF t \in DOMAIN windows /\ windows[t].start = Window(clock)
  THEN windows[t].count + 1 ELSE 1
\* Variant: the request itself is not counted.
WithinLimitBefore(t) == NextCount(t) - 1 <= tokens[t].limit
WithinLimit(t) == NextCount(t) <= tokens[t].limit

-----------------------------------------------------------------------------
(* Requests.                                                               *)

\* POST /api/setup looks before it takes the lock.
Setup(p, n) ==
  /\ At(p, "idle") /\ AdminRequired
  /\ req' = [req EXCEPT ![p] = [pc |-> "act", call |-> SetupCall(n),
                                actor |-> NoName, session |-> NoName]]
  /\ UNCHANGED <<ledgerVars, accountVars, sessionVars, tokenVars, clock>>

\* POST /api/auth/login reads the account and checks the password.
Login(p, n) ==
  /\ At(p, "idle") /\ Admins # {}
  /\ \/ /\ n \in DOMAIN users
        /\ req' = [req EXCEPT ![p] = [pc |-> "issue", actor |-> n,
                                      what |-> "AUTH_LOGIN_SUCCESS"]]
     \/ ToLog(p, "AUTH_LOGIN_FAILED")
  /\ UNCHANGED <<ledgerVars, accountVars, sessionVars, tokenVars, clock>>

\* The handler of an authenticated call: its role, and what it checks without
\* the database.  Only a logout still needs the session.
Handler(p, c, actor, role, s) ==
  IF \/ c.op \in AdminOps /\ role # "admin"
     \/ c.op = "delete" /\ c.target = actor
  THEN Done(p)
  ELSE req' = [req EXCEPT ![p] =
         [pc |-> "check", call |-> c, actor |-> actor,
          session |-> IF c.op = "logout" THEN s ELSE NoName]]

\* verify_access_token reads the account, then in a connection of its own
\* whether the session was revoked.
Authenticate(p, s, c) ==
  /\ At(p, "idle") /\ Admins # {} /\ Current(s)
  /\ req' = [req EXCEPT ![p] = [pc |-> "revocation", call |-> c, session |-> s,
                                role |-> users[s.sub].role]]
  /\ UNCHANGED <<ledgerVars, accountVars, sessionVars, tokenVars, clock>>
CheckRevocation(p) ==
  /\ At(p, "revocation")
  /\ LET r == req[p] IN
     IF IsRevoked(r.session) THEN Done(p)
     ELSE Handler(p, r.call, r.session.sub, r.role, r.session)
  /\ UNCHANGED <<ledgerVars, accountVars, sessionVars, tokenVars, clock>>

\* verify_api_token, a transaction that is rolled back when the limit is passed.
AuthenticateToken(p, t, c) ==
  /\ At(p, "idle") /\ Admins # {} /\ Unlocked
  /\ Usable(t) /\ WithinLimit(t)
  /\ windows' = [k \in DOMAIN windows \cup {t} |->
       IF k = t THEN [start |-> Window(clock), count |-> NextCount(t)]
       ELSE windows[k]]
  /\ served' = [served EXCEPT ![t][Window(clock)] = @ + 1]
  /\ Handler(p, c, NoName, tokens[t].role, NoName)
  /\ UNCHANGED <<ledgerVars, accountVars, sessionVars, tokens, lastToken, clock>>

\* What the handlers look up before the transaction that acts.
Check(p) ==
  /\ At(p, "check")
  /\ \/ Op(p) \in {"logout", "mint", "delete"} /\ Goto(p, "act")
     \/ Op(p) = "export" /\ ToLog(p, "AUDIT_LOG_EXPORTED")
     \/ Op(p) = "password" /\ req[p].actor \in DOMAIN users /\ Goto(p, "act")
     \/ Op(p) = "password" /\ ToLog(p, "PASSWORD_CHANGE_FAILED")
     \/ Op(p) \in {"password", "create"} /\ Done(p)  \* not by the policy
     \/ Op(p) = "create" /\ IF Target(p) \in DOMAIN users THEN Done(p) ELSE Goto(p, "act")
     \/ Op(p) = "role" /\ IF Target(p) \in DOMAIN users THEN Goto(p, "act") ELSE Done(p)
     \/ /\ Op(p) \in {"revoke", "remove"}
        /\ IF Target(p) \in DOMAIN tokens THEN Goto(p, "act") ELSE Done(p)
  /\ UNCHANGED <<ledgerVars, accountVars, sessionVars, tokenVars, clock>>

\* The transaction that acts; the write lock must be free.
ActOnAccount(p) ==
  /\ At(p, "act") /\ Unlocked
  /\ \/ Op(p) = "setup" /\ CompleteSetup(p) /\ UNCHANGED updates
     \/ Op(p) = "create" /\ CreateUser(p) /\ UNCHANGED updates
     \/ Op(p) = "role" /\ UpdateRole(p) /\ UNCHANGED updates
     \/ Op(p) = "delete" /\ DeleteUser(p) /\ UNCHANGED updates
     \/ Op(p) = "password" /\ UpdatePassword(p)
  /\ UNCHANGED <<ledgerVars, sessionVars, tokenVars, clock>>
ActOnSession(p) ==
  /\ At(p, "act") /\ Unlocked
  /\ Op(p) = "logout" /\ RevokeSession(p)
  /\ UNCHANGED <<ledgerVars, accountVars, tokenVars, clock>>
ActOnToken(p) ==
  /\ At(p, "act") /\ Unlocked
  /\ \/ Op(p) = "mint" /\ MintToken(p)
     \/ Op(p) = "revoke" /\ RevokeToken(p)
     \/ Op(p) = "remove" /\ RemoveToken(p)
  /\ UNCHANGED <<ledgerVars, accountVars, sessionVars, clock>>

-----------------------------------------------------------------------------
(* The audit entry of a request, in a transaction of its own.              *)

\* log_audit_event takes the lock, then reads the head.
BeginLog(p) ==
  /\ At(p, "log") /\ TakeLock(p)
  /\ req' = [req EXCEPT ![p] = [pc |-> "insert", what |-> @.what,
                                head |-> HeadOf(ledger)]]
  /\ UNCHANGED <<ledger, checkpoints, accountVars, sessionVars, tokenVars, clock>>
EndLog(p) ==
  /\ At(p, "insert") /\ Insert(p, req[p].head, req[p].what)
  /\ Done(p)
  /\ UNCHANGED <<accountVars, sessionVars, tokenVars, clock>>
\* A failure to log is printed, and the request answers as if nothing had happened.
FailLog(p) ==
  /\ \/ At(p, "log") /\ UNCHANGED lock
     \/ At(p, "insert") /\ lock' = (IF lock = p THEN NoOne ELSE lock)
  /\ Done(p)
  /\ UNCHANGED <<ledger, checkpoints, accountVars, sessionVars, tokenVars, clock>>

\* A process dies; SQLite releases its lock.
Die(p) ==
  /\ ~At(p, "idle")
  /\ Done(p)
  /\ lock' = (IF lock = p THEN NoOne ELSE lock)
  /\ UNCHANGED <<ledger, checkpoints, accountVars, sessionVars, tokenVars, clock>>

\* Another service's change with its entry; a verification.
Elsewhere ==
  /\ LogWithin("CHANGE") \/ Verify
  /\ UNCHANGED <<accountVars, sessionVars, tokenVars, clock, req>>

Tick ==
  /\ clock < MaxClock
  /\ clock' = clock + 1
  /\ UNCHANGED <<ledgerVars, accountVars, sessionVars, tokenVars, req>>

Serve(p) ==
  \/ CheckRevocation(p) \/ Check(p) \/ IssueSession(p)
  \/ ActOnAccount(p) \/ ActOnSession(p) \/ ActOnToken(p)
Steps(p) == Serve(p) \/ BeginLog(p) \/ EndLog(p) \/ FailLog(p) \/ Die(p)

Next ==
  \/ \E p \in Processes :
       \/ \E n \in Names : Setup(p, n) \/ Login(p, n)
       \/ \E c \in Calls : \/ \E s \in sessions : Authenticate(p, s, c)
                           \/ \E t \in Ids : AuthenticateToken(p, t, c)
       \/ Steps(p)
  \/ Elsewhere \/ Tick

Spec == Init /\ [][Next]_vars

-----------------------------------------------------------------------------
(* Properties.                                                             *)

Kinds == {"INITIAL_SETUP_COMPLETED", "AUTH_LOGIN_SUCCESS", "AUTH_LOGIN_FAILED",
          "AUTH_LOGOUT", "PASSWORD_CHANGED", "PASSWORD_CHANGE_FAILED",
          "USER_CREATED", "USER_ROLE_UPDATED", "USER_DELETED",
          "API_TOKEN_CREATED", "API_TOKEN_REVOKED", "API_TOKEN_DELETED",
          "AUDIT_LOG_EXPORTED", "CHANGE"}
User == [id : 1..MaxAccounts, role : Roles, ver : 0..MaxVersion, primary : BOOLEAN]
Session == [sub : Names, uid : 1..MaxAccounts, sv : 0..MaxVersion,
            jti : 1..MaxSessions, exp : Nat]
Token == [active : BOOLEAN, limit : Limits, role : Roles, expires : Nat \cup {Never}]
Request ==
  {Idle}
    \cup [pc : {"revocation"}, call : Calls, session : Session, role : Roles]
    \cup [pc : {"check", "act"}, call : Calls, actor : Names \cup {NoName},
          session : Session \cup {NoName}]
    \cup [pc : {"act"}, call : {SetupCall(n) : n \in Names}, actor : {NoName},
          session : {NoName}]
    \cup [pc : {"issue"}, actor : Names, what : Kinds]
    \cup [pc : {"log"}, what : Kinds]

AccountTypes ==
  /\ users \in [DOMAIN users -> User] /\ DOMAIN users \subseteq Names
  /\ lastUser \in 0..MaxAccounts /\ setupDone \in BOOLEAN
  /\ \A n \in DOMAIN users : users[n].id <= lastUser
  /\ updates \in [Names -> Nat]
SessionTypes ==
  /\ sessions \subseteq Session
  /\ \A s, r \in sessions : s.jti = r.jti => s = r
  /\ revoked \subseteq [jti : 1..MaxSessions, exp : Nat]
TokenTypes ==
  /\ tokens \in [DOMAIN tokens -> Token] /\ DOMAIN tokens \subseteq 1..lastToken
  /\ lastToken \in 0..MaxTokens
  /\ windows \in [DOMAIN windows -> [start : Windows, count : Nat]]
  /\ DOMAIN windows \subseteq DOMAIN tokens
  /\ served \in [Ids -> [Windows -> Nat]]
RequestTypes ==
  /\ DOMAIN req = Processes
  /\ \A p \in Processes :
       \/ req[p] \in Request
       \/ At(p, "insert") /\ req[p].what \in Kinds

\* Types; the keys of the tables are unique.
TypeOK ==
  /\ AccountTypes /\ SessionTypes /\ TokenTypes /\ RequestTypes
  /\ clock \in 1..MaxClock
  /\ lock \in Processes \cup {NoOne}
  /\ \A i \in DOMAIN ledger : ledger[i].what \in Kinds

\* Whatever administrators do to each other's accounts at the same time, and
\* however many setups race, an installation that was set up has one primary
\* account and it is an administrator (auth_service.py:347-392, :432-462).
AdministratorKept ==
  setupDone => \E n \in Admins : Primaries = {n}

\* Across all processes no fixed window of a token admits more requests than the
\* token's limit (api_token_service.py:145-157).
RateKept ==
  \A t \in DOMAIN tokens : \A w \in Windows : served[t][w] <= tokens[t].limit

\* Logging out, a new role, a new password and deletion close the sessions that
\* were issued before, for good: neither a purged revocation nor a new account of
\* the name opens one again (auth_service.py:247-281, :347-405).  It says nothing of
\* a login under way: it gets a session of whatever account has the name when the
\* session is issued (auth_service.py:231-238), also when the password it checked
\* has been replaced or was that of a deleted account of the name.
Account(n) ==
  IF n \in DOMAIN users THEN <<users[n].id, users[n].role, updates[n]>> ELSE <<>>
SessionsOf(n) == {s.jti : s \in {r \in sessions : r.sub = n /\ Accepted(r)}}
Registry == INSTANCE SessionRegistry
  WITH Accounts <- Names, Ids <- 1..MaxSessions,
       open <- [n \in Names |-> SessionsOf(n)],
       used <- {s.jti : s \in sessions},
       state <- [n \in Names |-> Account(n)]
SessionsKept == Registry!Spec

\* As its details say, an entry of a password change tells of an update that
\* happened (main.py:949-958).
TruthfulEntries ==
  Cardinality({i \in DOMAIN ledger : ledger[i].what = "PASSWORD_CHANGED"})
    <= FoldFunction(+, 0, updates)
=============================================================================
