--------------------------- MODULE AccessTheorems ---------------------------
(***************************************************************************)
(* The safety of accounts, sessions, tokens and of the audit ledger, for   *)
(* every value of the constants.                                           *)
(*                                                                         *)
(* Types: a session is named by the count of the sessions before it, so    *)
(* TypeOK is inductive only beside the finiteness of the sessions          *)
(* (SessionsNumbered), and the hash of an entry nests all entries before   *)
(* it, so that no set of entries is named (LedgerSeq).                     *)
(*                                                                         *)
(* Sessions: AccessControl implements SessionRegistry. A change of an      *)
(* account bumps a version that no session has reached, or takes an id     *)
(* that no session has; and a revocation that is purged is one of a        *)
(* session that has expired.                                               *)
(***************************************************************************)
EXTENDS AccessControl, FiniteSetTheorems, SequenceTheorems, TLAPS

SessionsNumbered ==
  IsFiniteSet(sessions) /\ \A s \in sessions : s.jti <= Cardinality(sessions)
\* The ledger is a sequence, of whatever its rows are.
Rows(l) == {l[i] : i \in DOMAIN l}
LedgerSeq == ledger \in Seq(Rows(ledger))
TypeInv == TypeOK /\ SessionsNumbered /\ LedgerSeq

-----------------------------------------------------------------------------
(* What the steps leave alone.                                             *)

\* Only a transaction that acts on an account changes accounts, only logins,
\* setups and logouts change sessions, and so on.
LEMMA Frames ==
  ASSUME [Next]_vars
  PROVE  /\ (\A p \in Processes : ~ActOnAccount(p)) => UNCHANGED accountVars
         /\ (\A p \in Processes : ~IssueSession(p) /\ ~ActOnSession(p))
              => UNCHANGED sessionVars
         /\ (\A p \in Processes : ~ActOnToken(p)
               /\ \A c \in Calls, t \in Ids : ~AuthenticateToken(p, t, c))
              => UNCHANGED tokenVars
         /\ ~Tick => UNCHANGED clock
<1>1. CASE UNCHANGED vars
  BY <1>1 DEF vars, accountVars, sessionVars, tokenVars
<1>2. CASE \E p \in Processes : \E n \in Names : Setup(p, n) \/ Login(p, n)
  BY <1>2 DEF Setup, Login
<1>3. CASE \E p \in Processes : \E c \in Calls :
             \/ \E s \in sessions : Authenticate(p, s, c)
             \/ \E t \in Ids : AuthenticateToken(p, t, c)
  BY <1>3 DEF Authenticate, AuthenticateToken, accountVars, sessionVars
<1>4. CASE \E p \in Processes : Serve(p)
  BY <1>4 DEF Serve, CheckRevocation, Check, IssueSession, ActOnAccount,
              ActOnSession, ActOnToken, accountVars, sessionVars, tokenVars
<1>5. CASE \E p \in Processes : BeginLog(p) \/ EndLog(p) \/ FailLog(p) \/ Die(p)
  BY <1>5 DEF BeginLog, EndLog, FailLog, Die
<1>6. CASE Elsewhere \/ Tick
  BY <1>6 DEF Elsewhere, Tick
<1> QED
  BY <1>1, <1>2, <1>3, <1>4, <1>5, <1>6 DEF Next, Steps

-----------------------------------------------------------------------------
(* Accounts.                                                               *)

LEMMA WithUserType ==
  ASSUME AccountTypes, NEW n \in Names, NEW role \in Roles, NEW primary \in BOOLEAN,
         InsertUser(n, role, primary), UNCHANGED updates
  PROVE  AccountTypes'
BY AccessAssumption DEF AccountTypes, InsertUser, WithUser, User

LEMMA BumpType ==
  ASSUME AccountTypes, NEW n \in DOMAIN users, NEW role \in Roles,
         users[n].ver < MaxVersion, users' = Bump(n, role),
         updates' \in [Names -> Nat], UNCHANGED <<lastUser, setupDone>>
  PROVE  AccountTypes'
BY AccessAssumption DEF AccountTypes, Bump, User

\* What a request that is about to act was called with.
LEMMA ActCall ==
  ASSUME RequestTypes, NEW p \in Processes, At(p, "act")
  PROVE  /\ Op(p) = "setup" => Target(p) \in Names
         /\ Op(p) \in {"create", "role"} => Target(p) \in Names /\ Arg(p) \in Roles
         /\ Op(p) = "delete" => Target(p) \in Names
         /\ Op(p) = "mint" => Target(p) \in Limits /\ Arg(p) \in Roles \X TokenTTLs
         /\ Op(p) \in {"revoke", "remove"} => Target(p) \in Ids
         /\ req[p].session \in Session \cup {NoName}
         /\ req[p].actor \in Names \cup {NoName}
<1>1. \/ req[p] \in [pc : {"check", "act"}, call : Calls, actor : Names \cup {NoName},
                     session : Session \cup {NoName}]
      \/ req[p] \in [pc : {"act"}, call : {SetupCall(n) : n \in Names},
                     actor : {NoName}, session : {NoName}]
  BY DEF RequestTypes, At, Request, Idle
<1>2. CASE req[p].call \in Calls
  BY <1>1, <1>2 DEF Calls, Op, Target, Arg
<1>3. CASE \E n \in Names : req[p].call = SetupCall(n)
  BY <1>1, <1>3 DEF SetupCall, Op, Target, Arg
<1> QED
  BY <1>1, <1>2, <1>3

LEMMA AccountTypesKept ==
  ASSUME TypeInv, [Next]_vars
  PROVE  AccountTypes'
<1> AccountTypes /\ RequestTypes
  BY DEF TypeInv, TypeOK
<1>1. CASE UNCHANGED accountVars
  BY <1>1 DEF accountVars, AccountTypes
<1>2. ASSUME NEW p \in Processes, ActOnAccount(p) PROVE AccountTypes'
  <2> At(p, "act")
    BY <1>2 DEF ActOnAccount
  <2>1. CASE Op(p) = "setup" /\ CompleteSetup(p) /\ UNCHANGED updates
    <3> "admin" \in Roles
      BY AccessAssumption
    <3>1. CASE InsertUser(Target(p), "admin", TRUE)
      BY <2>1, <3>1, ActCall, WithUserType
    <3> QED
      BY <2>1, <3>1 DEF CompleteSetup, AccountTypes
  <2>2. CASE Op(p) = "create" /\ CreateUser(p) /\ UNCHANGED updates
    <3>1. CASE InsertUser(Target(p), Arg(p), Arg(p) = "admin" /\ Admins = {})
      BY <2>2, <3>1, ActCall, WithUserType
    <3> QED
      BY <2>2, <3>1 DEF CreateUser, AccountTypes
  <2>3. CASE Op(p) = "role" /\ UpdateRole(p) /\ UNCHANGED updates
    <3>1. CASE UNCHANGED users
      BY <2>3, <3>1 DEF UpdateRole, AccountTypes
    <3>2. CASE /\ Target(p) \in DOMAIN users /\ users[Target(p)].ver < MaxVersion
               /\ users' = Bump(Target(p), Arg(p))
      <4> updates' \in [Names -> Nat]
        BY <2>3 DEF AccountTypes
      <4> QED
        BY <2>3, <3>2, ActCall, BumpType DEF UpdateRole
    <3> QED
      BY <2>3, <3>1, <3>2 DEF UpdateRole
  <2>4. CASE Op(p) = "delete" /\ DeleteUser(p) /\ UNCHANGED updates
    BY <2>4 DEF DeleteUser, AccountTypes
  <2>5. CASE UpdatePassword(p)
    <3>1. CASE UNCHANGED <<users, updates>>
      BY <2>5, <3>1 DEF UpdatePassword, AccountTypes
    <3>2. CASE LET n == req[p].actor IN
               /\ n \in DOMAIN users /\ users[n].ver < MaxVersion
               /\ users' = Bump(n, users[n].role)
               /\ updates' = [updates EXCEPT ![n] = @ + 1]
      <4>1. users[req[p].actor].role \in Roles /\ updates' \in [Names -> Nat]
        BY <3>2 DEF AccountTypes, User
      <4> QED
        BY <2>5, <3>2, <4>1, BumpType DEF UpdatePassword
    <3> QED
      BY <2>5, <3>1, <3>2 DEF UpdatePassword
  <2> QED
    BY <1>2, <2>1, <2>2, <2>3, <2>4, <2>5 DEF ActOnAccount
<1> QED
  BY <1>1, <1>2, Frames

-----------------------------------------------------------------------------
(* Sessions.                                                               *)

LEMMA SessionTypesKept ==
  ASSUME TypeInv, [Next]_vars
  PROVE  SessionTypes' /\ SessionsNumbered'
<1> /\ AccountTypes /\ RequestTypes /\ SessionTypes /\ SessionsNumbered
    /\ clock \in Nat
  BY DEF TypeInv, TypeOK
<1>1. CASE UNCHANGED sessionVars
  BY <1>1 DEF sessionVars, SessionTypes, SessionsNumbered
<1>2. ASSUME NEW p \in Processes, ActOnSession(p)
      PROVE  SessionTypes' /\ SessionsNumbered'
  <2>1. RevokeSession(p) /\ req[p].session \in Session \cup {NoName}
    BY <1>2, ActCall DEF ActOnSession
  <2>2. revoked' \subseteq [jti : 1..MaxSessions, exp : Nat]
    BY <2>1 DEF RevokeSession, SessionTypes, Session
  <2> QED
    BY <2>1, <2>2 DEF RevokeSession, SessionTypes, SessionsNumbered
<1>3. ASSUME NEW p \in Processes, IssueSession(p)
      PROVE  SessionTypes' /\ SessionsNumbered'
  <2>1. CASE UNCHANGED sessions
    BY <1>3, <2>1 DEF IssueSession, SessionTypes, SessionsNumbered
  <2>2. CASE sessions' # sessions
    <3> DEFINE n == req[p].actor
               s == [sub |-> n, uid |-> users[n].id, sv |-> users[n].ver,
                     jti |-> Cardinality(sessions) + 1, exp |-> clock + SessionTTL]
    <3>1. /\ n \in DOMAIN users /\ Cardinality(sessions) < MaxSessions
          /\ sessions' = sessions \cup {s} /\ UNCHANGED revoked
      BY <1>3, <2>2 DEF IssueSession
    <3>2. Cardinality(sessions) \in Nat
      BY FS_CardinalityType DEF SessionsNumbered
    <3>3. s \in Session
      BY <3>1, <3>2, AccessAssumption DEF AccountTypes, User, Session
    <3>4. s \notin sessions
      BY <3>2 DEF SessionsNumbered
    <3>5. IsFiniteSet(sessions') /\ Cardinality(sessions') = Cardinality(sessions) + 1
      BY <3>1, <3>4, FS_AddElement DEF SessionsNumbered
    <3>6. \A r \in sessions : r.jti \in Nat
      BY AccessAssumption DEF SessionTypes, Session
    <3> HIDE DEF s
    <3>7. s.jti = Cardinality(sessions) + 1
      BY DEF s
    <3>8. SessionsNumbered'
      <4>1. \A r \in sessions : r.jti <= Cardinality(sessions) + 1
        BY <3>2, <3>6 DEF SessionsNumbered
      <4>2. \A r \in sessions' : r.jti <= Cardinality(sessions')
        BY <3>1, <3>2, <3>5, <3>7, <4>1
      <4> QED
        BY <3>5, <4>2 DEF SessionsNumbered
    <3>9. \A r, q \in sessions' : r.jti = q.jti => r = q
      BY <3>1, <3>2, <3>6, <3>7 DEF SessionTypes, SessionsNumbered
    <3> QED
      BY <3>1, <3>3, <3>8, <3>9 DEF SessionTypes
  <2> QED
    BY <2>1, <2>2
<1> QED
  BY <1>1, <1>2, <1>3, Frames

-----------------------------------------------------------------------------
(* API tokens.                                                             *)

LEMMA WindowType ==
  ASSUME NEW t \in 0..MaxClock
  PROVE  Window(t) \in Windows
<1> /\ MaxClock \in Nat /\ WindowLength \in Nat /\ WindowLength > 0
  BY AccessAssumption
<1> QED
  BY DEF Window, Windows

LEMMA TokenTypesKept ==
  ASSUME TypeInv, [Next]_vars
  PROVE  TokenTypes'
<1> /\ RequestTypes /\ TokenTypes /\ clock \in 1..MaxClock
  BY DEF TypeInv, TypeOK
<1> lastToken \in Nat
  BY AccessAssumption DEF TokenTypes
<1>1. CASE UNCHANGED tokenVars
  BY <1>1 DEF tokenVars, TokenTypes
<1>2. ASSUME NEW p \in Processes, ActOnToken(p) PROVE TokenTypes'
  <2> At(p, "act")
    BY <1>2 DEF ActOnToken
  <2>1. CASE Op(p) = "mint" /\ MintToken(p)
    <3> DEFINE t == lastToken + 1
               expires == IF Arg(p)[2] = Never THEN Never ELSE clock + Arg(p)[2]
               token == [active |-> TRUE, limit |-> Target(p), role |-> Arg(p)[1],
                         expires |-> expires]
    <3>1. Target(p) \in Limits /\ Arg(p)[1] \in Roles /\ Arg(p)[2] \in TokenTTLs
      BY <2>1, ActCall
    <3>2. token \in Token
      <4>1. expires \in Nat \cup {Never}
        <5>1. Arg(p)[2] = Never \/ Arg(p)[2] \in Nat
          BY <3>1, AccessAssumption
        <5>2. clock \in Nat
          OBVIOUS
        <5> QED
          BY <5>1, <5>2
      <4> HIDE DEF expires
      <4> QED
        BY <3>1, <4>1 DEF Token
    <3>3. /\ tokens' = [k \in DOMAIN tokens \cup {t} |->
                         IF k = t THEN token ELSE tokens[k]]
          /\ lastToken' = t /\ lastToken < MaxTokens /\ UNCHANGED <<windows, served>>
      BY <2>1 DEF MintToken
    <3> HIDE DEF token
    <3>4. /\ tokens' \in [DOMAIN tokens' -> Token] /\ DOMAIN tokens' \subseteq 1..lastToken'
          /\ DOMAIN windows' \subseteq DOMAIN tokens'
      BY <3>2, <3>3 DEF TokenTypes
    <3> QED
      BY <3>3, <3>4, AccessAssumption DEF TokenTypes
  <2>2. CASE Op(p) = "revoke" /\ RevokeToken(p)
    <3>1. CASE UNCHANGED tokens
      BY <2>2, <3>1 DEF RevokeToken, TokenTypes
    <3>2. CASE /\ Target(p) \in DOMAIN tokens
               /\ tokens' = [tokens EXCEPT ![Target(p)].active = FALSE]
      <4>1. tokens' \in [DOMAIN tokens -> Token]
        BY <3>2 DEF TokenTypes, Token
      <4> QED
        BY <2>2, <4>1 DEF RevokeToken, TokenTypes
    <3> QED
      BY <2>2, <3>1, <3>2 DEF RevokeToken
  <2>3. CASE Op(p) = "remove" /\ RemoveToken(p)
    BY <2>3 DEF RemoveToken, WindowsWithout, TokenTypes
  <2> QED
    BY <1>2, <2>1, <2>2, <2>3 DEF ActOnToken
<1>3. ASSUME NEW p \in Processes, NEW c \in Calls, NEW t \in Ids,
             AuthenticateToken(p, t, c)
      PROVE  TokenTypes'
  <2>1. Window(clock) \in Windows
    BY WindowType
  <2>2. NextCount(t) \in Nat
    BY DEF NextCount, TokenTypes
  <2> DEFINE row == [start |-> Window(clock), count |-> NextCount(t)]
  <2>3. row \in [start : Windows, count : Nat]
    BY <2>1, <2>2
  <2>4. /\ windows' = [k \in DOMAIN windows \cup {t} |->
                        IF k = t THEN row ELSE windows[k]]
        /\ served' = [served EXCEPT ![t][Window(clock)] = @ + 1]
        /\ t \in DOMAIN tokens /\ UNCHANGED <<tokens, lastToken>>
    BY <1>3 DEF AuthenticateToken, Usable
  <2> HIDE DEF row
  <2>5. served' \in [Ids -> [Windows -> Nat]]
    BY <2>1, <2>4 DEF TokenTypes
  <2> QED
    BY <2>3, <2>4, <2>5 DEF TokenTypes
<1> QED
  BY <1>1, <1>2, <1>3, Frames

-----------------------------------------------------------------------------
(* Requests.                                                               *)

\* A process that comes to a typed request.
LEMMA MoveType ==
  ASSUME RequestTypes, NEW p \in Processes, NEW r \in Request,
         req' = [req EXCEPT ![p] = r]
  PROVE  RequestTypes'
BY DEF RequestTypes, At

LEMMA DoneType ==
  ASSUME RequestTypes, NEW p \in Processes, Done(p)
  PROVE  RequestTypes'
BY MoveType DEF Done, Request

LEMMA ToLogType ==
  ASSUME RequestTypes, NEW p \in Processes, NEW what \in Kinds, ToLog(p, what)
  PROVE  RequestTypes'
<1>1. [pc |-> "log", what |-> what] \in Request
  BY DEF Request
<1> QED
  BY <1>1, MoveType DEF ToLog

LEMMA HandlerType ==
  ASSUME RequestTypes, NEW p \in Processes, NEW c \in Calls,
         NEW actor \in Names \cup {NoName}, NEW role,
         NEW s \in Session \cup {NoName}, Handler(p, c, actor, role, s)
  PROVE  RequestTypes'
<1> DEFINE r == [pc |-> "check", call |-> c, actor |-> actor,
                 session |-> IF c.op = "logout" THEN s ELSE NoName]
<1>1. r \in Request
  BY DEF Request
<1>2. Done(p) \/ req' = [req EXCEPT ![p] = r]
  BY DEF Handler
<1> HIDE DEF r
<1> QED
  BY <1>1, <1>2, MoveType, DoneType

LEMMA CheckType ==
  ASSUME RequestTypes, NEW p \in Processes, At(p, "check"), Goto(p, "act")
  PROVE  RequestTypes'
<1>1. req[p] \in [pc : {"check", "act"}, call : Calls, actor : Names \cup {NoName},
                  session : Session \cup {NoName}]
  BY DEF RequestTypes, At, Request, Idle
<1>2. [req[p] EXCEPT !.pc = "act"] \in Request
  BY <1>1 DEF Request
<1>3. req' = [req EXCEPT ![p] = [req[p] EXCEPT !.pc = "act"]]
  BY DEF Goto
<1> QED
  BY <1>2, <1>3, MoveType

\* What acting requests come to.
LEMMA ActEnds ==
  ASSUME NEW p \in Processes, ActOnAccount(p) \/ ActOnSession(p) \/ ActOnToken(p)
  PROVE  \/ Done(p)
         \/ \E what \in Kinds : ToLog(p, what)
         \/ /\ Op(p) = "setup"
            /\ req' = [req EXCEPT ![p] = [pc |-> "issue", actor |-> Target(p),
                                         what |-> "INITIAL_SETUP_COMPLETED"]]
<1>1. CASE ActOnAccount(p)
  BY <1>1 DEF ActOnAccount, CompleteSetup, CreateUser, UpdateRole, DeleteUser,
              UpdatePassword, Kinds
<1>2. CASE ActOnSession(p)
  BY <1>2 DEF ActOnSession, RevokeSession, Kinds
<1>3. CASE ActOnToken(p)
  BY <1>3 DEF ActOnToken, MintToken, RevokeToken, RemoveToken, Kinds
<1> QED
  BY <1>1, <1>2, <1>3

LEMMA ActType ==
  ASSUME TypeInv, NEW p \in Processes,
         ActOnAccount(p) \/ ActOnSession(p) \/ ActOnToken(p)
  PROVE  RequestTypes'
<1> RequestTypes /\ At(p, "act")
  BY DEF TypeInv, TypeOK, ActOnAccount, ActOnSession, ActOnToken
<1>1. ASSUME Op(p) = "setup"
      PROVE  [pc |-> "issue", actor |-> Target(p), what |-> "INITIAL_SETUP_COMPLETED"]
               \in Request
  BY <1>1, ActCall DEF Request, Kinds
<1> QED
  BY <1>1, ActEnds, DoneType, ToLogType, MoveType

LEMMA RequestTypesKept ==
  ASSUME TypeInv, [Next]_vars
  PROVE  RequestTypes'
<1> RequestTypes
  BY DEF TypeInv, TypeOK
<1>1. CASE UNCHANGED req
  BY <1>1 DEF RequestTypes, At
<1>2. ASSUME NEW p \in Processes, NEW n \in Names, Setup(p, n) PROVE RequestTypes'
  <2>1. [pc |-> "act", call |-> SetupCall(n), actor |-> NoName, session |-> NoName]
          \in Request
    BY DEF Request
  <2> QED
    BY <1>2, <2>1, MoveType DEF Setup
<1>3. ASSUME NEW p \in Processes, NEW n \in Names, Login(p, n) PROVE RequestTypes'
  <2>1. [pc |-> "issue", actor |-> n, what |-> "AUTH_LOGIN_SUCCESS"] \in Request
    BY DEF Request, Kinds
  <2>2. "AUTH_LOGIN_FAILED" \in Kinds
    BY DEF Kinds
  <2> QED
    BY <1>3, <2>1, <2>2, MoveType, ToLogType DEF Login
<1>4. ASSUME NEW p \in Processes, NEW c \in Calls, NEW s \in sessions,
             Authenticate(p, s, c)
      PROVE  RequestTypes'
  <2>1. s \in Session /\ users[s.sub].role \in Roles
    BY <1>4 DEF Authenticate, Current, TypeInv, TypeOK, SessionTypes, AccountTypes, User
  <2>2. [pc |-> "revocation", call |-> c, session |-> s, role |-> users[s.sub].role]
          \in Request
    BY <2>1 DEF Request
  <2> QED
    BY <1>4, <2>2, MoveType DEF Authenticate
<1>5. ASSUME NEW p \in Processes, NEW c \in Calls, NEW t \in Ids,
             AuthenticateToken(p, t, c)
      PROVE  RequestTypes'
  BY <1>5, HandlerType DEF AuthenticateToken
<1>6. ASSUME NEW p \in Processes, CheckRevocation(p) PROVE RequestTypes'
  <2>1. req[p] \in [pc : {"revocation"}, call : Calls, session : Session, role : Roles]
    BY <1>6 DEF CheckRevocation, RequestTypes, At, Request, Idle
  <2>2. /\ req[p].call \in Calls /\ req[p].session \in Session
        /\ req[p].session.sub \in Names
    BY <2>1 DEF Session
  <2> QED
    BY <1>6, <2>2, DoneType, HandlerType DEF CheckRevocation
<1>7. ASSUME NEW p \in Processes, Check(p) PROVE RequestTypes'
  <2>1. {"AUDIT_LOG_EXPORTED", "PASSWORD_CHANGE_FAILED"} \subseteq Kinds
    BY DEF Kinds
  <2>2. \/ Done(p) \/ Goto(p, "act")
        \/ ToLog(p, "AUDIT_LOG_EXPORTED") \/ ToLog(p, "PASSWORD_CHANGE_FAILED")
    BY <1>7 DEF Check
  <2> QED
    BY <1>7, <2>1, <2>2, DoneType, ToLogType, CheckType DEF Check
<1>8. ASSUME NEW p \in Processes, IssueSession(p) PROVE RequestTypes'
  <2>1. req[p].what \in Kinds
    BY <1>8 DEF IssueSession, RequestTypes, At, Request, Idle
  <2> QED
    BY <1>8, <2>1, DoneType, ToLogType DEF IssueSession
<1>9. ASSUME NEW p \in Processes,
             ActOnAccount(p) \/ ActOnSession(p) \/ ActOnToken(p)
      PROVE  RequestTypes'
  BY <1>9, ActType
<1>10. ASSUME NEW p \in Processes, BeginLog(p) PROVE RequestTypes'
  <2>1. req[p].what \in Kinds
    BY <1>10 DEF BeginLog, RequestTypes, At, Request, Idle
  <2> QED
    BY <1>10, <2>1 DEF BeginLog, RequestTypes, At
<1>11. ASSUME NEW p \in Processes, EndLog(p) \/ FailLog(p) \/ Die(p)
       PROVE  RequestTypes'
  BY <1>11, DoneType DEF EndLog, FailLog, Die
<1>12. CASE Elsewhere \/ Tick
  BY <1>1, <1>12 DEF Elsewhere, Tick
<1> QED
  BY <1>1, <1>2, <1>3, <1>4, <1>5, <1>6, <1>7, <1>8, <1>9, <1>10, <1>11, <1>12
     DEF Next, Steps, Serve, vars

-----------------------------------------------------------------------------
(* The ledger and the whole.                                               *)

LEMMA HolderType ==
  ASSUME TypeInv, [Next]_vars
  PROVE  lock' \in Processes \cup {NoOne}
<1> lock \in Processes \cup {NoOne}
  BY DEF TypeInv, TypeOK
<1>1. CASE UNCHANGED lock
  BY <1>1
<1>2. ASSUME NEW p \in Processes, BeginLog(p) \/ EndLog(p) \/ FailLog(p) \/ Die(p)
      PROVE  lock' \in Processes \cup {NoOne}
  BY <1>2 DEF BeginLog, TakeLock, EndLog, Insert, FailLog, Die
<1>3. CASE Elsewhere
  BY <1>3 DEF Elsewhere, LogWithin, Verify
<1> QED
  BY <1>1, <1>2, <1>3
     DEF Next, Steps, Serve, vars, ledgerVars, Setup, Login, Authenticate,
         AuthenticateToken, CheckRevocation, Check, IssueSession, ActOnAccount,
         ActOnSession, ActOnToken, Tick

LEMMA AppendRow ==
  ASSUME NEW l, l \in Seq(Rows(l)), NEW e
  PROVE  /\ Append(l, e) \in Seq(Rows(Append(l, e)))
         /\ Len(l) \in Nat /\ Len(Append(l, e)) = Len(l) + 1
         /\ DOMAIN l = 1..Len(l) /\ DOMAIN Append(l, e) = 1..(Len(l) + 1)
         /\ \A i \in 1..Len(l) : Append(l, e)[i] = l[i]
         /\ Append(l, e)[Len(l) + 1] = e
<1> DEFINE S == Rows(l) \cup {e}
<1>1. l \in Seq(S)
  OBVIOUS
<1>2. /\ Append(l, e) \in Seq(S)
      /\ Len(Append(l, e)) = Len(l) + 1
      /\ \A i \in 1..Len(l) : Append(l, e)[i] = l[i]
      /\ Append(l, e)[Len(l) + 1] = e
  BY <1>1, AppendProperties
<1>3. Append(l, e) \in Seq(Rows(Append(l, e)))
  BY <1>2, LenProperties, ElementOfSeq, IsASeq DEF Rows
<1> QED
  BY <1>1, <1>2, <1>3, LenProperties

\* The ledger grows by one entry over a head, or not at all.
LEMMA LedgerSteps ==
  ASSUME [Next]_vars
  PROVE  \/ UNCHANGED ledger
         \/ /\ ledger' = Append(ledger, Entry(HeadOf(ledger), "CHANGE"))
            /\ lock = NoOne /\ Elsewhere /\ UNCHANGED checkpoints
         \/ \E p \in Processes :
              /\ At(p, "insert") /\ EndLog(p) /\ lock \in {NoOne, p}
              /\ UNCHANGED checkpoints
              /\ ledger' = Append(ledger, Entry(req[p].head, req[p].what))
<1>1. ASSUME NEW p \in Processes, EndLog(p)
      PROVE  /\ At(p, "insert") /\ lock \in {NoOne, p} /\ UNCHANGED checkpoints
             /\ ledger' = Append(ledger, Entry(req[p].head, req[p].what))
  BY <1>1 DEF EndLog, Insert
<1>2. CASE Elsewhere
  BY <1>2 DEF Elsewhere, LogWithin, Verify, Unlocked
<1> QED
  BY <1>1, <1>2
     DEF Next, Steps, Serve, vars, ledgerVars, Setup, Login, Authenticate,
         AuthenticateToken, CheckRevocation, Check, IssueSession, ActOnAccount,
         ActOnSession, ActOnToken, Tick, BeginLog, FailLog, Die

LEMMA LedgerTypesKept ==
  ASSUME TypeInv, [Next]_vars
  PROVE  LedgerSeq' /\ \A i \in DOMAIN ledger' : ledger'[i].what \in Kinds
<1> /\ LedgerSeq /\ RequestTypes
    /\ \A i \in DOMAIN ledger : ledger[i].what \in Kinds
  BY DEF TypeInv, TypeOK
<1>1. CASE UNCHANGED ledger
  BY <1>1 DEF LedgerSeq, Rows
<1>2. ASSUME NEW prev, NEW what \in Kinds, ledger' = Append(ledger, Entry(prev, what))
      PROVE  LedgerSeq' /\ \A i \in DOMAIN ledger' : ledger'[i].what \in Kinds
  <2> DEFINE e == Entry(prev, what)
  <2>1. e.what \in Kinds
    BY DEF Entry
  <2> HIDE DEF e
  <2>2. ledger' = Append(ledger, e)
    BY <1>2 DEF e
  <2> QED
    BY <2>1, <2>2, AppendRow DEF LedgerSeq
<1>3. "CHANGE" \in Kinds
  BY DEF Kinds
<1>4. \A p \in Processes : At(p, "insert") => req[p].what \in Kinds
  BY DEF RequestTypes, At, Request, Idle
<1> QED
  BY <1>1, <1>2, <1>3, <1>4, LedgerSteps

LEMMA TypeInit ==
  ASSUME Init
  PROVE  TypeInv
<1>1. AccountTypes
  <2>1. 0 \in 0..MaxAccounts
    BY AccessAssumption
  <2>2. users = [n \in {} |-> NoName] /\ users \in [{} -> User] /\ DOMAIN users = {}
    BY DEF Init
  <2>3. updates \in [Names -> Nat]
    BY DEF Init
  <2> QED
    BY <2>1, <2>2, <2>3 DEF Init, AccountTypes
<1>2. SessionTypes /\ SessionsNumbered
  BY FS_EmptySet DEF Init, SessionTypes, SessionsNumbered
<1>3. TokenTypes
  BY AccessAssumption DEF Init, TokenTypes
<1>4. RequestTypes
  BY DEF Init, RequestTypes, Request
<1>5. LedgerSeq /\ ledger = <<>> /\ lock = NoOne
  BY DEF Init, LedgerInit, LedgerSeq, Rows
<1> QED
  BY <1>1, <1>2, <1>3, <1>4, <1>5, AccessAssumption DEF Init, TypeInv, TypeOK

LEMMA TypeStep ==
  ASSUME TypeInv, [Next]_vars
  PROVE  TypeInv'
<1>1. clock' \in 1..MaxClock
  <2> clock \in 1..MaxClock /\ MaxClock \in Nat
    BY AccessAssumption DEF TypeInv, TypeOK
  <2>1. CASE Tick
    BY <2>1 DEF Tick
  <2> QED
    BY <2>1, Frames
<1> QED
  BY <1>1, AccountTypesKept, SessionTypesKept, TokenTypesKept, RequestTypesKept,
     HolderType, LedgerTypesKept DEF TypeInv, TypeOK

\* Accounts, sessions, tokens, windows and requests keep their types, and
\* session ids are never reused, for any number of processes, accounts, sessions
\* and tokens (auth_service.py, api_token_service.py, audit_service.py).
THEOREM AccessTypesCorrect == Spec => []TypeOK
<1>1. Init => TypeInv
  BY TypeInit
<1>2. TypeInv /\ [Next]_vars => TypeInv'
  BY TypeStep
<1>3. TypeInv => TypeOK
  BY DEF TypeInv
<1> QED
  BY <1>1, <1>2, <1>3, PTL DEF Spec

\* The same with what makes the types inductive.
THEOREM AccessInvariant == Spec => []TypeInv
BY TypeInit, TypeStep, PTL DEF Spec

-----------------------------------------------------------------------------
(* One primary administrator.  It is the primary account that no step      *)
(* takes away, not the last of several administrators.                     *)

PrimaryInv ==
  /\ \A n \in DOMAIN users : users[n].primary => users[n].role = "admin" /\ setupDone
  /\ \A m, n \in DOMAIN users : users[m].primary /\ users[n].primary => m = n
  /\ setupDone => \E n \in DOMAIN users : users[n].primary

LEMMA PrimarySafe ==
  ASSUME PrimaryInv
  PROVE  AdministratorKept
BY DEF PrimaryInv, AdministratorKept, Admins, IsAdmin, Primaries

\* Inserting an account, the primary one only if there is none.
LEMMA InsertPrimary ==
  ASSUME TypeInv, PrimaryInv, NEW n \in Names, NEW role \in Roles,
         NEW primary \in BOOLEAN, primary => role = "admin",
         Insertable(n, primary), InsertUser(n, role, primary)
  PROVE  PrimaryInv'
<1>1. /\ DOMAIN users' = DOMAIN users \cup {n} /\ n \notin DOMAIN users
      /\ users'[n].primary = primary /\ users'[n].role = role
      /\ \A m \in DOMAIN users : users'[m] = users[m]
      /\ setupDone' = (setupDone \/ primary)
  BY DEF Insertable, InsertUser, WithUser
<1>2. primary => \A m \in DOMAIN users : ~users[m].primary
  BY DEF Insertable, Primaries
<1>3. setupDone \in BOOLEAN
  BY DEF TypeInv, TypeOK, AccountTypes
<1> QED
  BY <1>1, <1>2, <1>3 DEF PrimaryInv

\* A changed role leaves the primary account an administrator.
LEMMA BumpPrimary ==
  ASSUME TypeInv, PrimaryInv, NEW n \in DOMAIN users, NEW role,
         users[n].primary => role = "admin",
         users' = Bump(n, role), UNCHANGED setupDone
  PROVE  PrimaryInv'
<1>1. users \in [DOMAIN users -> User]
  BY DEF TypeInv, TypeOK, AccountTypes
<1>2. /\ DOMAIN users' = DOMAIN users
      /\ \A m \in DOMAIN users : users'[m].primary = users[m].primary
      /\ \A m \in DOMAIN users : users'[m].role = IF m = n THEN role ELSE users[m].role
  BY <1>1 DEF Bump, User
<1> QED
  BY <1>2 DEF PrimaryInv

LEMMA PrimaryStep ==
  ASSUME TypeInv, PrimaryInv, [Next]_vars
  PROVE  PrimaryInv'
<1>1. CASE UNCHANGED accountVars
  BY <1>1 DEF accountVars, PrimaryInv
<1>2. ASSUME NEW p \in Processes, ActOnAccount(p) PROVE PrimaryInv'
  <2> At(p, "act") /\ RequestTypes
    BY <1>2 DEF ActOnAccount, TypeInv, TypeOK
  <2>1. CASE Op(p) = "setup" /\ CompleteSetup(p)
    <3>1. CASE /\ Insertable(Target(p), TRUE)
               /\ InsertUser(Target(p), "admin", TRUE)
      BY <2>1, <3>1, ActCall, InsertPrimary, AccessAssumption
    <3>2. CASE UNCHANGED <<users, setupDone>>
      BY <3>2 DEF PrimaryInv
    <3> QED
      BY <2>1, <3>1, <3>2 DEF CompleteSetup
  <2>2. CASE Op(p) = "create" /\ CreateUser(p)
    <3> DEFINE primary == Arg(p) = "admin" /\ Admins = {}
    <3>1. CASE Insertable(Target(p), primary) /\ InsertUser(Target(p), Arg(p), primary)
      BY <2>2, <3>1, ActCall, InsertPrimary
    <3> QED
      BY <2>2, <3>1 DEF CreateUser, PrimaryInv
  <2>3. CASE Op(p) = "role" /\ UpdateRole(p)
    <3>1. CASE UNCHANGED users
      BY <2>3, <3>1 DEF UpdateRole, PrimaryInv
    <3>2. CASE /\ Target(p) \in DOMAIN users /\ users' = Bump(Target(p), Arg(p))
               /\ Arg(p) = "admin" \/ MayDemote(Target(p))
      BY <2>3, <3>2, BumpPrimary DEF UpdateRole, MayDemote
    <3> QED
      BY <2>3, <3>1, <3>2 DEF UpdateRole
  <2>4. CASE Op(p) = "delete" /\ DeleteUser(p)
    BY <2>4 DEF DeleteUser, MayDemote, PrimaryInv
  <2>5. CASE UpdatePassword(p)
    <3>1. CASE UNCHANGED users
      BY <2>5, <3>1 DEF UpdatePassword, PrimaryInv
    <3>2. CASE LET n == req[p].actor IN
               n \in DOMAIN users /\ users' = Bump(n, users[n].role)
      BY <2>5, <3>2, BumpPrimary DEF UpdatePassword, PrimaryInv
    <3> QED
      BY <2>5, <3>1, <3>2 DEF UpdatePassword
  <2> QED
    BY <1>2, <2>1, <2>2, <2>3, <2>4, <2>5 DEF ActOnAccount
<1> QED
  BY <1>1, <1>2, Frames

\* Whatever administrators do to each other's accounts, however many setups race
\* and processes die, an installation that was set up has exactly one primary
\* account, an administrator (auth_service.py:347-392, :432-462).
THEOREM AdministratorAlways == Spec => []AdministratorKept
<1>1. Init => PrimaryInv
  BY DEF Init, PrimaryInv
<1>2. TypeInv /\ PrimaryInv /\ [Next]_vars => PrimaryInv'
  BY PrimaryStep
<1>3. PrimaryInv => AdministratorKept
  BY PrimarySafe
<1> QED
  BY <1>1, <1>2, <1>3, AccessInvariant, PTL DEF Spec

-----------------------------------------------------------------------------
(* The audit ledger.  The head that a process read is the head of the      *)
(* ledger for as long as the process holds the write lock.                 *)

HeadHeld ==
  \A p \in Processes :
    At(p, "insert") => lock = p /\ req[p].head = HeadOf(ledger)
LedgerInv == LedgerVerifies /\ HeadHeld

\* A row over the head continues the chain and moves no anchor.
LEMMA ChainGrows ==
  ASSUME TypeInv, LedgerVerifies, NEW what, UNCHANGED checkpoints,
         ledger' = Append(ledger, Entry(HeadOf(ledger), what))
  PROVE  LedgerVerifies'
<1> DEFINE e == Entry(HeadOf(ledger), what)
<1>1. e.prev = HeadOf(ledger) /\ e.hash = Hash(e.prev, e.what)
  BY DEF Entry
<1> HIDE DEF e
<1>2. /\ Len(ledger) \in Nat /\ DOMAIN ledger = 1..Len(ledger)
      /\ DOMAIN ledger' = 1..(Len(ledger) + 1)
      /\ \A i \in 1..Len(ledger) : ledger'[i] = ledger[i]
      /\ ledger'[Len(ledger) + 1] = e
  BY AppendRow DEF TypeInv, LedgerSeq, e
<1>3. HeadOf(ledger) = IF Len(ledger) = 0 THEN Genesis ELSE ledger[Len(ledger)].hash
  BY EmptySeq DEF HeadOf, TypeInv, LedgerSeq
<1>4. Chained(ledger')
  <2> SUFFICES ASSUME NEW i \in DOMAIN ledger'
               PROVE  /\ ledger'[i].prev = IF i = 1 THEN Genesis ELSE ledger'[i - 1].hash
                      /\ ledger'[i].hash = Hash(ledger'[i].prev, ledger'[i].what)
    BY DEF Chained
  <2>1. CASE i = Len(ledger) + 1
    <3>1. ledger'[i].prev = HeadOf(ledger)
      BY <1>1, <1>2, <2>1
    <3>2. ledger'[i].hash = Hash(ledger'[i].prev, ledger'[i].what)
      BY <1>1, <1>2, <2>1
    <3>3. ledger'[i].prev = IF i = 1 THEN Genesis ELSE ledger'[i - 1].hash
      <4>1. CASE Len(ledger) = 0
        BY <1>2, <1>3, <2>1, <3>1, <4>1
      <4>2. CASE Len(ledger) # 0
        <5>1. i # 1 /\ i - 1 = Len(ledger) /\ Len(ledger) \in 1..Len(ledger)
          BY <1>2, <2>1, <4>2
        <5> QED
          BY <1>2, <1>3, <3>1, <4>2, <5>1
      <4> QED
        BY <4>1, <4>2
    <3> QED
      BY <3>2, <3>3
  <2>2. CASE i \in 1..Len(ledger)
    BY <1>2, <2>2 DEF LedgerVerifies, Chained
  <2> QED
    BY <1>2, <2>1, <2>2
<1>5. \A c \in checkpoints : Anchored(ledger', c)
  BY <1>2 DEF LedgerVerifies, Anchored
<1> QED
  BY <1>4, <1>5 DEF LedgerVerifies

LEMMA LedgerStep ==
  ASSUME TypeInv, LedgerInv, [Next]_vars
  PROVE  LedgerVerifies'
<1> LedgerVerifies /\ HeadHeld
  BY DEF LedgerInv
<1>1. CASE UNCHANGED <<ledger, checkpoints>>
  BY <1>1 DEF LedgerVerifies, Anchored
<1>2. ASSUME NEW p \in Processes, At(p, "insert"), UNCHANGED checkpoints,
             ledger' = Append(ledger, Entry(req[p].head, req[p].what))
      PROVE  LedgerVerifies'
  BY <1>2, ChainGrows DEF HeadHeld
<1>3. CASE Verify
  <2>1. Len(ledger) \in DOMAIN ledger
    BY <1>3, LenProperties, EmptySeq DEF Verify, TypeInv, LedgerSeq
  <2>2. Anchored(ledger, [id |-> Len(ledger), hash |-> HeadOf(ledger)])
    BY <1>3, <2>1 DEF Verify, Anchored, HeadOf
  <2> QED
    BY <1>3, <2>2 DEF Verify, LedgerVerifies, Anchored
<1>4. CASE ledger' = Append(ledger, Entry(HeadOf(ledger), "CHANGE"))
             /\ UNCHANGED checkpoints
  BY <1>4, ChainGrows
<1>5. CASE UNCHANGED ledger
  <2>1. UNCHANGED checkpoints \/ Verify
    BY <1>5 DEF Next, Steps, Serve, vars, ledgerVars, Setup, Login, Authenticate,
         AuthenticateToken, CheckRevocation, Check, IssueSession, ActOnAccount,
         ActOnSession, ActOnToken, Tick, BeginLog, EndLog, Insert, FailLog, Die,
         Elsewhere, LogWithin
  <2> QED
    BY <1>1, <1>3, <1>5, <2>1
<1> QED
  BY <1>2, <1>4, <1>5, LedgerSteps

\* A process comes to its insertion with the lock and goes on without a change.
LEMMA Inserting ==
  ASSUME TypeInv, [Next]_vars, NEW p \in Processes, At(p, "insert")'
  PROVE  BeginLog(p) \/ (At(p, "insert") /\ req'[p] = req[p])
<1> DEFINE Goal == BeginLog(p) \/ (At(p, "insert") /\ req'[p] = req[p])
<1> DOMAIN req = Processes
  BY DEF TypeInv, TypeOK, RequestTypes
<1>1. CASE req'[p] = req[p]
  BY <1>1 DEF At
<1>2. ASSUME NEW q \in Processes, Done(q) PROVE req'[p] = req[p]
  BY <1>2 DEF Done, Idle, At
<1>3. ASSUME NEW q \in Processes, NEW what, ToLog(q, what) PROVE req'[p] = req[p]
  BY <1>3 DEF ToLog, At
<1>4. ASSUME NEW q \in Processes, NEW n \in Names, Setup(q, n) \/ Login(q, n) PROVE Goal
  BY <1>1, <1>3, <1>4 DEF Setup, Login, At
<1>5. ASSUME NEW q \in Processes, NEW c, NEW actor, NEW role, NEW s,
             Handler(q, c, actor, role, s)
      PROVE  req'[p] = req[p]
  BY <1>2, <1>5 DEF Handler, At
<1>6. ASSUME NEW q \in Processes, NEW c \in Calls,
             \/ \E s \in sessions : Authenticate(q, s, c)
             \/ \E t \in Ids : AuthenticateToken(q, t, c)
      PROVE  Goal
  <2>1. ASSUME NEW s \in sessions, Authenticate(q, s, c) PROVE req'[p] = req[p]
    BY <2>1 DEF Authenticate, At
  <2>2. ASSUME NEW t \in Ids, AuthenticateToken(q, t, c) PROVE req'[p] = req[p]
    BY <1>5, <2>2 DEF AuthenticateToken
  <2> QED
    BY <1>1, <1>6, <2>1, <2>2
<1>7. ASSUME NEW q \in Processes, CheckRevocation(q) \/ IssueSession(q) PROVE Goal
  BY <1>1, <1>2, <1>3, <1>5, <1>7 DEF CheckRevocation, IssueSession
<1>8. ASSUME NEW q \in Processes, Check(q) PROVE Goal
  <2>1. ASSUME At(q, "check"), Goto(q, "act") PROVE req'[p] = req[p]
    <3>1. req[q] \in Request
      BY <2>1 DEF TypeInv, TypeOK, RequestTypes, At
    <3>2. [req[q] EXCEPT !.pc = "act"].pc = "act"
      BY <2>1, <3>1 DEF Request, At, Idle
    <3> QED
      BY <2>1, <3>2 DEF Goto, At
  <2> QED
    BY <1>1, <1>2, <1>3, <1>8, <2>1 DEF Check
<1>9. ASSUME NEW q \in Processes,
              ActOnAccount(q) \/ ActOnSession(q) \/ ActOnToken(q)
       PROVE  Goal
  <2>1. ASSUME NEW r, req' = [req EXCEPT ![q] = [pc |-> "issue", actor |-> Target(q),
                                               what |-> r]]
        PROVE  req'[p] = req[p]
    BY <2>1 DEF At
  <2> QED
    BY <1>1, <1>2, <1>3, <1>9, <2>1, ActEnds
<1>10. ASSUME NEW q \in Processes, BeginLog(q) PROVE Goal
  BY <1>1, <1>10 DEF BeginLog
<1>11. ASSUME NEW q \in Processes, EndLog(q) \/ FailLog(q) \/ Die(q) PROVE Goal
  BY <1>1, <1>2, <1>11 DEF EndLog, FailLog, Die
<1>12. CASE UNCHANGED vars \/ Elsewhere \/ Tick
  BY <1>1, <1>12 DEF vars, Elsewhere, Tick
<1> QED
  BY <1>4, <1>6, <1>7, <1>8, <1>9, <1>10, <1>11, <1>12 DEF Next, Steps, Serve

LEMMA HeadStep ==
  ASSUME TypeInv, LedgerInv, [Next]_vars
  PROVE  HeadHeld'
<1> HeadHeld /\ NoOne \notin Processes
  BY AccessAssumption DEF LedgerInv
<1> SUFFICES ASSUME NEW p \in Processes, At(p, "insert")'
             PROVE  (lock = p /\ req[p].head = HeadOf(ledger))'
  BY DEF HeadHeld
<1>1. CASE BeginLog(p)
  BY <1>1 DEF BeginLog, TakeLock, TypeInv, TypeOK, RequestTypes
<1>2. CASE At(p, "insert") /\ req'[p] = req[p]
  <2>1. lock = p /\ req[p].head = HeadOf(ledger) /\ req'[p].pc = "insert"
    BY <1>2 DEF HeadHeld, At
  <2>2. ASSUME NEW q \in Processes, EndLog(q) \/ FailLog(q) \/ Die(q) PROVE q # p
    BY <2>1, <2>2 DEF EndLog, FailLog, Die, Done, Idle, TypeInv, TypeOK, RequestTypes
  <2>3. ASSUME NEW q \in Processes, EndLog(q) PROVE FALSE
    BY <2>1, <2>2, <2>3 DEF EndLog, HeadHeld
  <2>4. UNCHANGED ledger
    BY <2>1, <2>3, LedgerSteps
  <2>5. UNCHANGED lock
    BY <2>1, <2>2, <2>3
       DEF Next, Steps, Serve, vars, ledgerVars, Setup, Login, Authenticate,
           AuthenticateToken, CheckRevocation, Check, IssueSession, ActOnAccount,
           ActOnSession, ActOnToken, Tick, BeginLog, TakeLock, Unlocked, FailLog, Die,
           Elsewhere, LogWithin, Verify
  <2> QED
    BY <1>2, <2>1, <2>4, <2>5
<1> QED
  BY <1>1, <1>2, Inserting

\* However many processes write entries, fail and die at any step, the ledger is
\* an unbroken chain that keeps every entry a checkpoint was taken of
\* (audit_service.py:83-167, :204-291).
THEOREM LedgerAlwaysVerifies == Spec => []LedgerVerifies
<1>1. Init => LedgerInv
  BY DEF Init, LedgerInit, LedgerInv, LedgerVerifies, Chained, HeadHeld, At, Idle
<1>2. TypeInv /\ LedgerInv /\ [Next]_vars => LedgerInv'
  BY LedgerStep, HeadStep DEF LedgerInv
<1>3. LedgerInv => LedgerVerifies
  BY DEF LedgerInv
<1> QED
  BY <1>1, <1>2, <1>3, AccessInvariant, PTL DEF Spec

-----------------------------------------------------------------------------
(* The limits of tokens.  The row of a token counts the requests of its    *)
(* window, and none was served in a later one.                             *)

Unserved(t) == \A w \in Windows : served[t][w] = 0
Counted(t) ==
  /\ windows[t].start <= Window(clock)
  /\ served[t][windows[t].start] = windows[t].count
  /\ \A w \in Windows : w > windows[t].start => served[t][w] = 0
RateInv ==
  /\ RateKept
  /\ \A t \in Ids \ DOMAIN windows : t \in DOMAIN tokens \/ t > lastToken => Unserved(t)
  /\ \A t \in DOMAIN windows : Counted(t)

LEMMA TokenNumbers ==
  ASSUME TypeInv
  PROVE  /\ lastToken \in Nat /\ DOMAIN tokens \subseteq 1..lastToken
         /\ DOMAIN tokens \subseteq Ids
         /\ DOMAIN windows \subseteq DOMAIN tokens
         /\ \A t \in DOMAIN tokens : tokens[t] \in Token /\ tokens[t].limit \in Nat \ {0}
         /\ \A t \in DOMAIN windows : windows[t].start \in Windows /\ windows[t].count \in Nat
         /\ Windows \subseteq Nat /\ Window(clock) \in Windows
<1> TokenTypes /\ clock \in 1..MaxClock
  BY DEF TypeInv, TypeOK
<1>1. MaxTokens \in Nat /\ MaxClock \in Nat /\ Limits \subseteq Nat \ {0}
  BY AccessAssumption
<1>2. Window(clock) \in Windows
  BY <1>1, WindowType
<1> QED
  BY <1>1, <1>2 DEF TokenTypes, Token, Ids, Windows

LEMMA RateUntouched ==
  ASSUME TypeInv, RateInv, UNCHANGED tokenVars, Window(clock) <= Window(clock'),
         Window(clock') \in Nat
  PROVE  RateInv'
BY TokenNumbers DEF tokenVars, RateInv, RateKept, Unserved, Counted

LEMMA WindowsPass ==
  ASSUME TypeInv, Tick
  PROVE  Window(clock) <= Window(clock') /\ Window(clock') \in Nat
<1>1. clock \in Nat /\ clock' = clock + 1 /\ WindowLength \in Nat \ {0}
  BY AccessAssumption DEF Tick, TypeInv, TypeOK
<1> QED
  BY <1>1 DEF Window

LEMMA RateStep ==
  ASSUME TypeInv, RateInv, [Next]_vars
  PROVE  RateInv'
<1>1. CASE UNCHANGED tokenVars
  <2>1. CASE Tick
    BY <1>1, <2>1, RateUntouched, WindowsPass
  <2>2. CASE UNCHANGED clock
    BY <1>1, <2>2, RateUntouched, TokenNumbers
  <2> QED
    BY <2>1, <2>2, Frames
<1>2. ASSUME NEW p \in Processes, ActOnToken(p) PROVE RateInv'
  <2> UNCHANGED clock
    BY <1>2 DEF ActOnToken
  <2>1. CASE Op(p) = "mint" /\ MintToken(p)
    <3> DEFINE t == lastToken + 1
    <3>1. /\ DOMAIN tokens' = DOMAIN tokens \cup {t} /\ lastToken' = t
          /\ \A k \in DOMAIN tokens : k # t => tokens'[k] = tokens[k]
          /\ tokens'[t].limit = Target(p) /\ UNCHANGED <<windows, served>>
      BY <2>1 DEF MintToken
    <3>2. t \notin DOMAIN tokens /\ t \in Ids /\ t \notin DOMAIN windows
      BY <2>1, TokenNumbers, AccessAssumption DEF MintToken, Ids
    <3>3. Unserved(t)
      BY <3>2, TokenNumbers DEF RateInv
    <3>4. tokens'[t].limit \in Nat
      BY <1>2, <2>1, <3>1, ActCall, AccessAssumption DEF ActOnToken, TypeInv, TypeOK
    <3>5. RateKept'
      BY <3>1, <3>2, <3>3, <3>4 DEF RateInv, RateKept, Unserved
    <3>6. \A k \in Ids \ DOMAIN windows :
            k \in DOMAIN tokens \/ k > lastToken => served[k] = served'[k] /\ Unserved(k)
      BY <3>1 DEF RateInv
    <3>7. \A k \in Ids \ DOMAIN windows :
            k \in DOMAIN tokens' \/ k > lastToken' => Unserved(k)'
      <4>1. \A k \in Ids : k > lastToken' => k > lastToken
        BY <3>1, TokenNumbers DEF Ids
      <4> QED
        BY <3>1, <3>3, <3>6, <4>1 DEF Unserved
    <3>8. \A k \in DOMAIN windows : Counted(k)'
      BY <3>1 DEF RateInv, Counted
    <3> QED
      BY <3>1, <3>5, <3>7, <3>8 DEF RateInv
  <2>2. CASE RevokeToken(p)
    <3>1. /\ DOMAIN tokens' = DOMAIN tokens
          /\ \A t \in DOMAIN tokens : tokens'[t].limit = tokens[t].limit
          /\ UNCHANGED <<lastToken, windows, served>>
      BY <2>2, TokenNumbers DEF RevokeToken, Token
    <3> QED
      BY <3>1 DEF RateInv, RateKept, Unserved, Counted
  <2>3. CASE RemoveToken(p)
    <3>1. /\ DOMAIN tokens' \subseteq DOMAIN tokens /\ UNCHANGED <<lastToken, served>>
          /\ \A t \in DOMAIN tokens' : tokens'[t] = tokens[t]
          /\ DOMAIN windows' = DOMAIN windows \cap DOMAIN tokens'
          /\ \A t \in DOMAIN windows' : windows'[t] = windows[t]
      BY <2>3, TokenNumbers DEF RemoveToken, WindowsWithout
    <3>2. \A t \in DOMAIN tokens : ~(t > lastToken)
      BY TokenNumbers
    <3> QED
      BY <3>1, <3>2, TokenNumbers DEF RateInv, RateKept, Unserved, Counted
  <2> QED
    BY <1>2, <2>1, <2>2, <2>3 DEF ActOnToken
<1>3. ASSUME NEW p \in Processes, NEW c \in Calls, NEW t \in Ids,
             AuthenticateToken(p, t, c)
      PROVE  RateInv'
  <2> DEFINE w == Window(clock)
  <2>1. /\ t \in DOMAIN tokens /\ NextCount(t) <= tokens[t].limit
        /\ DOMAIN windows' = DOMAIN windows \cup {t}
        /\ windows'[t] = [start |-> w, count |-> NextCount(t)]
        /\ \A k \in DOMAIN windows : k # t => windows'[k] = windows[k]
        /\ served' = [served EXCEPT ![t][w] = @ + 1]
        /\ UNCHANGED <<tokens, lastToken, clock>>
    BY <1>3 DEF AuthenticateToken, Usable, WithinLimit
  <2>2. w \in Windows /\ w \in Nat /\ served \in [Ids -> [Windows -> Nat]]
    BY TokenNumbers DEF TypeInv, TypeOK, TokenTypes
  <2>3. NextCount(t) = served[t][w] + 1 /\ \A v \in Windows : v > w => served[t][v] = 0
    <3>1. CASE t \notin DOMAIN windows
      <4>1. Unserved(t)
        BY <2>1, <3>1 DEF RateInv
      <4> QED
        BY <2>2, <3>1, <4>1 DEF NextCount, Unserved
    <3>2. CASE t \in DOMAIN windows /\ windows[t].start = w
      <4>1. Counted(t)
        BY <3>2 DEF RateInv
      <4> QED
        BY <2>2, <3>2, <4>1 DEF NextCount, Counted
    <3>3. CASE t \in DOMAIN windows /\ windows[t].start # w
      <4>1. Counted(t) /\ windows[t].start \in Nat
        BY <3>3, TokenNumbers DEF RateInv
      <4>2. windows[t].start < w
        <5>1. windows[t].start <= w /\ windows[t].start # w
          BY <3>3, <4>1 DEF Counted
        <5> HIDE DEF w
        <5> QED
          BY <2>2, <4>1, <5>1
      <4>3. \A v \in Windows : v >= w => served[t][v] = 0
        BY <2>2, <4>1, <4>2, TokenNumbers DEF Counted
      <4> QED
        BY <2>2, <3>3, <4>3, TokenNumbers DEF NextCount
    <3> QED
      BY <3>1, <3>2, <3>3
  <2>4. /\ served'[t][w] = NextCount(t)
        /\ \A v \in Windows : v # w => served'[t][v] = served[t][v]
        /\ \A k \in Ids : k # t => served'[k] = served[k]
    BY <2>1, <2>2, <2>3
  <2> HIDE DEF w
  <2>5. RateKept'
    <3> SUFFICES ASSUME NEW k \in DOMAIN tokens, NEW v \in Windows
                 PROVE  served'[k][v] <= tokens[k].limit
      BY <2>1 DEF RateKept
    <3>1. served[k][v] <= tokens[k].limit
      BY DEF RateInv, RateKept
    <3> QED
      BY <2>1, <2>4, <3>1, TokenNumbers
  <2>6. Counted(t)'
    BY <2>1, <2>2, <2>3, <2>4, TokenNumbers DEF Counted, w
  <2>7. \A k \in DOMAIN windows : k # t => Counted(k)'
    <3> SUFFICES ASSUME NEW k \in DOMAIN windows, k # t PROVE Counted(k)'
      OBVIOUS
    <3>1. Counted(k) /\ k \in Ids
      BY TokenNumbers DEF RateInv
    <3> QED
      BY <2>1, <2>4, <3>1 DEF Counted
  <2>8. \A k \in Ids \ DOMAIN windows' :
          k \in DOMAIN tokens \/ k > lastToken => Unserved(k)'
    BY <2>1, <2>4 DEF RateInv, Unserved
  <2> QED
    BY <2>1, <2>5, <2>6, <2>7, <2>8 DEF RateInv
<1> QED
  BY <1>1, <1>2, <1>3, Frames

\* In no window of the clock are more requests of a token admitted than its limit,
\* by any number of processes (api_token_service.py:108-177).
THEOREM RateAlwaysKept == Spec => []RateKept
<1>1. Init => RateInv
  BY DEF Init, RateInv, RateKept, Unserved
<1>2. TypeInv /\ RateInv /\ [Next]_vars => RateInv'
  BY RateStep
<1>3. RateInv => RateKept
  BY DEF RateInv
<1> QED
  BY <1>1, <1>2, <1>3, AccessInvariant, PTL DEF Spec

-----------------------------------------------------------------------------
(* Sessions are those of the registry.                                     *)

SessionsBehind ==
  \A s \in sessions :
    /\ s.uid <= lastUser
    /\ s.sub \in DOMAIN users /\ s.uid = users[s.sub].id => s.sv <= users[s.sub].ver
RevokedKnown ==
  \A r \in revoked : \E s \in sessions : s.jti = r.jti /\ s.exp = r.exp
Carries(p) == req[p].pc \in {"revocation", "check", "act"}
CarriedKnown ==
  \A p \in Processes : Carries(p) => req[p].session \in sessions \cup {NoName}
SessionInv == SessionsBehind /\ RevokedKnown /\ CarriedKnown

LEMMA UserTypes ==
  ASSUME TypeInv
  PROVE  /\ users \in [DOMAIN users -> User] /\ DOMAIN users \subseteq Names
         /\ lastUser \in Nat /\ clock \in Nat
         /\ \A n \in DOMAIN users :
              users[n].id \in Nat /\ users[n].ver \in Nat /\ users[n].id <= lastUser
         /\ updates \in [Names -> Nat]
<1> AccountTypes /\ clock \in 1..MaxClock /\ MaxAccounts \in Nat
  BY AccessAssumption DEF TypeInv, TypeOK
<1> QED
  BY AccessAssumption DEF AccountTypes, User

LEMMA SessionShape ==
  ASSUME TypeInv, NEW s \in sessions
  PROVE  /\ s.sub \in Names /\ s.uid \in Nat /\ s.sv \in Nat /\ s.jti \in 1..MaxSessions
         /\ s.exp \in Nat
<1> s \in Session
  BY DEF TypeInv, TypeOK, SessionTypes
<1> QED
  BY AccessAssumption DEF Session

LEMMA SameId ==
  ASSUME TypeInv, NEW s \in sessions, NEW r \in sessions, s.jti = r.jti
  PROVE  s = r
BY DEF TypeInv, TypeOK, SessionTypes

-----------------------------------------------------------------------------
(* The steps that change accounts or sessions.                             *)

\* The account of n becomes another one: it goes, comes back with an id of its
\* own, or takes the next version.
Replaced(n) ==
  /\ n \in Names
  /\ \A m \in Names \ {n} : (m \in DOMAIN users') = (m \in DOMAIN users)
  /\ \A m \in DOMAIN users \ {n} : users'[m] = users[m] /\ updates'[m] = updates[m]
  /\ n \in DOMAIN users' =>
       \/ n \notin DOMAIN users /\ users'[n].id > lastUser
       \/ /\ n \in DOMAIN users
          /\ users'[n].id = users[n].id /\ users'[n].ver = users[n].ver + 1
  /\ lastUser <= lastUser'

LEMMA Replacing ==
  ASSUME TypeInv, NEW p \in Processes, ActOnAccount(p)
  PROVE  \/ UNCHANGED <<users, lastUser, updates>>
         \/ \E n \in Names : Replaced(n)
<1> /\ At(p, "act") /\ RequestTypes
    /\ users \in [DOMAIN users -> User] /\ lastUser \in Nat /\ DOMAIN users \subseteq Names
  BY UserTypes DEF ActOnAccount, TypeInv, TypeOK
<1>1. ASSUME NEW n \in Names, NEW role, NEW primary, Insertable(n, primary),
             InsertUser(n, role, primary), UNCHANGED updates
      PROVE  Replaced(n)
  BY <1>1 DEF Insertable, InsertUser, WithUser, Replaced
<1>2. ASSUME NEW n \in DOMAIN users, NEW role, users' = Bump(n, role),
             \A m \in Names \ {n} : updates'[m] = updates[m], UNCHANGED lastUser
      PROVE  Replaced(n)
  <2>1. /\ DOMAIN users' = DOMAIN users
        /\ \A m \in DOMAIN users \ {n} : users'[m] = users[m]
    BY <1>2 DEF Bump
  <2>2. users'[n].id = users[n].id /\ users'[n].ver = users[n].ver + 1
    BY <1>2 DEF Bump, User
  <2> QED
    BY <1>2, <2>1, <2>2 DEF Replaced
<1>3. CASE Op(p) = "setup" /\ CompleteSetup(p) /\ UNCHANGED updates
  BY <1>1, <1>3, ActCall DEF CompleteSetup
<1>4. CASE Op(p) = "create" /\ CreateUser(p) /\ UNCHANGED updates
  BY <1>1, <1>4, ActCall DEF CreateUser
<1>5. CASE Op(p) = "role" /\ UpdateRole(p) /\ UNCHANGED updates
  BY <1>2, <1>5 DEF UpdateRole
<1>6. CASE Op(p) = "delete" /\ DeleteUser(p) /\ UNCHANGED updates
  <2>1. CASE /\ Target(p) \in DOMAIN users /\ UNCHANGED lastUser
             /\ users' = [m \in DOMAIN users \ {Target(p)} |-> users[m]]
    <3>1. Replaced(Target(p))
      BY <1>6, <2>1 DEF Replaced
    <3> QED
      BY <2>1, <3>1
  <2> QED
    BY <1>6, <2>1 DEF DeleteUser
<1>7. CASE UpdatePassword(p)
  <2>1. CASE UNCHANGED <<users, updates>>
    BY <1>7, <2>1 DEF UpdatePassword
  <2>2. CASE LET n == req[p].actor IN
             /\ n \in DOMAIN users /\ users' = Bump(n, users[n].role)
             /\ updates' = [updates EXCEPT ![n] = @ + 1]
    <3>1. \A m \in Names \ {req[p].actor} : updates'[m] = updates[m]
      BY <2>2, UserTypes
    <3> QED
      BY <1>2, <1>7, <2>2, <3>1 DEF UpdatePassword
  <2> QED
    BY <1>7, <2>1, <2>2 DEF UpdatePassword
<1> QED
  BY <1>3, <1>4, <1>5, <1>6, <1>7 DEF ActOnAccount

\* A session that is issued is a session of the account as it is.
Issued(s) ==
  /\ s.sub \in DOMAIN users /\ s.uid = users[s.sub].id /\ s.sv = users[s.sub].ver
  /\ s.jti \in 1..MaxSessions /\ \A r \in sessions : r.jti # s.jti
  /\ s.exp > clock

LEMMA Issuing ==
  ASSUME TypeInv, NEW p \in Processes, IssueSession(p)
  PROVE  /\ UNCHANGED <<accountVars, clock, revoked>>
         /\ sessions' = sessions \/ \E s : Issued(s) /\ sessions' = sessions \cup {s}
<1> DEFINE n == req[p].actor
           s == [sub |-> n, uid |-> users[n].id, sv |-> users[n].ver,
                 jti |-> Cardinality(sessions) + 1, exp |-> clock + SessionTTL]
<1>1. CASE /\ n \in DOMAIN users /\ Cardinality(sessions) < MaxSessions
           /\ sessions' = sessions \cup {s}
  <2>1. Cardinality(sessions) \in Nat /\ \A r \in sessions : r.jti <= Cardinality(sessions)
    BY FS_CardinalityType DEF TypeInv, SessionsNumbered
  <2>2. \A r \in sessions : r.jti # s.jti
    BY <2>1, SessionShape
  <2>3. s.exp > clock /\ s.jti \in 1..MaxSessions
    BY <1>1, <2>1, UserTypes, AccessAssumption
  <2>4. Issued(s)
    BY <1>1, <2>2, <2>3 DEF Issued
  <2> QED
    BY <1>1, <2>4, UserTypes DEF IssueSession
<1> QED
  BY <1>1 DEF IssueSession

LEMMA Revoking ==
  ASSUME TypeInv, SessionInv, NEW p \in Processes, ActOnSession(p)
  PROVE  /\ UNCHANGED <<accountVars, clock, sessions>>
         /\ \A r \in revoked : r.exp >= clock => r \in revoked'
         /\ RevokedKnown'
<1>1. /\ req[p].session \in sessions \cup {NoName} /\ RevokeSession(p)
      /\ UNCHANGED <<accountVars, clock, sessions>>
  BY DEF ActOnSession, RevokeSession, SessionInv, CarriedKnown, Carries, At
<1>2. \A r \in revoked : r.exp >= clock => r \in revoked'
  BY <1>1 DEF RevokeSession
<1>3. RevokedKnown'
  BY <1>1 DEF RevokeSession, SessionInv, RevokedKnown
<1> QED
  BY <1>1, <1>2, <1>3

-----------------------------------------------------------------------------
(* The invariant.                                                          *)

LEMMA BehindStep ==
  ASSUME TypeInv, SessionInv, [Next]_vars
  PROVE  SessionsBehind' /\ RevokedKnown' /\ sessions \subseteq sessions'
<1> SessionsBehind /\ RevokedKnown
  BY DEF SessionInv
<1>1. CASE UNCHANGED <<accountVars, sessionVars>>
  BY <1>1 DEF accountVars, sessionVars, SessionsBehind, RevokedKnown
<1>2. ASSUME NEW p \in Processes, ActOnAccount(p)
      PROVE  SessionsBehind' /\ RevokedKnown' /\ sessions \subseteq sessions'
  <2>1. UNCHANGED sessionVars
    BY <1>2 DEF ActOnAccount
  <2>2. CASE UNCHANGED <<users, lastUser, updates>>
    BY <2>1, <2>2 DEF sessionVars, SessionsBehind, RevokedKnown
  <2>3. ASSUME NEW n \in Names, Replaced(n) PROVE SessionsBehind'
    <3> SUFFICES ASSUME NEW s \in sessions
                 PROVE  /\ s.uid <= lastUser'
                        /\ s.sub \in DOMAIN users' /\ s.uid = users'[s.sub].id
                             => s.sv <= users'[s.sub].ver
      BY <2>1 DEF sessionVars, SessionsBehind
    <3>1. /\ s.uid \in Nat /\ s.sv \in Nat /\ s.sub \in Names
          /\ lastUser \in Nat /\ lastUser' \in Nat
          /\ \A m \in DOMAIN users : users[m].ver \in Nat
          /\ \A m \in DOMAIN users' : users'[m].id \in Nat
      BY SessionShape, UserTypes, TypeStep, AccessAssumption
         DEF TypeInv, TypeOK, AccountTypes, User
    <3>2. s.uid <= lastUser
      BY DEF SessionsBehind
    <3>3. CASE s.sub = n
      BY <2>3, <3>1, <3>2, <3>3 DEF Replaced, SessionsBehind
    <3>4. CASE s.sub # n
      BY <2>3, <3>1, <3>2, <3>4 DEF Replaced, SessionsBehind
    <3> QED
      BY <3>3, <3>4
  <2> QED
    BY <1>2, <2>1, <2>2, <2>3, Replacing DEF sessionVars, RevokedKnown
<1>3. ASSUME NEW p \in Processes, IssueSession(p)
      PROVE  SessionsBehind' /\ RevokedKnown' /\ sessions \subseteq sessions'
  <2>1. CASE sessions' = sessions
    BY <1>3, <2>1, Issuing DEF accountVars, SessionsBehind, RevokedKnown
  <2>2. ASSUME NEW s, Issued(s), sessions' = sessions \cup {s}
        PROVE  SessionsBehind' /\ RevokedKnown'
    <3>1. UNCHANGED <<users, lastUser, revoked>>
      BY <1>3, Issuing DEF accountVars
    <3>2. s.uid <= lastUser /\ s.sv <= users[s.sub].ver
      BY <2>2, UserTypes DEF Issued
    <3> QED
      BY <2>2, <3>1, <3>2 DEF SessionsBehind, RevokedKnown
  <2> QED
    BY <1>3, <2>1, <2>2, Issuing
<1>4. ASSUME NEW p \in Processes, ActOnSession(p)
      PROVE  SessionsBehind' /\ RevokedKnown' /\ sessions \subseteq sessions'
  BY <1>4, Revoking DEF accountVars, SessionsBehind
<1> QED
  BY <1>1, <1>2, <1>3, <1>4, Frames

LEMMA CarriedStep ==
  ASSUME TypeInv, SessionInv, [Next]_vars
  PROVE  CarriedKnown'
<1> DEFINE Kept(p) == Carries(p)' => req'[p].session \in sessions \cup {NoName}
<1> /\ DOMAIN req = Processes
    /\ \A p \in Processes : Carries(p) => req[p].session \in sessions \cup {NoName}
  BY DEF TypeInv, TypeOK, RequestTypes, SessionInv, CarriedKnown
<1> SUFFICES ASSUME NEW p \in Processes PROVE Kept(p)
  BY BehindStep DEF CarriedKnown
<1>1. CASE req'[p] = req[p]
  BY <1>1 DEF Carries
<1>2. ASSUME NEW q \in Processes, Done(q) PROVE Kept(p)
  BY <1>1, <1>2 DEF Done, Idle, Carries
<1>3. ASSUME NEW q \in Processes, NEW what, ToLog(q, what) PROVE Kept(p)
  BY <1>1, <1>3 DEF ToLog, Carries
<1>4. ASSUME NEW q \in Processes, NEW n \in Names, Setup(q, n) \/ Login(q, n)
      PROVE  Kept(p)
  BY <1>1, <1>3, <1>4 DEF Setup, Login, Carries
<1>5. ASSUME NEW q \in Processes, NEW c, NEW actor, NEW role,
             NEW s \in sessions \cup {NoName}, Handler(q, c, actor, role, s)
      PROVE  Kept(p)
  BY <1>1, <1>2, <1>5 DEF Handler, Carries
<1>6. ASSUME NEW q \in Processes, NEW c \in Calls, NEW s \in sessions,
             Authenticate(q, s, c)
      PROVE  Kept(p)
  BY <1>1, <1>6 DEF Authenticate, Carries
<1>7. ASSUME NEW q \in Processes, NEW c \in Calls, NEW t \in Ids,
             AuthenticateToken(q, t, c)
      PROVE  Kept(p)
  BY <1>5, <1>7 DEF AuthenticateToken
<1>8. ASSUME NEW q \in Processes, CheckRevocation(q) PROVE Kept(p)
  <2>1. req[q].session \in sessions \cup {NoName}
    BY <1>8 DEF CheckRevocation, At, Carries
  <2> QED
    BY <1>2, <1>5, <1>8, <2>1 DEF CheckRevocation
<1>9. ASSUME NEW q \in Processes, Check(q) PROVE Kept(p)
  <2>1. ASSUME At(q, "check"), Goto(q, "act") PROVE Kept(p)
    <3>1. req[q].session \in sessions \cup {NoName}
      BY <2>1 DEF At, Carries
    <3>2. [req[q] EXCEPT !.pc = "act"].session = req[q].session
      OBVIOUS
    <3> QED
      BY <1>1, <2>1, <3>1, <3>2 DEF Goto
  <2> QED
    BY <1>2, <1>3, <1>9, <2>1 DEF Check
<1>10. ASSUME NEW q \in Processes, IssueSession(q) PROVE Kept(p)
  BY <1>2, <1>3, <1>10 DEF IssueSession
<1>11. ASSUME NEW q \in Processes,
              ActOnAccount(q) \/ ActOnSession(q) \/ ActOnToken(q)
       PROVE  Kept(p)
  <2>1. ASSUME NEW n, req' = [req EXCEPT ![q] = [pc |-> "issue", actor |-> n,
                                               what |-> "INITIAL_SETUP_COMPLETED"]]
        PROVE  Kept(p)
    BY <1>1, <2>1 DEF Carries
  <2> QED
    BY <1>2, <1>3, <1>11, <2>1, ActEnds
<1>12. ASSUME NEW q \in Processes, BeginLog(q) PROVE Kept(p)
  BY <1>1, <1>12 DEF BeginLog, Carries
<1>13. ASSUME NEW q \in Processes, EndLog(q) \/ FailLog(q) \/ Die(q) PROVE Kept(p)
  BY <1>2, <1>13 DEF EndLog, FailLog, Die
<1>14. CASE UNCHANGED vars \/ Elsewhere \/ Tick
  BY <1>1, <1>14 DEF vars, Elsewhere, Tick
<1> QED
  BY <1>4, <1>6, <1>7, <1>8, <1>9, <1>10, <1>11, <1>12, <1>13, <1>14
     DEF Next, Steps, Serve

-----------------------------------------------------------------------------
(* The refinement.                                                         *)

\* Sessions that stay as they were.
LEMMA SameSessions ==
  ASSUME NEW n \in Names, UNCHANGED sessions,
         \A s \in sessions : s.sub = n => Accepted(s)' = Accepted(s)
  PROVE  SessionsOf(n)' = SessionsOf(n)
BY DEF SessionsOf

LEMMA RegistryStutters ==
  ASSUME UNCHANGED <<users, updates, sessions, revoked, clock>>
  PROVE  UNCHANGED <<[n \in Names |-> SessionsOf(n)], {s.jti : s \in sessions},
                     [n \in Names |-> Account(n)]>>
BY DEF SessionsOf, Accepted, Current, IsRevoked, Account

\* Time passes, or a session is revoked: sessions are closed.
LEMMA Closing ==
  ASSUME TypeInv, UNCHANGED <<users, updates, sessions>>,
         \A s \in sessions : Accepted(s)' => Accepted(s)
  PROVE  Registry!Close
<1>1. \A n \in Names : SessionsOf(n)' \subseteq SessionsOf(n)
  BY DEF SessionsOf
<1>2. UNCHANGED <<{s.jti : s \in sessions}, [n \in Names |-> Account(n)]>>
  BY DEF Account
<1> QED
  BY <1>1, <1>2 DEF Registry!Close

LEMMA TimeCloses ==
  ASSUME TypeInv, Tick
  PROVE  Registry!Close
<1>1. UNCHANGED <<users, updates, sessions, revoked>> /\ clock' = clock + 1
  BY DEF Tick, accountVars, sessionVars
<1>2. \A s \in sessions : Accepted(s)' => Accepted(s)
  BY <1>1, SessionShape, UserTypes DEF Accepted, Current, IsRevoked
<1> QED
  BY <1>1, <1>2, Closing

LEMMA RevocationCloses ==
  ASSUME TypeInv, SessionInv, NEW p \in Processes, ActOnSession(p)
  PROVE  Registry!Close
<1>1. UNCHANGED <<users, updates, sessions, clock>>
  BY Revoking DEF accountVars
<1>2. ASSUME NEW s \in sessions, Accepted(s)' PROVE Accepted(s)
  <2>1. Current(s)
    BY <1>1, <1>2 DEF Accepted, Current
  <2>2. ASSUME NEW r \in revoked, r.jti = s.jti PROVE FALSE
    <3>1. r.exp = s.exp
      BY <2>2, SameId DEF SessionInv, RevokedKnown
    <3>2. r \in revoked'
      BY <2>1, <3>1, Revoking, SessionShape, UserTypes DEF Current
    <3> QED
      BY <1>2, <2>2, <3>2 DEF Accepted, IsRevoked
  <2> QED
    BY <2>1, <2>2 DEF Accepted, IsRevoked
<1> QED
  BY <1>1, <1>2, Closing

\* A session that is issued is accepted and is the only one that opens.
LEMMA IssuingOpens ==
  ASSUME TypeInv, SessionInv, NEW p \in Processes, IssueSession(p),
         NEW s, Issued(s), sessions' = sessions \cup {s}
  PROVE  Registry!Open(s.sub, s.jti)
<1>1. UNCHANGED <<users, updates, revoked, clock>> /\ s.sub \in Names
  BY Issuing, UserTypes DEF accountVars, Issued
<1>2. \A r \in sessions : Accepted(r)' = Accepted(r)
  BY <1>1 DEF Accepted, Current, IsRevoked
<1>3. \A r \in revoked : r.jti # s.jti
  BY DEF SessionInv, RevokedKnown, Issued
<1>4. Accepted(s)'
  BY <1>1, <1>3 DEF Accepted, Current, IsRevoked, Issued
<1>5. SessionsOf(s.sub)' = SessionsOf(s.sub) \cup {s.jti}
  BY <1>2, <1>4 DEF SessionsOf
<1>6. ASSUME NEW n \in Names, n # s.sub PROVE SessionsOf(n)' = SessionsOf(n)
  BY <1>2, <1>6 DEF SessionsOf
<1>7. [n \in Names |-> SessionsOf(n)]'
        = [[n \in Names |-> SessionsOf(n)] EXCEPT ![s.sub] = @ \cup {s.jti}]
  BY <1>1, <1>5, <1>6
<1>8. /\ s.jti \notin {r.jti : r \in sessions}
      /\ {r.jti : r \in sessions}' = {r.jti : r \in sessions} \cup {s.jti}
  BY DEF Issued
<1>9. UNCHANGED [n \in Names |-> Account(n)]
  BY <1>1 DEF Account
<1> QED
  BY <1>7, <1>8, <1>9 DEF Registry!Open

\* An account that is replaced loses its sessions, and no other account does.
LEMMA ReplacingChanges ==
  ASSUME TypeInv, SessionInv, [Next]_vars, UNCHANGED <<sessions, revoked, clock>>,
         NEW n \in Names, Replaced(n)
  PROVE  Registry!Change(n)
<1>1. SessionsOf(n)' = {}
  <2> SUFFICES ASSUME NEW s \in sessions, s.sub = n, Current(s)' PROVE FALSE
    BY DEF SessionsOf, Accepted
  <2>1. n \in DOMAIN users' /\ users'[n].id = s.uid /\ users'[n].ver = s.sv
    BY DEF Current
  <2>2. /\ s.uid \in Nat /\ s.sv \in Nat /\ s.uid <= lastUser /\ lastUser \in Nat
        /\ n \in DOMAIN users /\ s.uid = users[n].id => s.sv <= users[n].ver
    BY SessionShape, UserTypes DEF SessionInv, SessionsBehind
  <2>3. n \in DOMAIN users => users[n].ver \in Nat
    BY UserTypes
  <2> QED
    BY <2>1, <2>2, <2>3 DEF Replaced
<1>2. ASSUME NEW m \in Names, m # n PROVE SessionsOf(m)' = SessionsOf(m)
  <2>1. \A s \in sessions : s.sub = m => Accepted(s)' = Accepted(s)
    BY <1>2 DEF Accepted, Current, IsRevoked, Replaced
  <2> QED
    BY <2>1, SameSessions
<1>3. ASSUME NEW m \in Names, m # n PROVE Account(m)' = Account(m)
  BY <1>3 DEF Replaced, Account
<1> QED
  BY <1>1, <1>2, <1>3 DEF Registry!Change

LEMMA RegistryStep ==
  ASSUME TypeInv, SessionInv, [Next]_vars
  PROVE  [Registry!Next]_<<[n \in Names |-> SessionsOf(n)], {s.jti : s \in sessions},
                           [n \in Names |-> Account(n)]>>
<1>1. CASE UNCHANGED <<users, updates, sessions, revoked, clock>>
  BY <1>1, RegistryStutters
<1>2. CASE Tick
  BY <1>2, TimeCloses DEF Registry!Next
<1>3. ASSUME NEW p \in Processes, ActOnSession(p) PROVE Registry!Close
  BY <1>3, RevocationCloses
<1>4. ASSUME NEW p \in Processes, IssueSession(p)
      PROVE  \/ UNCHANGED <<users, updates, sessions, revoked, clock>>
             \/ \E n \in Names, x \in 1..MaxSessions : Registry!Open(n, x)
  <2>1. CASE sessions' = sessions
    BY <1>4, <2>1, Issuing DEF accountVars
  <2>2. ASSUME NEW s, Issued(s), sessions' = sessions \cup {s}
        PROVE  \E n \in Names, x \in 1..MaxSessions : Registry!Open(n, x)
    BY <1>4, <2>2, IssuingOpens, UserTypes DEF Issued
  <2> QED
    BY <1>4, <2>1, <2>2, Issuing
<1>5. ASSUME NEW p \in Processes, ActOnAccount(p)
      PROVE  \/ UNCHANGED <<users, updates, sessions, revoked, clock>>
             \/ \E n \in Names : Registry!Change(n)
  <2>1. UNCHANGED <<sessions, revoked, clock>>
    BY <1>5 DEF ActOnAccount, sessionVars
  <2> QED
    BY <1>5, <2>1, Replacing, ReplacingChanges
<1>6. CASE UNCHANGED accountVars /\ UNCHANGED sessionVars /\ UNCHANGED clock
  BY <1>1, <1>6 DEF accountVars, sessionVars
<1> QED
  BY <1>1, <1>2, <1>3, <1>4, <1>5, <1>6, Frames DEF Registry!Next

\* What is known of issued, revoked and carried sessions (auth_service.py:226-281).
LEMMA SessionsKnown == Spec => []SessionInv
<1>1. Init => SessionInv
  BY DEF Init, SessionInv, SessionsBehind, RevokedKnown, CarriedKnown, Carries, Idle
<1>2. TypeInv /\ SessionInv /\ [Next]_vars => SessionInv'
  BY BehindStep, CarriedStep DEF SessionInv
<1> QED
  BY <1>1, <1>2, AccessInvariant, PTL DEF Spec

\* Sessions are opened once and stay closed: whatever changes an account closes the
\* sessions it has and no other account's, for any number of accounts, sessions and
\* processes (auth_service.py:226-281, :347-405, README.md:66-67).
THEOREM SessionsAlwaysKept == Spec => SessionsKept
<1>1. Init => Registry!Init
  BY DEF Init, Registry!Init, SessionsOf
<1>2. TypeInv /\ SessionInv /\ [Next]_vars
        => [Registry!Next]_<<[n \in Names |-> SessionsOf(n)], {s.jti : s \in sessions},
                             [n \in Names |-> Account(n)]>>
  BY RegistryStep
<1> QED
  BY <1>1, <1>2, AccessInvariant, SessionsKnown, PTL DEF Spec, SessionsKept, Registry!Spec

\* No session is forgotten that was issued.
LEMMA SessionsOnlyGrow ==
  ASSUME TypeInv, SessionInv, [Next]_vars
  PROVE  sessions \subseteq sessions'
<1>1. ASSUME NEW p \in Processes, IssueSession(p) PROVE sessions \subseteq sessions'
  BY <1>1, Issuing
<1>2. ASSUME NEW p \in Processes, ActOnSession(p) PROVE sessions' = sessions
  BY <1>2, Revoking
<1> QED
  BY <1>1, <1>2, Frames DEF sessionVars

\* What one step of the registry may do to the sessions and the state of an account.
LEMMA RegistryCloses ==
  ASSUME NEW n \in Names,
         [Registry!Next]_<<[m \in Names |-> SessionsOf(m)], {s.jti : s \in sessions},
                           [m \in Names |-> Account(m)]>>
  PROVE  /\ SessionsOf(n)' \cap {s.jti : s \in sessions} \subseteq SessionsOf(n)
         /\ Account(n)' # Account(n) => SessionsOf(n)' = {}
<1> DEFINE open == [m \in Names |-> SessionsOf(m)]
           used == {s.jti : s \in sessions}
           state == [m \in Names |-> Account(m)]
<1>1. /\ open[n] = SessionsOf(n) /\ state[n] = Account(n)
      /\ open' = [m \in Names |-> SessionsOf(m)'] /\ state' = [m \in Names |-> Account(m)']
  OBVIOUS
<1>2. open'[n] = SessionsOf(n)' /\ state'[n] = Account(n)'
  BY <1>1
<1>3. CASE UNCHANGED <<open, used, state>>
  <2>1. open' = open /\ state' = state
    BY <1>3
  <2> HIDE DEF open, used, state
  <2> QED
    BY <2>1, <1>1, <1>2
<1>4. CASE Registry!Close
  <2>1. open'[n] \subseteq open[n] /\ state' = state
    BY <1>4 DEF Registry!Close
  <2> HIDE DEF open, used, state
  <2> QED
    BY <2>1, <1>1, <1>2
<1>5. ASSUME NEW m \in Names, Registry!Change(m)
      PROVE  \/ open'[n] = {}
             \/ open'[n] = open[n] /\ state'[n] = state[n]
  BY <1>5 DEF Registry!Change
<1>6. ASSUME NEW m \in Names, NEW x \in 1..MaxSessions, Registry!Open(m, x)
      PROVE  /\ x \notin used /\ open'[n] \subseteq open[n] \cup {x} /\ state' = state
  BY <1>6 DEF Registry!Open
<1>7. CASE \E m \in Names : Registry!Change(m)
  <2>1. \/ open'[n] = {}
        \/ open'[n] = open[n] /\ state'[n] = state[n]
    BY <1>5, <1>7
  <2> HIDE DEF open, used, state
  <2> QED
    BY <2>1, <1>1, <1>2
<1>8. CASE \E m \in Names, x \in 1..MaxSessions : Registry!Open(m, x)
  <2>1. PICK x : x \notin used /\ open'[n] \subseteq open[n] \cup {x} /\ state' = state
    BY <1>6, <1>8
  <2>2. SessionsOf(n)' \subseteq SessionsOf(n) \cup {x} /\ Account(n)' = Account(n)
    <3> HIDE DEF open, used, state
    <3> QED
      BY <2>1, <1>1, <1>2
  <2> QED
    BY <2>1, <2>2
<1> QED
  BY <1>3, <1>4, <1>7, <1>8 DEF Registry!Next

\* A token that is refused once is refused for good, and a new role, password or
\* account under the name refuses every token issued before it: no purge of
\* revocations, reuse of a name or of a version brings one back
\* (auth_service.py:226-281, :347-405).  A token issued after the change is of the
\* account as it then is, although its login may have begun before.
THEOREM RefusedForGood ==
  Spec => [][\A s \in sessions : /\ Accepted(s)' => Accepted(s)
                                 /\ Account(s.sub)' # Account(s.sub) => ~Accepted(s)']_vars
<1>1. ASSUME TypeInv, SessionInv, [Next]_vars, NEW s \in sessions
      PROVE  /\ Accepted(s)' => Accepted(s)
             /\ Account(s.sub)' # Account(s.sub) => ~Accepted(s)'
  <2>1. s.sub \in Names /\ \A r \in sessions : r.jti = s.jti => r = s
    BY <1>1, SessionShape, SameId
  <2>2. s \in sessions'
    BY <1>1, SessionsOnlyGrow
  <2>3. Accepted(s)' => s.jti \in SessionsOf(s.sub)'
    BY <2>2 DEF SessionsOf
  <2>4. s.jti \in SessionsOf(s.sub) => Accepted(s)
    BY <2>1 DEF SessionsOf
  <2>5. s.jti \in {r.jti : r \in sessions}
    OBVIOUS
  <2> QED
    BY <1>1, <2>1, <2>3, <2>4, <2>5, RegistryStep, RegistryCloses
<1>2. TypeInv /\ SessionInv /\ [Next]_vars =>
        [\A s \in sessions : /\ Accepted(s)' => Accepted(s)
                             /\ Account(s.sub)' # Account(s.sub) => ~Accepted(s)']_vars
  BY <1>1
<1> QED
  BY <1>2, AccessInvariant, SessionsKnown, PTL DEF Spec
=============================================================================
