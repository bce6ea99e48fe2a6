--------------------------- MODULE SessionRegistry ---------------------------
(* What the accounts promise about sessions: a session is opened once, a      *)
(* closed one stays closed, and whatever changes an account closes all the    *)
(* sessions it has and none of another account's (README.md:66-67).  A session *)
(* is opened for a name, as the account of that name then is: who asked for it,*)
(* and what the account was when they asked, is not part of the promise.       *)
CONSTANTS Accounts, Ids

VARIABLES
  open,    \* the sessions of each account that would be accepted
  used,    \* the sessions that were ever opened
  state    \* what an account is: its identity, role and password

Init == \A n \in Accounts : open[n] \subseteq used

Open(n, x) ==
  /\ x \notin used
  /\ used' = used \cup {x}
  /\ open' = [open EXCEPT ![n] = @ \cup {x}]
  /\ UNCHANGED state

\* Logging out, and the passing of time.
Close ==
  /\ \A n \in Accounts : open'[n] \subseteq open[n]
  /\ UNCHANGED <<used, state>>

Change(n) ==
  /\ open'[n] = {}
  /\ \A m \in Accounts \ {n} : open'[m] = open[m] /\ state'[m] = state[m]
  /\ UNCHANGED used

Next == Close \/ \E n \in Accounts : Change(n) \/ \E x \in Ids : Open(n, x)
Spec == Init /\ [][Next]_<<open, used, state>>
=============================================================================
