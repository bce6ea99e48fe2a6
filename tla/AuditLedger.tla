----------------------------- MODULE AuditLedger -----------------------------
(* The hash chain of audit_logs (app/services/audit_service.py) under         *)
(* SQLite's write lock.  Hashes are injective: the hash of an entry is the    *)
(* pair of the hash before it and what the entry says.                        *)
EXTENDS Integers, Sequences

CONSTANTS
  Processes,    \* threads that serve requests, of all web processes
  NoOne,        \* holds the write lock when nobody does
  MaxLedger     \* bound of the model on the entries

VARIABLES
  ledger,       \* rows of audit_logs in the order of their ids
  lock,         \* who holds the database's write lock across steps
  checkpoints   \* the heads that verifications have handed out

ledgerVars == <<ledger, lock, checkpoints>>

Genesis == <<>>
Hash(prev, what) == <<prev, what>>
HeadOf(rows) == IF rows = <<>> THEN Genesis ELSE rows[Len(rows)].hash
Entry(prev, what) == [prev |-> prev, what |-> what, hash |-> Hash(prev, what)]

LedgerInit == ledger = <<>> /\ lock = NoOne /\ checkpoints = {}

\* BEGIN IMMEDIATE: every other writer waits until the commit.
Unlocked == lock = NoOne
\* Variant: the head is read before the lock is taken.
NoLock(p) == UNCHANGED lock
TakeLock(p) == Unlocked /\ lock' = p

\* INSERT and commit of an entry over the head that was read under the lock.
Insert(p, prev, what) ==
  /\ lock \in {NoOne, p}
  /\ Len(ledger) < MaxLedger
  /\ ledger' = Append(ledger, Entry(prev, what))
  /\ lock' = NoOne
  /\ UNCHANGED checkpoints

\* An entry written within the transaction of the change it is about, as the
\* services that pass their connection do.
LogWithin(what) ==
  /\ Unlocked
  /\ Len(ledger) < MaxLedger
  /\ ledger' = Append(ledger, Entry(HeadOf(ledger), what))
  /\ UNCHANGED <<lock, checkpoints>>

\* verify_audit_log_integrity: the anchor is where the checkpoint says, and every
\* row continues the one before it.
Anchored(rows, c) == c.id \in DOMAIN rows /\ rows[c.id].hash = c.hash
Chained(rows) ==
  \A i \in DOMAIN rows :
    /\ rows[i].prev = IF i = 1 THEN Genesis ELSE rows[i - 1].hash
    /\ rows[i].hash = Hash(rows[i].prev, rows[i].what)

\* A verification ends with a checkpoint that is kept outside the database.
Verify ==
  /\ ledger # <<>> /\ Chained(ledger)
  /\ checkpoints' = checkpoints \cup
       {[id |-> Len(ledger), hash |-> HeadOf(ledger)]}
  /\ UNCHANGED <<ledger, lock>>

\* However the writers interleave, the next verification succeeds, against
\* every checkpoint handed out before.
LedgerVerifies == Chained(ledger) /\ \A c \in checkpoints : Anchored(ledger, c)
=============================================================================
