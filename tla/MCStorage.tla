----------------------------- MODULE MCStorage -----------------------------
(* Model checking of the lock table by itself, under any calls, and under  *)
(* the transactions of a few clients.                                      *)
EXTENDS Transactions

CONSTANTS Client,     \* the transactions that have a client thread
          One         \* the resource that may be read, or just locked

Idle == \A t \in Txn : status[t] = "none"

\* Calls of the lock table that no transaction stands behind.
LockCalls == Idle /\ LockNext /\ UNCHANGED <<tmVars, threadVars>>

StorageNext == Next \/ LockCalls

StorageSpec == Init /\ [][StorageNext]_vars

Writers ==
  \A t \in Txn :
    /\ op[t].mode # "S"
    /\ locksHeld[t] \subseteq Resource \X {"X"}

OnlyOneInUse == \A r \in Resource \ {One} : locks[r] = FreeEntry

\* Bounds: clients begin with an empty table, and they use the other
\* resources only while all of them are writers, which is enough for a
\* crosswise deadlock.
StorageBounds ==
  /\ Idle /\ ~ LockInit => UNCHANGED <<tmVars, threadVars>>
  /\ \A t \in Txn \ Client : status'[t] = "none"
  /\ OnlyOneInUse' \/ (Writers' /\ ~ Idle')

=============================================================================
