----------------------------- MODULE Retention ------------------------------
(***************************************************************************)
(* CleanupScheduler (maintenance/cleanup.py) of every worker, and the claim *)
(* (PostgresStore.try_claim_cleanup) that shares one cycle per interval out *)
(* among them.  What a prune deletes is in ThreadSession, Approvals and     *)
(* Engagement; here is when it happens.                                     *)
(*                                                                         *)
(* The claim is one transaction.  PostgreSQL's now() is the time at which a *)
(* transaction began, so the time that is compared with last_run, and       *)
(* written there, may be older than the lock it is compared under.          *)
(***************************************************************************)
EXTENDS Integers

CONSTANTS
  Workers,   \* the processes that share the database
  Interval,  \* interval_seconds
  MaxTime,   \* bound on the clock
  MaxFaults  \* bound on how many claims and prunes fail in a behaviour

ASSUME ConstantsAssumption ==
  /\ Interval \in Nat \ {0}
  /\ MaxTime \in Nat
  /\ MaxFaults \in Nat

VARIABLES
  now,      \* the time
  lastRun,  \* maintenance.last_run
  at,       \* where run_once of each worker is
  began,    \* when its transaction began
  owed,     \* a prune failed, and nobody has pruned since (history)
  faults    \* failures so far

vars == <<now, lastRun, at, began, owed, faults>>

\* The row starts at 0, which is longer ago than any interval.
Init ==
  /\ now = 0
  /\ lastRun = - Interval
  /\ at = [w \in Workers |-> "idle"]
  /\ began = [w \in Workers |-> 0]
  /\ owed = FALSE
  /\ faults = 0

Tick ==
  /\ now < MaxTime
  /\ now' = now + 1
  /\ UNCHANGED <<lastRun, at, began, owed, faults>>

Goes(w, to) == at' = [at EXCEPT ![w] = to]

Begin(w) ==
  /\ at[w] = "idle"
  /\ Goes(w, "began")
  /\ began' = [began EXCEPT ![w] = now]
  /\ UNCHANGED <<now, lastRun, owed, faults>>

\* Workers whose transaction holds the advisory lock.
Holders == {w \in Workers : at[w] \in {"locked", "due"}}

\* As if there were no lock.
NoLock == TRUE

LockIsFree == Holders = {}

\* pg_try_advisory_xact_lock.
Lock(w) ==
  /\ at[w] = "began"
  /\ LockIsFree
  /\ Goes(w, "locked")
  /\ UNCHANGED <<now, lastRun, began, owed, faults>>

\* It does not wait.
GiveUp(w) ==
  /\ at[w] = "began"
  /\ ~ LockIsFree
  /\ Goes(w, "idle")
  /\ UNCHANGED <<now, lastRun, began, owed, faults>>

IsDue(w) == began[w] - lastRun >= Interval

FindDue(w) ==
  /\ at[w] = "locked"
  /\ IsDue(w)
  /\ Goes(w, "due")
  /\ UNCHANGED <<now, lastRun, began, owed, faults>>

FindNotDue(w) ==
  /\ at[w] = "locked"
  /\ ~ IsDue(w)
  /\ Goes(w, "idle")
  /\ UNCHANGED <<now, lastRun, began, owed, faults>>

Noted(w) == began[w]

\* The UPDATE and the commit, which gives up the lock.
Commit(w) ==
  /\ at[w] = "due"
  /\ lastRun' = Noted(w)
  /\ Goes(w, "pruning")
  /\ UNCHANGED <<now, began, owed, faults>>

Prune(w) ==
  /\ at[w] = "pruning"
  /\ owed' = FALSE
  /\ Goes(w, "idle")
  /\ UNCHANGED <<now, lastRun, began, faults>>

\* A statement raises, or the worker dies and starts again: the transaction it is in is
\* rolled back, the one before is not.
Fails(w) ==
  /\ at[w] # "idle"
  /\ faults < MaxFaults
  /\ faults' = faults + 1
  /\ owed' = (owed \/ at[w] = "pruning")
  /\ Goes(w, "idle")
  /\ UNCHANGED <<now, lastRun, began>>

Cycle(w) ==
  \/ Begin(w) \/ Lock(w) \/ GiveUp(w)
  \/ FindDue(w) \/ FindNotDue(w) \/ Commit(w) \/ Prune(w)

Next == Tick \/ \E w \in Workers : Cycle(w) \/ Fails(w)

Spec == Init /\ [][Next]_vars
-----------------------------------------------------------------------------
\* Every variable has its type; in particular last_run is never in the future.
TypeOK ==
  /\ now \in Nat
  /\ lastRun \in Int /\ lastRun <= now
  /\ at \in [Workers -> {"idle", "began", "locked", "due", "pruning"}]
  /\ began \in [Workers -> Nat]
  /\ \A w \in Workers : began[w] <= now
  /\ owed \in BOOLEAN
  /\ faults \in Nat

\* Whoever goes on to prune does so for a cycle that began a full interval after the last
\* one anybody pruned for, and that no other worker can go on to prune for (cleanup.py:18-20,
\* "exactly one prune happens per interval_seconds").
OnePrunePerInterval ==
  [][\A w \in Workers : (at[w] # "pruning" /\ at'[w] = "pruning") =>
        /\ began[w] >= lastRun + Interval
        /\ lastRun' = began[w]]_vars

\* After a failed prune the next worker to look finds the cycle due again (cleanup.py:22-23,
\* "a failed cycle is logged and retried on the next check").
FailedCycleIsRetried ==
  [][\A w \in Workers :
       (owed /\ at[w] = "locked" /\ at'[w] # "locked" /\ faults' = faults) =>
          at'[w] = "due"]_vars
=============================================================================
