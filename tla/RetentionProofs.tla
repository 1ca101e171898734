-------------------------- MODULE RetentionProofs ---------------------------
(***************************************************************************)
(* Proofs about Retention, for any workers, interval and number of         *)
(* failures.  The claim is right because no two workers are between taking  *)
(* the lock and committing at once: so what one of them found due is still  *)
(* due when it commits.                                                     *)
(***************************************************************************)
EXTENDS Retention, TLAPS

\* At most one worker is inside the transaction.
Exclusive ==
  \A v, w \in Workers :
    (at[v] \in {"locked", "due"} /\ at[w] \in {"locked", "due"}) => v = w

\* What a worker found due still is.
DueStillDue == \A w \in Workers : at[w] = "due" => IsDue(w)

IInv == TypeOK /\ Exclusive /\ DueStillDue

LEMMA InitInvariant == Init => IInv
<1> SUFFICES ASSUME Init
             PROVE  IInv
  OBVIOUS
<1>1. lastRun \in Int /\ lastRun <= now /\ now \in Nat
  BY ConstantsAssumption DEF ConstantsAssumption, Init
<1>2. owed \in BOOLEAN /\ faults \in Nat
  BY DEF Init
<1>3. /\ at \in [Workers -> {"idle", "began", "locked", "due", "pruning"}]
      /\ began \in [Workers -> Nat]
      /\ \A w \in Workers : at[w] = "idle" /\ began[w] <= now
  BY DEF Init
<1> QED
  BY <1>1, <1>2, <1>3 DEF IInv, TypeOK, Exclusive, DueStillDue

LEMMA NextInvariant == IInv /\ [Next]_vars => IInv'
<1> SUFFICES ASSUME IInv, [Next]_vars
             PROVE  IInv'
  OBVIOUS
<1> USE ConstantsAssumption DEF ConstantsAssumption, IInv
<1>1. CASE Tick
  BY <1>1 DEF Tick, TypeOK, Exclusive, DueStillDue, IsDue
<1>2. ASSUME NEW w \in Workers, Begin(w)
      PROVE  IInv'
  BY <1>2 DEF Begin, Goes, TypeOK, Exclusive, DueStillDue, IsDue
<1>3. ASSUME NEW w \in Workers, Lock(w)
      PROVE  IInv'
  BY <1>3 DEF Lock, Goes, LockIsFree, Holders, TypeOK, Exclusive, DueStillDue, IsDue
<1>4. ASSUME NEW w \in Workers, GiveUp(w)
      PROVE  IInv'
  BY <1>4 DEF GiveUp, Goes, TypeOK, Exclusive, DueStillDue, IsDue
<1>5. ASSUME NEW w \in Workers, FindDue(w)
      PROVE  IInv'
  BY <1>5 DEF FindDue, Goes, TypeOK, Exclusive, DueStillDue, IsDue
<1>6. ASSUME NEW w \in Workers, FindNotDue(w)
      PROVE  IInv'
  BY <1>6 DEF FindNotDue, Goes, TypeOK, Exclusive, DueStillDue, IsDue
<1>7. ASSUME NEW w \in Workers, Commit(w)
      PROVE  IInv'
  \* Nobody else has found anything due, so moving last_run disturbs nobody.
  <2>1. TypeOK'
    BY <1>7 DEF Commit, Goes, Noted, TypeOK
  <2>2. Exclusive'
    BY <1>7 DEF Commit, Goes, TypeOK, Exclusive
  <2>3. DueStillDue'
    <3>1. \A v \in Workers : at'[v] # "due"
      BY <1>7 DEF Commit, Goes, TypeOK, Exclusive
    <3> QED
      BY <3>1 DEF DueStillDue
  <2> QED
    BY <2>1, <2>2, <2>3
<1>8. ASSUME NEW w \in Workers, Prune(w)
      PROVE  IInv'
  BY <1>8 DEF Prune, Goes, TypeOK, Exclusive, DueStillDue, IsDue
<1>9. ASSUME NEW w \in Workers, Fails(w)
      PROVE  IInv'
  BY <1>9 DEF Fails, Goes, TypeOK, Exclusive, DueStillDue, IsDue
<1>10. CASE UNCHANGED vars
  BY <1>10 DEF vars, TypeOK, Exclusive, DueStillDue, IsDue
<1> QED
  BY <1>1, <1>2, <1>3, <1>4, <1>5, <1>6, <1>7, <1>8, <1>9, <1>10 DEF Next, Cycle

LEMMA Invariance == Spec => []IInv
  BY InitInvariant, NextInvariant, PTL DEF Spec

\* Every variable of Retention has its type, and last_run is never in the future.
THEOREM TypeCorrect == Spec => []TypeOK
<1>1. IInv => TypeOK
  BY DEF IInv
<1> QED
  BY <1>1, Invariance, PTL

\* One worker at most is in the transaction of try_claim_cleanup.
THEOREM MutualExclusion == Spec => []Exclusive
<1>1. IInv => Exclusive
  BY DEF IInv
<1> QED
  BY <1>1, Invariance, PTL

\* Whatever workers begin, stall, fail and start again: a cycle that somebody goes on to
\* prune for begins a full interval after the one before (cleanup.py:18-20).
THEOREM OneCyclePerInterval == Spec => OnePrunePerInterval
<1> DEFINE Apart(w) == (at[w] # "pruning" /\ at'[w] = "pruning") =>
                          /\ began[w] >= lastRun + Interval
                          /\ lastRun' = began[w]
<1>1. ASSUME IInv, Next, NEW w \in Workers
      PROVE  Apart(w)
  <2>1. CASE Commit(w)
    BY <1>1, <2>1, ConstantsAssumption DEF ConstantsAssumption, Commit, Noted, IInv, TypeOK, DueStillDue, IsDue
  <2>2. ASSUME ~ Commit(w), at[w] # "pruning"
        PROVE  at'[w] # "pruning"
    <3>1. CASE Tick
      BY <2>2, <3>1 DEF Tick
    <3>2. ASSUME NEW v \in Workers, Cycle(v) \/ Fails(v)
          PROVE  at'[w] # "pruning"
      BY <1>1, <2>2, <3>2 DEF Cycle, Begin, Lock, GiveUp, FindDue, FindNotDue, Commit, Prune,
                              Fails, Goes, IInv, TypeOK
    <3> QED
      BY <1>1, <3>1, <3>2 DEF Next
  <2> QED
    BY <2>1, <2>2
<1>2. IInv /\ [Next]_vars => [\A w \in Workers : Apart(w)]_vars
  BY <1>1
<1>3. [][\A w \in Workers : Apart(w)]_vars => OnePrunePerInterval
  BY PTL DEF OnePrunePerInterval
<1> QED
  BY <1>2, <1>3, Invariance, PTL DEF Spec
=============================================================================
