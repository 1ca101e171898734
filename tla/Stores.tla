------------------------------- MODULE Stores -------------------------------
(***************************************************************************)
(* The two stores, given the same calls at the same times.  db/memory.py    *)
(* says of PostgresStore that it "must match these semantics exactly"; the  *)
(* tests run against MemoryStore and production against PostgresStore, so   *)
(* every test rests on it.  Each action is one method, called on both; the  *)
(* identifiers the methods draw themselves are taken to be the same.  The   *)
(* stores are known to part over an approval and over a schedule in four    *)
(* ways, each an action here, and apart and strayed say over which.         *)
(***************************************************************************)
EXTENDS Integers, FiniteSets

CONSTANTS
  Threads, Sids, Modes, Users, Data, ApprovalIds, ScheduleIds,
  Null,       \* None, NULL
  Retention,  \* how long prune() lets rows live
  Interval,   \* min_interval of try_claim_cleanup()
  Start,      \* the time at which the stores are opened
  MaxTime,    \* bound on the clock, and on how far a schedule is advanced
  MaxSeq,     \* bound on turn_seq
  MaxCalls    \* bound on the calls

\* Time is counted from the epoch, which is long ago.
ASSUME StartAssumption == /\ Start \in Nat /\ Interval \in Nat /\ Retention \in Nat
                          /\ Start >= Interval

\* None is neither a time nor a decision.
ASSUME NullAssumption ==
  /\ Null \notin Int
  /\ Null \notin [approved : BOOLEAN, by : Users \cup {"system"}, scope : {"once", "always"}]

VARIABLES
  mem,    \* the dictionaries of MemoryStore
  pg,     \* the tables of PostgresStore
  now,    \* time.time(), extract(epoch from now())
  calls,  \* how many calls were made
  apart,  \* the approvals over which the stores have parted
  strayed \* the schedules whose next run was advanced in one store only

vars == <<mem, pg, now, calls, apart, strayed>>

M == INSTANCE MemoryStore
P == INSTANCE PostgresStore

Times     == Start .. MaxTime
Decisions == [approved : {TRUE}, by : Users, scope : {"once", "always"}]
               \cup [approved : {FALSE}, by : Users, scope : {"once"}]

\* advance() answers a time after the due one (runner.py:47), the same for the same time.
Steps == [ScheduleIds -> 1 .. MaxTime]

Init ==
  /\ mem = M!EmptyStore
  /\ pg = P!EmptyTables
  /\ now = Start
  /\ calls = 0
  /\ apart = {}
  /\ strayed = {}

\* A call, and one that parts the stores over nothing.
Counted == calls < MaxCalls /\ calls' = calls + 1 /\ UNCHANGED now
Called  == Counted /\ UNCHANGED <<apart, strayed>>
-----------------------------------------------------------------------------
(* SessionStore and TranscriptStore.                                        *)

UpsertSession(t, sid, mode, touch) ==
  /\ Called
  /\ mem' = M!UpsertSession(mem, t, sid, mode, touch, now)
  /\ pg' = P!UpsertSession(pg, t, sid, mode, touch, now)

SetPartner(t, user) ==
  /\ Called
  /\ mem' = M!SetPartner(mem, t, user, now)
  /\ pg' = P!SetPartner(pg, t, user)

BumpTurn(t) ==
  /\ Called
  /\ \A r \in M!GetSession(mem, t) : r.seq < MaxSeq
  /\ mem' = M!BumpTurn(mem, t, now)
  /\ pg' = P!BumpTurn(pg, t, now)

\* Where one raises nothing is written there.
Save(t, sid, data) ==
  /\ Called
  /\ mem' = IF M!SaveRaises(mem, t) THEN mem ELSE M!Save(mem, t, sid, data)
  /\ pg' = IF P!SaveRaises(pg, t) THEN pg ELSE P!Save(pg, t, sid, data)
-----------------------------------------------------------------------------
(* ApprovalCoordinator.                                                     *)

Create(a) ==
  /\ Called
  /\ mem' = M!Create(mem, a)
  /\ pg' = P!Create(pg, a)

SetApprovers(a, users) ==
  /\ Called
  /\ mem' = M!SetApprovers(mem, a, users)
  /\ pg' = P!SetApprovers(pg, a, users)

Resolve(a, decision) ==
  /\ Called
  /\ mem' = M!Resolve(mem, a, decision, now)
  /\ pg' = P!Resolve(pg, a, decision, now)

\* A wait() that found the row pending has waited for its whole timeout, and the row is
\* still pending.
WaitTimesOut(a) ==
  /\ Called
  /\ M!Resolves(mem, a)
  /\ mem' = M!TimeOut(mem, a, now)
  /\ pg' = P!TimeOut(pg, a, now)

Parts(a) == Counted /\ apart' = apart \cup {a} /\ UNCHANGED strayed

\* A wait() is cancelled.  Its future goes with it in memory, where the row can then be
\* neither resolved nor waited for (memory.py:176, 188); to the table it is nothing.
WaitCancelled(a) ==
  /\ Parts(a)
  /\ M!Resolves(mem, a)
  /\ mem' = M!WaitCancelled(mem, a)
  /\ UNCHANGED pg

\* The timeout comes with the resolve(), before the wait() is scheduled again: wait_for()
\* raises TimeoutError from Python 3.12 on, and the decision is overwritten in memory
\* (memory.py:177-180); the table keeps it (postgres.py:362).
WaitOvertaken(a) ==
  /\ Parts(a)
  /\ M!GetPending(mem, a) /\ M!IsDecided(mem, a)
  /\ mem' = M!TimeOut(mem, a, now)
  /\ pg' = P!TimeOut(pg, a, now)

\* A wait() that was called before create() times out: in memory it only sleeps
\* (memory.py:167-172), in the table it denies the row that is there by now
\* (postgres.py:345).
WaitTooEarly(a) ==
  /\ Parts(a)
  /\ P!Resolves(pg, a)
  /\ UNCHANGED mem
  /\ pg' = P!TimeOut(pg, a, now)
-----------------------------------------------------------------------------
(* MaintenanceStore.                                                        *)

Prune ==
  /\ Called
  /\ mem' = M!Prune(mem, now - Retention, now - Retention)
  /\ pg' = P!Prune(pg, now - Retention, now - Retention)

ClaimCleanup ==
  /\ Called
  /\ mem' = M!ClaimCleanup(mem, Interval, now)
  /\ pg' = P!ClaimCleanup(pg, Interval, now)
-----------------------------------------------------------------------------
(* ScheduleStore.                                                           *)

CreateSchedule(s, t, next) ==
  /\ Called
  /\ s \notin DOMAIN mem.schedules
  /\ mem' = M!CreateSchedule(mem, s, t, next)
  /\ pg' = P!CreateSchedule(pg, s, t, next)

DeleteSchedule(s, t) ==
  /\ Counted
  /\ UNCHANGED apart
  /\ strayed' = IF M!Deletes(mem, s, t) THEN strayed \ {s} ELSE strayed
  /\ mem' = M!DeleteSchedule(mem, s, t)
  /\ pg' = P!DeleteSchedule(pg, s, t)

\* advance() raises for the schedules in bad, so the claim does if one of them is due:
\* memory keeps those it had advanced before (memory.py:276-281), PostgreSQL none.
ClaimDueSchedules(step, bad, before) ==
  LET due  == M!Due(mem, now)
      rows == {r.id : r \in P!Due(pg, now)}
      inMem == IF due \cap bad = {} THEN due ELSE before
      inPg  == IF rows \cap bad = {} THEN rows ELSE {}
  IN /\ Counted
     /\ before \subseteq due \ bad
     /\ mem' = M!ClaimDueSchedules(mem, inMem, step)
     /\ pg' = P!ClaimDueSchedules(pg, inPg, step)
     /\ strayed' = strayed \cup (inMem \ inPg) \cup (inPg \ inMem)
     /\ UNCHANGED apart

RecordRun(s, status) ==
  /\ Called
  /\ mem' = M!RecordRun(mem, s, now, status)
  /\ pg' = P!RecordRun(pg, s, now, status)

\* get_session(), get_partner(), load(), approvers_of(), get_pending(), list_schedules(), a
\* wait() for a decided row and a wait() that is woken: they change nothing.
Read == UNCHANGED vars

Tick == now < MaxTime /\ now' = now + 1 /\ UNCHANGED <<mem, pg, calls, apart, strayed>>
-----------------------------------------------------------------------------
Next ==
  \/ \E t \in Threads, sid \in Sids \cup {Null}, mode \in Modes \cup {Null},
        touch \in BOOLEAN : UpsertSession(t, sid, mode, touch)
  \/ \E t \in Threads, user \in Users \cup {Null} : SetPartner(t, user)
  \/ \E t \in Threads : BumpTurn(t)
  \/ \E t \in Threads, sid \in Sids, data \in Data : Save(t, sid, data)
  \/ \E a \in ApprovalIds : Create(a)
  \/ \E a \in ApprovalIds, users \in SUBSET Users : SetApprovers(a, users)
  \/ \E a \in ApprovalIds, decision \in Decisions : Resolve(a, decision)
  \/ \E a \in ApprovalIds :
       WaitTimesOut(a) \/ WaitCancelled(a) \/ WaitOvertaken(a) \/ WaitTooEarly(a)
  \/ Prune
  \/ ClaimCleanup
  \/ \E s \in ScheduleIds, t \in Threads, next \in Times : CreateSchedule(s, t, next)
  \/ \E s \in ScheduleIds, t \in Threads : DeleteSchedule(s, t)
  \/ \E step \in Steps, bad, before \in SUBSET ScheduleIds :
       ClaimDueSchedules(step, bad, before)
  \/ \E s \in ScheduleIds, status \in {"ok", "failed"} : RecordRun(s, status)
  \/ Read
  \/ Tick

Spec == Init /\ [][Next]_vars
-----------------------------------------------------------------------------
SameSessions ==
  \A t \in Threads :
    /\ M!GetSession(mem, t) = P!Session(pg, t)
    /\ M!GetPartner(mem, t) = P!GetPartner(pg, t)
    /\ M!SaveRaises(mem, t) = P!SaveRaises(pg, t)
    /\ \A sid \in Sids : M!Load(mem, t, sid) = P!Load(pg, t, sid)

SameApprovals ==
  \A a \in ApprovalIds \ apart :
    /\ M!GetPending(mem, a) = P!GetPending(pg, a)
    /\ M!ApproversOf(mem, a) = P!ApproversOf(pg, a)
    /\ M!Resolves(mem, a) = P!Resolves(pg, a)
    /\ M!GetPending(mem, a) =>
         /\ M!IsDecided(mem, a) = P!IsDecided(pg, a)
         /\ M!IsDecided(mem, a) => M!Waited(mem, a) = P!Waited(pg, a)
         /\ ~M!WaitRaises(mem, a)

\* Rows but for the next run of what has strayed.
ButForNext(rows) == {IF r.id \in strayed THEN [r EXCEPT !.next = 0] ELSE r : r \in rows}
Unstrayed(due)   == {d \in due : d.id \notin strayed}

SameSchedules ==
  /\ \A t \in Threads :
       /\ ButForNext(M!ListSchedules(mem, t)) = ButForNext(P!ListSchedules(pg, t))
       /\ \A s \in ScheduleIds : M!Deletes(mem, s, t) = (P!Deleted(pg, s, t) # {})
  /\ Unstrayed(M!Claimed(mem, now)) = Unstrayed(P!Claimed(pg, now))

SameCleanup ==
  LET before == now - Retention
      pruned == {r.id : r \in P!StaleApprovals(pg, before)}
  IN /\ M!Pruned(mem, before, before).sessions = P!Pruned(pg, before, before).sessions
     /\ M!StaleApprovals(mem, before) \ apart = pruned \ apart
     /\ M!ClaimsCleanup(mem, Interval, now) = P!ClaimsCleanup(pg, Interval, now)

(* "Must match these semantics exactly" (db/memory.py:31, db/postgres.py:101): whatever was  *)
(* called before, and however late, the next call of any method gets the same answer from    *)
(* both stores, or raises in both.  Excepted are the approvals for which a wait() was         *)
(* cancelled, was overtaken by its timeout or was called before create() and timed out after *)
(* (apart), and the next run of a schedule that a claim which raised advanced in memory       *)
(* (strayed): over these the stores do part, and all else still matches.                      *)
SameAnswers == SameSessions /\ SameApprovals /\ SameSchedules /\ SameCleanup
=============================================================================
