----------------------------- MODULE Schedules ------------------------------
(***************************************************************************)
(* The schedules: agents create and remove them through schedule/mcp.py,    *)
(* and the ScheduleRunner of every worker (schedule/runner.py) fires them.  *)
(* The workers share the schedules table, and nothing else.                 *)
(*                                                                         *)
(* A cron expression is a fixed period, until it breaks: its occurrences    *)
(* run out, or its zone leaves the tz database.  A firing is one turn, which *)
(* takes any time at all: SessionManager.handle waits for the thread lock.  *)
(***************************************************************************)
EXTENDS Integers, FiniteSets

CONSTANTS
  Workers,   \* the processes that share the database
  Ids,       \* the ids that schedules may get, each at most once
  Every,     \* the period of each of them
  Grace,     \* grace_seconds
  MaxTime,   \* bound on the clock
  MaxFaults  \* bound on how many statements fail or workers die in a behaviour

ASSUME ConstantsAssumption ==
  /\ Every \in [Ids -> Nat \ {0}]
  /\ Grace \in Nat
  /\ MaxTime \in Nat
  /\ MaxFaults \in Nat

VARIABLES
  now,    \* the time
  sched,  \* the schedules table
  tool,   \* what the agent of the schedule's thread is asking approval for
  run,    \* run_once of the ScheduleRunner of each worker
  fate,   \* what became of each occurrence (history)
  broken, \* the schedules for which next_after() raises from now on
  faults  \* failures so far

vars == <<now, sched, tool, run, fate, broken, faults>>
-----------------------------------------------------------------------------
\* next_after(): the first occurrence strictly after t, of a schedule that is not broken.
NextAfter(s, t) == (t \div Every[s] + 1) * Every[s]

Times    == 1..MaxTime
Statuses == {"none", "ok", "error", "missed"}

\* A row.  next = 0: there is none; first = 0: there never was.
Row   == [first: Nat, next: Nat, status: Statuses]
NoRow == [first |-> 0, next |-> 0, status |-> "none"]

Stored(s) == sched[s].next # 0

\* A request that waits for a human, and the time it computed before that.
Request == [asks: {"nothing", "create", "remove"}, when: Nat]
NoRequest == [asks |-> "nothing", when |-> 0]

\* An occurrence of a schedule.
Job == [id: Ids, due: Nat]

\* run_once: clock is its now, batch what it claimed and has not dealt with yet,
\* cur the one of these it deals with, result what came of that.
Asleep == [at |-> "asleep", clock |-> 0, batch |-> {}, cur |-> {}, result |-> "none"]

Init ==
  /\ now = 0
  /\ sched = [s \in Ids |-> NoRow]
  /\ tool = [s \in Ids |-> NoRequest]
  /\ run = [w \in Workers |-> Asleep]
  /\ fate = [s \in Ids |-> [d \in Times |-> "open"]]
  /\ broken = {}
  /\ faults = 0

AsPlanned == UNCHANGED <<broken, faults>>

Fault == faults < MaxFaults /\ faults' = faults + 1 /\ UNCHANGED broken

Tick ==
  /\ now < MaxTime
  /\ now' = now + 1
  /\ UNCHANGED <<sched, tool, run, fate>>
  /\ AsPlanned

Breaks(s) ==
  /\ s \notin broken
  /\ broken' = broken \cup {s}
  /\ UNCHANGED <<now, sched, tool, run, fate, faults>>
-----------------------------------------------------------------------------
(* The tools of schedule/mcp.py.  They validate first, then ask a human,    *)
(* which may take as long as it likes, then act on what they knew before.   *)

\* The rows that a claim in progress has locked, FOR UPDATE.
Locked(s) == \E w \in Workers : run[w].at = "claiming" /\ \E j \in run[w].batch : j.id = s

Create(s) ==
  /\ tool[s] = NoRequest
  /\ sched[s].first = 0
  /\ s \notin broken
  /\ tool' = [tool EXCEPT ![s] = [asks |-> "create", when |-> NextAfter(s, now)]]
  /\ UNCHANGED <<now, sched, run, fate>>
  /\ AsPlanned

Remove(s) ==
  /\ tool[s] = NoRequest
  /\ Stored(s)
  /\ tool' = [tool EXCEPT ![s] = [asks |-> "remove", when |-> 0]]
  /\ UNCHANGED <<now, sched, run, fate>>
  /\ AsPlanned

\* What an approved request makes of the row.
Granted(s) ==
  IF tool[s].asks = "create"
    THEN [first |-> tool[s].when, next |-> tool[s].when, status |-> "none"]
    ELSE [sched[s] EXCEPT !.next = 0, !.status = "none"]

Approve(s) ==
  /\ tool[s] # NoRequest
  /\ ~ Locked(s)
  /\ sched' = [sched EXCEPT ![s] = Granted(s)]
  /\ tool' = [tool EXCEPT ![s] = NoRequest]
  /\ UNCHANGED <<now, run, fate>>
  /\ AsPlanned

\* Or the wait ends with the turn, or the worker, that asked.
Deny(s) ==
  /\ tool[s] # NoRequest
  /\ tool' = [tool EXCEPT ![s] = NoRequest]
  /\ UNCHANGED <<now, sched, run, fate>>
  /\ AsPlanned
-----------------------------------------------------------------------------
(* ScheduleRunner.run_once.                                                 *)

\* As if SKIP LOCKED, and FOR UPDATE with it, were left out.
TakesLocked(s) == TRUE

Takes(s) == ~ Locked(s)

Due(w) == {s \in Ids : Stored(s) /\ sched[s].next <= run[w].clock /\ Takes(s)}

\* It reads the clock once, before it claims.
Poll(w) ==
  /\ run[w].at = "asleep"
  /\ run' = [run EXCEPT ![w].at = "polled", ![w].clock = now]
  /\ UNCHANGED <<now, sched, tool, fate>>
  /\ AsPlanned

\* The SELECT of claim_due_schedules.
Claim(w) ==
  /\ run[w].at = "polled"
  /\ Due(w) # {}
  /\ run' = [run EXCEPT
       ![w].at = "claiming",
       ![w].batch = {[id |-> s, due |-> sched[s].next] : s \in Due(w)}]
  /\ UNCHANGED <<now, sched, tool, fate>>
  /\ AsPlanned

ClaimNothing(w) ==
  /\ run[w].at = "polled"
  /\ Due(w) = {}
  /\ run' = [run EXCEPT ![w] = Asleep]
  /\ UNCHANGED <<now, sched, tool, fate>>
  /\ AsPlanned

Claimed(w) == {j.id : j \in run[w].batch}

Advanced(w, s) == NextAfter(s, sched[s].next)

\* Its UPDATEs, and the commit.
Advance(w) ==
  /\ run[w].at = "claiming"
  /\ Claimed(w) \cap broken = {}
  /\ sched' = [s \in Ids |-> IF s \in Claimed(w)
                               THEN [sched[s] EXCEPT !.next = Advanced(w, s)]
                               ELSE sched[s]]
  /\ run' = [run EXCEPT ![w].at = "batch"]
  /\ UNCHANGED <<now, tool, fate>>
  /\ AsPlanned

\* run_once ends early, and what is left of the batch goes with it.
Abandon(w) == run' = [run EXCEPT ![w] = Asleep]

\* Or advance() raises for one of them, and all are rolled back: again at every poll, as
\* what is due stays due.
ClaimRaises(w) ==
  /\ run[w].at = "claiming"
  /\ Claimed(w) \cap broken # {}
  /\ Abandon(w)
  /\ UNCHANGED <<now, sched, tool, fate>>
  /\ AsPlanned

\* Or the transaction fails.
ClaimFails(w) ==
  /\ run[w].at = "claiming"
  /\ Abandon(w)
  /\ UNCHANGED <<now, sched, tool, fate>>
  /\ Fault

Late(w, j) == run[w].clock - j.due > Grace

\* The first thing that becomes of an occurrence, or not the first.
Befalls(j, what) ==
  fate' = [fate EXCEPT ![j.id][j.due] = IF @ = "open" THEN what ELSE "again"]

Skip(w) ==
  /\ run[w].at = "batch"
  /\ \E j \in run[w].batch :
       /\ Late(w, j)
       /\ Befalls(j, "missed")
       /\ run' = [run EXCEPT ![w].at = "record", ![w].cur = {j}, ![w].result = "missed"]
  /\ UNCHANGED <<now, sched, tool>>
  /\ AsPlanned

Fire(w) ==
  /\ run[w].at = "batch"
  /\ \E j \in run[w].batch :
       /\ ~ Late(w, j)
       /\ Befalls(j, "fired")
       /\ run' = [run EXCEPT ![w].at = "turn", ![w].cur = {j}]
  /\ UNCHANGED <<now, sched, tool>>
  /\ AsPlanned

TurnEnds(w) ==
  /\ run[w].at = "turn"
  /\ run' = [run EXCEPT ![w].at = "record", ![w].result = "ok"]
  /\ UNCHANGED <<now, sched, tool, fate>>
  /\ AsPlanned

\* As if a turn that raises took run_once with it.
StopsAtAnError(w) == Abandon(w)

\* As if it were fired again at once, until it succeeds.
RetriesAtOnce(w) == run' = [run EXCEPT ![w].at = "batch", ![w].cur = {}]

\* It is caught, and recorded like one that does not raise.
Catches(w) == run' = [run EXCEPT ![w].at = "record", ![w].result = "error"]

TurnRaises(w) ==
  /\ run[w].at = "turn"
  /\ Catches(w)
  /\ UNCHANGED <<now, sched, tool, fate>>
  /\ AsPlanned

\* record_run updates the row, if there still is one.
Recorded(w) ==
  [s \in Ids |-> IF Stored(s) /\ \E j \in run[w].cur : j.id = s
                   THEN [sched[s] EXCEPT !.status = run[w].result]
                   ELSE sched[s]]

\* The run without the one just dealt with.
Rest(w) ==
  LET left == run[w].batch \ run[w].cur
  IN  IF left = {} THEN Asleep
      ELSE [run[w] EXCEPT !.at = "batch", !.batch = left, !.cur = {}, !.result = "none"]

Record(w) ==
  /\ run[w].at = "record"
  /\ \A j \in run[w].cur : ~ Locked(j.id)
  /\ sched' = Recorded(w)
  /\ run' = [run EXCEPT ![w] = Rest(w)]
  /\ UNCHANGED <<now, tool, fate>>
  /\ AsPlanned

RecordRaises(w) ==
  /\ run[w].at = "record"
  /\ Abandon(w)
  /\ UNCHANGED <<now, sched, tool, fate>>
  /\ Fault

\* A worker dies: an open transaction is rolled back, a batch is lost.
Crash(w) ==
  /\ run[w] # Asleep
  /\ Abandon(w)
  /\ UNCHANGED <<now, sched, tool, fate>>
  /\ Fault
-----------------------------------------------------------------------------
Run(w) ==
  \/ Poll(w) \/ Claim(w) \/ ClaimNothing(w) \/ Advance(w) \/ ClaimRaises(w)
  \/ Skip(w) \/ Fire(w) \/ TurnEnds(w) \/ TurnRaises(w) \/ Record(w)

Fails(w) == ClaimFails(w) \/ RecordRaises(w) \/ Crash(w)

Ask(s) == Create(s) \/ Remove(s) \/ Approve(s) \/ Deny(s)

Next ==
  \/ Tick
  \/ \E s \in Ids : Ask(s) \/ Breaks(s)
  \/ \E w \in Workers : Run(w) \/ Fails(w)

\* The loop of a worker comes round again and again, and a turn ends (ThreadSession's
\* TurnsEnd).  Neither time nor people need do anything.
Spec == Init /\ [][Next]_vars /\ \A w \in Workers : WF_vars(Run(w))
-----------------------------------------------------------------------------
(* Properties.                                                              *)

\* Every variable has its type: no more is in a batch than run_once claimed, it deals
\* only with what is in it, and the next occurrence is one of the schedule's.
TypeOK ==
  /\ now \in 0..MaxTime
  /\ sched \in [Ids -> Row]
  /\ \A s \in Ids : sched[s].next % Every[s] = 0
  /\ tool \in [Ids -> Request]
  /\ \A w \in Workers :
       /\ run[w].at \in {"asleep", "polled", "claiming", "batch", "turn", "record"}
       /\ run[w].clock \in 0..now
       /\ run[w].batch \subseteq Job
       /\ run[w].cur \subseteq run[w].batch
       /\ run[w].result \in Statuses
  /\ fate \in [Ids -> [Times -> {"open", "fired", "missed", "again"}]]
  /\ broken \subseteq Ids
  /\ faults \in 0..MaxFaults

\* No occurrence is fired or given up twice, however many workers poll at once and
\* whatever fails (postgres.py:473-474, "two of them cannot take the same row", and
\* 481-483, no re-firing after a death).
FiredOnce == \A s \in Ids, d \in Times : fate[s][d] # "again"

\* Without failures no occurrence of a stored schedule is passed over in silence: it was
\* fired, is given up as missed, or is in the batch of some worker; also when a turn before
\* it raised (runner.py:72-78, "One bad schedule must not stop the rest").  It is about
\* schedules that are still there: what is removed while claimed owes nobody an occurrence.
NoneForgotten ==
  faults = 0 =>
    \A s \in Ids, d \in Times :
      (Stored(s) /\ d >= sched[s].first /\ d < sched[s].next /\ d % Every[s] = 0) =>
        fate[s][d] # "open" \/ \E w \in Workers : [id |-> s, due |-> d] \in run[w].batch

\* A schedule that is due and cannot be advanced: next_after() raises for it.
CannotAdvance(r) == r \in broken /\ Stored(r) /\ sched[r].next <= now

\* A due schedule is taken up by some worker, or removed, whatever becomes of the turns of
\* others (runner.py:72-78, 84-91: the loop goes on after anything), unless, until it is
\* removed, one that is due cannot be advanced: that one rolls back every claim
\* (postgres.py:479-490), which "One bad schedule must not stop the rest" does not say.
DueIsTaken ==
  \A s \in Ids :
    (Stored(s) /\ sched[s].next <= now) ~>
      (~ Stored(s) \/ sched[s].next > now \/ \E r \in Ids : CannotAdvance(r))
=============================================================================
