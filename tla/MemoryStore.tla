---------------------------- MODULE MemoryStore -----------------------------
(***************************************************************************)
(* db/memory.py: what each method of MemoryStore makes of its dictionaries, *)
(* and what it answers.  A dictionary is a function whose domain is its     *)
(* keys.  The lock is left out: asyncio.Lock is what it says.               *)
(***************************************************************************)
EXTENDS Integers, FiniteSets

CONSTANT Null  \* None

Put(d, k, v)   == [x \in DOMAIN d \cup {k} |-> IF x = k THEN v ELSE d[x]]
Without(d, ks) == [x \in DOMAIN d \ ks |-> d[x]]

EmptyDict == [x \in {} |-> x]

EmptyStore ==
  [sessions |-> EmptyDict, transcripts |-> EmptyDict, approvals |-> EmptyDict,
   schedules |-> EmptyDict, lastCleanup |-> Null]

Denied == [approved |-> FALSE, by |-> "system", scope |-> "once"]
-----------------------------------------------------------------------------
(* SessionStore and TranscriptStore.                                        *)

Existing(m, t) ==
  IF t \in DOMAIN m.sessions THEN m.sessions[t]
  ELSE [thread |-> t, sid |-> Null, mode |-> Null, active |-> 0, seq |-> 0, partner |-> Null]

Given(new, old) == IF new # Null THEN new ELSE old

UpsertSession(m, t, sid, mode, touch, now) ==
  LET old == Existing(m, t)
  IN [m EXCEPT !.sessions = Put(@, t,
        [old EXCEPT !.sid = Given(sid, @), !.mode = Given(mode, @),
                    !.active = IF touch THEN now ELSE @])]

\* The store with a row for t.
WithRow(m, t, touch, now) ==
  IF t \in DOMAIN m.sessions THEN m ELSE UpsertSession(m, t, Null, Null, touch, now)

SetPartner(m, t, user, now) ==
  [WithRow(m, t, FALSE, now) EXCEPT !.sessions[t].partner = user]

BumpTurn(m, t, now) == [WithRow(m, t, TRUE, now) EXCEPT !.sessions[t].seq = @ + 1]

\* A copy of the row, or none.
GetSession(m, t) == {m.sessions[x] : x \in DOMAIN m.sessions \cap {t}}
GetPartner(m, t) == IF t \in DOMAIN m.sessions THEN m.sessions[t].partner ELSE Null

SaveRaises(m, t) == t \notin DOMAIN m.sessions

Save(m, t, sid, data) == [m EXCEPT !.transcripts = Put(@, t, [sid |-> sid, data |-> data])]

Load(m, t, sid) ==
  {m.transcripts[x].data : x \in {y \in DOMAIN m.transcripts \cap {t} : m.transcripts[y].sid = sid}}
-----------------------------------------------------------------------------
(* ApprovalCoordinator.  done is row.future.done(): set with the decision,   *)
(* and by the cancellation of a wait(), which leaves the decision None.      *)

NewApproval == [approvers |-> {}, decision |-> Null, at |-> Null, done |-> FALSE]

Create(m, a) ==
  IF a \in DOMAIN m.approvals THEN m ELSE [m EXCEPT !.approvals = Put(@, a, NewApproval)]

SetApprovers(m, a, users) ==
  IF a \in DOMAIN m.approvals THEN [m EXCEPT !.approvals[a].approvers = users] ELSE m

ApproversOf(m, a) == IF a \in DOMAIN m.approvals THEN m.approvals[a].approvers ELSE {}

GetPending(m, a) == a \in DOMAIN m.approvals

Settled(row, decision, now) == [row EXCEPT !.decision = decision, !.at = now, !.done = TRUE]

Decide(m, a, decision, now) ==
  [m EXCEPT !.approvals[a] = Settled(m.approvals[a], decision, now)]

IsDecided(m, a) == m.approvals[a].decision # Null

Resolves(m, a) == a \in DOMAIN m.approvals /\ ~IsDecided(m, a) /\ ~m.approvals[a].done

Resolve(m, a, decision, now) == IF Resolves(m, a) THEN Decide(m, a, decision, now) ELSE m

\* What wait() answers of a decided row; what it does when its timeout passes, whatever the
\* row holds by then; and what is left when it is cancelled: wait_for() cancels the future.
Waited(m, a)       == m.approvals[a].decision
TimeOut(m, a, now) == Decide(m, a, Denied, now)
WaitCancelled(m, a) ==
  IF IsDecided(m, a) THEN m ELSE [m EXCEPT !.approvals[a].done = TRUE]

\* wait() raises CancelledError at once.
WaitRaises(m, a) == ~IsDecided(m, a) /\ m.approvals[a].done
-----------------------------------------------------------------------------
(* MaintenanceStore.                                                        *)

StaleApprovals(m, before) ==
  {a \in DOMAIN m.approvals : m.approvals[a].at # Null /\ m.approvals[a].at < before}

StaleSessions(m, before) == {t \in DOMAIN m.sessions : m.sessions[t].active < before}

Prune(m, sessionsBefore, approvalsBefore) ==
  LET sessions == StaleSessions(m, sessionsBefore)
  IN [m EXCEPT !.approvals = Without(@, StaleApprovals(m, approvalsBefore)),
               !.sessions = Without(@, sessions),
               !.transcripts = Without(@, sessions)]

Pruned(m, sessionsBefore, approvalsBefore) ==
  [approvals |-> Cardinality(StaleApprovals(m, approvalsBefore)),
   sessions  |-> Cardinality(StaleSessions(m, sessionsBefore))]

ClaimsCleanup(m, interval, now) ==
  m.lastCleanup = Null \/ now - m.lastCleanup >= interval

ClaimCleanup(m, interval, now) ==
  IF ClaimsCleanup(m, interval, now) THEN [m EXCEPT !.lastCleanup = now] ELSE m
-----------------------------------------------------------------------------
(* ScheduleStore.                                                           *)

CreateSchedule(m, s, t, next) ==
  [m EXCEPT !.schedules = Put(@, s, [id |-> s, thread |-> t, next |-> next,
                                     lastRun |-> Null, status |-> Null])]

ListSchedules(m, t) ==
  {m.schedules[s] : s \in {x \in DOMAIN m.schedules : m.schedules[x].thread = t}}

Deletes(m, s, t) == s \in DOMAIN m.schedules /\ m.schedules[s].thread = t

DeleteSchedule(m, s, t) ==
  IF Deletes(m, s, t) THEN [m EXCEPT !.schedules = Without(@, {s})] ELSE m

Due(m, now) == {s \in DOMAIN m.schedules : m.schedules[s].next <= now}

Claimed(m, now) == {[id |-> s, due |-> m.schedules[s].next] : s \in Due(m, now)}

Advanced(row, by) == [row EXCEPT !.next = @ + by]

\* The schedules that were advanced: all that are due, or those before the first for which
\* advance(row) raised.
ClaimDueSchedules(m, advanced, step) ==
  [m EXCEPT !.schedules =
     [s \in DOMAIN @ |-> IF s \in advanced THEN Advanced(@[s], step[s]) ELSE @[s]]]

RecordRun(m, s, at, status) ==
  IF s \in DOMAIN m.schedules
    THEN [m EXCEPT !.schedules[s].lastRun = at, !.schedules[s].status = status] ELSE m
=============================================================================
