--------------------------- MODULE PostgresStore ----------------------------
(***************************************************************************)
(* db/postgres.py: what the statements of each method of PostgresStore make *)
(* of the tables, and what it answers.  A table is a set of rows.  Here a   *)
(* method is one step; ThreadSession, Approvals, Engagement, Schedules and  *)
(* Retention take them apart where others may come in between.              *)
(***************************************************************************)
EXTENDS Integers, FiniteSets

CONSTANT Null  \* NULL

\* Maintenance is the last_run of the row for 'cleanup', and 0 stands for no row, as the
\* row starts at 0, the epoch.
EmptyTables ==
  [sessions |-> {}, transcripts |-> {}, approvals |-> {}, schedules |-> {}, maintenance |-> 0]

Coalesce(v, w) == IF v # Null THEN v ELSE w
-----------------------------------------------------------------------------
(* SessionStore and TranscriptStore.                                        *)

\* get_session(): the row, or none.
Session(p, t)    == {r \in p.sessions : r.thread = t}
GetPartner(p, t) == IF Session(p, t) = {} THEN Null
                    ELSE (CHOOSE r \in Session(p, t) : TRUE).partner

NewSession(t) ==
  [thread |-> t, sid |-> Null, mode |-> Null, active |-> 0, seq |-> 0, partner |-> Null]

\* As if a value that is not given were written as NULL.
UpsertedPlainly(r, sid, mode, touch, now) ==
  [r EXCEPT !.sid = sid, !.mode = mode, !.active = IF touch THEN now ELSE @]

Upserted(r, sid, mode, touch, now) ==
  [r EXCEPT !.sid = Coalesce(sid, @), !.mode = Coalesce(mode, @),
            !.active = IF touch THEN now ELSE @]

UpsertSession(p, t, sid, mode, touch, now) ==
  IF Session(p, t) = {}
    THEN [p EXCEPT !.sessions = @ \cup
            {[NewSession(t) EXCEPT !.sid = sid, !.mode = mode,
                                   !.active = IF touch THEN now ELSE 0]}]
    ELSE [p EXCEPT !.sessions =
            {IF r.thread = t THEN Upserted(r, sid, mode, touch, now) ELSE r : r \in @}]

SetPartner(p, t, user) ==
  IF Session(p, t) = {}
    THEN [p EXCEPT !.sessions = @ \cup {[NewSession(t) EXCEPT !.partner = user]}]
    ELSE [p EXCEPT !.sessions =
            {IF r.thread = t THEN [r EXCEPT !.partner = user] ELSE r : r \in @}]

BumpTurn(p, t, now) ==
  IF Session(p, t) = {}
    THEN [p EXCEPT !.sessions = @ \cup {[NewSession(t) EXCEPT !.seq = 1, !.active = now]}]
    ELSE [p EXCEPT !.sessions =
            {IF r.thread = t THEN [r EXCEPT !.seq = @ + 1] ELSE r : r \in @}]

\* The foreign key of transcripts.
SaveRaises(p, t) == Session(p, t) = {}

Save(p, t, sid, data) ==
  [p EXCEPT !.transcripts =
     {r \in @ : r.thread # t} \cup {[thread |-> t, sid |-> sid, data |-> data]}]

Load(p, t, sid) == {r.data : r \in {x \in p.transcripts : x.thread = t /\ x.sid = sid}}
-----------------------------------------------------------------------------
(* ApprovalCoordinator.                                                     *)

Approval(p, a) == {r \in p.approvals : r.id = a}

Create(p, a) ==
  IF Approval(p, a) # {} THEN p
  ELSE [p EXCEPT !.approvals = @ \cup
          {[id |-> a, status |-> "pending", approvers |-> {}, approved |-> Null,
            by |-> Null, scope |-> "once", at |-> Null]}]

SetApprovers(p, a, users) ==
  [p EXCEPT !.approvals = {IF r.id = a THEN [r EXCEPT !.approvers = users] ELSE r : r \in @}]

ApproversOf(p, a) == UNION {r.approvers : r \in Approval(p, a)}

GetPending(p, a) == Approval(p, a) # {}

Resolves(p, a) == \E r \in Approval(p, a) : r.status = "pending"

Resolve(p, a, decision, now) ==
  [p EXCEPT !.approvals =
     {IF r.id = a /\ r.status = "pending"
        THEN [r EXCEPT !.status = IF decision.approved THEN "approved" ELSE "denied",
                       !.approved = decision.approved, !.by = decision.by,
                       !.scope = decision.scope, !.at = now]
        ELSE r : r \in @}]

\* wait() finds the row decided, either at once or when it is notified.
IsDecided(p, a) == \E r \in Approval(p, a) : r.status # "pending"

\* What it returns then.
Waited(p, a) ==
  LET r == CHOOSE x \in Approval(p, a) : TRUE
  IN [approved |-> r.approved, by |-> r.by, scope |-> r.scope]

TimeOut(p, a, now) ==
  Resolve(p, a, [approved |-> FALSE, by |-> "system", scope |-> "once"], now)
-----------------------------------------------------------------------------
(* MaintenanceStore.                                                        *)

StaleApprovals(p, before) == {r \in p.approvals : r.at # Null /\ r.at < before}
StaleSessions(p, before)  == {r \in p.sessions : r.active < before}

\* The transcripts go by ON DELETE CASCADE.
Prune(p, sessionsBefore, approvalsBefore) ==
  LET gone == StaleSessions(p, sessionsBefore)
  IN [p EXCEPT !.approvals = @ \ StaleApprovals(p, approvalsBefore),
               !.sessions = @ \ gone,
               !.transcripts = {r \in @ : \A s \in gone : r.thread # s.thread}]

Pruned(p, sessionsBefore, approvalsBefore) ==
  [approvals |-> Cardinality(StaleApprovals(p, approvalsBefore)),
   sessions  |-> Cardinality(StaleSessions(p, sessionsBefore))]

ClaimsCleanup(p, interval, now) == now - p.maintenance >= interval

ClaimCleanup(p, interval, now) ==
  IF ClaimsCleanup(p, interval, now) THEN [p EXCEPT !.maintenance = now] ELSE p
-----------------------------------------------------------------------------
(* ScheduleStore.                                                           *)

CreateSchedule(p, s, t, next) ==
  [p EXCEPT !.schedules = @ \cup
     {[id |-> s, thread |-> t, next |-> next, lastRun |-> Null, status |-> Null]}]

ListSchedules(p, t) == {r \in p.schedules : r.thread = t}

Deleted(p, s, t) == {r \in p.schedules : r.id = s /\ r.thread = t}

DeleteSchedule(p, s, t) == [p EXCEPT !.schedules = @ \ Deleted(p, s, t)]

Due(p, now)     == {r \in p.schedules : r.next <= now}
Claimed(p, now) == {[id |-> r.id, due |-> r.next] : r \in Due(p, now)}

\* The schedules that were advanced: all that are due, or none if advance(due) raised, as
\* the transaction is rolled back.
ClaimDueSchedules(p, advanced, step) ==
  [p EXCEPT !.schedules =
     {IF r.id \in advanced THEN [r EXCEPT !.next = @ + step[r.id]] ELSE r : r \in @}]

RecordRun(p, s, at, status) ==
  [p EXCEPT !.schedules =
     {IF r.id = s THEN [r EXCEPT !.lastRun = at, !.status = status] ELSE r : r \in @}]
=============================================================================
