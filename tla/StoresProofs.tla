---------------------------- MODULE StoresProofs ----------------------------
(***************************************************************************)
(* Proofs about Stores, for any threads, users, identifiers and number of   *)
(* calls: the tables are the dictionaries, a row for an entry, but for what  *)
(* is apart or strayed.                                                     *)
(***************************************************************************)
EXTENDS Stores, FiniteSetTheorems, TLAPS

IsDict(d) == d = [x \in DOMAIN d |-> d[x]] /\ IsFiniteSet(DOMAIN d)

\* The row of an entry, where it is not the entry itself.
TranscriptRow(t, e) == [thread |-> t, sid |-> e.sid, data |-> e.data]

ApprovalRow(a, e) ==
  IF e.decision = Null
    THEN [id |-> a, status |-> "pending", approvers |-> e.approvers, approved |-> Null,
          by |-> Null, scope |-> "once", at |-> e.at]
    ELSE [id |-> a, status |-> IF e.decision.approved THEN "approved" ELSE "denied",
          approvers |-> e.approvers, approved |-> e.decision.approved,
          by |-> e.decision.by, scope |-> e.decision.scope, at |-> e.at]

Decided == [approved : BOOLEAN, by : Users \cup {"system"}, scope : {"once", "always"}]

SessionOf(t) ==
  [thread : {t}, sid : Sids \cup {Null}, mode : Modes \cup {Null}, active : Int, seq : Int,
   partner : Users \cup {Null}]

TranscriptType == [sid : Sids, data : Data]

\* Where no wait() was cancelled the future is done when the decision is set.
ApprovalType ==
  {x \in [approvers : SUBSET Users, decision : Decided \cup {Null}, at : Int \cup {Null},
          done : BOOLEAN] : x.done <=> x.decision # Null}

IsApprovalRow(r) ==
  r = [id |-> r.id, status |-> r.status, approvers |-> r.approvers, approved |-> r.approved,
       by |-> r.by, scope |-> r.scope, at |-> r.at]

ScheduleOf(s) ==
  [id : {s}, thread : Threads, next : Int, lastRun : Int \cup {Null},
   status : {"ok", "failed", Null}]

AreSessions(d, R) ==
  /\ IsDict(d) /\ \A t \in DOMAIN d : d[t] \in SessionOf(t)
  /\ R = {d[t] : t \in DOMAIN d}

AreTranscripts(d, R) ==
  /\ IsDict(d) /\ \A t \in DOMAIN d : d[t] \in TranscriptType
  /\ R = {TranscriptRow(t, d[t]) : t \in DOMAIN d}

\* Nothing is said of what is in A.
AreApprovals(d, R, A) ==
  /\ IsDict(d) /\ \A a \in DOMAIN d \ A : d[a] \in ApprovalType
  /\ \A r \in R : IsApprovalRow(r)
  /\ {r \in R : r.id \notin A} = {ApprovalRow(a, d[a]) : a \in DOMAIN d \ A}

\* A row and an entry are alike, but for the next run where the schedule is in Z.
AreAlike(r, e, Z) ==
  /\ r.thread = e.thread /\ r.lastRun = e.lastRun /\ r.status = e.status
  /\ r.id \notin Z => r.next = e.next

AreSchedules(d, R, Z) ==
  /\ IsDict(d) /\ DOMAIN d \subseteq ScheduleIds
  /\ \A s \in DOMAIN d : d[s] \in ScheduleOf(s) /\ \E r \in R : r.id = s
  /\ \A r \in R : r.id \in DOMAIN d /\ r \in ScheduleOf(r.id) /\ AreAlike(r, d[r.id], Z)

IsLast(last, maintenance) ==
  /\ last \in Int \cup {Null}
  /\ maintenance = IF last = Null THEN 0 ELSE last

IsMem(m) ==
  m = [sessions |-> m.sessions, transcripts |-> m.transcripts, approvals |-> m.approvals,
       schedules |-> m.schedules, lastCleanup |-> m.lastCleanup]

IsPg(p) ==
  p = [sessions |-> p.sessions, transcripts |-> p.transcripts, approvals |-> p.approvals,
       schedules |-> p.schedules, maintenance |-> p.maintenance]

Inv ==
  /\ IsMem(mem) /\ IsPg(pg)
  /\ now \in Int /\ now >= Start
  /\ AreSessions(mem.sessions, pg.sessions)
  /\ AreTranscripts(mem.transcripts, pg.transcripts)
  /\ AreApprovals(mem.approvals, pg.approvals, apart)
  /\ AreSchedules(mem.schedules, pg.schedules, strayed)
  /\ IsLast(mem.lastCleanup, pg.maintenance)
-----------------------------------------------------------------------------
(* Dictionaries. *)

\* e is d with v put at k, and d without the keys ks.
IsPut(e, d, k, v) ==
  /\ IsDict(e) /\ DOMAIN e = DOMAIN d \cup {k} /\ e[k] = v
  /\ \A x \in DOMAIN d : x # k => e[x] = d[x]

IsWithout(e, d, ks) ==
  IsDict(e) /\ DOMAIN e = DOMAIN d \ ks /\ \A x \in DOMAIN e : e[x] = d[x]

\* Put() of MemoryStore, in those words.
LEMMA PutPuts ==
  ASSUME NEW d, IsDict(d), NEW k, NEW v
  PROVE  IsPut(M!Put(d, k, v), d, k, v)
<1>1. IsFiniteSet(DOMAIN d \cup {k})
  BY FS_AddElement DEF IsDict
<1>2. QED
  BY <1>1 DEF IsDict, M!Put, IsPut

\* Without() of MemoryStore, in those words.
LEMMA WithoutRemoves ==
  ASSUME NEW d, IsDict(d), NEW ks
  PROVE  IsWithout(M!Without(d, ks), d, ks)
<1>1. IsFiniteSet(DOMAIN d \ ks)
  BY FS_Subset DEF IsDict
<1>2. QED
  BY <1>1 DEF IsDict, M!Without, IsWithout
-----------------------------------------------------------------------------
(* Sessions. *)

\* A row put in the dictionary under its thread replaces the table's row of that thread.
LEMMA PutSession ==
  ASSUME NEW d, NEW R, AreSessions(d, R), NEW t, NEW v, v \in SessionOf(t),
         NEW e, IsPut(e, d, t, v)
  PROVE  AreSessions(e, {r \in R : r.thread # t} \cup {v})
<1>1. \A x \in DOMAIN d : d[x].thread = x
  BY DEF AreSessions, SessionOf
<1>2. \A x \in DOMAIN e : e[x] \in SessionOf(x)
  BY DEF AreSessions, IsPut
<1>3. {r \in R : r.thread # t} \cup {v} = {e[x] : x \in DOMAIN e}
  <2>1. ASSUME NEW r \in R, r.thread # t PROVE \E x \in DOMAIN e : r = e[x]
    BY <1>1, <2>1 DEF AreSessions, IsPut
  <2>2. ASSUME NEW x \in DOMAIN e, x # t PROVE e[x] \in R /\ e[x].thread # t
    BY <1>1, <2>2 DEF AreSessions, IsPut
  <2>3. QED
    BY <2>1, <2>2 DEF IsPut
<1>4. QED
  BY <1>2, <1>3 DEF AreSessions, IsPut

\* Rows removed by their keys are the rows removed from the table.
LEMMA WithoutSessions ==
  ASSUME NEW d, NEW R, AreSessions(d, R), NEW ks, NEW gone,
         \A t \in DOMAIN d : d[t] \in gone <=> t \in ks,
         NEW e, IsWithout(e, d, ks)
  PROVE  AreSessions(e, R \ gone)
<1>1. \A x \in DOMAIN e : e[x] \in SessionOf(x)
  BY DEF AreSessions, IsWithout
<1>2. R \ gone = {e[x] : x \in DOMAIN e}
  BY DEF AreSessions, IsWithout
<1>3. QED
  BY <1>1, <1>2 DEF AreSessions, IsWithout

\* The row of a thread that has one, and that no other has its thread.
LEMMA OneSession ==
  ASSUME NEW d, NEW R, AreSessions(d, R), NEW t
  PROVE  /\ t \in DOMAIN d => /\ d[t] \in R /\ d[t].thread = t /\ d[t] \in SessionOf(t)
                             /\ \A r \in R : r.thread = t => r = d[t]
         /\ t \notin DOMAIN d => \A r \in R : r.thread # t
  BY DEF AreSessions, SessionOf

\* A method that writes one row.
LEMMA SessionWritten ==
  ASSUME Inv, NEW t, NEW v, v \in SessionOf(t), NEW e, IsPut(e, mem.sessions, t, v),
         mem' = [mem EXCEPT !.sessions = e],
         pg' = [pg EXCEPT !.sessions = {r \in @ : r.thread # t} \cup {v}],
         UNCHANGED <<now, apart, strayed>>
  PROVE  Inv'
<1>1. AreSessions(e, {r \in pg.sessions : r.thread # t} \cup {v})
  BY PutSession DEF Inv
<1>2. mem'.sessions = e /\ pg'.sessions = {r \in pg.sessions : r.thread # t} \cup {v}
  BY DEF Inv, IsMem, IsPg
<1>3. /\ mem'.transcripts = mem.transcripts /\ pg'.transcripts = pg.transcripts
      /\ mem'.approvals = mem.approvals /\ pg'.approvals = pg.approvals
      /\ mem'.schedules = mem.schedules /\ pg'.schedules = pg.schedules
      /\ mem'.lastCleanup = mem.lastCleanup /\ pg'.maintenance = pg.maintenance
      /\ IsMem(mem)' /\ IsPg(pg)'
  BY DEF Inv, IsMem, IsPg
<1>4. QED
  BY <1>1, <1>2, <1>3 DEF Inv

\* upsert_session() keeps the tables the dictionaries' image: COALESCE keeps what Given does.
LEMMA Upserts ==
  ASSUME Inv, NEW t, NEW sid \in Sids \cup {Null}, NEW mode \in Modes \cup {Null},
         NEW touch \in BOOLEAN, UpsertSession(t, sid, mode, touch)
  PROVE  Inv'
<1> DEFINE old == M!Existing(mem, t)
           v == [old EXCEPT !.sid = M!Given(sid, @), !.mode = M!Given(mode, @),
                            !.active = IF touch THEN now ELSE @]
<1>1. old \in SessionOf(t)
  BY OneSession DEF Inv, M!Existing, SessionOf
<1>2. v \in SessionOf(t)
  BY <1>1 DEF SessionOf, Inv, M!Given
<1>3. IsPut(M!Put(mem.sessions, t, v), mem.sessions, t, v)
  BY PutPuts DEF Inv, AreSessions
<1>4. mem' = [mem EXCEPT !.sessions = M!Put(mem.sessions, t, v)]
  BY DEF UpsertSession, M!UpsertSession
<1>5. pg' = [pg EXCEPT !.sessions = {r \in @ : r.thread # t} \cup {v}]
  <2>1. CASE t \in DOMAIN mem.sessions
    <3>1. old = mem.sessions[t]
      BY <2>1 DEF M!Existing
    <3>2. v = P!Upserted(old, sid, mode, touch, now)
      BY DEF P!Upserted, M!Given, P!Coalesce
    <3>3. P!Session(pg, t) # {}
      BY <2>1, OneSession DEF Inv, P!Session
    <3>4. {IF r.thread = t THEN P!Upserted(r, sid, mode, touch, now) ELSE r :
             r \in pg.sessions}
            = {r \in pg.sessions : r.thread # t} \cup {v}
      BY <2>1, <3>1, <3>2, OneSession DEF Inv
    <3>5. QED
      BY <3>3, <3>4 DEF UpsertSession, P!UpsertSession
  <2>2. CASE t \notin DOMAIN mem.sessions
    <3>1. v = [P!NewSession(t) EXCEPT !.sid = sid, !.mode = mode,
                                      !.active = IF touch THEN now ELSE 0]
      BY <2>2 DEF M!Existing, P!NewSession, M!Given
    <3>2. P!Session(pg, t) = {} /\ {r \in pg.sessions : r.thread # t} = pg.sessions
      BY <2>2, OneSession DEF Inv, P!Session
    <3>3. QED
      BY <3>1, <3>2 DEF UpsertSession, P!UpsertSession
  <2>3. QED
    BY <2>1, <2>2
<1>6. UNCHANGED <<now, apart, strayed>>
  BY DEF UpsertSession, Called, Counted
<1> HIDE DEF v
<1>7. QED
  BY <1>2, <1>3, <1>4, <1>5, <1>6, SessionWritten

\* Two entries put at one key are the second.
LEMMA PutAgain ==
  ASSUME NEW e, NEW d, NEW k, NEW v, NEW w, IsPut(e, d, k, v)
  PROVE  IsPut([e EXCEPT ![k] = w], d, k, w)
  BY DEF IsPut, IsDict

\* To write NULL where it is writes nothing.
LEMMA WrittenAgain ==
  ASSUME NEW t, NEW r \in SessionOf(t), r.sid = Null, r.mode = Null, NEW active
  PROVE  [r EXCEPT !.sid = Null, !.mode = Null, !.active = active] = [r EXCEPT !.active = active]
  BY DEF SessionOf

\* A thread's row before a statement that makes one if need be.
First(t, touch) ==
  IF t \in DOMAIN mem.sessions THEN mem.sessions[t]
  ELSE [P!NewSession(t) EXCEPT !.active = IF touch THEN now ELSE 0]

LEMMA RowMade ==
  ASSUME Inv, NEW t, NEW touch \in BOOLEAN
  PROVE  /\ First(t, touch) \in SessionOf(t)
         /\ \E e : /\ IsPut(e, mem.sessions, t, First(t, touch))
                   /\ M!WithRow(mem, t, touch, now) = [mem EXCEPT !.sessions = e]
<1>1. CASE t \in DOMAIN mem.sessions
  <2>1. IsPut(mem.sessions, mem.sessions, t, mem.sessions[t])
    BY <1>1 DEF Inv, AreSessions, IsPut
  <2>2. mem = [mem EXCEPT !.sessions = mem.sessions]
    BY DEF Inv, IsMem
  <2>3. QED
    BY <1>1, <2>1, <2>2, OneSession DEF Inv, First, M!WithRow
<1>2. CASE t \notin DOMAIN mem.sessions
  <2>1. P!NewSession(t) \in SessionOf(t)
    BY DEF P!NewSession, SessionOf
  <2>2. First(t, touch) \in SessionOf(t)
    BY <1>2, <2>1 DEF First, SessionOf, Inv
  <2>3. [M!Existing(mem, t) EXCEPT !.sid = M!Given(Null, @), !.mode = M!Given(Null, @),
           !.active = IF touch THEN now ELSE @] = First(t, touch)
    <3>1. [M!Existing(mem, t) EXCEPT !.sid = M!Given(Null, @), !.mode = M!Given(Null, @),
             !.active = IF touch THEN now ELSE @]
            = [P!NewSession(t) EXCEPT !.sid = Null, !.mode = Null,
                                      !.active = IF touch THEN now ELSE 0]
      BY <1>2 DEF M!Existing, P!NewSession, M!Given
    <3>2. [P!NewSession(t) EXCEPT !.sid = Null, !.mode = Null,
                                  !.active = IF touch THEN now ELSE 0]
            = [P!NewSession(t) EXCEPT !.active = IF touch THEN now ELSE 0]
      <4>1. P!NewSession(t).sid = Null /\ P!NewSession(t).mode = Null
        BY DEF P!NewSession
      <4>2. QED
        BY <2>1, <4>1, WrittenAgain
    <3>3. QED
      BY <1>2, <3>1, <3>2 DEF First
  <2>4. M!WithRow(mem, t, touch, now)
          = [mem EXCEPT !.sessions = M!Put(mem.sessions, t, First(t, touch))]
    BY <1>2, <2>3 DEF M!WithRow, M!UpsertSession
  <2>5. IsPut(M!Put(mem.sessions, t, First(t, touch)), mem.sessions, t, First(t, touch))
    BY PutPuts DEF Inv, AreSessions
  <2>6. QED
    BY <2>2, <2>4, <2>5
<1>3. QED
  BY <1>1, <1>2

\* set_partner() keeps it, with a row for the thread or without.
LEMMA Partners ==
  ASSUME Inv, NEW t, NEW user \in Users \cup {Null}, SetPartner(t, user)
  PROVE  Inv'
<1> DEFINE old == First(t, FALSE)
           v == [old EXCEPT !.partner = user]
<1>1. v \in SessionOf(t)
  <2>1. old \in SessionOf(t)
    BY RowMade
  <2> HIDE DEF old
  <2>2. QED
    BY <2>1 DEF SessionOf
<1>2. PICK e : /\ IsPut(e, mem.sessions, t, old)
               /\ M!WithRow(mem, t, FALSE, now) = [mem EXCEPT !.sessions = e]
  BY RowMade
<1>3. mem' = [mem EXCEPT !.sessions = [e EXCEPT ![t] = v]]
  <2>1. e[t] = old
    BY <1>2 DEF IsPut
  <2>2. mem' = [[mem EXCEPT !.sessions = e] EXCEPT !.sessions[t].partner = user]
    BY <1>2 DEF SetPartner, M!SetPartner
  <2> HIDE DEF old
  <2>3. QED
    BY <2>1, <2>2 DEF Inv, IsMem
<1>4. IsPut([e EXCEPT ![t] = v], mem.sessions, t, v)
  BY <1>2, PutAgain
<1>5. pg' = [pg EXCEPT !.sessions = {r \in @ : r.thread # t} \cup {v}]
  <2>1. CASE t \in DOMAIN mem.sessions
    <3>1. old = mem.sessions[t]
      BY <2>1 DEF First
    <3>2. P!Session(pg, t) # {}
      BY <2>1, OneSession DEF Inv, P!Session
    <3>3. {IF r.thread = t THEN [r EXCEPT !.partner = user] ELSE r : r \in pg.sessions}
            = {r \in pg.sessions : r.thread # t} \cup {v}
      <4>1. /\ old \in pg.sessions /\ old.thread = t
            /\ \A r \in pg.sessions : r.thread = t => r = old
        <5>1. AreSessions(mem.sessions, pg.sessions)
          BY DEF Inv
        <5> HIDE DEF old
        <5>2. QED
          BY <2>1, <3>1, <5>1, OneSession
      <4> DEFINE U(r) == [r EXCEPT !.partner = user]
      <4>2. v = U(old)
        OBVIOUS
      <4> HIDE DEF U, v, old
      <4>3. {IF r.thread = t THEN U(r) ELSE r : r \in pg.sessions}
              = {r \in pg.sessions : r.thread # t} \cup {v}
        BY <4>1, <4>2
      <4>4. QED
        BY <4>3 DEF U
    <3>4. QED
      BY <3>2, <3>3 DEF SetPartner, P!SetPartner
  <2>2. CASE t \notin DOMAIN mem.sessions
    <3>1. v = [P!NewSession(t) EXCEPT !.partner = user]
      <4>1. old = P!NewSession(t)
        BY <2>2 DEF First, P!NewSession
      <4>2. QED
        BY <4>1
    <3>2. P!Session(pg, t) = {} /\ {r \in pg.sessions : r.thread # t} = pg.sessions
      BY <2>2, OneSession DEF Inv, P!Session
    <3>3. QED
      BY <3>1, <3>2 DEF SetPartner, P!SetPartner
  <2>3. QED
    BY <2>1, <2>2
<1>6. UNCHANGED <<now, apart, strayed>>
  BY DEF SetPartner, Called, Counted
<1> HIDE DEF v
<1>7. QED
  BY <1>1, <1>3, <1>4, <1>5, <1>6, SessionWritten

\* bump_turn() keeps it, with a row for the thread or without.
LEMMA Bumps ==
  ASSUME Inv, NEW t, BumpTurn(t)
  PROVE  Inv'
<1> DEFINE old == First(t, TRUE)
           v == [old EXCEPT !.seq = @ + 1]
<1>1. v \in SessionOf(t)
  <2>1. old \in SessionOf(t)
    BY RowMade
  <2> HIDE DEF old
  <2>2. QED
    BY <2>1 DEF SessionOf
<1>2. PICK e : /\ IsPut(e, mem.sessions, t, old)
               /\ M!WithRow(mem, t, TRUE, now) = [mem EXCEPT !.sessions = e]
  BY RowMade
<1>3. mem' = [mem EXCEPT !.sessions = [e EXCEPT ![t] = v]]
  <2>1. e[t] = old
    BY <1>2 DEF IsPut
  <2>2. mem' = [[mem EXCEPT !.sessions = e] EXCEPT !.sessions[t].seq = @ + 1]
    BY <1>2 DEF BumpTurn, M!BumpTurn
  <2> HIDE DEF old
  <2>3. QED
    BY <2>1, <2>2 DEF Inv, IsMem
<1>4. IsPut([e EXCEPT ![t] = v], mem.sessions, t, v)
  BY <1>2, PutAgain
<1>5. pg' = [pg EXCEPT !.sessions = {r \in @ : r.thread # t} \cup {v}]
  <2>1. CASE t \in DOMAIN mem.sessions
    <3>1. old = mem.sessions[t]
      BY <2>1 DEF First
    <3>2. P!Session(pg, t) # {}
      BY <2>1, OneSession DEF Inv, P!Session
    <3>3. {IF r.thread = t THEN [r EXCEPT !.seq = @ + 1] ELSE r : r \in pg.sessions}
            = {r \in pg.sessions : r.thread # t} \cup {v}
      <4>1. /\ old \in pg.sessions /\ old.thread = t
            /\ \A r \in pg.sessions : r.thread = t => r = old
        <5>1. AreSessions(mem.sessions, pg.sessions)
          BY DEF Inv
        <5> HIDE DEF old
        <5>2. QED
          BY <2>1, <3>1, <5>1, OneSession
      <4> DEFINE U(r) == [r EXCEPT !.seq = @ + 1]
      <4>2. v = U(old)
        OBVIOUS
      <4> HIDE DEF U, v, old
      <4>3. {IF r.thread = t THEN U(r) ELSE r : r \in pg.sessions}
              = {r \in pg.sessions : r.thread # t} \cup {v}
        BY <4>1, <4>2
      <4>4. QED
        BY <4>3 DEF U
    <3>4. QED
      BY <3>2, <3>3 DEF BumpTurn, P!BumpTurn
  <2>2. CASE t \notin DOMAIN mem.sessions
    <3>1. v = [P!NewSession(t) EXCEPT !.seq = 1, !.active = now]
      <4>1. old = [P!NewSession(t) EXCEPT !.active = now]
        BY <2>2 DEF First
      <4> HIDE DEF old
      <4>2. old = [thread |-> t, sid |-> Null, mode |-> Null, active |-> now, seq |-> 0,
                   partner |-> Null]
        BY <4>1 DEF P!NewSession
      <4>3. v = [thread |-> t, sid |-> Null, mode |-> Null, active |-> now, seq |-> 1,
                 partner |-> Null]
        BY <4>2
      <4> HIDE DEF v
      <4>4. PICK w : w = [P!NewSession(t) EXCEPT !.seq = 1, !.active = now]
        OBVIOUS
      <4>5. v = w
        BY <4>3, <4>4 DEF P!NewSession
      <4>6. QED
        BY <4>4, <4>5
    <3>2. P!Session(pg, t) = {} /\ {r \in pg.sessions : r.thread # t} = pg.sessions
      BY <2>2, OneSession DEF Inv, P!Session
    <3>3. QED
      BY <3>1, <3>2 DEF BumpTurn, P!BumpTurn
  <2>3. QED
    BY <2>1, <2>2
<1>6. UNCHANGED <<now, apart, strayed>>
  BY DEF BumpTurn, Called, Counted
<1> HIDE DEF v
<1>7. QED
  BY <1>1, <1>3, <1>4, <1>5, <1>6, SessionWritten
-----------------------------------------------------------------------------
(* Transcripts. *)

\* What a transcript's row holds of its entry.
LEMMA TranscriptFields ==
  ASSUME NEW t, NEW x
  PROVE  /\ TranscriptRow(t, x).thread = t /\ TranscriptRow(t, x).sid = x.sid
         /\ TranscriptRow(t, x).data = x.data
  BY DEF TranscriptRow

\* save() keeps it, and raises in both or in neither.
LEMMA Saves ==
  ASSUME Inv, NEW t, NEW sid \in Sids, NEW data \in Data, Save(t, sid, data)
  PROVE  Inv'
<1>1. M!SaveRaises(mem, t) <=> P!SaveRaises(pg, t)
  BY OneSession DEF Inv, M!SaveRaises, P!SaveRaises, P!Session
<1>2. CASE M!SaveRaises(mem, t)
  BY <1>1, <1>2 DEF Save, Called, Counted, Inv
<1>3. CASE ~ M!SaveRaises(mem, t)
  <2> DEFINE v == [sid |-> sid, data |-> data]
             d == mem.transcripts
             e == M!Put(d, t, v)
             R == {r \in pg.transcripts : r.thread # t} \cup {TranscriptRow(t, v)}
  <2>1. v \in TranscriptType
    BY DEF TranscriptType
  <2>2. IsPut(e, d, t, v)
    BY PutPuts DEF Inv, AreTranscripts
  <2>3. mem' = [mem EXCEPT !.transcripts = e] /\ pg' = [pg EXCEPT !.transcripts = R]
    BY <1>1, <1>3 DEF Save, M!Save, P!Save, TranscriptRow
  <2>4. AreTranscripts(d, pg.transcripts)
    BY DEF Inv
  <2> HIDE DEF v, d, e
  <2>5. \A x \in DOMAIN e : e[x] \in TranscriptType
    BY <2>1, <2>2, <2>4 DEF AreTranscripts, IsPut
  <2>6. R = {TranscriptRow(x, e[x]) : x \in DOMAIN e}
    <3>1. ASSUME NEW r \in pg.transcripts, r.thread # t
          PROVE  \E x \in DOMAIN e : r = TranscriptRow(x, e[x])
      BY <2>2, <2>4, <3>1, TranscriptFields DEF AreTranscripts, IsPut
    <3>2. ASSUME NEW x \in DOMAIN e, x # t
          PROVE  TranscriptRow(x, e[x]) \in pg.transcripts
      BY <2>2, <2>4, <3>2 DEF AreTranscripts, IsPut
    <3>3. QED
      BY <2>2, <3>1, <3>2, TranscriptFields DEF IsPut
  <2>7. AreTranscripts(e, R)
    BY <2>2, <2>5, <2>6 DEF AreTranscripts, IsPut
  <2>8. /\ mem'.transcripts = e /\ pg'.transcripts = R
        /\ mem'.sessions = mem.sessions /\ pg'.sessions = pg.sessions
        /\ mem'.approvals = mem.approvals /\ pg'.approvals = pg.approvals
        /\ mem'.schedules = mem.schedules /\ pg'.schedules = pg.schedules
        /\ mem'.lastCleanup = mem.lastCleanup /\ pg'.maintenance = pg.maintenance
        /\ IsMem(mem)' /\ IsPg(pg)'
    <3> HIDE DEF R
    <3>1. QED
      BY <2>3 DEF Inv, IsMem, IsPg
  <2> HIDE DEF R
  <2>9. QED
    BY <2>7, <2>8 DEF Inv, Save, Called, Counted
<1>4. QED
  BY <1>2, <1>3
-----------------------------------------------------------------------------
(* Approvals. *)

\* The row of an approval is found under its identifier.
LEMMA ApprovalId == ASSUME NEW a, NEW x PROVE ApprovalRow(a, x).id = a
  BY DEF ApprovalRow

\* What an approval's row holds of its entry: decided where a decision is set.
LEMMA ApprovalFields ==
  ASSUME NEW a, NEW x \in ApprovalType
  PROVE  /\ ApprovalRow(a, x).id = a /\ ApprovalRow(a, x).approvers = x.approvers
         /\ ApprovalRow(a, x).at = x.at /\ IsApprovalRow(ApprovalRow(a, x))
         /\ ApprovalRow(a, x).status = "pending" <=> x.decision = Null
         /\ x.decision # Null =>
              [approved |-> ApprovalRow(a, x).approved, by |-> ApprovalRow(a, x).by,
               scope |-> ApprovalRow(a, x).scope] = x.decision
<1>1. CASE x.decision = Null
  BY <1>1 DEF ApprovalRow, IsApprovalRow
<1>2. CASE x.decision # Null
  <2>1. x.decision \in Decided
    BY <1>2 DEF ApprovalType
  <2>2. QED
    BY <1>2, <2>1 DEF ApprovalRow, Decided, IsApprovalRow
<1>3. QED
  BY <1>1, <1>2

\* An approval's row, and that no other has its identifier.
LEMMA OneApproval ==
  ASSUME NEW d, NEW R, NEW A, AreApprovals(d, R, A), NEW a, a \notin A
  PROVE  /\ a \in DOMAIN d => /\ d[a] \in ApprovalType /\ ApprovalRow(a, d[a]) \in R
                             /\ \A r \in R : r.id = a => r = ApprovalRow(a, d[a])
         /\ a \notin DOMAIN d => \A r \in R : r.id # a
  BY ApprovalId DEF AreApprovals

\* An entry put under its identifier replaces the table's row of that identifier.
LEMMA PutApproval ==
  ASSUME NEW d, NEW R, NEW A, AreApprovals(d, R, A), NEW a, a \notin A,
         NEW v \in ApprovalType, NEW e, IsPut(e, d, a, v)
  PROVE  AreApprovals(e, {r \in R : r.id # a} \cup {ApprovalRow(a, v)}, A)
<1> DEFINE S == {r \in R : r.id # a} \cup {ApprovalRow(a, v)}
<1>1. \A x \in DOMAIN e \ A : e[x] \in ApprovalType
  BY DEF AreApprovals, IsPut
<1>2. {r \in S : r.id \notin A} = {ApprovalRow(x, e[x]) : x \in DOMAIN e \ A}
  <2>1. ASSUME NEW r \in R, r.id # a, r.id \notin A
        PROVE  \E x \in DOMAIN e \ A : r = ApprovalRow(x, e[x])
    <3>1. PICK x \in DOMAIN d \ A : r = ApprovalRow(x, d[x])
      BY <2>1 DEF AreApprovals
    <3>2. x # a
      BY <2>1, <3>1, ApprovalId
    <3>3. QED
      BY <3>1, <3>2 DEF IsPut
  <2>2. ASSUME NEW x \in DOMAIN e \ A, x # a
        PROVE  ApprovalRow(x, e[x]) \in R /\ ApprovalRow(x, e[x]).id # a
    <3>1. x \in DOMAIN d \ A /\ e[x] = d[x]
      BY <2>2 DEF IsPut
    <3>2. QED
      BY <2>2, <3>1, ApprovalId DEF AreApprovals
  <2>3. a \in DOMAIN e /\ e[a] = v
    BY DEF IsPut
  <2>4. QED
    BY <2>1, <2>2, <2>3, ApprovalId
<1>3. \A r \in S : IsApprovalRow(r)
  <2>1. IsApprovalRow(ApprovalRow(a, v))
    BY ApprovalFields
  <2>2. QED
    BY <2>1 DEF AreApprovals
<1> HIDE DEF S
<1>4. AreApprovals(e, S, A)
  BY <1>1, <1>2, <1>3 DEF AreApprovals, IsPut
<1>5. QED
  BY <1>4 DEF S

\* Once an approval is apart it does not matter what is made of its entry and its row.
LEMMA PartsApproval ==
  ASSUME NEW d, NEW R, NEW A, AreApprovals(d, R, A), NEW a, NEW e, IsDict(e),
         \A x : x # a => (x \in DOMAIN e <=> x \in DOMAIN d),
         \A x \in DOMAIN d : x # a => e[x] = d[x],
         NEW S, \A r \in S : IsApprovalRow(r),
         \A r : r.id # a => (r \in S <=> r \in R)
  PROVE  AreApprovals(e, S, A \cup {a})
<1> DEFINE B == A \cup {a}
<1>1. \A x \in DOMAIN e \ B : x \in DOMAIN d \ A /\ e[x] = d[x]
  OBVIOUS
<1>2. \A x \in DOMAIN e \ B : e[x] \in ApprovalType
  BY <1>1 DEF AreApprovals
<1>3. ASSUME NEW r \in S, r.id \notin B
      PROVE  \E x \in DOMAIN e \ B : r = ApprovalRow(x, e[x])
  <2>1. PICK x \in DOMAIN d \ A : r = ApprovalRow(x, d[x])
    BY <1>3 DEF AreApprovals
  <2>2. x = r.id
    BY <2>1, ApprovalId
  <2>3. QED
    BY <1>3, <2>1, <2>2
<1>4. ASSUME NEW x \in DOMAIN e \ B
      PROVE  ApprovalRow(x, e[x]) \in S /\ ApprovalRow(x, e[x]).id \notin B
  <2>1. ApprovalRow(x, d[x]) \in R /\ ApprovalRow(x, d[x]).id = x
    BY <1>1, ApprovalId DEF AreApprovals
  <2>2. QED
    BY <1>1, <2>1
<1>5. {r \in S : r.id \notin B} = {ApprovalRow(x, e[x]) : x \in DOMAIN e \ B}
  BY <1>3, <1>4
<1>6. QED
  BY <1>2, <1>5 DEF AreApprovals

\* A method that writes approvals.
LEMMA ApprovalsWritten ==
  ASSUME Inv, NEW e, NEW S, AreApprovals(e, S, apart'), mem' = [mem EXCEPT !.approvals = e],
         pg' = [pg EXCEPT !.approvals = S], UNCHANGED <<now, strayed>>
  PROVE  Inv'
<1>1. /\ mem'.approvals = e /\ pg'.approvals = S
      /\ mem'.transcripts = mem.transcripts /\ pg'.transcripts = pg.transcripts
      /\ mem'.sessions = mem.sessions /\ pg'.sessions = pg.sessions
      /\ mem'.schedules = mem.schedules /\ pg'.schedules = pg.schedules
      /\ mem'.lastCleanup = mem.lastCleanup /\ pg'.maintenance = pg.maintenance
      /\ IsMem(mem)' /\ IsPg(pg)'
  BY DEF Inv, IsMem, IsPg
<1>2. QED
  BY <1>1 DEF Inv

\* A method that writes one approval that is not apart.
LEMMA ApprovalWritten ==
  ASSUME Inv, NEW a, a \notin apart, NEW v \in ApprovalType,
         NEW e, IsPut(e, mem.approvals, a, v),
         mem' = [mem EXCEPT !.approvals = e],
         pg' = [pg EXCEPT !.approvals = {r \in @ : r.id # a} \cup {ApprovalRow(a, v)}],
         UNCHANGED <<now, apart, strayed>>
  PROVE  Inv'
<1> DEFINE S == {r \in pg.approvals : r.id # a} \cup {ApprovalRow(a, v)}
<1>1. AreApprovals(e, S, apart)
  BY PutApproval DEF Inv
<1>2. pg' = [pg EXCEPT !.approvals = S]
  OBVIOUS
<1> HIDE DEF S
<1>3. QED
  BY <1>1, <1>2, ApprovalsWritten

\* A method that writes one approval that is apart from now on, if it was not before.
LEMMA ApartWritten ==
  ASSUME Inv, NEW a, apart' = apart \cup {a}, UNCHANGED <<now, strayed>>,
         NEW e, IsDict(e), mem' = [mem EXCEPT !.approvals = e],
         \A x : x # a => (x \in DOMAIN e <=> x \in DOMAIN mem.approvals),
         \A x \in DOMAIN mem.approvals : x # a => e[x] = mem.approvals[x],
         NEW S, \A r \in S : IsApprovalRow(r), pg' = [pg EXCEPT !.approvals = S],
         \A r : r.id # a => (r \in S <=> r \in pg.approvals)
  PROVE  Inv'
<1>1. AreApprovals(e, S, apart \cup {a})
  BY PartsApproval DEF Inv
<1>2. QED
  BY <1>1, ApprovalsWritten

\* Tables and dictionaries rewritten as they are.
LEMMA Rewritten ==
  ASSUME Inv
  PROVE  mem = [mem EXCEPT !.approvals = mem.approvals]
         /\ pg = [pg EXCEPT !.approvals = pg.approvals]
  BY DEF Inv, IsMem, IsPg

\* create() keeps it; a second call with the identifier writes nothing in either store.
LEMMA Creates ==
  ASSUME Inv, NEW a, Create(a)
  PROVE  Inv'
<1>a. CASE a \in apart
  <2> DEFINE e == IF a \in DOMAIN mem.approvals THEN mem.approvals
                  ELSE M!Put(mem.approvals, a, M!NewApproval)
             new == [id |-> a, status |-> "pending", approvers |-> {}, approved |-> Null,
                     by |-> Null, scope |-> "once", at |-> Null]
             S == IF P!Approval(pg, a) # {} THEN pg.approvals ELSE pg.approvals \cup {new}
  <2>1. mem' = [mem EXCEPT !.approvals = e] /\ pg' = [pg EXCEPT !.approvals = S]
    BY Rewritten DEF Create, M!Create, P!Create
  <2>2. IsDict(mem.approvals) /\ \A r \in pg.approvals : IsApprovalRow(r)
    BY DEF Inv, AreApprovals
  <2>3. /\ IsDict(e)
        /\ \A x : x # a => (x \in DOMAIN e <=> x \in DOMAIN mem.approvals)
        /\ \A x \in DOMAIN mem.approvals : x # a => e[x] = mem.approvals[x]
    <3>1. IsPut(M!Put(mem.approvals, a, M!NewApproval), mem.approvals, a, M!NewApproval)
      BY <2>2, PutPuts
    <3>2. QED
      BY <2>2, <3>1 DEF IsPut
  <2>4. \A r \in S : IsApprovalRow(r)
    BY <2>2 DEF IsApprovalRow
  <2>5. \A r : r.id # a => (r \in S <=> r \in pg.approvals)
    OBVIOUS
  <2>6. apart' = apart \cup {a} /\ UNCHANGED <<now, strayed>>
    BY <1>a DEF Create, Called, Counted
  <2> HIDE DEF e, S
  <2>7. QED
    BY <2>1, <2>3, <2>4, <2>5, <2>6, ApartWritten
<1>1. ASSUME a \notin apart PROVE P!Approval(pg, a) # {} <=> a \in DOMAIN mem.approvals
  BY <1>1, OneApproval, ApprovalId DEF Inv, P!Approval
<1>2. CASE a \notin apart /\ a \in DOMAIN mem.approvals
  BY <1>1, <1>2 DEF Create, M!Create, P!Create, Called, Counted, Inv
<1>3. CASE a \notin apart /\ a \notin DOMAIN mem.approvals
  <2> DEFINE v == M!NewApproval
  <2>1. v \in ApprovalType
    BY NullAssumption DEF M!NewApproval, ApprovalType
  <2>2. IsPut(M!Put(mem.approvals, a, v), mem.approvals, a, v)
    BY PutPuts DEF Inv, AreApprovals
  <2>3. mem' = [mem EXCEPT !.approvals = M!Put(mem.approvals, a, v)]
    BY <1>3 DEF Create, M!Create
  <2>4. ApprovalRow(a, v) = [id |-> a, status |-> "pending", approvers |-> {},
                             approved |-> Null, by |-> Null, scope |-> "once", at |-> Null]
    BY DEF ApprovalRow, M!NewApproval
  <2>5. {r \in pg.approvals : r.id # a} = pg.approvals
    BY <1>3, OneApproval DEF Inv
  <2>6. pg' = [pg EXCEPT !.approvals = {r \in @ : r.id # a} \cup {ApprovalRow(a, v)}]
    BY <1>1, <1>3, <2>4, <2>5 DEF Create, P!Create
  <2> HIDE DEF v
  <2>7. QED
    BY <1>3, <2>1, <2>2, <2>3, <2>6, ApprovalWritten DEF Create, Called, Counted
<1>4. QED
  BY <1>a, <1>2, <1>3

\* set_approvers() keeps it.
LEMMA SetsApprovers ==
  ASSUME Inv, NEW a, NEW users \in SUBSET Users, SetApprovers(a, users)
  PROVE  Inv'
<1> DEFINE U(r) == [r EXCEPT !.approvers = users]
<1>1. pg' = [pg EXCEPT !.approvals = {IF r.id = a THEN U(r) ELSE r : r \in @}]
  BY DEF SetApprovers, P!SetApprovers
<1> HIDE DEF U
<1>a. CASE a \in apart
  <2> DEFINE v == [mem.approvals[a] EXCEPT !.approvers = users]
             e == IF a \in DOMAIN mem.approvals THEN [mem.approvals EXCEPT ![a] = v]
                  ELSE mem.approvals
             S == {IF r.id = a THEN U(r) ELSE r : r \in pg.approvals}
  <2>1. mem' = [mem EXCEPT !.approvals = e]
    BY Rewritten DEF SetApprovers, M!SetApprovers
  <2>2. IsDict(e)
    BY DEF Inv, AreApprovals, IsDict
  <2>3. \A r \in pg.approvals : IsApprovalRow(U(r)) /\ U(r).id = r.id
    BY DEF U, Inv, AreApprovals, IsApprovalRow
  <2>4. \A r \in S : IsApprovalRow(r)
    BY <2>3 DEF Inv, AreApprovals
  <2>5. \A r : r.id # a => (r \in S <=> r \in pg.approvals)
    BY <2>3
  <2>6. apart' = apart \cup {a} /\ UNCHANGED <<now, strayed>>
    BY <1>a DEF SetApprovers, Called, Counted
  <2>7. /\ \A x : x # a => (x \in DOMAIN e <=> x \in DOMAIN mem.approvals)
        /\ \A x \in DOMAIN mem.approvals : x # a => e[x] = mem.approvals[x]
    OBVIOUS
  <2>8. pg' = [pg EXCEPT !.approvals = S]
    BY <1>1
  <2> HIDE DEF e, S
  <2>9. QED
    BY <2>1, <2>2, <2>4, <2>5, <2>6, <2>7, <2>8, ApartWritten
<1>2. CASE a \notin apart /\ a \notin DOMAIN mem.approvals
  <2>1. \A r \in pg.approvals : r.id # a
    BY <1>2, OneApproval DEF Inv
  <2>2. {IF r.id = a THEN U(r) ELSE r : r \in pg.approvals} = pg.approvals
    BY <2>1
  <2>3. pg' = pg
    BY <1>1, <2>2 DEF Inv, IsPg
  <2>4. QED
    BY <1>2, <2>3 DEF SetApprovers, M!SetApprovers, Called, Counted, Inv
<1>3. CASE a \notin apart /\ a \in DOMAIN mem.approvals
  <2> DEFINE old == mem.approvals[a]
             v == [old EXCEPT !.approvers = users]
             e == [mem.approvals EXCEPT ![a] = v]
  <2>1. old \in ApprovalType /\ v \in ApprovalType
    BY <1>3, OneApproval DEF Inv, ApprovalType
  <2>2. IsPut(e, mem.approvals, a, v)
    BY <1>3 DEF Inv, AreApprovals, IsDict, IsPut
  <2>3. mem' = [mem EXCEPT !.approvals = e]
    BY <1>3 DEF SetApprovers, M!SetApprovers
  <2>4. U(ApprovalRow(a, old)) = ApprovalRow(a, v)
    <3> USE DEF U
    <3>1. v.decision = old.decision /\ v.at = old.at /\ v.approvers = users
      BY <2>1 DEF ApprovalType
    <3>2. PICK w : w = U(ApprovalRow(a, old))
      OBVIOUS
    <3> HIDE DEF old, v
    <3>3. w = ApprovalRow(a, v)
      <4>1. CASE old.decision = Null
        BY <3>1, <3>2, <4>1 DEF ApprovalRow
      <4>2. CASE old.decision # Null
        BY <3>1, <3>2, <4>2 DEF ApprovalRow
      <4>3. QED
        BY <4>1, <4>2
    <3>4. QED
      BY <3>2, <3>3
  <2>5. {IF r.id = a THEN U(r) ELSE r : r \in pg.approvals}
          = {r \in pg.approvals : r.id # a} \cup {ApprovalRow(a, v)}
    <3>1. /\ ApprovalRow(a, old) \in pg.approvals
          /\ \A r \in pg.approvals : r.id = a => r = ApprovalRow(a, old)
      BY <1>3, OneApproval DEF Inv
    <3>2. ApprovalRow(a, old).id = a
      BY ApprovalId
    <3> HIDE DEF old, v
    <3>3. QED
      BY <2>4, <3>1, <3>2
  <2>6. pg' = [pg EXCEPT !.approvals = {r \in @ : r.id # a} \cup {ApprovalRow(a, v)}]
    BY <1>1, <2>5
  <2> HIDE DEF v, e
  <2>7. QED
    BY <1>3, <2>1, <2>2, <2>3, <2>6, ApprovalWritten
    DEF SetApprovers, Called, Counted
<1>4. QED
  BY <1>a, <1>2, <1>3

\* Of an approval that is not apart both stores decide what is pending and nothing else.
LEMMA DecidesPending ==
  ASSUME Inv, NEW a, a \notin apart, NEW d \in Decided, pg' = P!Resolve(pg, a, d, now),
         UNCHANGED <<now, apart, strayed>>,
         \/ a \in DOMAIN mem.approvals /\ mem.approvals[a].decision = Null
            /\ mem' = M!Decide(mem, a, d, now)
         \/ ~ (a \in DOMAIN mem.approvals /\ mem.approvals[a].decision = Null) /\ mem' = mem
  PROVE  Inv'
<1> DEFINE U(r) == [r EXCEPT !.status = IF d.approved THEN "approved" ELSE "denied",
                             !.approved = d.approved, !.by = d.by, !.scope = d.scope,
                             !.at = now]
<1>1. pg' = [pg EXCEPT !.approvals =
               {IF r.id = a /\ r.status = "pending" THEN U(r) ELSE r : r \in @}]
  BY DEF P!Resolve
<1>2. d # Null
  BY NullAssumption DEF Decided
<1>3. CASE ~ (a \in DOMAIN mem.approvals /\ mem.approvals[a].decision = Null)
  <2>1. \A r \in pg.approvals : ~ (r.id = a /\ r.status = "pending")
    <3>1. ASSUME NEW r \in pg.approvals, r.id = a PROVE r.status # "pending"
      <4>1. a \in DOMAIN mem.approvals /\ r = ApprovalRow(a, mem.approvals[a])
            /\ mem.approvals[a] \in ApprovalType
        BY <3>1, OneApproval DEF Inv
      <4>2. QED
        BY <1>3, <4>1, ApprovalFields
    <3>2. QED
      BY <3>1
  <2> HIDE DEF U
  <2>2. {IF r.id = a /\ r.status = "pending" THEN U(r) ELSE r : r \in pg.approvals}
          = pg.approvals
    BY <2>1
  <2>3. pg' = pg
    BY <1>1, <2>2 DEF Inv, IsPg
  <2>4. QED
    BY <1>3, <2>3 DEF Inv
<1>4. CASE a \in DOMAIN mem.approvals /\ mem.approvals[a].decision = Null
  <2> DEFINE old == mem.approvals[a]
             v == M!Settled(old, d, now)
             e == [mem.approvals EXCEPT ![a] = v]
  <2>1. old \in ApprovalType /\ v \in ApprovalType
    <3>1. old \in ApprovalType /\ now \in Int
      BY <1>4, OneApproval DEF Inv
    <3> HIDE DEF old
    <3>2. QED
      BY <1>2, <3>1 DEF ApprovalType, M!Settled
  <2>2. IsPut(e, mem.approvals, a, v)
    BY <1>4 DEF Inv, AreApprovals, IsDict, IsPut
  <2>3. mem' = [mem EXCEPT !.approvals = e]
    BY <1>4 DEF M!Decide
  <2>4. U(ApprovalRow(a, old)) = ApprovalRow(a, v)
    <3>1. v.decision = d /\ v.at = now /\ v.approvers = old.approvers /\ old.decision = Null
      BY <1>4, <2>1 DEF ApprovalType, M!Settled
    <3>2. PICK w : w = U(ApprovalRow(a, old))
      OBVIOUS
    <3> HIDE DEF old, v
    <3>3. w = [id |-> a, status |-> IF d.approved THEN "approved" ELSE "denied",
               approvers |-> old.approvers, approved |-> d.approved, by |-> d.by,
               scope |-> d.scope, at |-> now]
      BY <3>1, <3>2 DEF ApprovalRow
    <3>4. w = ApprovalRow(a, v)
      BY <1>2, <3>1, <3>3 DEF ApprovalRow
    <3>5. QED
      BY <3>2, <3>4
  <2>5. {IF r.id = a /\ r.status = "pending" THEN U(r) ELSE r : r \in pg.approvals}
          = {r \in pg.approvals : r.id # a} \cup {ApprovalRow(a, v)}
    <3>1. /\ ApprovalRow(a, old) \in pg.approvals
          /\ \A r \in pg.approvals : r.id = a => r = ApprovalRow(a, old)
      BY <1>4, OneApproval DEF Inv
    <3>2. ApprovalRow(a, old).id = a /\ ApprovalRow(a, old).status = "pending"
      BY <1>4, <2>1, ApprovalId, ApprovalFields
    <3> HIDE DEF U, old, v
    <3>3. QED
      BY <2>4, <3>1, <3>2
  <2>6. pg' = [pg EXCEPT !.approvals = {r \in @ : r.id # a} \cup {ApprovalRow(a, v)}]
    BY <1>1, <2>5
  <2> HIDE DEF v, e
  <2>7. QED
    BY <2>1, <2>2, <2>3, <2>6, ApprovalWritten
<1>5. QED
  BY <1>3, <1>4

\* resolve() in the table rewrites rows of a only.
LEMMA ResolvesInTable ==
  ASSUME Inv, NEW a, NEW d \in Decided
  PROVE  \E S : /\ P!Resolve(pg, a, d, now) = [pg EXCEPT !.approvals = S]
                /\ \A r \in S : IsApprovalRow(r)
                /\ \A r : r.id # a => (r \in S <=> r \in pg.approvals)
<1> DEFINE U(r) == [r EXCEPT !.status = IF d.approved THEN "approved" ELSE "denied",
                             !.approved = d.approved, !.by = d.by, !.scope = d.scope,
                             !.at = now]
           S == {IF r.id = a /\ r.status = "pending" THEN U(r) ELSE r : r \in pg.approvals}
<1>1. P!Resolve(pg, a, d, now) = [pg EXCEPT !.approvals = S]
  BY DEF P!Resolve
<1>2. ASSUME NEW r \in pg.approvals PROVE IsApprovalRow(U(r)) /\ U(r).id = r.id
  <2>1. r = [id |-> r.id, status |-> r.status, approvers |-> r.approvers,
             approved |-> r.approved, by |-> r.by, scope |-> r.scope, at |-> r.at]
    BY DEF Inv, AreApprovals, IsApprovalRow
  <2>2. PICK w : w = U(r)
    OBVIOUS
  <2>3. w = [id |-> r.id, status |-> IF d.approved THEN "approved" ELSE "denied",
             approvers |-> r.approvers, approved |-> d.approved, by |-> d.by,
             scope |-> d.scope, at |-> now]
    BY <2>1, <2>2
  <2>4. IsApprovalRow(w) /\ w.id = r.id
    BY <2>3 DEF IsApprovalRow
  <2>5. QED
    BY <2>2, <2>4
<1> HIDE DEF U
<1>3. \A r \in S : IsApprovalRow(r)
  BY <1>2 DEF Inv, AreApprovals
<1>4. \A r : r.id # a => (r \in S <=> r \in pg.approvals)
  BY <1>2
<1>5. QED
  BY <1>1, <1>3, <1>4

\* A decision, or the cancelled wait(), in memory rewrites the entry of a only.
LEMMA DecidesInMemory ==
  ASSUME Inv, NEW a, a \in DOMAIN mem.approvals, NEW m,
         \/ m = mem
         \/ \E d : m = M!Decide(mem, a, d, now)
         \/ m = [mem EXCEPT !.approvals[a].done = TRUE]
  PROVE  \E e : /\ m = [mem EXCEPT !.approvals = e] /\ IsDict(e)
                /\ DOMAIN e = DOMAIN mem.approvals
                /\ \A x \in DOMAIN mem.approvals : x # a => e[x] = mem.approvals[x]
<1>1. IsDict(mem.approvals)
  BY DEF Inv, AreApprovals
<1>2. CASE m = mem
  BY <1>1, <1>2, Rewritten
<1>3. ASSUME NEW v, m = [mem EXCEPT !.approvals = [@ EXCEPT ![a] = v]]
      PROVE  \E e : /\ m = [mem EXCEPT !.approvals = e] /\ IsDict(e)
                    /\ DOMAIN e = DOMAIN mem.approvals
                    /\ \A x \in DOMAIN mem.approvals : x # a => e[x] = mem.approvals[x]
  <2> DEFINE e == [mem.approvals EXCEPT ![a] = v]
  <2>1. m = [mem EXCEPT !.approvals = e]
    BY <1>3
  <2>2. /\ IsDict(e) /\ DOMAIN e = DOMAIN mem.approvals
        /\ \A x \in DOMAIN mem.approvals : x # a => e[x] = mem.approvals[x]
    BY <1>1 DEF IsDict
  <2> HIDE DEF e
  <2>3. QED
    BY <2>1, <2>2
<1>4. CASE \E d : m = M!Decide(mem, a, d, now)
  <2>1. PICK d : m = M!Decide(mem, a, d, now)
    BY <1>4
  <2> DEFINE v == M!Settled(mem.approvals[a], d, now)
  <2>2. m = [mem EXCEPT !.approvals = [@ EXCEPT ![a] = v]]
    BY <2>1 DEF M!Decide
  <2> HIDE DEF v
  <2>3. QED
    BY <1>3, <2>2
<1>5. CASE m = [mem EXCEPT !.approvals[a].done = TRUE]
  <2> DEFINE v == [mem.approvals[a] EXCEPT !.done = TRUE]
  <2>1. m = [mem EXCEPT !.approvals = [@ EXCEPT ![a] = v]]
    BY <1>5 DEF Inv, IsMem
  <2> HIDE DEF v
  <2>2. QED
    BY <1>3, <2>1
<1>6. QED
  BY <1>2, <1>4, <1>5

\* Whatever is decided of a in one store and not in the other, if it is apart from then on.
LEMMA DecidesApart ==
  ASSUME Inv, NEW a, apart' = apart \cup {a}, UNCHANGED <<now, strayed>>, NEW d \in Decided,
         \/ mem' = mem
         \/ a \in DOMAIN mem.approvals /\ mem' = M!Decide(mem, a, d, now)
         \/ a \in DOMAIN mem.approvals /\ mem' = M!WaitCancelled(mem, a),
         pg' = pg \/ pg' = P!Resolve(pg, a, d, now)
  PROVE  Inv'
<1>1. PICK S : /\ pg' = [pg EXCEPT !.approvals = S]
               /\ \A r \in S : IsApprovalRow(r)
               /\ \A r : r.id # a => (r \in S <=> r \in pg.approvals)
  <2>1. CASE pg' = pg
    <3>1. pg' = [pg EXCEPT !.approvals = pg.approvals]
      BY <2>1, Rewritten
    <3>2. QED
      BY <3>1 DEF Inv, AreApprovals
  <2>2. CASE pg' = P!Resolve(pg, a, d, now)
    BY <2>2, ResolvesInTable
  <2>3. QED
    BY <2>1, <2>2
<1>2. PICK e : /\ mem' = [mem EXCEPT !.approvals = e] /\ IsDict(e)
               /\ DOMAIN e = DOMAIN mem.approvals
               /\ \A x \in DOMAIN mem.approvals : x # a => e[x] = mem.approvals[x]
  <2>1. CASE a \notin DOMAIN mem.approvals
    <3>1. mem' = [mem EXCEPT !.approvals = mem.approvals]
      BY <2>1, Rewritten
    <3>2. QED
      BY <3>1 DEF Inv, AreApprovals
  <2>2. CASE a \in DOMAIN mem.approvals
    BY <2>2, DecidesInMemory DEF M!WaitCancelled
  <2>3. QED
    BY <2>1, <2>2
<1>3. QED
  BY <1>1, <1>2, ApartWritten

\* resolve() is open in memory where it is not apart and the decision is not set.
LEMMA OpenInMemory ==
  ASSUME Inv, NEW a, a \notin apart
  PROVE  M!Resolves(mem, a) <=> a \in DOMAIN mem.approvals /\ mem.approvals[a].decision = Null
  BY OneApproval DEF Inv, ApprovalType, M!Resolves, M!IsDecided

\* resolve() keeps it.
LEMMA Resolves ==
  ASSUME Inv, NEW a, NEW decision \in Decisions, Resolve(a, decision)
  PROVE  Inv'
<1>1. decision \in Decided
  BY DEF Decisions, Decided
<1>2. /\ mem' = IF M!Resolves(mem, a) THEN M!Decide(mem, a, decision, now) ELSE mem
      /\ pg' = P!Resolve(pg, a, decision, now) /\ UNCHANGED <<now, apart, strayed>>
  BY DEF Resolve, M!Resolve, Called, Counted
<1>3. CASE a \in apart
  <2>1. apart' = apart \cup {a} /\ (M!Resolves(mem, a) => a \in DOMAIN mem.approvals)
    BY <1>2, <1>3 DEF M!Resolves
  <2>2. QED
    BY <1>1, <1>2, <2>1, DecidesApart
<1>4. CASE a \notin apart
  BY <1>1, <1>2, <1>4, OpenInMemory, DecidesPending
<1>5. QED
  BY <1>3, <1>4

\* A wait() whose timeout passes keeps it.
LEMMA TimesOut ==
  ASSUME Inv, NEW a, WaitTimesOut(a)
  PROVE  Inv'
<1>1. M!Denied \in Decided
  BY DEF M!Denied, Decided
<1>2. /\ pg' = P!Resolve(pg, a, M!Denied, now) /\ mem' = M!Decide(mem, a, M!Denied, now)
      /\ M!Resolves(mem, a) /\ a \in DOMAIN mem.approvals
      /\ UNCHANGED <<now, apart, strayed>>
  BY DEF WaitTimesOut, P!TimeOut, M!TimeOut, M!Denied, M!Resolves, Called, Counted
<1>3. CASE a \in apart
  <2>1. apart' = apart \cup {a}
    BY <1>2, <1>3
  <2>2. QED
    BY <1>1, <1>2, <2>1, DecidesApart
<1>4. CASE a \notin apart
  BY <1>1, <1>2, <1>4, OpenInMemory, DecidesPending
<1>5. QED
  BY <1>3, <1>4

\* A wait() that parts the stores over its approval: cancelled, overtaken or called too early.
LEMMA WaitsPart ==
  ASSUME Inv, NEW a, WaitCancelled(a) \/ WaitOvertaken(a) \/ WaitTooEarly(a)
  PROVE  Inv'
<1>1. M!Denied \in Decided
  BY DEF M!Denied, Decided
<1>2. apart' = apart \cup {a} /\ UNCHANGED <<now, strayed>>
  BY DEF WaitCancelled, WaitOvertaken, WaitTooEarly, Parts, Counted
<1>3. \/ mem' = mem
      \/ a \in DOMAIN mem.approvals /\ mem' = M!Decide(mem, a, M!Denied, now)
      \/ a \in DOMAIN mem.approvals /\ mem' = M!WaitCancelled(mem, a)
  BY DEF WaitCancelled, WaitOvertaken, WaitTooEarly, M!TimeOut, M!Resolves, M!GetPending
<1>4. pg' = pg \/ pg' = P!Resolve(pg, a, M!Denied, now)
  BY DEF WaitCancelled, WaitOvertaken, WaitTooEarly, P!TimeOut, M!Denied
<1>5. QED
  BY <1>1, <1>2, <1>3, <1>4, DecidesApart
-----------------------------------------------------------------------------
(* Schedules. *)

\* A method that writes schedules.
LEMMA SchedulesWritten ==
  ASSUME Inv, NEW e, NEW R, AreSchedules(e, R, strayed'),
         mem' = [mem EXCEPT !.schedules = e], pg' = [pg EXCEPT !.schedules = R],
         UNCHANGED <<now, apart>>
  PROVE  Inv'
<1>1. /\ mem'.schedules = e /\ pg'.schedules = R
      /\ mem'.transcripts = mem.transcripts /\ pg'.transcripts = pg.transcripts
      /\ mem'.sessions = mem.sessions /\ pg'.sessions = pg.sessions
      /\ mem'.approvals = mem.approvals /\ pg'.approvals = pg.approvals
      /\ mem'.lastCleanup = mem.lastCleanup /\ pg'.maintenance = pg.maintenance
      /\ IsMem(mem)' /\ IsPg(pg)'
  BY DEF Inv, IsMem, IsPg
<1>2. QED
  BY <1>1 DEF Inv

\* create_schedule() keeps it.
LEMMA CreatesSchedule ==
  ASSUME Inv, NEW s \in ScheduleIds, NEW t \in Threads, NEW next \in Int,
         CreateSchedule(s, t, next)
  PROVE  Inv'
<1> DEFINE v == [id |-> s, thread |-> t, next |-> next, lastRun |-> Null, status |-> Null]
           e == M!Put(mem.schedules, s, v)
           R == pg.schedules \cup {v}
<1>1. v \in ScheduleOf(s) /\ v.id = s /\ AreAlike(v, v, strayed)
  BY DEF ScheduleOf, AreAlike
<1>2. IsPut(e, mem.schedules, s, v)
  BY PutPuts DEF Inv, AreSchedules
<1>3. mem' = [mem EXCEPT !.schedules = e] /\ pg' = [pg EXCEPT !.schedules = R]
  BY DEF CreateSchedule, M!CreateSchedule, P!CreateSchedule
<1>4. s \notin DOMAIN mem.schedules /\ UNCHANGED <<now, apart, strayed>>
  BY DEF CreateSchedule, Called, Counted
<1> HIDE DEF v, e
<1>5. AreSchedules(e, R, strayed)
  BY <1>1, <1>2, <1>4 DEF Inv, AreSchedules, IsPut
<1> HIDE DEF R
<1>6. QED
  BY <1>3, <1>4, <1>5, SchedulesWritten

\* delete_schedule() keeps it: it deletes in both stores or in neither.
LEMMA DeletesSchedule ==
  ASSUME Inv, NEW s, NEW t, DeleteSchedule(s, t)
  PROVE  Inv'
<1> DEFINE d == mem.schedules
           e == M!Without(d, {s})
           R == pg.schedules \ P!Deleted(pg, s, t)
<1>1. pg' = [pg EXCEPT !.schedules = R] /\ UNCHANGED <<now, apart>>
  BY DEF DeleteSchedule, P!DeleteSchedule, Counted
<1>2. AreSchedules(d, pg.schedules, strayed)
  BY DEF Inv
<1>3. CASE M!Deletes(mem, s, t)
  <2>1. mem' = [mem EXCEPT !.schedules = e] /\ strayed' = strayed \ {s}
    BY <1>3 DEF DeleteSchedule, M!DeleteSchedule
  <2>2. \A r \in pg.schedules : r \in R <=> r.id # s
    BY <1>2, <1>3 DEF M!Deletes, P!Deleted, AreSchedules, AreAlike
  <2>3. IsWithout(e, d, {s})
    BY <1>2, WithoutRemoves DEF AreSchedules
  <2> HIDE DEF e
  <2>4. AreSchedules(e, R, strayed \ {s})
    <3>1. R \subseteq pg.schedules
      OBVIOUS
    <3> HIDE DEF R, d
    <3>2. \A r \in R : /\ r.id \in DOMAIN d /\ r.id # s
                       /\ r \in ScheduleOf(r.id) /\ AreAlike(r, d[r.id], strayed)
      BY <1>2, <2>2, <3>1 DEF AreSchedules
    <3>3. \A r \in R : r.id \in DOMAIN e /\ AreAlike(r, e[r.id], strayed \ {s})
      BY <2>3, <3>2 DEF IsWithout, AreAlike
    <3>4. \A x \in DOMAIN e : e[x] \in ScheduleOf(x) /\ \E r \in R : r.id = x
      BY <1>2, <2>2, <2>3 DEF AreSchedules, IsWithout
    <3>5. QED
      BY <1>2, <2>3, <3>2, <3>3, <3>4 DEF AreSchedules, IsWithout
  <2> HIDE DEF R
  <2>5. QED
    BY <1>1, <2>1, <2>4, SchedulesWritten
<1>4. CASE ~ M!Deletes(mem, s, t)
  <2>1. P!Deleted(pg, s, t) = {}
    BY <1>2, <1>4 DEF M!Deletes, P!Deleted, AreSchedules, AreAlike
  <2>2. pg' = pg /\ mem' = mem /\ strayed' = strayed
    BY <1>1, <1>4, <2>1 DEF Inv, IsPg, DeleteSchedule, M!DeleteSchedule
  <2>3. QED
    BY <1>1, <2>2 DEF Inv
<1>5. QED
  BY <1>3, <1>4

\* claim_due_schedules() keeps it, whether or not it raises: a schedule that is advanced in
\* one store and not in the other has strayed.
LEMMA ClaimsDue ==
  ASSUME Inv, NEW step \in Steps, NEW bad, NEW before, ClaimDueSchedules(step, bad, before)
  PROVE  Inv'
<1> DEFINE d == mem.schedules
           due == M!Due(mem, now)
           rows == {r.id : r \in P!Due(pg, now)}
           inMem == IF due \cap bad = {} THEN due ELSE before
           inPg == IF rows \cap bad = {} THEN rows ELSE {}
           Z == strayed \cup (inMem \ inPg) \cup (inPg \ inMem)
           Later(r) == [r EXCEPT !.next = @ + step[r.id]]
           e == [s \in DOMAIN d |-> IF s \in inMem THEN Later(d[s]) ELSE d[s]]
           R == {IF r.id \in inPg THEN Later(r) ELSE r : r \in pg.schedules}
<1>1. AreSchedules(d, pg.schedules, strayed)
  BY DEF Inv
<1>2. \A s \in DOMAIN d : d[s] \in ScheduleOf(s) /\ d[s].id = s /\ s \in ScheduleIds
  BY <1>1 DEF AreSchedules, ScheduleOf
<1>3. mem' = [mem EXCEPT !.schedules = e]
  <2>1. [s \in DOMAIN d |-> IF s \in inMem THEN M!Advanced(d[s], step[s]) ELSE d[s]] = e
    BY <1>2 DEF M!Advanced
  <2>2. QED
    BY <2>1 DEF ClaimDueSchedules, M!ClaimDueSchedules
<1>4. pg' = [pg EXCEPT !.schedules = R]
  BY DEF ClaimDueSchedules, P!ClaimDueSchedules
<1>5. strayed' = Z /\ UNCHANGED <<now, apart>>
  BY DEF ClaimDueSchedules, Counted
<1>6. ASSUME NEW s \in ScheduleIds, NEW r \in ScheduleOf(s)
      PROVE  /\ Later(r) \in ScheduleOf(s) /\ Later(r).id = s /\ Later(r).thread = r.thread
             /\ Later(r).lastRun = r.lastRun /\ Later(r).status = r.status
             /\ Later(r).next = r.next + step[s]
  <2>1. step[s] \in Int
    BY DEF Steps
  <2>2. QED
    BY <2>1 DEF ScheduleOf
<1> HIDE DEF Later, inMem, inPg
<1>7. AreSchedules(e, R, Z)
  <2>1. \A s \in DOMAIN e : e[s] \in ScheduleOf(s)
    BY <1>2, <1>6
  <2>2. ASSUME NEW r \in pg.schedules, NEW w, w = IF r.id \in inPg THEN Later(r) ELSE r
        PROVE  /\ w.id = r.id /\ w.id \in DOMAIN e /\ w \in ScheduleOf(w.id)
               /\ AreAlike(w, e[w.id], Z)
    <3>1. /\ r.id \in DOMAIN d /\ r \in ScheduleOf(r.id) /\ AreAlike(r, d[r.id], strayed)
          /\ r.id \in ScheduleIds /\ d[r.id] \in ScheduleOf(r.id)
      BY <1>1 DEF AreSchedules
    <3>2. w.id = r.id /\ w \in ScheduleOf(w.id)
      BY <1>6, <2>2, <3>1
    <3> DEFINE x == e[r.id]
    <3>3. x = IF r.id \in inMem THEN Later(d[r.id]) ELSE d[r.id]
      BY <3>1
    <3> HIDE DEF x
    <3>4. w.thread = x.thread /\ w.lastRun = x.lastRun /\ w.status = x.status
      BY <1>6, <2>2, <3>1, <3>3 DEF AreAlike
    <3>5. ASSUME r.id \notin Z PROVE w.next = x.next
      <4>1. r.next = d[r.id].next /\ (r.id \in inPg <=> r.id \in inMem)
        BY <3>1, <3>5 DEF AreAlike
      <4>2. QED
        BY <1>6, <2>2, <3>1, <3>3, <4>1
    <3>6. AreAlike(w, x, Z)
      BY <3>2, <3>4, <3>5 DEF AreAlike
    <3>7. QED
      BY <3>1, <3>2, <3>6 DEF x
  <2>3. \A s \in DOMAIN e : \E r \in R : r.id = s
    <3>1. ASSUME NEW s \in DOMAIN d PROVE \E r \in R : r.id = s
      <4>1. PICK r \in pg.schedules : r.id = s
        BY <1>1 DEF AreSchedules
      <4>2. PICK w : w = IF r.id \in inPg THEN Later(r) ELSE r
        OBVIOUS
      <4>3. w \in R
        BY <4>2
      <4>4. w.id = s
        BY <2>2, <4>1, <4>2
      <4>5. QED
        BY <4>3, <4>4
    <3>2. QED
      BY <3>1
  <2>4. \A r \in R : r.id \in DOMAIN e /\ r \in ScheduleOf(r.id) /\ AreAlike(r, e[r.id], Z)
    BY <2>2
  <2>5. IsDict(e) /\ DOMAIN e \subseteq ScheduleIds
    BY <1>1 DEF AreSchedules, IsDict
  <2> HIDE DEF e, R, Z
  <2>6. QED
    BY <2>1, <2>3, <2>4, <2>5 DEF AreSchedules
<1> HIDE DEF e, R, Z
<1>8. QED
  BY <1>3, <1>4, <1>5, <1>7, SchedulesWritten

\* record_run() keeps it.
LEMMA RecordsRun ==
  ASSUME Inv, NEW s \in ScheduleIds, NEW status \in {"ok", "failed"}, RecordRun(s, status)
  PROVE  Inv'
<1> DEFINE d == mem.schedules
           U(r) == [r EXCEPT !.lastRun = now, !.status = status]
           e == IF s \in DOMAIN d THEN [d EXCEPT ![s] = U(d[s])] ELSE d
           R == {IF r.id = s THEN U(r) ELSE r : r \in pg.schedules}
<1>1. AreSchedules(d, pg.schedules, strayed) /\ now \in Int
  BY DEF Inv
<1>2. mem' = [mem EXCEPT !.schedules = e]
  BY DEF RecordRun, M!RecordRun, Inv, IsMem
<1>3. pg' = [pg EXCEPT !.schedules = R]
  BY DEF RecordRun, P!RecordRun
<1>4. UNCHANGED <<now, apart, strayed>>
  BY DEF RecordRun, Called, Counted
<1>5. ASSUME NEW r \in ScheduleOf(s)
      PROVE  /\ U(r) \in ScheduleOf(s) /\ U(r).id = s /\ U(r).thread = r.thread
             /\ U(r).next = r.next /\ U(r).lastRun = now /\ U(r).status = status
  BY <1>1 DEF ScheduleOf
<1>6. /\ IsDict(e) /\ DOMAIN e = DOMAIN d
      /\ \A x \in DOMAIN d : e[x] = IF x = s THEN U(d[x]) ELSE d[x]
  BY <1>1 DEF AreSchedules, IsDict
<1> HIDE DEF U, e, d
<1>7. AreSchedules(e, R, strayed)
  <2>1. \A x \in DOMAIN e : e[x] \in ScheduleOf(x)
    BY <1>1, <1>5, <1>6 DEF AreSchedules
  <2>2. ASSUME NEW r \in pg.schedules, NEW w, w = IF r.id = s THEN U(r) ELSE r
        PROVE  /\ w.id = r.id /\ w.id \in DOMAIN e /\ w \in ScheduleOf(w.id)
               /\ AreAlike(w, e[w.id], strayed)
    <3>1. /\ r.id \in DOMAIN d /\ r \in ScheduleOf(r.id) /\ AreAlike(r, d[r.id], strayed)
          /\ d[r.id] \in ScheduleOf(r.id)
      BY <1>1 DEF AreSchedules
    <3>2. w.id = r.id /\ w \in ScheduleOf(w.id)
      BY <1>5, <2>2, <3>1
    <3>3. AreAlike(w, e[r.id], strayed)
      BY <1>5, <1>6, <2>2, <3>1 DEF AreAlike
    <3>4. QED
      BY <1>6, <3>1, <3>2, <3>3
  <2>3. \A x \in DOMAIN e : \E r \in R : r.id = x
    <3>1. ASSUME NEW x \in DOMAIN d PROVE \E r \in R : r.id = x
      <4>1. PICK r \in pg.schedules : r.id = x
        BY <1>1 DEF AreSchedules
      <4>2. QED
        BY <2>2, <4>1
    <3>2. QED
      BY <1>6, <3>1
  <2>4. \A r \in R : /\ r.id \in DOMAIN e /\ r \in ScheduleOf(r.id)
                     /\ AreAlike(r, e[r.id], strayed)
    BY <2>2
  <2> HIDE DEF R
  <2>5. QED
    BY <1>1, <1>6, <2>1, <2>3, <2>4 DEF AreSchedules
<1> HIDE DEF R
<1>8. QED
  BY <1>2, <1>3, <1>4, <1>7, SchedulesWritten
-----------------------------------------------------------------------------
(* Cleanup. *)

\* try_claim_cleanup() keeps it: no claim yet is a claim at the epoch, long ago.
LEMMA ClaimsTheCleanup ==
  ASSUME Inv, ClaimCleanup
  PROVE  Inv' /\ (M!ClaimsCleanup(mem, Interval, now) <=> P!ClaimsCleanup(pg, Interval, now))
<1>1. M!ClaimsCleanup(mem, Interval, now) <=> P!ClaimsCleanup(pg, Interval, now)
  BY StartAssumption DEF Inv, IsLast, M!ClaimsCleanup, P!ClaimsCleanup
<1>2. CASE ~ M!ClaimsCleanup(mem, Interval, now)
  BY <1>1, <1>2 DEF ClaimCleanup, M!ClaimCleanup, P!ClaimCleanup, Called, Counted, Inv
<1>3. CASE M!ClaimsCleanup(mem, Interval, now)
  <2>1. /\ mem' = [mem EXCEPT !.lastCleanup = now] /\ pg' = [pg EXCEPT !.maintenance = now]
        /\ now' = now
    BY <1>1, <1>3 DEF ClaimCleanup, M!ClaimCleanup, P!ClaimCleanup, Called, Counted
  <2>2. /\ mem'.lastCleanup = now /\ pg'.maintenance = now
        /\ mem'.sessions = mem.sessions /\ pg'.sessions = pg.sessions
        /\ mem'.transcripts = mem.transcripts /\ pg'.transcripts = pg.transcripts
        /\ mem'.approvals = mem.approvals /\ pg'.approvals = pg.approvals
        /\ mem'.schedules = mem.schedules /\ pg'.schedules = pg.schedules
        /\ IsMem(mem)' /\ IsPg(pg)'
    BY <2>1 DEF Inv, IsMem, IsPg
  <2>3. IsLast(now, now)
    BY NullAssumption DEF Inv, IsLast
  <2>4. QED
    BY <1>1, <2>1, <2>2, <2>3 DEF ClaimCleanup, Called, Counted, Inv
<1>4. QED
  BY <1>1, <1>2, <1>3

\* prune() keeps it: ON DELETE CASCADE removes the transcripts the dictionary loses by hand.
LEMMA Prunes ==
  ASSUME Inv, Prune
  PROVE  Inv'
<1> DEFINE before == now - Retention
           ts == M!StaleSessions(mem, before)
           gone == P!StaleSessions(pg, before)
           as == M!StaleApprovals(mem, before)
           lost == P!StaleApprovals(pg, before)
           sessions == M!Without(mem.sessions, ts)
           transcripts == M!Without(mem.transcripts, ts)
           approvals == M!Without(mem.approvals, as)
           left == {r \in pg.transcripts : \A s \in gone : r.thread # s.thread}
<1>1. /\ mem' = [mem EXCEPT !.approvals = approvals, !.sessions = sessions,
                            !.transcripts = transcripts]
      /\ pg' = [pg EXCEPT !.approvals = @ \ lost, !.sessions = @ \ gone,
                          !.transcripts = left]
      /\ now' = now
  BY DEF Prune, M!Prune, P!Prune, Called, Counted
<1>2. AreSessions(sessions, pg.sessions \ gone)
  <2>1. \A t \in DOMAIN mem.sessions : mem.sessions[t] \in gone <=> t \in ts
    BY OneSession DEF Inv, M!StaleSessions, P!StaleSessions
  <2>2. IsWithout(sessions, mem.sessions, ts)
    BY WithoutRemoves DEF Inv, AreSessions
  <2> HIDE DEF gone, ts, sessions
  <2>3. QED
    BY <2>1, <2>2, WithoutSessions DEF Inv
<1>3. AreTranscripts(transcripts, left)
  <2>1. IsWithout(transcripts, mem.transcripts, ts)
    BY WithoutRemoves DEF Inv, AreTranscripts
  <2>2. \A t : t \in ts <=> \E s \in gone : s.thread = t
    <3>1. ASSUME NEW t \in ts PROVE \E s \in gone : s.thread = t
      BY OneSession DEF Inv, M!StaleSessions, P!StaleSessions
    <3>2. ASSUME NEW s \in gone PROVE s.thread \in ts
      <4>1. PICK t \in DOMAIN mem.sessions : s = mem.sessions[t]
        BY DEF Inv, AreSessions, P!StaleSessions
      <4>2. s.thread = t
        BY <4>1, OneSession DEF Inv
      <4>3. QED
        BY <4>1, <4>2 DEF M!StaleSessions, P!StaleSessions
    <3> HIDE DEF ts, gone
    <3>3. QED
      BY <3>1, <3>2
  <2>3. AreTranscripts(mem.transcripts, pg.transcripts)
    BY DEF Inv
  <2> HIDE DEF gone, ts, transcripts
  <2>4. \A x \in DOMAIN transcripts : transcripts[x] \in TranscriptType
    BY <2>1, <2>3 DEF AreTranscripts, IsWithout
  <2>5. left = {TranscriptRow(t, transcripts[t]) : t \in DOMAIN transcripts}
    <3>1. ASSUME NEW r \in left
          PROVE  \E t \in DOMAIN transcripts : r = TranscriptRow(t, transcripts[t])
      BY <2>1, <2>2, <2>3, TranscriptFields DEF AreTranscripts, IsWithout
    <3>2. ASSUME NEW t \in DOMAIN transcripts PROVE TranscriptRow(t, transcripts[t]) \in left
      BY <2>1, <2>2, <2>3, TranscriptFields DEF AreTranscripts, IsWithout
    <3> HIDE DEF left
    <3>3. QED
      BY <3>1, <3>2
  <2> HIDE DEF left
  <2>6. QED
    BY <2>1, <2>4, <2>5 DEF AreTranscripts, IsWithout
<1>4. AreApprovals(approvals, pg.approvals \ lost, apart)
  <2>1. IsWithout(approvals, mem.approvals, as)
    BY WithoutRemoves DEF Inv, AreApprovals
  <2>2. AreApprovals(mem.approvals, pg.approvals, apart)
    BY DEF Inv
  <2>3. ASSUME NEW a \in DOMAIN mem.approvals \ apart
        PROVE  ApprovalRow(a, mem.approvals[a]) \in lost <=> a \in as
    <3>1. /\ mem.approvals[a] \in ApprovalType
          /\ ApprovalRow(a, mem.approvals[a]) \in pg.approvals
      BY <2>2, <2>3, OneApproval
    <3>2. ApprovalRow(a, mem.approvals[a]).at = mem.approvals[a].at
      BY <3>1, ApprovalFields
    <3>3. QED
      BY <2>3, <3>1, <3>2 DEF M!StaleApprovals, P!StaleApprovals
  <2> HIDE DEF approvals, as, lost
  <2>4. \A x \in DOMAIN approvals \ apart : approvals[x] \in ApprovalType
    BY <2>1, <2>2 DEF AreApprovals, IsWithout
  <2>5. {r \in pg.approvals \ lost : r.id \notin apart}
          = {ApprovalRow(a, approvals[a]) : a \in DOMAIN approvals \ apart}
    <3>1. ASSUME NEW r \in pg.approvals \ lost, r.id \notin apart
          PROVE  \E a \in DOMAIN approvals \ apart : r = ApprovalRow(a, approvals[a])
      <4>1. PICK a \in DOMAIN mem.approvals \ apart : r = ApprovalRow(a, mem.approvals[a])
        BY <2>2, <3>1 DEF AreApprovals
      <4>2. QED
        BY <2>1, <2>3, <4>1 DEF IsWithout
    <3>2. ASSUME NEW a \in DOMAIN approvals \ apart
          PROVE  /\ ApprovalRow(a, approvals[a]) \in pg.approvals \ lost
                 /\ ApprovalRow(a, approvals[a]).id \notin apart
      <4>1. a \in DOMAIN mem.approvals \ apart /\ a \notin as
            /\ approvals[a] = mem.approvals[a]
        BY <2>1 DEF IsWithout
      <4>2. QED
        BY <2>2, <2>3, <4>1, ApprovalId DEF AreApprovals
    <3>3. QED
      BY <3>1, <3>2
  <2>6. \A r \in pg.approvals \ lost : IsApprovalRow(r)
    BY <2>2 DEF AreApprovals
  <2>7. QED
    BY <2>1, <2>4, <2>5, <2>6 DEF AreApprovals, IsWithout
<1> HIDE DEF sessions, transcripts, approvals, gone, left, lost
<1>5. /\ mem'.sessions = sessions /\ pg'.sessions = pg.sessions \ gone
      /\ mem'.transcripts = transcripts /\ pg'.transcripts = left
      /\ mem'.approvals = approvals /\ pg'.approvals = pg.approvals \ lost
      /\ mem'.schedules = mem.schedules /\ pg'.schedules = pg.schedules
      /\ mem'.lastCleanup = mem.lastCleanup /\ pg'.maintenance = pg.maintenance
      /\ IsMem(mem)' /\ IsPg(pg)'
  BY <1>1 DEF Inv, IsMem, IsPg
<1>6. QED
  BY <1>1, <1>2, <1>3, <1>4, <1>5 DEF Prune, Called, Counted, Inv
-----------------------------------------------------------------------------
(* What the invariant says of the answers. *)

\* Distinct rows are as many as their keys.
LEMMA SameCount ==
  ASSUME NEW S, IsFiniteSet(S), NEW f, f = [x \in S |-> f[x]],
         \A x, y \in S : f[x] = f[y] => x = y
  PROVE  Cardinality({f[x] : x \in S}) = Cardinality(S)
<1> DEFINE T == {f[x] : x \in S}
<1>1. f \in Bijection(S, T)
  BY DEF Bijection, Injection, Surjection, IsInjective
<1>2. QED
  BY <1>1, FS_Bijection DEF ExistsBijection

\* get_session(), get_partner(), load() and whether save() raises.
LEMMA SessionAnswers == ASSUME Inv PROVE SameSessions
<1>1. AreSessions(mem.sessions, pg.sessions) /\ AreTranscripts(mem.transcripts, pg.transcripts)
  BY DEF Inv
<1>2. ASSUME NEW t \in Threads
      PROVE  /\ M!GetSession(mem, t) = P!Session(pg, t)
             /\ M!GetPartner(mem, t) = P!GetPartner(pg, t)
             /\ M!SaveRaises(mem, t) = P!SaveRaises(pg, t)
  <2>1. CASE t \in DOMAIN mem.sessions
    <3>1. P!Session(pg, t) = {mem.sessions[t]}
      BY <1>1, <2>1, OneSession DEF P!Session
    <3>2. QED
      BY <2>1, <3>1 DEF M!GetSession, M!GetPartner, P!GetPartner, M!SaveRaises, P!SaveRaises
  <2>2. CASE t \notin DOMAIN mem.sessions
    <3>1. P!Session(pg, t) = {}
      BY <1>1, <2>2, OneSession DEF P!Session
    <3>2. QED
      BY <2>2, <3>1 DEF M!GetSession, M!GetPartner, P!GetPartner, M!SaveRaises, P!SaveRaises
  <2>3. QED
    BY <2>1, <2>2
<1>3. ASSUME NEW t \in Threads, NEW sid \in Sids
      PROVE  M!Load(mem, t, sid) = P!Load(pg, t, sid)
  <2> DEFINE d == mem.transcripts
  <2>1. pg.transcripts = {TranscriptRow(x, d[x]) : x \in DOMAIN d}
    BY <1>1 DEF AreTranscripts
  <2>2. ASSUME NEW y \in M!Load(mem, t, sid) PROVE y \in P!Load(pg, t, sid)
    BY <2>1, <2>2, TranscriptFields DEF M!Load, P!Load
  <2>3. ASSUME NEW y \in P!Load(pg, t, sid) PROVE y \in M!Load(mem, t, sid)
    BY <2>1, <2>3, TranscriptFields DEF M!Load, P!Load
  <2>4. QED
    BY <2>2, <2>3
<1>4. QED
  BY <1>2, <1>3 DEF SameSessions

\* get_pending(), approvers_of(), what resolve() and wait() answer.
LEMMA ApprovalAnswers == ASSUME Inv PROVE SameApprovals
<1>1. AreApprovals(mem.approvals, pg.approvals, apart)
  BY DEF Inv
<1> SUFFICES ASSUME NEW a \in ApprovalIds \ apart
             PROVE  /\ M!GetPending(mem, a) = P!GetPending(pg, a)
                    /\ M!ApproversOf(mem, a) = P!ApproversOf(pg, a)
                    /\ M!Resolves(mem, a) = P!Resolves(pg, a)
                    /\ M!GetPending(mem, a) =>
                         /\ M!IsDecided(mem, a) = P!IsDecided(pg, a)
                         /\ M!IsDecided(mem, a) => M!Waited(mem, a) = P!Waited(pg, a)
                         /\ ~M!WaitRaises(mem, a)
  BY DEF SameApprovals
<1>2. CASE a \in DOMAIN mem.approvals
  <2> DEFINE x == mem.approvals[a]
             row == ApprovalRow(a, x)
  <2>1. x \in ApprovalType
    BY <1>1, <1>2, OneApproval
  <2>2. P!Approval(pg, a) = {row}
    BY <1>1, <1>2, OneApproval, ApprovalId DEF P!Approval
  <2>3. /\ row.approvers = x.approvers /\ (row.status = "pending" <=> x.decision = Null)
        /\ x.decision # Null =>
             [approved |-> row.approved, by |-> row.by, scope |-> row.scope] = x.decision
    BY <2>1, ApprovalFields
  <2> HIDE DEF row
  <2>4. M!GetPending(mem, a) = P!GetPending(pg, a)
    BY <1>2, <2>2 DEF M!GetPending, P!GetPending
  <2>5. M!ApproversOf(mem, a) = P!ApproversOf(pg, a)
    BY <1>2, <2>2, <2>3 DEF M!ApproversOf, P!ApproversOf
  <2>6. M!Resolves(mem, a) = P!Resolves(pg, a)
    BY <1>2, <2>1, <2>2, <2>3 DEF M!Resolves, M!IsDecided, P!Resolves, ApprovalType
  <2>7. M!IsDecided(mem, a) = P!IsDecided(pg, a)
    BY <1>2, <2>2, <2>3 DEF M!IsDecided, P!IsDecided
  <2>8. M!IsDecided(mem, a) => M!Waited(mem, a) = P!Waited(pg, a)
    BY <1>2, <2>2, <2>3 DEF M!IsDecided, M!Waited, P!Waited
  <2>9. ~M!WaitRaises(mem, a)
    BY <2>1 DEF M!WaitRaises, M!IsDecided, ApprovalType
  <2>10. QED
    BY <2>4, <2>5, <2>6, <2>7, <2>8, <2>9
<1>3. CASE a \notin DOMAIN mem.approvals
  <2>1. P!Approval(pg, a) = {}
    BY <1>1, <1>3, OneApproval DEF P!Approval
  <2>2. M!ApproversOf(mem, a) = {} /\ ~M!GetPending(mem, a) /\ ~M!Resolves(mem, a)
    BY <1>3 DEF M!ApproversOf, M!GetPending, M!Resolves
  <2>3. P!ApproversOf(pg, a) = {}
    <3>1. \A u : u \notin P!ApproversOf(pg, a)
      BY <2>1, Zenon DEF P!ApproversOf
    <3>2. QED
      BY <3>1
  <2>4. P!GetPending(pg, a) = FALSE /\ P!Resolves(pg, a) = FALSE
    BY <2>1 DEF P!GetPending, P!Resolves
  <2>5. M!GetPending(mem, a) = FALSE /\ M!Resolves(mem, a) = FALSE
    BY <1>3 DEF M!GetPending, M!Resolves
  <2>6. QED
    BY <2>2, <2>3, <2>4, <2>5
<1>4. QED
  BY <1>2, <1>3

\* list_schedules(), what delete_schedule() and claim_due_schedules() answer.
LEMMA ScheduleAnswers == ASSUME Inv PROVE SameSchedules
<1> DEFINE d == mem.schedules
           Plain(r) == IF r.id \in strayed THEN [r EXCEPT !.next = 0] ELSE r
<1>1. AreSchedules(d, pg.schedules, strayed) /\ \A s \in DOMAIN d : d[s].id = s
  BY DEF Inv, AreSchedules, ScheduleOf
<1>2. \A r \in pg.schedules : /\ r.id \in DOMAIN d /\ r \in ScheduleOf(r.id)
                              /\ d[r.id] \in ScheduleOf(r.id) /\ AreAlike(r, d[r.id], strayed)
  BY <1>1 DEF AreSchedules
<1>3. \A s \in DOMAIN d : \E r \in pg.schedules : r.id = s
  BY <1>1 DEF AreSchedules
<1>4. ASSUME NEW r \in pg.schedules PROVE Plain(r) = Plain(d[r.id])
  <2>1. d[r.id].id = r.id
    BY <1>1, <1>2
  <2>2. CASE r.id \in strayed
    BY <1>2, <2>1, <2>2 DEF ScheduleOf, AreAlike
  <2>3. CASE r.id \notin strayed
    BY <1>2, <2>1, <2>3 DEF ScheduleOf, AreAlike
  <2>4. QED
    BY <2>2, <2>3
<1> HIDE DEF Plain, d
<1>5. ASSUME NEW t \in Threads
      PROVE  ButForNext(M!ListSchedules(mem, t)) = ButForNext(P!ListSchedules(pg, t))
  <2>1. ButForNext(M!ListSchedules(mem, t)) = {Plain(r) : r \in M!ListSchedules(mem, t)}
    BY DEF ButForNext, Plain
  <2>2. ButForNext(P!ListSchedules(pg, t)) = {Plain(r) : r \in P!ListSchedules(pg, t)}
    BY DEF ButForNext, Plain
  <2>3. ASSUME NEW r \in P!ListSchedules(pg, t)
        PROVE  d[r.id] \in M!ListSchedules(mem, t) /\ Plain(r) = Plain(d[r.id])
    BY <1>2, <1>4 DEF AreAlike, P!ListSchedules, M!ListSchedules, d
  <2>4. ASSUME NEW x \in M!ListSchedules(mem, t)
        PROVE  \E r \in P!ListSchedules(pg, t) : Plain(r) = Plain(x)
    <3>1. PICK s \in DOMAIN d : x = d[s] /\ d[s].thread = t
      BY DEF M!ListSchedules, d
    <3>2. PICK r \in pg.schedules : r.id = s
      BY <1>3
    <3>3. QED
      BY <1>2, <1>4, <3>1, <3>2 DEF AreAlike, P!ListSchedules
  <2>5. {Plain(r) : r \in M!ListSchedules(mem, t)} = {Plain(r) : r \in P!ListSchedules(pg, t)}
    BY <2>3, <2>4
  <2>6. QED
    BY <2>1, <2>2, <2>5
<1>6. ASSUME NEW t \in Threads, NEW s \in ScheduleIds
      PROVE  M!Deletes(mem, s, t) = (P!Deleted(pg, s, t) # {})
  BY <1>2, <1>3 DEF AreAlike, M!Deletes, P!Deleted, d
<1>7. Unstrayed(M!Claimed(mem, now)) = Unstrayed(P!Claimed(pg, now))
  <2>1. ASSUME NEW c \in Unstrayed(M!Claimed(mem, now))
        PROVE  c \in Unstrayed(P!Claimed(pg, now))
    <3>1. PICK s \in DOMAIN d : /\ c = [id |-> s, due |-> d[s].next] /\ d[s].next <= now
                               /\ s \notin strayed
      BY DEF Unstrayed, M!Claimed, M!Due, d
    <3>2. PICK r \in pg.schedules : r.id = s
      BY <1>3
    <3>3. QED
      BY <1>2, <3>1, <3>2 DEF AreAlike, Unstrayed, P!Claimed, P!Due
  <2>2. ASSUME NEW c \in Unstrayed(P!Claimed(pg, now))
        PROVE  c \in Unstrayed(M!Claimed(mem, now))
    <3>1. PICK r \in pg.schedules : /\ c = [id |-> r.id, due |-> r.next] /\ r.next <= now
                                   /\ r.id \notin strayed
      BY DEF Unstrayed, P!Claimed, P!Due
    <3>2. QED
      BY <1>2, <3>1 DEF AreAlike, Unstrayed, M!Claimed, M!Due, d
  <2>3. QED
    BY <2>1, <2>2
<1>8. QED
  BY <1>5, <1>6, <1>7 DEF SameSchedules

\* The approvals prune() takes.
LEMMA ApprovalsPruned ==
  ASSUME Inv, NEW before
  PROVE  M!StaleApprovals(mem, before) \ apart
           = {r.id : r \in P!StaleApprovals(pg, before)} \ apart
<1>1. AreApprovals(mem.approvals, pg.approvals, apart)
  BY DEF Inv
<1>2. \A a \in DOMAIN mem.approvals \ apart :
        ApprovalRow(a, mem.approvals[a]).at = mem.approvals[a].at
  BY <1>1, ApprovalFields DEF AreApprovals
<1>3. ASSUME NEW a \in M!StaleApprovals(mem, before) \ apart
      PROVE  \E r \in P!StaleApprovals(pg, before) : r.id = a
  BY <1>1, <1>2, ApprovalId DEF AreApprovals, M!StaleApprovals, P!StaleApprovals
<1>4. ASSUME NEW r \in P!StaleApprovals(pg, before), r.id \notin apart
      PROVE  r.id \in M!StaleApprovals(mem, before)
  BY <1>1, <1>2, <1>4, ApprovalId DEF AreApprovals, M!StaleApprovals, P!StaleApprovals
<1>5. QED
  BY <1>3, <1>4

\* The sessions prune() counts.
LEMMA SessionsPruned ==
  ASSUME Inv, NEW before
  PROVE  Cardinality(M!StaleSessions(mem, before)) = Cardinality(P!StaleSessions(pg, before))
<1> DEFINE ts == M!StaleSessions(mem, before)
           g == [t \in ts |-> mem.sessions[t]]
<1>1. IsFiniteSet(ts)
  BY FS_Subset DEF Inv, AreSessions, IsDict, M!StaleSessions
<1>2. {g[t] : t \in ts} = P!StaleSessions(pg, before)
  BY DEF Inv, AreSessions, M!StaleSessions, P!StaleSessions
<1>3. \A x, y \in ts : g[x] = g[y] => x = y
  BY OneSession DEF Inv, M!StaleSessions
<1>4. g = [t \in ts |-> g[t]]
  OBVIOUS
<1> HIDE DEF ts, g
<1>5. Cardinality({g[t] : t \in ts}) = Cardinality(ts)
  BY <1>1, <1>3, <1>4, SameCount
<1>6. QED
  BY <1>2, <1>5 DEF ts

\* What prune() and try_claim_cleanup() answer.
LEMMA CleanupAnswers == ASSUME Inv PROVE SameCleanup
<1>1. ASSUME NEW before
      PROVE  M!Pruned(mem, before, before).sessions = P!Pruned(pg, before, before).sessions
  <2>1. \A S : M!Cardinality(S) = Cardinality(S) /\ P!Cardinality(S) = Cardinality(S)
    BY DEF Cardinality, M!Cardinality, P!Cardinality
  <2>2. QED
    BY <2>1, SessionsPruned DEF M!Pruned, P!Pruned
<1>2. M!ClaimsCleanup(mem, Interval, now) = P!ClaimsCleanup(pg, Interval, now)
  BY StartAssumption DEF Inv, IsLast, M!ClaimsCleanup, P!ClaimsCleanup
<1>3. QED
  BY <1>1, <1>2, ApprovalsPruned DEF SameCleanup
-----------------------------------------------------------------------------
\* Every method keeps the tables the dictionaries' image.
LEMMA Invariance == ASSUME Inv, [Next]_vars PROVE Inv'
<1>1. CASE UNCHANGED vars \/ Read
  BY <1>1 DEF vars, Read, Inv
<1>2. CASE Tick
  BY <1>2, StartAssumption DEF Tick, Inv
<1>3. CASE ClaimCleanup
  BY <1>3, ClaimsTheCleanup
<1>4. CASE Prune
  BY <1>4, Prunes
<1>5. ASSUME NEW t \in Threads, NEW sid \in Sids \cup {Null}, NEW mode \in Modes \cup {Null},
             NEW touch \in BOOLEAN, UpsertSession(t, sid, mode, touch)
      PROVE  Inv'
  BY <1>5, Upserts
<1>6. ASSUME NEW t \in Threads, NEW user \in Users \cup {Null}, SetPartner(t, user) PROVE Inv'
  BY <1>6, Partners
<1>7. ASSUME NEW t \in Threads, BumpTurn(t) PROVE Inv'
  BY <1>7, Bumps
<1>8. ASSUME NEW t \in Threads, NEW sid \in Sids, NEW data \in Data, Save(t, sid, data)
      PROVE  Inv'
  BY <1>8, Saves
<1>9. ASSUME NEW a \in ApprovalIds,
             \/ Create(a) \/ WaitTimesOut(a)
             \/ WaitCancelled(a) \/ WaitOvertaken(a) \/ WaitTooEarly(a)
      PROVE  Inv'
  BY <1>9, Creates, TimesOut, WaitsPart
<1>10. ASSUME NEW a \in ApprovalIds, NEW users \in SUBSET Users, SetApprovers(a, users)
       PROVE  Inv'
  BY <1>10, SetsApprovers
<1>11. ASSUME NEW a \in ApprovalIds, NEW decision \in Decisions, Resolve(a, decision)
       PROVE  Inv'
  BY <1>11, Resolves
<1>12. ASSUME NEW s \in ScheduleIds, NEW t \in Threads, NEW next \in Times,
              CreateSchedule(s, t, next)
       PROVE  Inv'
  BY <1>12, CreatesSchedule, StartAssumption DEF Times
<1>13. ASSUME NEW s \in ScheduleIds, NEW t \in Threads, DeleteSchedule(s, t) PROVE Inv'
  BY <1>13, DeletesSchedule
<1>14. ASSUME NEW step \in Steps, NEW bad \in SUBSET ScheduleIds,
              NEW before \in SUBSET ScheduleIds, ClaimDueSchedules(step, bad, before)
       PROVE  Inv'
  BY <1>14, ClaimsDue
<1>15. ASSUME NEW s \in ScheduleIds, NEW status \in {"ok", "failed"}, RecordRun(s, status)
       PROVE  Inv'
  BY <1>15, RecordsRun
<1>16. QED
  BY <1>1, <1>2, <1>3, <1>4, <1>5, <1>6, <1>7, <1>8, <1>9, <1>10, <1>11, <1>12, <1>13, <1>14,
     <1>15
  DEF Next

\* The tables are the dictionaries' image.
LEMMA Invariant == Spec => []Inv
<1>1. ASSUME Init PROVE Inv
  <2>1. IsDict(M!EmptyDict) /\ DOMAIN M!EmptyDict = {}
    BY FS_EmptySet DEF IsDict, M!EmptyDict
  <2>2. mem.sessions = M!EmptyDict /\ mem.transcripts = M!EmptyDict
        /\ mem.approvals = M!EmptyDict /\ mem.schedules = M!EmptyDict
        /\ mem.lastCleanup = Null /\ IsMem(mem)
    BY <1>1 DEF Init, M!EmptyStore, IsMem
  <2>3. pg.sessions = {} /\ pg.transcripts = {} /\ pg.approvals = {} /\ pg.schedules = {}
        /\ pg.maintenance = 0 /\ IsPg(pg)
    BY <1>1 DEF Init, P!EmptyTables, IsPg
  <2>4. now \in Int /\ now >= Start
    BY <1>1, StartAssumption DEF Init
  <2>5. QED
    BY <2>1, <2>2, <2>3, <2>4
    DEF Inv, AreSessions, AreTranscripts, AreApprovals, AreSchedules, IsLast
<1>2. QED
  BY <1>1, Invariance, PTL DEF Spec

\* Whatever was called before, the next call of any method gets the same answer from both
\* stores ("must match these semantics exactly", db/memory.py:31), but over an approval whose
\* wait() was cancelled, overtaken or too early and the next run of a schedule that a claim
\* which raised advanced in one store only: the tables are the dictionaries, a row for an
\* entry, but for these.
THEOREM AnswersAlike == Spec => []SameAnswers
<1>1. Inv => SameAnswers
  BY SessionAnswers, ApprovalAnswers, ScheduleAnswers, CleanupAnswers DEF SameAnswers
<1>2. QED
  BY <1>1, Invariant, PTL
=============================================================================
