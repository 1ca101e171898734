--------------------------- MODULE SchedulesProofs ---------------------------
(***************************************************************************)
(* Proofs about Schedules, for any number of workers and schedules, any      *)
(* periods and any failures.                                                 *)
(***************************************************************************)
EXTENDS Schedules, TLAPS

\* The steps of run_once after its claim committed.
Committed == {"batch", "turn", "record"}

IsRun(x) ==
  x \in [at: {"asleep", "polled", "claiming"} \cup Committed, clock: Nat,
         batch: SUBSET Job, cur: SUBSET Job, result: Statuses]

Shape ==
  /\ now \in Nat
  /\ sched \in [Ids -> Row]
  /\ tool \in [Ids -> Request]
  /\ run = [w \in Workers |-> run[w]]
  /\ \A w \in Workers : IsRun(run[w])
  /\ fate \in [Ids -> [Times -> {"open", "fired", "missed", "again"}]]
  /\ faults \in Nat

\* A schedule is created once, and has its next occurrence at one of its times.
Rows ==
  \A s \in Ids :
    /\ sched[s].first = 0 => sched[s].next = 0
    /\ sched[s].next % Every[s] = 0
    /\ tool[s].asks = "create" => sched[s].first = 0 /\ tool[s].when % Every[s] = 0

\* A claim holds the rows as they are; what is committed lies behind them.
Holds(w) ==
  /\ run[w].at \in {"asleep", "polled"} => run[w].batch = {}
  /\ run[w].at \in {"asleep", "polled", "claiming", "batch"} => run[w].cur = {}
  /\ run[w].at = "claiming" =>
       \A j \in run[w].batch : j.due # 0 /\ sched[j.id].next = j.due
  /\ run[w].at \in Committed =>
       \A j \in run[w].batch :
         /\ sched[j.id].first # 0
         /\ sched[j.id].next = 0 \/ j.due < sched[j.id].next

\* No two workers have the same occurrence, nor claims on the same schedule.
Apart(v, w) ==
  v # w =>
    \A i \in run[v].batch, j \in run[w].batch :
      /\ i # j
      /\ run[v].at = "claiming" /\ run[w].at = "claiming" => i.id # j.id

\* What a worker has not dealt with is open, what it deals with is not.
Undealt(w) ==
  run[w].at \in Committed =>
    \A j \in run[w].batch :
      j.due \in Times => (fate[j.id][j.due] = "open" <=> j \notin run[w].cur)

\* Only occurrences that lie behind a schedule have a fate.
Fates ==
  \A s \in Ids, d \in Times :
    fate[s][d] # "open" =>
      /\ fate[s][d] # "again"
      /\ sched[s].first # 0
      /\ sched[s].next = 0 \/ d < sched[s].next

Inv ==
  /\ Shape
  /\ Rows
  /\ \A w \in Workers : Holds(w) /\ Undealt(w)
  /\ \A v, w \in Workers : Apart(v, w)
  /\ Fates
-----------------------------------------------------------------------------
\* The next occurrence is later, and is one of the schedule's.
LEMMA NextIsLater ==
  ASSUME NEW s \in Ids, NEW t \in Nat
  PROVE  /\ NextAfter(s, t) \in Nat /\ NextAfter(s, t) > t
         /\ NextAfter(s, t) % Every[s] = 0
<1> DEFINE e == Every[s]
           q == t \div e + 1
<1>1. e \in Nat \ {0}
  BY ConstantsAssumption
<1> HIDE DEF e
<1>2. t \div e \in Nat /\ q \in Nat
  BY <1>1
<1>3. q * e > t /\ q * e \in Nat
  BY <1>1
<1>4. (q * e) % e = 0
  <2> HIDE DEF q
  <2>1. QED
    BY <1>1, <1>2
<1>5. QED
  BY <1>3, <1>4 DEF NextAfter, e

\* A worker's run takes a value of its own, and the others' stay.
LEMMA OneRuns ==
  ASSUME Inv, NEW w \in Workers, NEW x, IsRun(x), run' = [run EXCEPT ![w] = x]
  PROVE  /\ run' = [v \in Workers |-> run'[v]]
         /\ \A v \in Workers : run'[v] = IF v = w THEN x ELSE run[v]
         /\ \A v \in Workers : IsRun(run'[v])
  BY DEF Inv, Shape

\* What a worker holds may only shrink while it neither claims nor commits nor deals
\* with anything.
LEMMA RunsOn ==
  ASSUME Inv, NEW w \in Workers, NEW x, IsRun(x), run' = [run EXCEPT ![w] = x],
         UNCHANGED <<now, sched, tool, fate>>, faults' \in Nat,
         x.batch \subseteq run[w].batch,
         x.at \in {"asleep", "polled"} => x.batch = {} /\ x.cur = {},
         x.at \notin {"asleep", "polled"} =>
           /\ run[w].at \in Committed /\ x.at \in Committed \ {"batch"}
           /\ x.cur = run[w].cur
  PROVE  Inv'
<1>1. Shape'
  BY OneRuns DEF Inv, Shape
<1>2. Rows' /\ Fates'
  BY DEF Inv, Rows, Fates
<1>3. ASSUME NEW v \in Workers PROVE Holds(v)'
  BY OneRuns DEF Inv, Shape, Holds, Committed
<1>4. ASSUME NEW v \in Workers PROVE Undealt(v)'
  BY OneRuns DEF Inv, Shape, Undealt, Committed
<1>5. ASSUME NEW u \in Workers, NEW v \in Workers PROVE Apart(u, v)'
  BY OneRuns DEF Inv, Shape, Apart, Committed
<1>6. QED
  BY <1>1, <1>2, <1>3, <1>4, <1>5 DEF Inv

\* An occurrence gets a fate while a worker starts to deal with it.
LEMMA DealsWith ==
  ASSUME Inv, NEW w \in Workers, NEW j \in run[w].batch, run[w].at = "batch",
         NEW x, IsRun(x), run' = [run EXCEPT ![w] = x],
         x.at \in {"turn", "record"}, x.batch = run[w].batch, x.cur = {j},
         NEW what \in {"fired", "missed"}, Befalls(j, what),
         UNCHANGED <<now, sched, tool, faults>>
  PROVE  Inv'
<1>1. j \in Job /\ j.id \in Ids
  BY DEF Inv, Shape, IsRun, Job
<1>2. j.due \in Times => fate[j.id][j.due] = "open"
  BY DEF Inv, Holds, Undealt, Committed
<1>3. \A s \in Ids, d \in Times :
        fate'[s][d] = IF s = j.id /\ d = j.due THEN what ELSE fate[s][d]
  BY <1>1, <1>2 DEF Inv, Shape, Befalls
<1>4. fate' \in [Ids -> [Times -> {"open", "fired", "missed", "again"}]]
  BY <1>1, <1>2 DEF Inv, Shape, Befalls
<1>5. Shape'
  BY <1>4, OneRuns DEF Inv, Shape
<1>6. Rows'
  BY DEF Inv, Rows
<1>7. ASSUME NEW v \in Workers PROVE Holds(v)'
  BY OneRuns DEF Inv, Shape, Holds, Committed
<1>8. ASSUME NEW v \in Workers PROVE Undealt(v)'
  <2>1. ASSUME NEW i \in run[v].batch
        PROVE  i \in Job /\ (i = j <=> i.id = j.id /\ i.due = j.due)
    BY <1>1 DEF Inv, Shape, IsRun, Job
  <2>2. CASE v = w
    <3>1. ASSUME NEW i \in run[w].batch, i.due \in Times
          PROVE  fate'[i.id][i.due] = "open" <=> i # j
      <4>1. i # j => fate[i.id][i.due] = "open"
        BY <3>1 DEF Inv, Holds, Undealt, Committed
      <4>2. QED
        BY <1>3, <2>1, <2>2, <3>1, <4>1 DEF Job
    <3>2. QED
      BY <2>2, <3>1, OneRuns DEF Undealt
  <2>3. CASE v # w
    <3>1. j \notin run[v].batch
      BY <2>3 DEF Inv, Apart
    <3>2. QED
      BY <1>1, <1>3, <2>1, <2>3, <3>1, OneRuns DEF Inv, Undealt, Job
  <2>4. QED
    BY <2>2, <2>3
<1>9. ASSUME NEW u \in Workers, NEW v \in Workers PROVE Apart(u, v)'
  BY OneRuns DEF Inv, Apart
<1>10. Fates'
  BY <1>1, <1>3 DEF Inv, Holds, Fates, Committed
<1>11. QED
  BY <1>5, <1>6, <1>7, <1>8, <1>9, <1>10 DEF Inv

\* The SELECT takes rows that no other claim has locked.
LEMMA Claims ==
  ASSUME Inv, NEW w \in Workers, Claim(w)
  PROVE  Inv'
<1> DEFINE taken == {[id |-> s, due |-> sched[s].next] : s \in Due(w)}
           x == [run[w] EXCEPT !.at = "claiming", !.batch = taken]
<1>1. /\ taken \subseteq Job
      /\ \A j \in taken : j.id \in Due(w) /\ j.due # 0 /\ sched[j.id].next = j.due
  BY DEF Inv, Shape, Row, Due, Stored, Job
<1> HIDE DEF taken
<1>2. IsRun(x) /\ x.at = "claiming" /\ x.batch = taken /\ x.cur = {}
  BY <1>1 DEF Inv, Shape, IsRun, Holds, Claim
<1>3. run' = [run EXCEPT ![w] = x] /\ UNCHANGED <<now, sched, tool, fate, faults>>
  BY DEF Claim, AsPlanned, taken
<1> HIDE DEF x
<1>4. ASSUME NEW v \in Workers, v # w, NEW i \in run[v].batch, NEW j \in taken
      PROVE  i # j /\ (run[v].at = "claiming" => i.id # j.id)
  <2>1. Holds(v) /\ IsRun(run[v])
    BY DEF Inv, Shape
  <2>2. CASE run[v].at = "claiming"
    <3>1. Locked(i.id)
      BY <2>2 DEF Locked
    <3>2. QED
      BY <1>1, <3>1 DEF Due, Takes
  <2>3. CASE run[v].at \in Committed
    <3>1. sched[i.id].next = 0 \/ i.due < sched[i.id].next
      BY <2>1, <2>3 DEF Holds
    <3>2. i.due \in Nat /\ i.id \in Ids
      BY <2>1 DEF IsRun, Job
    <3>3. QED
      BY <1>1, <2>3, <3>1, <3>2 DEF Committed
  <2>4. QED
    BY <2>1, <2>2, <2>3 DEF Holds, IsRun
<1>5. Shape'
  BY <1>2, <1>3, OneRuns DEF Inv, Shape
<1>6. Rows' /\ Fates'
  BY <1>3 DEF Inv, Rows, Fates
<1>7. ASSUME NEW v \in Workers PROVE Holds(v)' /\ Undealt(v)'
  BY <1>1, <1>2, <1>3, OneRuns DEF Inv, Holds, Undealt, Committed
<1>8. ASSUME NEW u \in Workers, NEW v \in Workers PROVE Apart(u, v)'
  BY <1>2, <1>3, <1>4, OneRuns DEF Inv, Apart
<1>9. QED
  BY <1>5, <1>6, <1>7, <1>8 DEF Inv

\* The UPDATEs leave what was claimed behind its schedule.
LEMMA Advances ==
  ASSUME Inv, NEW w \in Workers, Advance(w)
  PROVE  Inv'
<1> DEFINE x == [run[w] EXCEPT !.at = "batch"]
<1>1. IsRun(x) /\ x.at = "batch" /\ x.batch = run[w].batch /\ x.cur = run[w].cur
  BY DEF Inv, Shape, IsRun, Committed
<1>2. run' = [run EXCEPT ![w] = x] /\ UNCHANGED <<now, tool, fate, faults>>
  BY DEF Advance, AsPlanned
<1> HIDE DEF x
<1>3. ASSUME NEW j \in run[w].batch
      PROVE  j.id \in Ids /\ j.due \in Nat /\ j.due # 0 /\ sched[j.id].next = j.due
  BY DEF Inv, Shape, IsRun, Holds, Advance, Job
<1>4. ASSUME NEW s \in Ids
      PROVE  /\ sched'[s] \in Row /\ sched'[s].first = sched[s].first
             /\ s \notin Claimed(w) => sched'[s] = sched[s]
             /\ s \in Claimed(w) => /\ sched'[s].next % Every[s] = 0
                                    /\ sched'[s].next > sched[s].next
                                    /\ sched[s].next # 0
  <2>1. sched[s] \in Row
    BY DEF Inv, Shape
  <2>2. sched'[s] = IF s \in Claimed(w) THEN [sched[s] EXCEPT !.next = Advanced(w, s)]
                                        ELSE sched[s]
    BY DEF Advance
  <2>3. s \in Claimed(w) => sched[s].next # 0
    BY <1>3 DEF Claimed
  <2>4. QED
    BY <2>1, <2>2, <2>3, NextIsLater DEF Row, Advanced
<1>5. Shape'
  <2>1. sched' \in [Ids -> Row]
    BY <1>4 DEF Advance
  <2>2. QED
    BY <1>1, <1>2, <2>1, OneRuns DEF Inv, Shape
<1>6. Rows'
  BY <1>2, <1>4 DEF Inv, Shape, Rows, Row
<1>7. ASSUME NEW v \in Workers PROVE Holds(v)'
  <2>1. CASE v = w
    <3>1. ASSUME NEW j \in run[w].batch
          PROVE  sched'[j.id].first # 0 /\ j.due < sched'[j.id].next
      <4>1. j.id \in Claimed(w)
        BY DEF Claimed
      <4>2. QED
        BY <1>3, <1>4, <4>1 DEF Inv, Rows
    <3>2. run[w].cur = {}
      BY DEF Inv, Holds, Advance
    <3>3. QED
      BY <1>1, <1>2, <2>1, <3>1, <3>2, OneRuns DEF Holds
  <2>2. CASE v # w
    <3>1. run'[v] = run[v] /\ Holds(v) /\ IsRun(run[v])
      BY <1>1, <1>2, <2>2, OneRuns DEF Inv, Shape
    <3>2. ASSUME run[v].at = "claiming", NEW j \in run[v].batch
          PROVE  j.id \in Ids /\ sched'[j.id] = sched[j.id]
      <4>1. j.id \in Ids
        BY <3>1 DEF IsRun, Job
      <4>2. j.id \notin Claimed(w)
        BY <2>2, <3>2 DEF Inv, Apart, Advance, Claimed
      <4>3. QED
        BY <1>4, <4>1, <4>2
    <3>3. ASSUME run[v].at \in Committed, NEW j \in run[v].batch
          PROVE  /\ sched'[j.id].first # 0
                 /\ sched'[j.id].next = 0 \/ j.due < sched'[j.id].next
      <4>1. j.id \in Ids /\ j.due \in Nat /\ sched[j.id] \in Row
        BY <3>1 DEF Inv, Shape, IsRun, Job
      <4>2. QED
        BY <1>4, <3>1, <3>3, <4>1 DEF Holds, Row
    <3>4. QED
      BY <3>1, <3>2, <3>3 DEF Holds
  <2>3. QED
    BY <2>1, <2>2
<1>8. ASSUME NEW v \in Workers PROVE Undealt(v)'
  <2>1. CASE v = w
    <3>1. ASSUME NEW j \in run[w].batch, j.due \in Times
          PROVE  fate[j.id][j.due] = "open"
      BY <1>3, <3>1 DEF Inv, Fates
    <3>2. run[w].cur = {}
      BY DEF Inv, Holds, Advance
    <3>3. QED
      BY <1>1, <1>2, <2>1, <3>1, <3>2, OneRuns DEF Undealt
  <2>2. CASE v # w
    BY <1>1, <1>2, <2>2, OneRuns DEF Inv, Undealt
  <2>3. QED
    BY <2>1, <2>2
<1>9. ASSUME NEW u \in Workers, NEW v \in Workers PROVE Apart(u, v)'
  BY <1>1, <1>2, OneRuns DEF Inv, Apart
<1>10. Fates'
  <2>1. ASSUME NEW s \in Ids, NEW d \in Times, fate'[s][d] # "open"
        PROVE  /\ fate'[s][d] # "again" /\ sched'[s].first # 0
               /\ sched'[s].next = 0 \/ d < sched'[s].next
    <3>1. sched[s] \in Row /\ d \in Nat
      BY DEF Inv, Shape, Times
    <3>2. QED
      BY <1>2, <1>4, <2>1, <3>1 DEF Inv, Fates, Row
  <2>2. QED
    BY <2>1 DEF Fates
<1>11. QED
  BY <1>5, <1>6, <1>7, <1>8, <1>9, <1>10 DEF Inv

\* record_run tells the row how the turn went, and the worker goes on to the next.
LEMMA Records ==
  ASSUME Inv, NEW w \in Workers, Record(w)
  PROVE  Inv'
<1> DEFINE x == Rest(w)
<1>1. /\ IsRun(x) /\ x.at \in {"asleep", "batch"} /\ x.cur = {}
      /\ x.batch = IF x.at = "asleep" THEN {} ELSE run[w].batch \ run[w].cur
  BY DEF Inv, Shape, IsRun, Rest, Asleep, Statuses, Committed
<1>2. run' = [run EXCEPT ![w] = x] /\ UNCHANGED <<now, tool, fate, faults>>
  BY DEF Record, AsPlanned
<1> HIDE DEF x
<1>3. \A s \in Ids : /\ sched'[s] \in Row /\ sched'[s].first = sched[s].first
                     /\ sched'[s].next = sched[s].next
  BY DEF Inv, Shape, IsRun, Row, Record, Recorded
<1>4. Shape'
  <2>1. sched' \in [Ids -> Row]
    BY <1>3 DEF Record, Recorded
  <2>2. QED
    BY <1>1, <1>2, <2>1, OneRuns DEF Inv, Shape
<1>5. Rows' /\ Fates'
  BY <1>2, <1>3 DEF Inv, Rows, Fates
<1>6. ASSUME NEW v \in Workers PROVE Holds(v)'
  <2>1. \A j \in run[v].batch : j.id \in Ids
    BY DEF Inv, Shape, IsRun, Job
  <2>2. QED
    BY <1>1, <1>2, <1>3, <2>1, OneRuns DEF Inv, Holds, Record, Committed
<1>7. ASSUME NEW v \in Workers PROVE Undealt(v)'
  BY <1>1, <1>2, OneRuns DEF Inv, Undealt, Record, Committed
<1>8. ASSUME NEW u \in Workers, NEW v \in Workers PROVE Apart(u, v)'
  BY <1>1, <1>2, OneRuns DEF Inv, Apart
<1>9. QED
  BY <1>4, <1>5, <1>6, <1>7, <1>8 DEF Inv

\* No row is created twice, and none is changed while a claim has it locked.
LEMMA Grants ==
  ASSUME Inv, NEW s \in Ids, Approve(s)
  PROVE  Inv'
<1>1. Granted(s) \in Row /\ sched[s] \in Row /\ tool[s] \in Request
  BY DEF Inv, Shape, Granted, Row, Request, Statuses
<1>2. /\ sched' = [sched EXCEPT ![s] = Granted(s)]
      /\ tool' = [tool EXCEPT ![s] = NoRequest]
      /\ UNCHANGED <<now, run, fate, faults>>
  BY DEF Approve, AsPlanned
<1>3. \/ /\ sched[s].first = 0 /\ Granted(s).first = Granted(s).next
         /\ Granted(s).next % Every[s] = 0
      \/ Granted(s).first = sched[s].first /\ Granted(s).next = 0
  BY <1>1 DEF Inv, Rows, Granted, Row
<1>4. Shape'
  BY <1>1, <1>2 DEF Inv, Shape, Request, NoRequest
<1>5. Rows'
  <2>1. ASSUME NEW r \in Ids
        PROVE  /\ sched'[r] = IF r = s THEN Granted(s) ELSE sched[r]
               /\ tool'[r] = IF r = s THEN NoRequest ELSE tool[r]
    BY <1>2 DEF Inv, Shape
  <2>2. 0 % Every[s] = 0
    BY ConstantsAssumption
  <2>3. QED
    BY <1>3, <2>1, <2>2 DEF Inv, Rows, NoRequest
<1>6. ASSUME NEW v \in Workers PROVE Holds(v)'
  <2>1. ASSUME NEW j \in run[v].batch, run[v].at = "claiming"
        PROVE  sched'[j.id] = sched[j.id]
    BY <1>2, <2>1 DEF Inv, Shape, Approve, Locked
  <2>2. ASSUME NEW j \in run[v].batch, run[v].at \in Committed
        PROVE  /\ sched'[j.id].first # 0
               /\ sched'[j.id].next = 0 \/ j.due < sched'[j.id].next
    <3>1. /\ sched[j.id].first # 0
          /\ sched[j.id].next = 0 \/ j.due < sched[j.id].next
      BY <2>2 DEF Inv, Holds
    <3>2. j.id \in Ids /\ sched'[j.id] = IF j.id = s THEN Granted(s) ELSE sched[j.id]
      BY <1>2 DEF Inv, Shape, IsRun, Job
    <3>3. QED
      BY <1>3, <3>1, <3>2
  <2>3. QED
    BY <1>2, <2>1, <2>2 DEF Inv, Holds
<1>7. Fates'
  <2>1. ASSUME NEW r \in Ids PROVE sched'[r] = IF r = s THEN Granted(s) ELSE sched[r]
    BY <1>2 DEF Inv, Shape
  <2>2. QED
    BY <1>2, <1>3, <2>1 DEF Inv, Fates
<1>8. QED
  BY <1>2, <1>4, <1>5, <1>6, <1>7 DEF Inv, Undealt, Apart

\* A request computes, before it asks, a time of the schedule that it may create.
LEMMA Asks ==
  ASSUME Inv, NEW s \in Ids, Create(s) \/ Remove(s) \/ Deny(s)
  PROVE  Inv'
<1>1. now \in Nat /\ NextAfter(s, now) \in Nat /\ NextAfter(s, now) % Every[s] = 0
  BY NextIsLater DEF Inv, Shape
<1>2. UNCHANGED <<now, sched, run, fate, faults>>
  BY DEF Create, Remove, Deny, AsPlanned
<1>3. /\ tool' \in [Ids -> Request]
      /\ \A r \in Ids : tool'[r].asks = "create" =>
           sched[r].first = 0 /\ tool'[r].when % Every[r] = 0
  <2> DEFINE q == [asks |-> "create", when |-> NextAfter(s, now)]
  <2>1. CASE Create(s)
    <3>1. q \in Request /\ sched[s].first = 0 /\ q.when % Every[s] = 0
      BY <1>1, <2>1 DEF Create, Request
    <3>2. tool' = [tool EXCEPT ![s] = q]
      BY <2>1 DEF Create
    <3> HIDE DEF q
    <3>3. QED
      BY <3>1, <3>2 DEF Inv, Shape, Rows
  <2>2. CASE Remove(s)
    BY <2>2 DEF Inv, Shape, Rows, Remove, Request
  <2>3. CASE Deny(s)
    BY <2>3 DEF Inv, Shape, Rows, Deny, Request, NoRequest
  <2>4. QED
    BY <2>1, <2>2, <2>3
<1>4. Shape' /\ Rows'
  BY <1>2, <1>3 DEF Inv, Shape, Rows
<1>5. QED
  BY <1>2, <1>4 DEF Inv, Holds, Undealt, Apart, Fates

LEMMA Runs ==
  ASSUME Inv, NEW w \in Workers, Run(w) \/ Fails(w)
  PROVE  Inv'
<1> USE DEF AsPlanned, Fault
<1>1. IsRun(Asleep) /\ Asleep.at = "asleep" /\ Asleep.batch = {} /\ Asleep.cur = {}
  BY DEF Asleep, IsRun, Statuses, Committed
<1>2. ASSUME run' = [run EXCEPT ![w] = Asleep], UNCHANGED <<now, sched, tool, fate>>,
             faults' \in Nat
      PROVE  Inv'
  BY <1>1, <1>2, RunsOn
<1>3. CASE ClaimNothing(w) \/ ClaimRaises(w) \/ ClaimFails(w) \/ RecordRaises(w) \/ Crash(w)
  BY <1>2, <1>3
  DEF Inv, Shape, ClaimNothing, ClaimRaises, ClaimFails, RecordRaises, Crash, Abandon
<1>4. CASE Poll(w)
  <2> DEFINE x == [run[w] EXCEPT !.at = "polled", !.clock = now]
  <2>1. IsRun(x) /\ x.at = "polled" /\ x.batch = run[w].batch /\ x.cur = run[w].cur
    BY DEF Inv, Shape, IsRun
  <2>2. run[w].batch = {} /\ run[w].cur = {}
    BY <1>4 DEF Inv, Holds, Poll
  <2>3. /\ run' = [run EXCEPT ![w] = x]
        /\ UNCHANGED <<now, sched, tool, fate>> /\ faults' \in Nat
    BY <1>4 DEF Inv, Shape, Poll
  <2> HIDE DEF x
  <2>4. QED
    BY <2>1, <2>2, <2>3, RunsOn
<1>5. CASE TurnEnds(w) \/ TurnRaises(w)
  <2>1. PICK result \in Statuses :
          run' = [run EXCEPT ![w].at = "record", ![w].result = result]
    BY <1>5 DEF TurnEnds, TurnRaises, Catches, Statuses
  <2> DEFINE x == [run[w] EXCEPT !.at = "record", !.result = result]
  <2>2. IsRun(x) /\ x.at = "record" /\ x.batch = run[w].batch /\ x.cur = run[w].cur
    BY DEF Inv, Shape, IsRun, Committed
  <2>3. /\ run[w].at = "turn"
        /\ UNCHANGED <<now, sched, tool, fate>> /\ faults' \in Nat
    BY <1>5 DEF Inv, Shape, TurnEnds, TurnRaises
  <2>4. run' = [run EXCEPT ![w] = x]
    BY <2>1
  <2> HIDE DEF x
  <2>5. QED
    BY <2>2, <2>3, <2>4, RunsOn DEF Committed
<1>6. CASE Skip(w)
  <2> DEFINE X(j) == [run[w] EXCEPT !.at = "record", !.cur = {j}, !.result = "missed"]
  <2>1. PICK j \in run[w].batch :
          Befalls(j, "missed") /\ run' = [run EXCEPT ![w] = X(j)]
    BY <1>6 DEF Skip
  <2>2. IsRun(X(j)) /\ X(j).at = "record" /\ X(j).batch = run[w].batch /\ X(j).cur = {j}
    BY DEF Inv, Shape, IsRun, Statuses, Committed
  <2>3. run[w].at = "batch" /\ UNCHANGED <<now, sched, tool, faults>>
    BY <1>6 DEF Skip
  <2> HIDE DEF X
  <2>4. QED
    BY <2>1, <2>2, <2>3, DealsWith
<1>7. CASE Fire(w)
  <2> DEFINE X(j) == [run[w] EXCEPT !.at = "turn", !.cur = {j}]
  <2>1. PICK j \in run[w].batch :
          Befalls(j, "fired") /\ run' = [run EXCEPT ![w] = X(j)]
    BY <1>7 DEF Fire
  <2>2. IsRun(X(j)) /\ X(j).at = "turn" /\ X(j).batch = run[w].batch /\ X(j).cur = {j}
    BY DEF Inv, Shape, IsRun, Committed
  <2>3. run[w].at = "batch" /\ UNCHANGED <<now, sched, tool, faults>>
    BY <1>7 DEF Fire
  <2> HIDE DEF X
  <2>4. QED
    BY <2>1, <2>2, <2>3, DealsWith
<1>8. CASE Claim(w) \/ Advance(w) \/ Record(w)
  BY <1>8, Claims, Advances, Records
<1>9. QED
  BY <1>3, <1>4, <1>5, <1>6, <1>7, <1>8 DEF Run, Fails

LEMMA Invariant == Spec => []Inv
<1>1. ASSUME Init PROVE Inv
  <2>1. \A w \in Workers : run[w] = Asleep /\ IsRun(Asleep)
    BY <1>1 DEF Init, Asleep, IsRun, Statuses
  <2>2. Shape
    BY <1>1, <2>1, ConstantsAssumption
    DEF Init, Shape, Row, NoRow, Statuses, Request, NoRequest
  <2>3. Rows /\ Fates
    <3>1. \A s \in Ids : 0 % Every[s] = 0
      BY ConstantsAssumption
    <3>2. QED
      BY <1>1, <3>1 DEF Init, Rows, Fates, NoRow, NoRequest
  <2>4. QED
    BY <2>1, <2>2, <2>3 DEF Inv, Holds, Undealt, Apart, Asleep, Committed
<1>2. ASSUME Inv, [Next]_vars PROVE Inv'
  <2>1. CASE Tick \/ \E s \in Ids : Breaks(s)
    BY <1>2, <2>1 DEF Inv, Shape, Rows, Holds, Undealt, Apart, Fates, Tick, AsPlanned, Breaks
  <2>2. CASE UNCHANGED vars
    BY <1>2, <2>2 DEF Inv, Shape, Rows, Holds, Undealt, Apart, Fates, vars
  <2>3. QED
    BY <1>2, <2>1, <2>2, Asks, Grants, Runs DEF Next, Ask
<1>3. QED
  BY <1>1, <1>2, PTL DEF Spec

\* No occurrence is fired or given up twice, however many workers poll at once and
\* whatever fails (claim_due_schedules: FOR UPDATE SKIP LOCKED, and the row advances
\* before anything is fired).
THEOREM FiresOnce == Spec => []FiredOnce
<1>1. Inv => FiredOnce
  BY DEF Inv, Fates, FiredOnce
<1>2. QED
  BY <1>1, Invariant, PTL
-----------------------------------------------------------------------------
\* Between an occurrence and the next there is none.
LEMMA NoneBetween ==
  ASSUME NEW s \in Ids, NEW n \in Nat, n % Every[s] = 0, NEW d \in Nat, d % Every[s] = 0,
         n <= d, d < NextAfter(s, n)
  PROVE  d = n
<1> DEFINE e == Every[s]
           a == n \div e
           b == d \div e
<1>1. e \in Nat \ {0}
  BY ConstantsAssumption
<1> HIDE DEF e
<1>2. a \in Nat /\ b \in Nat /\ n = a * e /\ d = b * e
  BY <1>1 DEF e
<1>3. b * e < (a + 1) * e /\ a * e <= b * e
  BY <1>2 DEF NextAfter, e
<1> HIDE DEF a, b
<1>4. b < a + 1 /\ a <= b
  BY <1>1, <1>2, <1>3
<1>5. QED
  BY <1>2, <1>4

\* An occurrence that is dealt with, or held, stays so while nothing fails.
LEMMA Remembers == ASSUME Inv, NoneForgotten, [Next]_vars PROVE NoneForgotten'
<1> DEFINE Lies(s, d) == /\ Stored(s) /\ d >= sched[s].first /\ d < sched[s].next
                         /\ d % Every[s] = 0
           Held(s, d) == \E w \in Workers : [id |-> s, due |-> d] \in run[w].batch
<1> USE DEF AsPlanned, Fault
<1>1. SUFFICES ASSUME faults' = 0, NEW s \in Ids, NEW d \in Times, Lies(s, d)'
               PROVE  fate'[s][d] # "open" \/ Held(s, d)'
  BY DEF NoneForgotten
<1>2. sched[s] \in Row /\ d \in Nat /\ faults \in Nat
  BY DEF Inv, Shape, Times
<1>3. faults = 0 /\ Lies(s, d) => fate[s][d] # "open" \/ Held(s, d)
  BY DEF NoneForgotten
<1>4. CASE UNCHANGED <<sched, run, fate, faults>>
  BY <1>1, <1>3, <1>4 DEF Stored
<1>5. ASSUME NEW r \in Ids, Approve(r)
      PROVE  fate'[s][d] # "open" \/ Held(s, d)'
  <2>1. /\ UNCHANGED <<run, fate, faults>>
        /\ sched'[s] = IF s = r THEN Granted(r) ELSE sched[s]
    BY <1>5 DEF Inv, Shape, Approve
  <2>2. ~ (Granted(s).first <= d /\ d < Granted(s).next)
    BY <1>2 DEF Inv, Shape, Granted, Request, Row
  <2>3. Lies(s, d)
    BY <1>1, <2>1, <2>2 DEF Stored
  <2>4. QED
    BY <1>1, <1>3, <2>1, <2>3
<1>6. ASSUME NEW w \in Workers, UNCHANGED <<sched, faults>>,
             fate[s][d] # "open" => fate'[s][d] # "open",
             \A v \in Workers : \A j \in run[v].batch :
               j \notin run'[v].batch /\ j.due \in Times => fate[j.id][j.due] # "open"
      PROVE  fate'[s][d] # "open" \/ Held(s, d)'
  BY <1>1, <1>3, <1>6 DEF Stored
<1>7. ASSUME NEW w \in Workers, Fails(w) PROVE FALSE
  BY <1>1, <1>2, <1>7 DEF Fails, ClaimFails, RecordRaises, Crash
<1>8. ASSUME NEW w \in Workers, Run(w)
      PROVE  fate'[s][d] # "open" \/ Held(s, d)'
  <2>1. CASE Poll(w) \/ TurnEnds(w) \/ TurnRaises(w)
    <3>1. ASSUME NEW v \in Workers PROVE run'[v].batch = run[v].batch
      <4>1. run = [u \in Workers |-> run[u]] /\ IsRun(run[v])
        BY DEF Inv, Shape
      <4>2. CASE Poll(w)
        BY <4>1, <4>2 DEF IsRun, Poll
      <4>3. CASE TurnEnds(w)
        BY <4>1, <4>3 DEF IsRun, TurnEnds
      <4>4. CASE TurnRaises(w)
        BY <4>1, <4>4 DEF IsRun, TurnRaises, Catches
      <4>5. QED
        BY <2>1, <4>2, <4>3, <4>4
    <3>2. QED
      BY <1>6, <2>1, <3>1 DEF Poll, TurnEnds, TurnRaises
  <2>2. CASE Claim(w) \/ ClaimNothing(w)
    <3>1. run[w].batch = {}
      BY <2>2 DEF Inv, Holds, Claim, ClaimNothing
    <3>2. \A v \in Workers : v # w => run'[v] = run[v]
      BY <2>2 DEF Inv, Shape, Claim, ClaimNothing, Abandon
    <3>3. QED
      BY <1>6, <2>2, <3>1, <3>2 DEF Claim, ClaimNothing
  <2>3. CASE Skip(w) \/ Fire(w)
    <3>1. ASSUME NEW v \in Workers PROVE run'[v].batch = run[v].batch
      <4>1. run = [u \in Workers |-> run[u]] /\ IsRun(run[v])
        BY DEF Inv, Shape
      <4>2. CASE Skip(w)
        BY <4>1, <4>2 DEF IsRun, Skip
      <4>3. CASE Fire(w)
        BY <4>1, <4>3 DEF IsRun, Fire
      <4>4. QED
        BY <2>3, <4>2, <4>3
    <3>2. PICK j \in run[w].batch, what \in {"missed", "fired"} : Befalls(j, what)
      BY <2>3 DEF Skip, Fire
    <3>3. fate[s][d] # "open" => fate'[s][d] # "open"
      BY <3>2 DEF Inv, Shape, Befalls
    <3>4. QED
      BY <1>6, <2>3, <3>1, <3>3 DEF Skip, Fire
  <2>4. CASE Advance(w)
    <3>1. \A v \in Workers : run'[v].batch = run[v].batch
      BY <2>4 DEF Inv, Shape, IsRun, Advance
    <3>2. UNCHANGED <<fate, faults>>
      BY <2>4 DEF Advance
    <3>3. CASE Lies(s, d)
      BY <1>1, <1>3, <3>1, <3>2, <3>3
    <3>4. CASE ~ Lies(s, d)
      <4>1. s \in Claimed(w) /\ sched'[s] = [sched[s] EXCEPT !.next = Advanced(w, s)]
        BY <1>1, <2>4, <3>4 DEF Advance, Stored
      <4>2. PICK j \in run[w].batch : j.id = s
        BY <4>1 DEF Claimed
      <4>3. j = [id |-> s, due |-> sched[s].next] /\ sched[s].next # 0
        BY <2>4, <4>2 DEF Inv, Shape, IsRun, Holds, Advance, Job
      <4>4. sched[s].next <= d /\ d < NextAfter(s, sched[s].next)
        BY <1>1, <1>2, <3>4, <4>1, <4>3 DEF Stored, Advanced, Row
      <4>5. d = sched[s].next
        BY <1>1, <1>2, <4>4, NoneBetween DEF Inv, Rows, Row
      <4>6. QED
        BY <3>1, <4>3, <4>5
    <3>5. QED
      BY <3>3, <3>4
  <2>5. CASE Record(w)
    <3>1. \A r \in Ids : sched'[r].first = sched[r].first /\ sched'[r].next = sched[r].next
      BY <2>5 DEF Inv, Shape, Row, Record, Recorded
    <3>2. UNCHANGED <<fate, faults>>
      BY <2>5 DEF Record
    <3>3. Lies(s, d)
      BY <1>1, <3>1 DEF Stored
    <3>4. ASSUME NEW v \in Workers, [id |-> s, due |-> d] \in run[v].batch,
                 fate[s][d] = "open"
          PROVE  [id |-> s, due |-> d] \in run'[v].batch
      <4>1. v = w => [id |-> s, due |-> d] \in run[w].batch \ run[w].cur
        BY <2>5, <3>4 DEF Inv, Undealt, Record, Committed
      <4>2. run' = [run EXCEPT ![w] = Rest(w)]
        BY <2>5 DEF Record
      <4>3. v = w => [id |-> s, due |-> d] \in Rest(w).batch
        BY <4>1 DEF Inv, Shape, IsRun, Rest
      <4>4. QED
        BY <3>4, <4>2, <4>3 DEF Inv, Shape
    <3>5. QED
      BY <1>1, <1>3, <3>2, <3>3, <3>4
  <2>6. CASE ClaimRaises(w)
    <3>1. /\ UNCHANGED <<sched, fate, faults>> /\ run[w].at = "claiming"
          /\ \A v \in Workers : v # w => run'[v] = run[v]
      BY <2>6 DEF Inv, Shape, ClaimRaises, Abandon
    <3>2. [id |-> s, due |-> d] \notin run[w].batch
      BY <1>1, <1>2, <3>1 DEF Inv, Holds, Stored, Row
    <3>3. QED
      BY <1>1, <1>3, <3>1, <3>2 DEF Stored
  <2>7. QED
    BY <1>8, <2>1, <2>2, <2>3, <2>4, <2>5, <2>6 DEF Run
<1>9. QED
  BY <1>4, <1>5, <1>7, <1>8
  DEF Next, Ask, Tick, Breaks, Create, Remove, Deny, vars

\* Without failures no occurrence of a stored schedule is passed over in silence
\* (run_once goes on after a turn that raises; claim_due_schedules advances by one).
THEOREM ForgetsNone == Spec => []NoneForgotten
<1>1. Init => NoneForgotten
  BY DEF Init, NoneForgotten, Stored, NoRow
<1>2. QED
  BY <1>1, Invariant, Remembers, PTL DEF Spec
=============================================================================
