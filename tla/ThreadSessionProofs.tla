------------------------ MODULE ThreadSessionProofs ------------------------
(***************************************************************************)
(* Theorems about ThreadSession, for every set of workers, every set of    *)
(* modes and every bound on turns and failures.                            *)
(***************************************************************************)
EXTENDS ThreadSession, TLAPS

\* The steps of a turn after query() wrote the question to the CLI's file.
AskingSteps == {"stream", "deliver", "bump", "settle", "archive"}

\* A turn that has been asked appends to a transcript that has a name.
AskedIsNamed == \A w \in Workers : pc[w] \in AskingSteps => ses[w].cli \in Turns

\* While the sweeper waits for the lock, a session that still counts as idle
\* has not been given a turn: handle() stamps it before the turn, and the sweep
\* judges by the `now` it started with.
IdleIsNotRunning ==
  \A w \in Workers : spc[w] = "wait" /\ idle[w] => pc[w] = "idle"

TypeInv == TypeOK /\ AskedIsNamed /\ IdleIsNotRunning

-----------------------------------------------------------------------------
LEMMA SuffersKeepsType ==
  ASSUME TypeOK, NEW kind, Suffers(kind) PROVE faults' \in 0..MaxFaults
BY ConstantsAssumption DEF Suffers, TypeOK

\* The sentinels, and what each step makes of a session, are well typed.
LEMMA SessionTypes ==
  /\ NewSession \in Session
  /\ NoRow \in Row
  /\ NoBlob \in Blob
  /\ NoSid \in Sids
  /\ Turns \subseteq Sids
<1>1. NoSid \in Sids /\ Turns \subseteq Sids
  BY ConstantsAssumption DEF Sids, NoSid, Turns
<1>2. NoRow \in Row
  BY <1>1, ConstantsAssumption DEF NoRow, Row
<1>3. NoBlob \in Blob
  BY <1>1 DEF NoBlob, Blob
<1>4. NewSession \in Session
  BY <1>1, ConstantsAssumption DEF NewSession, Session
<1> QED  BY <1>1, <1>2, <1>3, <1>4

LEMMA DroppedType ==
  ASSUME NEW s \in Session PROVE Dropped(s) \in Session /\ Closed(s) \in Session
BY SessionTypes DEF Session, Dropped, Closed

LEMMA AskedType ==
  ASSUME NEW s \in Session, NEW t \in Turns
  PROVE  Asked(s, t) \in Session /\ Asked(s, t).cli \in Turns
<1>1. <<t, "answered">> \in Records /\ t \in Sids
  BY SessionTypes DEF Records
<1>2. s.cli \in Sids /\ s.owes \in SUBSET Records
  BY DEF Session
<1>3. s.cli # NoSid => s.cli \in Turns
  BY <1>2, ConstantsAssumption DEF Sids, NoSid, Turns
<1>4. CASE s.cli = NoSid
  BY <1>1, <1>2, <1>4 DEF Session, Asked
<1>5. CASE s.cli # NoSid
  BY <1>1, <1>2, <1>3, <1>5 DEF Session, Asked
<1> QED  BY <1>4, <1>5

LEMMA CurrentWithType ==
  ASSUME NEW s \in Session, NEW n \in Nat PROVE CurrentWith(s, n) \in Session
BY DEF CurrentWith, Session

LEMMA FlushedType ==
  ASSUME NEW s \in Session
  PROVE  /\ [s EXCEPT !.owes = {}] \in Session
         /\ [s EXCEPT !.owes = {}].cli = s.cli
         /\ [s EXCEPT !.archived = FALSE] \in Session
         /\ s.owes \in SUBSET Records
BY DEF Session

LEMMA OpenedType ==
  ASSUME NEW s \in Session, NEW mode \in Modes, NEW t \in Sids
  PROVE  Opened(s, mode, t) \in Session
BY DEF Opened, Session

LEMMA FiledType ==
  ASSUME NEW s \in Session, NEW b \in BOOLEAN PROVE Filed(s, b) \in Session
BY DEF Filed, Session

LEMMA BumpedRowType == ASSUME TypeOK PROVE BumpedRow \in Row
<1>1. CASE row.exists
  BY <1>1 DEF TypeOK, BumpedRow, Row
<1>2. CASE ~row.exists
  BY <1>2, SessionTypes, ConstantsAssumption DEF BumpedRow, Row, NoRow
<1> QED  BY <1>1, <1>2

LEMMA ReclaimedType ==
  ASSUME NEW files \in [Turns -> SUBSET Records], NEW s
  PROVE  Reclaimed(files, s) \in [Turns -> SUBSET Records]
BY DEF Reclaimed

LEMMA InitType == Init => TypeInv
BY SessionTypes, ConstantsAssumption
   DEF Init, TypeInv, TypeOK, AskedIsNamed, IdleIsNotRunning, Turns, TurnSteps,
       SweepSteps, AskingSteps
\* Giving a turn up keeps the types of what it touches, and leaves other workers alone.
LEMMA RaisesKeepsType ==
  ASSUME TypeInv, NEW w \in Workers, NEW s \in Session, Raises(w, s)
  PROVE  /\ ses' \in [Workers -> Session]
         /\ pc' \in [Workers -> TurnSteps]
         /\ lock' \in SUBSET Actors
         /\ pc'[w] = "idle"
         /\ \A v \in Workers \ {w} : pc'[v] = pc[v] /\ ses'[v] = ses[v]
BY DroppedType DEF TypeInv, TypeOK, Raises, Goto, Unlock, TurnSteps

LEMMA RaisesKeepsTypeInv ==
  ASSUME TypeInv, NEW w \in Workers, NEW s \in Session, Raises(w, s),
         UNCHANGED <<tables, disk, cached, locals, sweeper, history>>,
         faults' \in 0..MaxFaults
  PROVE  TypeInv'
<1>1. /\ ses' \in [Workers -> Session]
      /\ pc' \in [Workers -> TurnSteps]
      /\ lock' \in SUBSET Actors
      /\ pc'[w] = "idle"
      /\ \A v \in Workers \ {w} : pc'[v] = pc[v] /\ ses'[v] = ses[v]
  BY RaisesKeepsType
<1>2. idle' = idle
  BY DEF Raises
<1>3. TypeOK'
  BY <1>1, <1>2 DEF TypeInv, TypeOK, tables, locals, sweeper, history
<1>4. AskedIsNamed'
  BY <1>1 DEF TypeInv, AskedIsNamed, AskingSteps
<1>5. IdleIsNotRunning'
  BY <1>1, <1>2 DEF TypeInv, IdleIsNotRunning, sweeper
<1> QED
  BY <1>3, <1>4, <1>5 DEF TypeInv

\* Every step keeps every variable's type.
LEMMA TypeStep == ASSUME TypeInv, [Next]_vars PROVE TypeInv'
<1> USE DEF tables, db, manager, locals, sweeper, history, ghosts
<1> USE DEF TypeInv, TypeOK, AskedIsNamed, IdleIsNotRunning, AskingSteps
<1>1. ASSUME NEW w \in Workers, Acquire(w) PROVE TypeInv'
  BY <1>1, ConstantsAssumption DEF Acquire, LockFree, Goto, Turns, TurnSteps, Actors
<1>2. ASSUME NEW w \in Workers, ReadRow(w) PROVE TypeInv'
  BY <1>2 DEF ReadRow, Goto, TurnSteps
<1>3. ASSUME NEW w \in Workers, CloseStale(w) PROVE TypeInv'
  BY <1>3, DroppedType, ReclaimedType DEF CloseStale, Goto, TurnSteps
<1>4. ASSUME NEW w \in Workers, Connect(w) PROVE TypeInv'
  <2>1. CurrentWith(ses[w], snap[w].seq) \in Session
    BY CurrentWithType DEF Row
  <2>2. disk' \in [Workers -> [Turns -> SUBSET Records]]
    BY <1>4 DEF Connect, Blob
  <2> QED
    BY <1>4, <2>1, <2>2 DEF Connect, Goto, TurnSteps
<1>5. ASSUME NEW w \in Workers, OpenFresh(w) PROVE TypeInv'
  <2>1. Opened(ses[w], snap[w].mode, NoSid) \in Session
    BY SessionTypes, OpenedType DEF Row
  <2> QED
    BY <1>5, <2>1 DEF OpenFresh, Goto, TurnSteps
<1>6. ASSUME NEW w \in Workers, OpenResume(w) PROVE TypeInv'
  <2>1. Opened(ses[w], snap[w].mode, snap[w].sid) \in Session
    BY SessionTypes, OpenedType DEF Row
  <2> QED
    BY <1>6, <2>1 DEF OpenResume, Goto, TurnSteps
<1>7. ASSUME NEW w \in Workers, OpenFallback(w) PROVE TypeInv'
  <2>1. Opened(ses[w], snap[w].mode, NoSid) \in Session
    BY SessionTypes, OpenedType DEF Row
  <2>2. disk' \in [Workers -> [Turns -> SUBSET Records]]
    BY <1>7 DEF OpenFallback
  <2>3. faults' \in 0..MaxFaults
    BY <1>7, SuffersKeepsType DEF OpenFallback
  <2> QED
    BY <1>7, <2>1, <2>2, <2>3 DEF OpenFallback, Goto, TurnSteps
<1>8. ASSUME NEW w \in Workers, Query(w) PROVE TypeInv'
  BY <1>8, AskedType DEF Query, Goto, TurnSteps, Records
<1>9. ASSUME NEW w \in Workers, Upsert(w) PROVE TypeInv'
  BY <1>9, SessionTypes DEF Upsert, Goto, TurnSteps, Session, Row
<1>10. ASSUME NEW w \in Workers, Deliver(w) PROVE TypeInv'
  BY <1>10, SuffersKeepsType DEF Deliver, Goto, TurnSteps
<1>11. ASSUME NEW w \in Workers, Bump(w) PROVE TypeInv'
  <2>1. BumpedRow \in Row /\ CurrentWith(ses[w], BumpedRow.seq) \in Session
    BY BumpedRowType, CurrentWithType DEF Row
  <2>2. CurrentWith(ses[w], BumpedRow.seq).cli = ses[w].cli
    BY DEF CurrentWith, Session
  <2> QED
    BY <1>11, <2>1, <2>2 DEF Bump, Goto, TurnSteps
<1>12. ASSUME NEW w \in Workers, Settle(w) PROVE TypeInv'
  BY <1>12, SuffersKeepsType DEF Settle, Goto, TurnSteps
<1>13. ASSUME NEW w \in Workers, Archive(w) PROVE TypeInv'
  <2>1. Filed(ses[w], TRUE) \in Session
    BY FiledType
  <2>2. blob' \in Blob
    BY <1>13, SessionTypes DEF Archive, Saves, Blob
  <2> QED
    BY <1>13, <2>1, <2>2 DEF Archive, Returns, Unlock, Goto, TurnSteps
<1>14. ASSUME NEW w \in Workers, ArchiveFails(w) PROVE TypeInv'
  <2>1. Filed(ses[w], FALSE) \in Session
    BY FiledType
  <2>2. [sid |-> ses[w].cli, recs |-> disk[w][ses[w].cli]] \in Blob
    BY <1>14, SessionTypes DEF ArchiveFails, Blob
  <2>3. blob' \in Blob /\ faults' \in 0..MaxFaults
    BY <1>14, <2>2, SuffersKeepsType DEF ArchiveFails, Saves
  <2> QED
    BY <1>14, <2>1, <2>3 DEF ArchiveFails, Returns, Unlock, Goto, TurnSteps
<1>15. ASSUME NEW w \in Workers, Flush(w) PROVE TypeInv'
  <2>1. ses[w].owes \in SUBSET Records
    BY FlushedType
  <2>2. disk' \in [Workers -> [Turns -> SUBSET Records]]
    <3> DEFINE c == ses[w].cli
               f == [disk[w] EXCEPT ![c] = disk[w][c] \cup ses[w].owes]
    <3>1. disk' = [disk EXCEPT ![w] = f]
      BY <1>15 DEF Flush
    <3>2. /\ disk[w] \in [Turns -> SUBSET Records]
          /\ \A x \in Turns : (disk[w][x] \cup ses[w].owes) \in SUBSET Records
      BY <2>1
    <3>3. f \in [Turns -> SUBSET Records]
      BY ONLY <3>2
    <3> QED  BY <3>1, <3>3
  <2>3. ses' \in [Workers -> Session] /\ \A v \in Workers : ses'[v].cli = ses[v].cli
    BY <1>15, FlushedType DEF Flush
  <2> QED
    BY <1>15, <2>2, <2>3 DEF Flush
<1>16. ASSUME NEW w \in Workers, GoIdle(w) PROVE TypeInv'
  BY <1>16 DEF GoIdle
<1>17. ASSUME NEW w \in Workers, SweepPick(w) PROVE TypeInv'
  BY <1>17 DEF SweepPick, SweepSteps
<1>18. ASSUME NEW w \in Workers, SweepPop(w) PROVE TypeInv'
  BY <1>18, SessionTypes DEF SweepPop, SweepLocks, SweepSteps, Actors
<1>19. ASSUME NEW w \in Workers, SweepSpare(w) PROVE TypeInv'
  BY <1>19 DEF SweepSpare, SweepSteps
<1>20. ASSUME NEW w \in Workers, SweepTeardown(w) PROVE TypeInv'
  BY <1>20, DroppedType DEF SweepTeardown, SweepSteps
<1>21. ASSUME NEW w \in Workers, SweepDelete(w) PROVE TypeInv'
  BY <1>21, SessionTypes, ReclaimedType DEF SweepDelete, Unlock, SweepSteps
<1>22. ASSUME NEW w \in Workers, LoadFails(w) PROVE TypeInv'
  <2>1. CurrentWith(ses[w], snap[w].seq) \in Session
    BY CurrentWithType DEF Row
  <2>2. Raises(w, CurrentWith(ses[w], snap[w].seq))
    BY <1>22 DEF LoadFails
  <2>3. faults' \in 0..MaxFaults
    BY <1>22, SuffersKeepsType DEF LoadFails
  <2>4. UNCHANGED <<tables, disk, cached, locals, sweeper, history>>
    BY <1>22 DEF LoadFails
  <2> QED
    BY <2>1, <2>2, <2>3, <2>4, RaisesKeepsTypeInv
<1>23. ASSUME NEW w \in Workers, QueryRaises(w) PROVE TypeInv'
  <2>1. [ses[w] EXCEPT !.archived = FALSE] \in Session
    BY FlushedType
  <2>2. Raises(w, [ses[w] EXCEPT !.archived = FALSE])
    BY <1>23 DEF QueryRaises
  <2>3. faults' \in 0..MaxFaults
    BY <1>23, SuffersKeepsType DEF QueryRaises
  <2>4. UNCHANGED <<tables, disk, cached, locals, sweeper, history>>
    BY <1>23 DEF QueryRaises
  <2> QED
    BY <2>1, <2>2, <2>3, <2>4, RaisesKeepsTypeInv
<1>24. ASSUME NEW w \in Workers, StreamSilent(w) PROVE TypeInv'
  BY <1>24, SuffersKeepsType DEF StreamSilent, Returns, Unlock, Goto, TurnSteps
<1>25. ASSUME NEW w \in Workers, BumpAckLost(w) PROVE TypeInv'
  <2>1. ses[w] \in Session
    BY DEF TypeOK
  <2>2. Raises(w, ses[w])
    BY <1>25 DEF BumpAckLost
  <2>3. faults' \in 0..MaxFaults
    BY <1>25, SuffersKeepsType DEF BumpAckLost
  <2>4. row' \in Row
    BY <1>25, BumpedRowType DEF BumpAckLost
  <2> QED
    BY <1>25, <2>1, <2>2, <2>3, <2>4, RaisesKeepsType DEF BumpAckLost, Raises
<1>26. ASSUME NEW w \in Workers, TurnRaises(w) PROVE TypeInv'
  <2>1. ses[w] \in Session
    BY DEF TypeOK
  <2>2. Raises(w, ses[w])
    BY <1>26 DEF TurnRaises
  <2>3. faults' \in 0..MaxFaults
    BY <1>26, SuffersKeepsType DEF TurnRaises
  <2>4. UNCHANGED <<tables, disk, cached, locals, sweeper, history>>
    BY <1>26 DEF TurnRaises
  <2> QED
    BY <2>1, <2>2, <2>3, <2>4, RaisesKeepsTypeInv
<1>27. ASSUME NEW w \in Workers, Crash(w) PROVE TypeInv'
  BY <1>27, SessionTypes, SuffersKeepsType DEF Crash, Dies, Goto, TurnSteps, SweepSteps
<1>28. ASSUME NEW w \in Workers, Replace(w) PROVE TypeInv'
  BY <1>28, SessionTypes, SuffersKeepsType DEF Replace, Dies, Goto, TurnSteps, SweepSteps
<1>29. ASSUME NEW w \in Workers, LockLost(w) PROVE TypeInv'
  BY <1>29, SuffersKeepsType DEF LockLost, Unlock
<1>30. ASSUME Engage PROVE TypeInv'
  BY <1>30, SessionTypes DEF Engage, Row
<1>31. ASSUME Expire PROVE TypeInv'
  BY <1>31 DEF Expire, Row
<1>32. ASSUME Prune PROVE TypeInv'
  BY <1>32, SessionTypes DEF Prune
<1>33. ASSUME NEW m \in Modes, SetMode(m) PROVE TypeInv'
  BY <1>33 DEF SetMode, Row
<1>34. CASE UNCHANGED vars
  BY <1>34 DEF vars
<1> QED
  BY <1>1, <1>2, <1>3, <1>4, <1>5, <1>6, <1>7, <1>8, <1>9, <1>10, <1>11,
     <1>12, <1>13, <1>14, <1>15, <1>16, <1>17, <1>18, <1>19, <1>20, <1>21,
     <1>22, <1>23, <1>24, <1>25, <1>26, <1>27, <1>28, <1>29, <1>30, <1>31,
     <1>32, <1>33, <1>34
     DEF Next, TurnStep, SweepStep, Failure

\* Every variable of the thread keeps its type: in particular the transcript a
\* turn archives always has a name, and turn_seq stays a natural number.
THEOREM TypeCorrect == Spec => []TypeOK
<1>1. Init => TypeInv
  BY InitType
<1>2. TypeInv /\ [Next]_vars => TypeInv'
  BY TypeStep
<1>3. TypeInv => TypeOK
  BY DEF TypeInv
<1> QED  BY <1>1, <1>2, <1>3, PTL DEF Spec
-----------------------------------------------------------------------------
(* Serialization.  The lock is held by exactly whoever is in its section, as *)
(* long as no holder's connection drops.                                     *)

TurnHoldsLock == \A w \in Workers : pc[w] # "idle" => lock = {<<"turn", w>>}

SweepHoldsLock == \A w \in Workers : spc[w] \in Closing => lock = {<<"sweep", w>>}

LockInv == TurnHoldsLock /\ SweepHoldsLock

LEMMA ActorsDiffer ==
  /\ \A v, w : <<"turn", v>> # <<"sweep", w>>
  /\ \A v, w : v # w => <<"turn", v>> # <<"turn", w>> /\ <<"sweep", v>> # <<"sweep", w>>
OBVIOUS

\* Only the holder's own steps move the lock, unless its connection drops.
LEMMA LockStep ==
  ASSUME TypeInv, LockInv, [Next]_vars, \A w \in Workers : ~LockLost(w)
  PROVE  LockInv'
<1> USE ActorsDiffer
    DEF tables, db, manager, locals, sweeper, history, ghosts, Goto, Unlock,
        LockInv, TurnHoldsLock, SweepHoldsLock, Closing
<1> /\ pc \in [Workers -> TurnSteps] /\ spc \in [Workers -> SweepSteps]
    /\ lock \in SUBSET Actors
  BY DEF TypeInv, TypeOK
<1>1. ASSUME NEW w \in Workers, ReadRow(w) PROVE LockInv'
  BY <1>1 DEF ReadRow
<1>2. ASSUME NEW w \in Workers, CloseStale(w) PROVE LockInv'
  BY <1>2 DEF CloseStale
<1>3. ASSUME NEW w \in Workers, Connect(w) PROVE LockInv'
  BY <1>3 DEF Connect
<1>4. ASSUME NEW w \in Workers, OpenFresh(w) PROVE LockInv'
  BY <1>4 DEF OpenFresh
<1>5. ASSUME NEW w \in Workers, OpenResume(w) PROVE LockInv'
  BY <1>5 DEF OpenResume
<1>6. ASSUME NEW w \in Workers, OpenFallback(w) PROVE LockInv'
  BY <1>6 DEF OpenFallback
<1>7. ASSUME NEW w \in Workers, Query(w) PROVE LockInv'
  BY <1>7 DEF Query
<1>8. ASSUME NEW w \in Workers, Upsert(w) PROVE LockInv'
  BY <1>8 DEF Upsert
<1>9. ASSUME NEW w \in Workers, Deliver(w) PROVE LockInv'
  BY <1>9 DEF Deliver
<1>10. ASSUME NEW w \in Workers, Bump(w) PROVE LockInv'
  BY <1>10 DEF Bump
<1>11. ASSUME NEW w \in Workers, Settle(w) PROVE LockInv'
  BY <1>11 DEF Settle
<1>12. ASSUME NEW w \in Workers, Flush(w) PROVE LockInv'
  BY <1>12 DEF Flush
<1>13. ASSUME NEW w \in Workers, GoIdle(w) PROVE LockInv'
  BY <1>13 DEF GoIdle
<1>14. ASSUME NEW w \in Workers, SweepPick(w) PROVE LockInv'
  BY <1>14 DEF SweepPick
<1>15. ASSUME NEW w \in Workers, SweepSpare(w) PROVE LockInv'
  BY <1>15 DEF SweepSpare
<1>16. ASSUME NEW w \in Workers, SweepTeardown(w) PROVE LockInv'
  BY <1>16 DEF SweepTeardown
<1>17. ASSUME NEW w \in Workers, Acquire(w) PROVE LockInv'
  BY <1>17 DEF Acquire, LockFree
<1>18. ASSUME NEW w \in Workers, SweepPop(w) PROVE LockInv'
  BY <1>18 DEF SweepPop, SweepLocks, LockFree
<1>19. ASSUME NEW w \in Workers, SweepDelete(w) PROVE LockInv'
  BY <1>19 DEF SweepDelete
<1>20. ASSUME NEW w \in Workers, Archive(w) PROVE LockInv'
  BY <1>20 DEF Archive, Returns
<1>21. ASSUME NEW w \in Workers, ArchiveFails(w) PROVE LockInv'
  BY <1>21 DEF ArchiveFails, Returns
<1>22. ASSUME NEW w \in Workers, StreamSilent(w) PROVE LockInv'
  BY <1>22 DEF StreamSilent, Returns
<1>23. ASSUME NEW w \in Workers, LoadFails(w) PROVE LockInv'
  BY <1>23 DEF LoadFails, Raises
<1>24. ASSUME NEW w \in Workers, QueryRaises(w) PROVE LockInv'
  BY <1>24 DEF QueryRaises, Raises
<1>25. ASSUME NEW w \in Workers, BumpAckLost(w) PROVE LockInv'
  BY <1>25 DEF BumpAckLost, Raises
<1>26. ASSUME NEW w \in Workers, TurnRaises(w) PROVE LockInv'
  BY <1>26 DEF TurnRaises, Raises
<1>27. ASSUME NEW w \in Workers, Crash(w) PROVE LockInv'
  BY <1>27 DEF Crash, Dies
<1>28. ASSUME NEW w \in Workers, Replace(w) PROVE LockInv'
  BY <1>28 DEF Replace, Dies
<1>29. ASSUME NEW w \in Workers, LockLost(w) PROVE LockInv'
  BY <1>29
<1>30. ASSUME Engage PROVE LockInv'
  BY <1>30 DEF Engage
<1>31. ASSUME Expire PROVE LockInv'
  BY <1>31 DEF Expire
<1>32. ASSUME Prune PROVE LockInv'
  BY <1>32 DEF Prune
<1>33. ASSUME NEW m \in Modes, SetMode(m) PROVE LockInv'
  BY <1>33 DEF SetMode
<1>34. CASE UNCHANGED vars
  BY <1>34 DEF vars
<1> QED
  BY <1>1, <1>2, <1>3, <1>4, <1>5, <1>6, <1>7, <1>8, <1>9, <1>10, <1>11,
     <1>12, <1>13, <1>14, <1>15, <1>16, <1>17, <1>18, <1>19, <1>20, <1>21,
     <1>22, <1>23, <1>24, <1>25, <1>26, <1>27, <1>28, <1>29, <1>30, <1>31,
     <1>32, <1>33, <1>34
     DEF Next, TurnStep, SweepStep, Failure

\* No two of the thread's turns, on whatever workers, and no sweeper closing its
\* session, are ever in the section of its lock together.
THEOREM Serialized == ASSUME "unlock" \notin Faults PROVE Spec => []OneAtATime
<1>1. Init => TypeInv /\ LockInv
  BY InitType DEF Init, LockInv, TurnHoldsLock, SweepHoldsLock, Closing
<1>2. TypeInv /\ LockInv /\ [Next]_vars => TypeInv' /\ LockInv'
  BY TypeStep, LockStep DEF LockLost, Suffers
<1>3. LockInv => OneAtATime
  <2> SUFFICES ASSUME LockInv, NEW a \in Actors, NEW b \in Actors,
                      InSection(a), InSection(b)
               PROVE  a = b
    BY DEF OneAtATime
  <2>1. \A c \in Actors : InSection(c) => lock = {c}
    BY DEF LockInv, TurnHoldsLock, SweepHoldsLock, InSection, Actors
  <2> QED  BY <2>1
<1> QED  BY <1>1, <1>2, <1>3, PTL DEF Spec
-----------------------------------------------------------------------------
\* What an open session, and a turn that has one, leave to the steps of other actors.
SameFor(v) ==
  /\ pc'[v] = pc[v] /\ cur'[v] = cur[v] /\ snap'[v] = snap[v]
  /\ cached'[v] = cached[v] /\ ses'[v] = ses[v] /\ disk'[v] = disk[v]
  /\ spc'[v] = spc[v] /\ vic'[v] = vic[v]

WorkerStep(w) ==
  Acquire(w) \/ TurnStep(w) \/ Flush(w) \/ GoIdle(w) \/ SweepStep(w) \/ Failure(w)

TableStep == Engage \/ Expire \/ Prune \/ \E m \in Modes : SetMode(m)

\* A step of one worker's leaves the others' alone, and takes no lock from their sweepers.
LEMMA OthersStay ==
  ASSUME TypeOK, NEW w \in Workers, WorkerStep(w), NEW v \in Workers, v # w
  PROVE  SameFor(v) /\ (<<"sweep", v>> \in lock => <<"sweep", v>> \in lock')
<1> USE DEF tables, db, manager, locals, sweeper, history, ghosts, Goto, Unlock, SameFor, TypeOK
<1> <<"sweep", v>> # <<"sweep", w>> /\ <<"sweep", v>> # <<"turn", w>>
  OBVIOUS
<1>1. CASE Acquire(w)
  BY <1>1 DEF Acquire, LockFree
<1>2. CASE ReadRow(w)
  BY <1>2 DEF ReadRow
<1>3. CASE CloseStale(w)
  BY <1>3 DEF CloseStale
<1>4. CASE Connect(w)
  BY <1>4 DEF Connect
<1>5. CASE OpenFresh(w) \/ OpenResume(w) \/ OpenFallback(w)
  BY <1>5 DEF OpenFresh, OpenResume, OpenFallback
<1>6. CASE Query(w)
  BY <1>6 DEF Query
<1>7. CASE Upsert(w) \/ Deliver(w) \/ Bump(w) \/ Settle(w)
  BY <1>7 DEF Upsert, Deliver, Bump, Settle
<1>8. CASE Archive(w) \/ ArchiveFails(w)
  BY <1>8 DEF Archive, ArchiveFails, Returns
<1>9. CASE Flush(w)
  BY <1>9 DEF Flush
<1>10. CASE GoIdle(w) \/ SweepPick(w) \/ SweepSpare(w)
  BY <1>10 DEF GoIdle, SweepPick, SweepSpare
<1>11. CASE SweepPop(w)
  BY <1>11 DEF SweepPop, SweepLocks, LockFree
<1>12. CASE SweepTeardown(w) \/ SweepDelete(w)
  BY <1>12 DEF SweepTeardown, SweepDelete
<1>13. CASE LoadFails(w) \/ QueryRaises(w)
  BY <1>13 DEF LoadFails, QueryRaises, Raises
<1>14. CASE BumpAckLost(w) \/ TurnRaises(w)
  BY <1>14 DEF BumpAckLost, TurnRaises, Raises
<1>15. CASE StreamSilent(w) \/ LockLost(w)
  BY <1>15 DEF StreamSilent, LockLost, Returns
<1>16. CASE Crash(w) \/ Replace(w)
  BY <1>16 DEF Crash, Replace, Dies
<1>17. QED
  BY <1>1, <1>2, <1>3, <1>4, <1>5, <1>6, <1>7, <1>8, <1>9, <1>10, <1>11, <1>12, <1>13, <1>14,
     <1>15, <1>16 DEF WorkerStep, TurnStep, SweepStep, Failure

\* Nobody's own state changes at a step of the tables alone.
LEMMA TablesOnly ==
  ASSUME TableStep
  PROVE  UNCHANGED <<lock, disk, manager, ses, pc, locals, sweeper, next, faults>>
BY DEF TableStep, Engage, Expire, Prune, SetMode, ghosts, manager, locals, sweeper

\* Every step is one worker's, or touches the tables alone.
LEMMA StepsAreWorkersOrTables ==
  ASSUME [Next]_vars
  PROVE  (\E w \in Workers : WorkerStep(w)) \/ TableStep \/ UNCHANGED vars
BY DEF Next, WorkerStep, TableStep
-----------------------------------------------------------------------------
(* What the operators make of a session. *)

\* Field by field: what each operator of the model makes of a session.
LEMMA DroppedFields ==
  ASSUME NEW s \in Session
  PROVE  /\ Dropped(s) \in Session
         /\ ~Dropped(s).client /\ Dropped(s).cli = NoSid /\ Dropped(s).owes = {}
         /\ Dropped(s).mode = s.mode /\ Dropped(s).seen = s.seen
         /\ Dropped(s).sid = s.sid /\ Dropped(s).archived = s.archived
BY SessionTypes DEF Session, Dropped

LEMMA ClosedFields ==
  ASSUME NEW s \in Session
  PROVE  /\ ~Closed(s).client /\ Closed(s).cli = NoSid /\ Closed(s).owes = {}
         /\ Closed(s).seen = s.seen /\ Closed(s).sid = s.sid /\ ~Closed(s).archived
BY SessionTypes DEF Session, Dropped, Closed

LEMMA CurrentWithFields ==
  ASSUME NEW s \in Session, NEW n \in Nat
  PROVE  /\ CurrentWith(s, n) \in Session /\ CurrentWith(s, n).seen = n
         /\ CurrentWith(s, n).client = s.client /\ CurrentWith(s, n).mode = s.mode
         /\ CurrentWith(s, n).sid = s.sid /\ CurrentWith(s, n).archived = s.archived
         /\ CurrentWith(s, n).cli = s.cli /\ CurrentWith(s, n).owes = s.owes
BY DEF Session, CurrentWith

LEMMA OpenedFields ==
  ASSUME NEW s \in Session, NEW mode \in Modes, NEW t \in Sids
  PROVE  /\ Opened(s, mode, t).client /\ Opened(s, mode, t).mode = mode
         /\ Opened(s, mode, t).cli = t /\ Opened(s, mode, t).owes = s.owes
         /\ Opened(s, mode, t).seen = s.seen /\ Opened(s, mode, t).sid = s.sid
         /\ Opened(s, mode, t).archived = s.archived
BY DEF Session, Opened

LEMMA AskedFields ==
  ASSUME NEW s \in Session, NEW t \in Turns
  PROVE  /\ Asked(s, t).client = s.client /\ Asked(s, t).mode = s.mode
         /\ Asked(s, t).seen = s.seen /\ Asked(s, t).sid = s.sid /\ ~Asked(s, t).archived
         /\ Asked(s, t).cli = IF s.cli = NoSid THEN t ELSE s.cli
         /\ Asked(s, t).owes = s.owes \cup {<<t, "answered">>}
BY DEF Session, Asked

LEMMA FiledFields ==
  ASSUME NEW s \in Session, NEW b \in BOOLEAN
  PROVE  /\ Filed(s, b).client = s.client /\ Filed(s, b).mode = s.mode
         /\ Filed(s, b).seen = s.seen /\ Filed(s, b).sid = s.cli /\ Filed(s, b).archived = b
         /\ Filed(s, b).cli = s.cli /\ Filed(s, b).owes = s.owes
BY DEF Session, Filed

LEMMA FlushedFields ==
  ASSUME NEW s \in Session, NEW f, f = [s EXCEPT !.owes = {}]
  PROVE  /\ f.client = s.client /\ f.mode = s.mode /\ f.seen = s.seen /\ f.sid = s.sid
         /\ f.archived = s.archived /\ f.cli = s.cli /\ f.owes = {}
BY DEF Session

LEMMA UnarchivedFields ==
  ASSUME NEW s \in Session, NEW g, g = [s EXCEPT !.archived = FALSE]
  PROVE  /\ g \in Session /\ g.client = s.client /\ g.mode = s.mode /\ g.seen = s.seen
         /\ g.sid = s.sid /\ ~g.archived /\ g.cli = s.cli /\ g.owes = s.owes
BY DEF Session
-----------------------------------------------------------------------------
(* What a worker's own state is always like, whatever fails: no lock is      *)
(* needed for it but the sweeper's, which nothing takes away.                *)

Serving    == {"close", "query"} \cup AskingSteps
Connecting == {"connect", "open"}

\* A turn has a client from when it opened one, and none while it connects.
HasClient(w) ==
  /\ pc[w] \in Serving => ses[w].client
  /\ pc[w] \in Connecting => ~ses[w].client

\* A worker without a cached session has no turn, and the next one is new.
UncachedIsNew(w) == ~cached[w] => pc[w] = "idle" /\ ses[w] = NewSession

\* While the sweeper closes a session the worker has no other.
ClosesAlone(w) ==
  /\ spc[w] \in Closing => ~cached[w] /\ <<"sweep", w>> \in lock
  /\ spc[w] \notin Closing => vic[w] = NewSession
  /\ spc[w] = "delete" => ~vic[w].client

FileIsThere(w, s) == s.client /\ s.cli # NoSid => disk[w][s.cli] # {}

ModeFits(w) == pc[w] \in {"query", "stream", "deliver"} => ses[w].mode = snap[w].mode

LocalFits(w) ==
  /\ HasClient(w) /\ UncachedIsNew(w) /\ ClosesAlone(w)
  /\ FileIsThere(w, ses[w]) /\ FileIsThere(w, vic[w])
  /\ ModeFits(w)

LocalInv == \A w \in Workers : LocalFits(w)

\* Another worker's step leaves this one's state as it fits.
LEMMA LocalFrame ==
  ASSUME NEW v, LocalFits(v), SameFor(v),
         <<"sweep", v>> \in lock => <<"sweep", v>> \in lock'
  PROVE  LocalFits(v)'
BY DEF LocalFits, HasClient, UncachedIsNew, ClosesAlone, FileIsThere, ModeFits, SameFor

LEMMA NewSessionFields ==
  /\ ~NewSession.client /\ NewSession.sid = NoSid /\ ~NewSession.archived
  /\ NewSession.cli = NoSid /\ NewSession.owes = {}
BY DEF NewSession

\* A turn is given up: the session loses its client, the worker keeps it.
LEMMA LocalRaises ==
  ASSUME TypeInv, NEW w \in Workers, LocalFits(w), NEW s \in Session, Raises(w, s),
         pc[w] # "idle", UNCHANGED <<disk, cached, sweeper>>
  PROVE  LocalFits(w)'
<1>1. ses'[w] = Dropped(s) /\ pc'[w] = "idle"
  BY DEF Raises, Goto, TypeInv, TypeOK
<1>2. cached[w] /\ spc[w] \notin Closing
  BY DEF LocalFits, UncachedIsNew, ClosesAlone
<1>3. cached'[w] = cached[w] /\ spc'[w] = spc[w] /\ vic'[w] = vic[w] /\ disk'[w] = disk[w]
  BY DEF sweeper
<1>4. QED
  BY <1>1, <1>2, <1>3, DroppedFields
  DEF LocalFits, HasClient, UncachedIsNew, ClosesAlone, FileIsThere, ModeFits, Serving,
      Connecting, AskingSteps

\* Whatever a step does, and whatever fails at it, a worker's own state fits together.
LEMMA LocalStep == ASSUME TypeInv, LocalInv, [Next]_vars PROVE LocalInv'
<1> USE DEF tables, db, manager, locals, sweeper, history, ghosts, Goto
<1>1. ASSUME NEW w \in Workers, WorkerStep(w), LocalFits(w)' PROVE LocalInv'
  BY <1>1, OthersStay, LocalFrame DEF LocalInv, TypeInv
<1>2. CASE UNCHANGED vars
  BY <1>2
  DEF vars, LocalInv, LocalFits, HasClient, UncachedIsNew, ClosesAlone, FileIsThere, ModeFits
<1>3. CASE TableStep
  BY <1>3, TablesOnly
  DEF LocalInv, LocalFits, HasClient, UncachedIsNew, ClosesAlone, FileIsThere, ModeFits
<1>4. ASSUME NEW w \in Workers, WorkerStep(w) PROVE LocalFits(w)'
  <2> USE DEF LocalFits, HasClient, UncachedIsNew, ClosesAlone, FileIsThere, ModeFits, Serving,
              Connecting, AskingSteps, Closing, TypeOK
  <2>0. LocalFits(w) /\ TypeOK /\ ses[w] \in Session /\ vic[w] \in Session /\ snap[w] \in Row
    BY DEF LocalInv, TypeInv
  <2>ses. ses[w] \in Session
    BY <2>0
  <2>1. CASE Acquire(w)
    BY <2>0, <2>1 DEF Acquire, LockFree
  <2>2. CASE ReadRow(w)
    BY <2>0, <2>2 DEF ReadRow, Superseded
  <2>3. CASE CloseStale(w)
    BY <2>0, <2>3, ClosedFields, NewSessionFields DEF CloseStale
  <2>4. CASE Connect(w)
    <3>1. snap[w].seq \in Nat
      BY <2>0 DEF Row
    <3>2. /\ ses'[w] = CurrentWith(ses[w], snap[w].seq) /\ pc'[w] = "open"
          /\ pc[w] = "connect" /\ vic'[w] = NewSession
          /\ cached'[w] = cached[w] /\ spc'[w] = spc[w]
      BY <2>0, <2>4 DEF Connect
    <3>3. ses'[w].client = ses[w].client
      BY ONLY <2>ses, <3>1, <3>2, CurrentWithFields
    <3>4. QED
      BY <2>0, <3>2, <3>3, NewSessionFields
  <2>5. CASE OpenFresh(w)
    <3>1. snap[w].mode \in Modes /\ NoSid \in Sids
      BY <2>0, SessionTypes DEF Row
    <3>2. /\ ses'[w] = Opened(ses[w], snap[w].mode, NoSid) /\ pc'[w] = "query"
          /\ pc[w] = "open" /\ vic'[w] = NewSession /\ snap'[w] = snap[w]
          /\ cached'[w] = cached[w] /\ spc'[w] = spc[w]
      BY <2>0, <2>5 DEF OpenFresh
    <3>3. QED
      BY <2>0, <3>1, <3>2, OpenedFields, NewSessionFields
  <2>5r. CASE OpenResume(w)
    <3>1. snap[w].mode \in Modes /\ snap[w].sid \in Sids
      BY <2>0 DEF Row
    <3>2. /\ ses'[w] = Opened(ses[w], snap[w].mode, snap[w].sid) /\ pc'[w] = "query"
          /\ pc[w] = "open" /\ vic'[w] = NewSession /\ snap'[w] = snap[w]
          /\ cached'[w] = cached[w] /\ spc'[w] = spc[w] /\ disk'[w][snap[w].sid] # {}
      BY <2>0, <2>5r DEF OpenResume
    <3>3. ses'[w].client /\ ses'[w].cli = snap[w].sid /\ ses'[w].mode = snap[w].mode
      BY ONLY <2>ses, <3>1, <3>2, OpenedFields
    <3>4. QED
      BY <2>0, <3>2, <3>3, NewSessionFields
  <2>6. CASE OpenFallback(w)
    <3>1. snap[w].mode \in Modes /\ snap[w].sid \in Sids /\ NoSid \in Sids
      BY <2>0, SessionTypes DEF Row
    <3>2. ses'[w] = Opened(ses[w], snap[w].mode, NoSid) /\ pc'[w] = "query" /\ vic'[w] = NewSession
      BY <2>0, <2>6 DEF OpenFallback
    <3>3. QED
      BY <2>0, <2>6, <3>1, <3>2, OpenedFields, NewSessionFields DEF OpenFallback
  <2>7. CASE Query(w)
    <3>1. cur[w] \in Turns /\ vic[w] = NewSession
      BY <2>0, <2>7 DEF Query
    <3>2. Asked(ses[w], cur[w]).cli \in Turns
      BY <2>0, <3>1, AskedType
    <3>3. ses'[w] = Asked(ses[w], cur[w]) /\ disk'[w][ses'[w].cli] # {} /\ vic'[w] = NewSession
      BY <2>0, <2>7, <3>1, <3>2 DEF Query
    <3>4. QED
      BY <2>0, <2>7, <3>1, <3>2, <3>3, AskedFields, NewSessionFields DEF Query
  <2>8. CASE Upsert(w) \/ Deliver(w) \/ Settle(w)
    BY <2>0, <2>8 DEF Upsert, Deliver, Settle
  <2>9. CASE Bump(w)
    <3>1. BumpedRow.seq \in Nat
      BY <2>0, BumpedRowType DEF Row
    <3>2. /\ ses'[w] = CurrentWith(ses[w], BumpedRow.seq) /\ pc'[w] = "settle"
          /\ pc[w] = "bump" /\ vic'[w] = vic[w] /\ disk'[w] = disk[w]
          /\ cached'[w] = cached[w] /\ spc'[w] = spc[w]
      BY <2>0, <2>9 DEF Bump
    <3>3. /\ ses'[w].client = ses[w].client /\ ses'[w].cli = ses[w].cli
      BY ONLY <2>ses, <3>1, <3>2, CurrentWithFields
    <3>4. QED
      BY <2>0, <3>2, <3>3
  <2>10. CASE Archive(w) \/ ArchiveFails(w)
    <3>1. /\ \E b \in BOOLEAN : ses'[w] = Filed(ses[w], b)
          /\ pc'[w] = "idle" /\ pc[w] = "archive" /\ vic'[w] = NewSession
          /\ cached'[w] = cached[w] /\ spc'[w] = spc[w] /\ disk'[w] = disk[w]
      BY <2>0, <2>10 DEF Archive, ArchiveFails, Returns
    <3>2. /\ ses'[w].client = ses[w].client /\ ses'[w].cli = ses[w].cli
          /\ ses'[w].mode = ses[w].mode
      BY <2>0, <3>1, FiledFields
    <3>3. QED
      BY <2>0, <3>1, <3>2, NewSessionFields
  <2>11. CASE Flush(w)
    <3>1. vic[w] = NewSession
      BY <2>0, <2>11, NewSessionFields DEF Flush
    <3>2. QED
      BY <2>0, <2>11, <3>1, FlushedFields, NewSessionFields DEF Flush
  <2>12. CASE GoIdle(w) \/ SweepPick(w) \/ SweepSpare(w)
    BY <2>0, <2>12 DEF GoIdle, SweepPick, SweepSpare
  <2>13. CASE SweepPop(w)
    BY <2>0, <2>13, NewSessionFields DEF SweepPop, SweepLocks, TypeInv, IdleIsNotRunning
  <2>14. CASE SweepTeardown(w)
    BY <2>0, <2>14, DroppedFields DEF SweepTeardown
  <2>15. CASE SweepDelete(w)
    BY <2>0, <2>15, NewSessionFields DEF SweepDelete
  <2>16. CASE LoadFails(w)
    <3>1. CurrentWith(ses[w], snap[w].seq) \in Session
      BY <2>0, CurrentWithType DEF Row
    <3>2. QED
      BY <2>0, <2>16, <3>1, LocalRaises DEF LoadFails
  <2>17. CASE QueryRaises(w)
    BY <2>0, <2>17, FlushedType, LocalRaises DEF QueryRaises
  <2>18. CASE BumpAckLost(w) \/ TurnRaises(w)
    BY <2>0, <2>18, LocalRaises DEF BumpAckLost, TurnRaises
  <2>19. CASE StreamSilent(w) \/ LockLost(w)
    BY <2>0, <2>19 DEF StreamSilent, LockLost, Returns, Unlock
  <2>20. CASE Crash(w) \/ Replace(w)
    BY <2>0, <2>20, NewSessionFields DEF Crash, Replace, Dies
  <2>21. QED
    BY <1>4, <2>1, <2>2, <2>3, <2>4, <2>5, <2>5r, <2>6, <2>7, <2>8, <2>9, <2>10, <2>11, <2>12,
       <2>13,
       <2>14, <2>15, <2>16, <2>17, <2>18, <2>19, <2>20 DEF WorkerStep, TurnStep, SweepStep, Failure
<1>5. QED
  BY <1>1, <1>2, <1>3, <1>4, StepsAreWorkersOrTables

\* Whatever fails: a turn has a client exactly from when it opened one, a worker
\* without a cached session has no turn, and the sweeper closes a session nobody uses.
THEOREM LocalCorrect == Spec => [](TypeInv /\ LocalInv)
<1>1. Init => TypeInv /\ LocalInv
  BY InitType, NewSessionFields
  DEF Init, LocalInv, LocalFits, HasClient, UncachedIsNew, ClosesAlone, FileIsThere, ModeFits,
      Serving, Connecting, AskingSteps, Closing
<1>2. TypeInv /\ LocalInv /\ [Next]_vars => (TypeInv /\ LocalInv)'
  BY TypeStep, LocalStep
<1>3. QED
  BY <1>1, <1>2, PTL DEF Spec

\* No failure, crash or sweep ever deletes the transcript an open client appends to:
\* close() deletes only after its client is gone, and _open_fallback before it has one.
THEOREM LiveFiles == Spec => []LiveFileOnDisk
<1>1. TypeInv /\ LocalInv => LiveFileOnDisk
  BY DEF LiveFileOnDisk, LocalInv, LocalFits, FileIsThere
<1>2. QED
  BY <1>1, LocalCorrect, PTL

\* Whatever fails, a turn answers in the permission mode it read from the row: a client
\* of another mode is closed by run_turn's staleness check, and a new one opened with it.
THEOREM AnswersInMode == Spec => []AnswersInTheThreadsMode
<1>1. TypeInv /\ LocalInv => AnswersInTheThreadsMode
  BY DEF AnswersInTheThreadsMode, LocalInv, LocalFits, ModeFits
<1>2. QED
  BY <1>1, LocalCorrect, PTL
-----------------------------------------------------------------------------
\* A step at which nothing fails that the store cannot survive: hydration does not
\* raise, the stream names its session, the lock is kept, and a transcript that is on
\* disk is not refused.
Harmless ==
  \A w \in Workers : /\ ~LoadFails(w) /\ ~StreamSilent(w) /\ ~LockLost(w)
                     /\ OpenFallback(w) => UNCHANGED faults

\* Worker w has, for conversation c, all the store has.
Knows(w, c) == blob # NoBlob => c = blob.sid /\ blob.recs \subseteq disk[w][c]

TablesFit ==
  /\ ~row.exists => row = NoRow
  /\ blob.sid = NoSid => blob = NoBlob
  /\ blob.sid # NoSid => blob.recs # {} /\ row.sid = blob.sid

Upserted == {"deliver", "bump", "settle", "archive"}

\* The row a turn read is still the row, unless it was pruned or about to be.
SnapshotHolds(w) ==
  \/ snap[w].sid = row.sid /\ snap[w].seq = row.seq
  \/ blob = NoBlob /\ ~row.active

TurnFits(w) ==
  /\ pc[w] \in {"close", "connect"} => SnapshotHolds(w)
  /\ pc[w] = "open" => Knows(w, snap[w].sid)
  /\ pc[w] \in {"query"} \cup AskingSteps => Knows(w, ses[w].cli)
  /\ pc[w] \in Upserted => row.exists /\ row.active /\ row.sid = ses[w].cli

\* An open client between two turns knows all the store has, unless a later turn_seq
\* says otherwise.
CurrentKnows(w) ==
  ses[w].client /\ pc[w] \in {"idle", "read"} =>
    /\ ses[w].cli \in Turns /\ ses[w].seen <= row.seq
    /\ ses[w].seen = row.seq => Knows(w, ses[w].cli)

\* What LocalIsNewer trusts: an unarchived file that is current with the row.
LocalKnows(w) ==
  LET s == ses[w]
  IN s.sid # NoSid /\ s.sid = blob.sid /\ s.seen = row.seq /\ ~s.archived
       => disk[w][s.sid] = {} \/ blob.recs \subseteq disk[w][s.sid]

\* A row about to be pruned belongs to no session but one being asked anew.
InactiveIsUnused(w) ==
  ~row.active => /\ ses[w].sid = NoSid
                 /\ ses[w].client => pc[w] \in {"query", "stream"}

CacheFits(w) ==
  /\ CurrentKnows(w) /\ LocalKnows(w) /\ InactiveIsUnused(w)
  /\ ses[w].sid # NoSid => ses[w].seen <= row.seq

\* A turn that bumped turn_seq is ahead of every session that could think itself
\* current.
BumpedIsAhead(w) ==
  pc[w] \in {"settle", "archive"} =>
    /\ ses[w].seen = row.seq
    /\ \A v \in Workers \ {w} :
         ses[v].sid # NoSid \/ ses[v].client => ses[v].seen < row.seq

StoreInv ==
  /\ TablesFit
  /\ \A w \in Workers : TurnFits(w) /\ CacheFits(w) /\ BumpedIsAhead(w)

BaseInv == TypeInv /\ LocalInv /\ LockInv
-----------------------------------------------------------------------------
\* While a turn is in flight no other worker has one, and no sweeper is closing.
LEMMA OthersIdle ==
  ASSUME LockInv, NEW w \in Workers, pc[w] # "idle", NEW v \in Workers
  PROVE  (v # w => pc[v] = "idle") /\ spc[v] \notin Closing
BY ActorsDiffer DEF LockInv, TurnHoldsLock, SweepHoldsLock

\* A step that leaves the tables alone disturbs no other worker.
LEMMA StoreFrame ==
  ASSUME NEW v \in Workers, TurnFits(v), CacheFits(v), SameFor(v), UNCHANGED tables
  PROVE  TurnFits(v)' /\ CacheFits(v)'
BY DEF SameFor, tables, TurnFits, CacheFits, CurrentKnows, LocalKnows, InactiveIsUnused, Knows,
       SnapshotHolds

\* A session just forgotten fits anything.
LEMMA Forgets ==
  ASSUME NEW w \in Workers, ses'[w] = NewSession, pc'[w] = "idle"
  PROVE  TurnFits(w)' /\ CacheFits(w)' /\ BumpedIsAhead(w)'
BY NewSessionFields
DEF TurnFits, CacheFits, CurrentKnows, LocalKnows, InactiveIsUnused, BumpedIsAhead, Upserted,
    AskingSteps

\* A turn given up without a client leaves its session's file as it was.
LEMMA GivesUp ==
  ASSUME NEW w \in Workers, CacheFits(w), UNCHANGED tables, disk'[w] = disk[w],
         pc'[w] = "idle", ~ses'[w].client,
         ses'[w].sid = ses[w].sid, ses'[w].seen = ses[w].seen,
         \/ ses'[w].archived = ses[w].archived
         \/ ses[w].sid # NoSid /\ ses[w].sid = blob.sid => blob.recs \subseteq disk[w][ses[w].sid]
  PROVE  TurnFits(w)' /\ CacheFits(w)' /\ BumpedIsAhead(w)'
BY DEF TurnFits, CacheFits, CurrentKnows, LocalKnows, InactiveIsUnused, BumpedIsAhead, Upserted,
    AskingSteps, tables

\* What engaging, /mode, expiry and bump_turn make of a row.
LEMMA RowFields ==
  ASSUME NEW r \in Row, NEW m
  PROVE  LET e == [r EXCEPT !.exists = TRUE]
             f == [r EXCEPT !.exists = TRUE, !.mode = m]
             g == [r EXCEPT !.active = FALSE]
             h == [r EXCEPT !.seq = @ + 1]
         IN /\ e.exists /\ e.sid = r.sid /\ e.seq = r.seq /\ e.active = r.active
            /\ f.exists /\ f.sid = r.sid /\ f.seq = r.seq /\ f.active = r.active
            /\ g.exists = r.exists /\ g.sid = r.sid /\ g.seq = r.seq /\ ~g.active
            /\ h.exists = r.exists /\ h.sid = r.sid /\ h.seq = r.seq + 1 /\ h.active = r.active
BY DEF Row

LEMMA NoRowFields ==
  /\ ~NoRow.exists /\ NoRow.sid = NoSid /\ NoRow.seq = 0 /\ ~NoRow.active
  /\ NoBlob.sid = NoSid /\ NoBlob.recs = {}
BY DEF NoRow, NoBlob
-----------------------------------------------------------------------------
(* The steps that change the tables without a turn. *)

\* Only the row's mode, and whether it exists, change.
LEMMA RowTouched ==
  ASSUME StoreInv, TablesFit', UNCHANGED <<blob, disk, ses, pc, locals>>,
         row'.exists, row'.sid = row.sid, row'.seq = row.seq, row'.active = row.active
  PROVE  StoreInv'
BY DEF StoreInv, TurnFits, CacheFits, CurrentKnows, LocalKnows, InactiveIsUnused,
       Knows, SnapshotHolds, BumpedIsAhead, locals

\* Commands, expiry and pruning leave every worker's knowledge what it was.
LEMMA StoreTables ==
  ASSUME BaseInv, StoreInv, TableStep PROVE StoreInv'
<1>0. row \in Row /\ NoRow \in Row /\ row' \in Row
  BY SessionTypes, TypeStep DEF BaseInv, TypeInv, TypeOK, TableStep, Next
<1>1. CASE Engage
  <2>1. row = NoRow /\ blob = NoBlob
    BY <1>1, NoRowFields DEF Engage, StoreInv, TablesFit
  <2>2. PICK r \in Row : r = NoRow
    BY <1>0
  <2>3. row' = [r EXCEPT !.exists = TRUE] /\ r = row
    BY <1>1, <2>1, <2>2 DEF Engage
  <2>4. row'.exists /\ row'.sid = row.sid /\ row'.seq = row.seq /\ row'.active = row.active
    BY <2>2, <2>3, RowFields
  <2>5. UNCHANGED <<blob, disk, ses, pc, locals>>
    BY <1>1 DEF Engage
  <2>6. TablesFit'
    BY <2>1, <2>4, <2>5, NoRowFields DEF TablesFit
  <2>7. QED
    BY <2>4, <2>5, <2>6, RowTouched
<1>2. ASSUME NEW m \in Modes, SetMode(m) PROVE StoreInv'
  <2>1. row'.exists /\ row'.sid = row.sid /\ row'.seq = row.seq /\ row'.active = row.active
    BY <1>0, <1>2, RowFields DEF SetMode
  <2>2. UNCHANGED <<blob, disk, ses, pc, locals>>
    BY <1>2 DEF SetMode
  <2>3. TablesFit'
    BY <2>1, <2>2 DEF TablesFit, StoreInv
  <2>4. QED
    BY <2>1, <2>2, <2>3, RowTouched
<1>3. CASE Expire
  <2>1. \A w \in Workers : ses[w] = NewSession /\ ses'[w] = NewSession /\ pc'[w] = "idle"
    BY <1>3 DEF Expire, BaseInv, LocalInv, LocalFits, UncachedIsNew
  <2>2. row'.exists /\ row'.sid = row.sid /\ blob' = blob
    BY <1>0, <1>3, RowFields DEF Expire
  <2>3. TablesFit'
    BY <2>2 DEF StoreInv, TablesFit
  <2>4. QED
    BY <2>1, <2>3, Forgets DEF StoreInv
<1>4. CASE Prune
  <2>1. /\ ~row.active /\ row' = NoRow /\ blob' = NoBlob
        /\ UNCHANGED <<disk, ses, pc, locals>>
    BY <1>4 DEF Prune
  <2>2. TablesFit'
    BY <2>1, NoRowFields DEF TablesFit
  <2>3. ASSUME NEW w \in Workers PROVE TurnFits(w)' /\ CacheFits(w)' /\ BumpedIsAhead(w)'
    <3>1. ses[w].sid = NoSid /\ (ses[w].client => pc[w] \in {"query", "stream"})
      BY <2>1 DEF StoreInv, CacheFits, InactiveIsUnused
    <3>2. pc[w] \notin Upserted
      BY <2>1 DEF StoreInv, TurnFits
    <3>3. QED
      BY <2>1, <3>1, <3>2, NoRowFields
      DEF TurnFits, CacheFits, CurrentKnows, LocalKnows, InactiveIsUnused, Knows, SnapshotHolds,
          BumpedIsAhead, Upserted
  <2>4. QED
    BY <2>2, <2>3 DEF StoreInv
<1>5. QED
  BY <1>1, <1>2, <1>3, <1>4 DEF TableStep
-----------------------------------------------------------------------------
\* A step of one worker's that leaves the tables alone, and makes no session of its
\* own look more current while another worker has a turn.
LEMMA Quiet ==
  ASSUME BaseInv, StoreInv, NEW w \in Workers, WorkerStep(w), UNCHANGED tables,
         \/ pc[w] # "idle"
         \/ ses'[w].sid # NoSid \/ ses'[w].client =>
              (ses[w].sid # NoSid \/ ses[w].client) /\ ses'[w].seen = ses[w].seen,
         TurnFits(w)', CacheFits(w)', BumpedIsAhead(w)'
  PROVE  StoreInv'
<1>1. TablesFit'
  BY DEF StoreInv, TablesFit, tables
<1>2. ASSUME NEW v \in Workers, v # w PROVE TurnFits(v)' /\ CacheFits(v)' /\ BumpedIsAhead(v)'
  <2>1. SameFor(v) /\ TurnFits(v) /\ CacheFits(v) /\ BumpedIsAhead(v)
    BY <1>2, OthersStay DEF StoreInv, BaseInv, TypeInv
  <2>2. \A u \in Workers \ {w} : ses'[u] = ses[u]
    BY OthersStay DEF SameFor, BaseInv, TypeInv
  <2>3. pc[v] \in {"settle", "archive"} => pc[w] = "idle"
    BY <1>2, OthersIdle DEF BaseInv
  <2>4. BumpedIsAhead(v)'
    BY <1>2, <2>1, <2>2, <2>3 DEF BumpedIsAhead, SameFor, tables
  <2>5. QED
    BY <2>1, <2>4, StoreFrame
<1>3. QED
  BY <1>1, <1>2 DEF StoreInv

\* What is known of the worker that takes a step.
LEMMA OwnFits ==
  ASSUME BaseInv, StoreInv, NEW w \in Workers
  PROVE  /\ TablesFit /\ TurnFits(w) /\ CacheFits(w) /\ BumpedIsAhead(w) /\ LocalFits(w) /\ TypeOK
         /\ ses[w] \in Session /\ vic[w] \in Session /\ snap[w] \in Row /\ row \in Row
         /\ blob \in Blob /\ cur[w] \in Turns
         /\ disk[w] \in [Turns -> SUBSET Records] /\ pc[w] \in TurnSteps
BY DEF BaseInv, StoreInv, LocalInv, TypeInv, TypeOK
-----------------------------------------------------------------------------
(* A turn until it is asked. *)

\* A cached client that is not superseded knows all the store has.
LEMMA StoreRead ==
  ASSUME BaseInv, StoreInv, NEW w \in Workers, Acquire(w) \/ ReadRow(w) PROVE StoreInv'
<1> USE OwnFits DEF tables, db, manager, locals, sweeper, history, ghosts, Goto
<1>1. CASE Acquire(w)
  <2>1. /\ pc[w] = "idle" /\ pc'[w] = "read" /\ ses' = ses /\ disk' = disk /\ UNCHANGED tables
    BY <1>1 DEF Acquire, TypeOK
  <2>2. TurnFits(w)' /\ CacheFits(w)' /\ BumpedIsAhead(w)'
    BY <2>1 DEF TurnFits, CacheFits, CurrentKnows, LocalKnows, InactiveIsUnused, BumpedIsAhead,
                Upserted, AskingSteps, Knows
  <2>3. QED
    BY <1>1, <2>1, <2>2, Quiet DEF WorkerStep
<1>2. CASE ReadRow(w)
  <2>1. /\ pc[w] = "read" /\ snap'[w] = row /\ ses' = ses /\ disk' = disk /\ UNCHANGED tables
        /\ \/ ~ses[w].client /\ pc'[w] = "connect"
           \/ ses[w].client /\ pc'[w] = "close"
           \/ ses[w].client /\ ses[w].seen = row.seq /\ pc'[w] = "query"
    BY <1>2 DEF ReadRow, Superseded, TypeOK
  <2>2. TurnFits(w)' /\ CacheFits(w)' /\ BumpedIsAhead(w)'
    BY <2>1 DEF TurnFits, CacheFits, CurrentKnows, LocalKnows, InactiveIsUnused, BumpedIsAhead,
                Upserted, AskingSteps, Knows, SnapshotHolds
  <2>3. QED
    BY <1>2, <2>1, <2>2, Quiet DEF WorkerStep, TurnStep
<1>3. QED
  BY <1>1, <1>2

\* Closing a stale client deletes only a file whose session is marked stored.
LEMMA StoreClose ==
  ASSUME BaseInv, StoreInv, NEW w \in Workers, CloseStale(w) PROVE StoreInv'
<1> USE OwnFits DEF tables, db, manager, locals, sweeper, history, ghosts, Goto
<1>1. /\ pc[w] = "close" /\ pc'[w] = "connect" /\ ses'[w] = Closed(ses[w])
      /\ disk'[w] = Reclaimed(disk[w], ses[w]) /\ snap'[w] = snap[w] /\ UNCHANGED tables
  BY DEF CloseStale, TypeOK
<1>2. /\ ~ses'[w].client /\ ses'[w].seen = ses[w].seen /\ ses'[w].sid = ses[w].sid
  BY <1>1, ClosedFields
<1>3. LocalKnows(w)'
  <2>1. ses[w].sid # NoSid => ses[w].sid \in Turns
    BY ConstantsAssumption DEF Session, Sids, Turns, NoSid
  <2>2. CASE ses[w].archived
    BY <1>1, <1>2, <2>1, <2>2 DEF LocalKnows, Reclaimed
  <2>3. CASE ~ses[w].archived
    BY <1>1, <1>2, <2>3 DEF LocalKnows, Reclaimed, CacheFits
  <2>4. QED
    BY <2>2, <2>3
<1>4. TurnFits(w)' /\ CacheFits(w)' /\ BumpedIsAhead(w)'
  BY <1>1, <1>2, <1>3
  DEF TurnFits, CacheFits, CurrentKnows, InactiveIsUnused, BumpedIsAhead, Upserted, AskingSteps,
      SnapshotHolds
<1>5. QED
  BY <1>1, <1>4, Quiet DEF WorkerStep, TurnStep

\* _connect gives a turn all the store has of the conversation it is about to open.
LEMMA StoreConnect ==
  ASSUME BaseInv, StoreInv, NEW w \in Workers, Connect(w) PROVE StoreInv'
<1> USE OwnFits DEF tables, db, manager, locals, sweeper, history, ghosts, Goto
<1>1. /\ pc[w] = "connect" /\ pc'[w] = "open" /\ ses'[w] = CurrentWith(ses[w], snap[w].seq)
      /\ snap'[w] = snap[w] /\ UNCHANGED tables /\ ~ses[w].client
      /\ snap[w].seq \in Nat /\ snap[w].sid \in Sids
  BY DEF Connect, TypeOK, LocalFits, HasClient, Connecting, Row
<1>2. /\ ~ses'[w].client /\ ses'[w].seen = snap[w].seq /\ ses'[w].sid = ses[w].sid
      /\ ses'[w].archived = ses[w].archived
  BY <1>1, CurrentWithFields
<1>3. SnapshotHolds(w)
  BY <1>1 DEF TurnFits
<1>4. Knows(w, snap[w].sid)'
  <2> SUFFICES ASSUME blob # NoBlob
               PROVE  snap[w].sid = blob.sid /\ blob.recs \subseteq disk'[w][snap[w].sid]
    BY <1>1 DEF Knows
  <2>1. snap[w].sid = blob.sid /\ snap[w].seq = row.seq /\ blob.sid # NoSid
    BY <1>3 DEF SnapshotHolds, TablesFit
  <2>2. snap[w].sid \in Turns
    BY <1>1, <2>1, ConstantsAssumption DEF Sids, Turns, NoSid
  <2>3. CASE Hydrates(ses[w], snap[w], disk[w])
    <3>1. disk' = [disk EXCEPT ![w][snap[w].sid] = blob.recs]
      BY <2>1, <2>3 DEF Connect
    <3>2. QED
      BY <2>1, <2>2, <3>1 DEF TypeOK
  <2>4. CASE ~Hydrates(ses[w], snap[w], disk[w])
    <3>1. disk' = disk /\ LocalIsNewer(ses[w], snap[w], disk[w])
      BY <2>1, <2>4 DEF Connect, Hydrates
    <3>2. QED
      BY <2>1, <3>1 DEF LocalIsNewer, CacheFits, LocalKnows
  <2>5. QED
    BY <2>3, <2>4
<1>5. ses[w].sid # NoSid => snap[w].sid = row.sid /\ snap[w].seq = row.seq
  BY <1>3 DEF SnapshotHolds, CacheFits, InactiveIsUnused
<1>6. CacheFits(w)'
  <2>1. LocalKnows(w)'
    BY <1>1, <1>2, <1>4, <1>5, NoRowFields DEF LocalKnows, Knows, TablesFit
  <2>2. QED
    BY <1>1, <1>2, <1>5, <2>1 DEF CacheFits, CurrentKnows, InactiveIsUnused, Row
<1>7. TurnFits(w)' /\ BumpedIsAhead(w)'
  BY <1>1, <1>4 DEF TurnFits, BumpedIsAhead, Upserted, AskingSteps
<1>8. QED
  BY <1>1, <1>6, <1>7, Quiet DEF WorkerStep, TurnStep

\* Opening: the client is given what hydration put on disk, or there was nothing to
\* give it.
LEMMA StoreOpen ==
  ASSUME BaseInv, StoreInv, NEW w \in Workers, Harmless,
         OpenFresh(w) \/ OpenResume(w) \/ OpenFallback(w)
  PROVE  StoreInv'
<1> USE OwnFits DEF tables, db, manager, locals, sweeper, history, ghosts, Goto
<1> DEFINE s == ses[w]
<1>0. snap[w].mode \in Modes /\ snap[w].sid \in Sids /\ NoSid \in Sids
  BY SessionTypes DEF Row
<1>1. PICK t \in Sids :
        /\ ses'[w] = Opened(ses[w], snap[w].mode, t) /\ pc[w] = "open" /\ pc'[w] = "query"
        /\ UNCHANGED tables /\ (blob # NoBlob => t = snap[w].sid /\ disk'[w] = disk[w])
  <2>1. CASE OpenFresh(w)
    BY <1>0, <2>1 DEF OpenFresh, TypeOK
  <2>2. CASE OpenResume(w)
    BY <1>0, <2>2 DEF OpenResume, TypeOK
  <2>3. CASE OpenFallback(w)
    <3>1. /\ ses'[w] = Opened(ses[w], snap[w].mode, NoSid) /\ pc[w] = "open" /\ pc'[w] = "query"
          /\ UNCHANGED tables
      BY <2>3 DEF OpenFallback, TypeOK
    <3>gone. disk[w][snap[w].sid] = {}
      <4>1. faults' = faults /\ faults \in Int
        BY <2>3 DEF Harmless, TypeOK
      <4>2. ~Suffers("refuse")
        BY <4>1 DEF Suffers
      <4>3. QED
        BY <2>3, <4>2 DEF OpenFallback
    <3>2. blob = NoBlob
      BY <3>1, <3>gone DEF TurnFits, Knows, TablesFit
    <3>3. QED
      BY <1>0, <3>1, <3>2
  <2>4. QED
    BY <2>1, <2>2, <2>3
<1>2. /\ ses'[w].cli = t /\ ses'[w].seen = ses[w].seen /\ ses'[w].sid = ses[w].sid
      /\ ses'[w].archived = ses[w].archived /\ ses'[w].client
  BY <1>0, <1>1, OpenedFields
<1>3. Knows(w, t)'
  BY <1>1 DEF TurnFits, Knows
<1>4. CacheFits(w)'
  BY <1>1, <1>2, NoRowFields DEF CacheFits, CurrentKnows, LocalKnows, InactiveIsUnused, TablesFit
<1>5. TurnFits(w)' /\ BumpedIsAhead(w)'
  BY <1>1, <1>2, <1>3 DEF TurnFits, BumpedIsAhead, Upserted, AskingSteps
<1>6. QED
  BY <1>1, <1>4, <1>5, Quiet DEF WorkerStep, TurnStep
-----------------------------------------------------------------------------
(* A turn that is asked. *)

\* The CLI only appends.
LEMMA StoreQuery ==
  ASSUME BaseInv, StoreInv, NEW w \in Workers, Query(w) PROVE StoreInv'
<1> USE OwnFits DEF tables, db, manager, locals, sweeper, history, ghosts, Goto
<1>1. /\ pc[w] = "query" /\ pc'[w] = "stream" /\ ses'[w] = Asked(ses[w], cur[w])
      /\ UNCHANGED tables /\ Asked(ses[w], cur[w]).cli \in Turns
      /\ disk' = [disk EXCEPT ![w][Asked(ses[w], cur[w]).cli] = @ \cup {<<cur[w], "asked">>}]
  BY AskedType DEF Query, TypeOK
<1>2. \A c \in Turns : disk[w][c] \subseteq disk'[w][c]
  BY <1>1 DEF TypeOK
<1>3. /\ ses'[w].seen = ses[w].seen /\ ses'[w].sid = ses[w].sid /\ ses'[w].client = ses[w].client
      /\ ses[w].cli # NoSid => ses'[w].cli = ses[w].cli
  BY <1>1, AskedFields
<1>4. Knows(w, ses[w].cli)'
  <2>1. Knows(w, ses[w].cli)
    BY <1>1 DEF TurnFits
  <2>2. blob # NoBlob => ses[w].cli # NoSid
    BY <2>1 DEF Knows, TablesFit
  <2>3. QED
    BY <1>1, <1>2, <1>3, <2>1, <2>2 DEF Knows
<1>5. CacheFits(w)'
  BY <1>1, <1>3, <1>4, NoRowFields DEF CacheFits, CurrentKnows, LocalKnows, InactiveIsUnused, Knows
<1>6. TurnFits(w)' /\ BumpedIsAhead(w)'
  BY <1>1, <1>4 DEF TurnFits, BumpedIsAhead, Upserted
<1>7. QED
  BY <1>1, <1>5, <1>6, Quiet DEF WorkerStep, TurnStep

\* The row is named after the conversation the turn knows, so it stays the store's.
LEMMA StoreUpsert ==
  ASSUME BaseInv, StoreInv, NEW w \in Workers, Upsert(w) PROVE StoreInv'
<1> USE OwnFits DEF tables, db, manager, locals, sweeper, history, ghosts, Goto
<1>1. /\ pc[w] = "stream" /\ pc'[w] = "deliver" /\ UNCHANGED <<blob, disk, ses, snap>>
      /\ row'.exists /\ row'.active /\ row'.sid = ses[w].cli /\ row'.seq = row.seq
  BY DEF Upsert, TypeOK, Row
<1>2. TablesFit'
  BY <1>1 DEF TablesFit, TurnFits, AskingSteps, Knows, NoBlob
<1>3. ASSUME NEW v \in Workers PROVE TurnFits(v)' /\ CacheFits(v)' /\ BumpedIsAhead(v)'
  <2>1. TurnFits(v) /\ CacheFits(v)
    BY DEF StoreInv
  <2>2. CASE v = w
    BY <1>1, <2>1, <2>2 DEF TurnFits, CacheFits, CurrentKnows, LocalKnows, InactiveIsUnused,
                            BumpedIsAhead, Knows, Upserted, AskingSteps
  <2>3. CASE v # w
    <3>1. pc[v] = "idle" /\ pc'[v] = "idle"
      BY <1>1, <2>3, OthersIdle DEF Upsert, BaseInv, TypeOK
    <3>2. QED
      BY <1>1, <2>1, <3>1 DEF TurnFits, CacheFits, CurrentKnows, LocalKnows, InactiveIsUnused,
                              BumpedIsAhead, Knows, Upserted, AskingSteps
  <2>4. QED
    BY <2>2, <2>3
<1>4. QED
  BY <1>2, <1>3 DEF StoreInv

\* Posting the answer and waiting for the CLI touch neither the tables nor a file.
LEMMA StoreDeliver ==
  ASSUME BaseInv, StoreInv, NEW w \in Workers, Deliver(w) \/ Settle(w) PROVE StoreInv'
<1> USE OwnFits DEF tables, db, manager, locals, sweeper, history, ghosts, Goto
<1>1. /\ \/ pc[w] = "deliver" /\ pc'[w] = "bump"
         \/ pc[w] = "settle" /\ pc'[w] = "archive"
      /\ ses' = ses /\ disk' = disk /\ UNCHANGED tables
  BY DEF Deliver, Settle, TypeOK
<1>2. TurnFits(w)' /\ CacheFits(w)' /\ BumpedIsAhead(w)'
  BY <1>1 DEF TurnFits, CacheFits, CurrentKnows, LocalKnows, InactiveIsUnused, BumpedIsAhead,
              Upserted, AskingSteps, Knows
<1>3. QED
  BY <1>1, <1>2, Quiet DEF WorkerStep, TurnStep

\* After bump_turn nobody else is current: the number is new.
LEMMA StoreBump ==
  ASSUME BaseInv, StoreInv, NEW w \in Workers, Bump(w) \/ BumpAckLost(w) PROVE StoreInv'
<1> USE OwnFits DEF tables, db, manager, locals, sweeper, history, ghosts, Goto
<1>1. pc[w] = "bump" /\ row.exists /\ row.active /\ row.sid = ses[w].cli /\ Knows(w, ses[w].cli)
  BY DEF Bump, BumpAckLost, TurnFits, Upserted, AskingSteps
<1>2. BumpedRow = [row EXCEPT !.seq = @ + 1] /\ row' = BumpedRow
  BY <1>1 DEF BumpedRow, Bump, BumpAckLost
<1>3. /\ row'.exists /\ row'.active /\ row'.sid = row.sid /\ row'.seq = row.seq + 1
      /\ row.seq \in Nat /\ row'.seq \in Nat
  BY <1>1, <1>2, RowFields DEF Row
<1>seq. row'.seq \in Nat
  BY <1>3
<1>4. UNCHANGED <<blob, disk, snap>>
  BY DEF Bump, BumpAckLost
<1>5. TablesFit'
  BY <1>3, <1>4 DEF TablesFit
<1>6. \A v \in Workers \ {w} : pc'[v] = "idle" /\ pc[v] = "idle" /\ ses'[v] = ses[v]
  BY <1>1, OthersIdle DEF BaseInv, Bump, BumpAckLost, Raises, TypeOK
<1>7. \A v \in Workers \ {w} : ses[v].sid # NoSid \/ ses[v].client => ses[v].seen <= row.seq
  BY <1>6 DEF StoreInv, CacheFits, CurrentKnows
<1>8. ASSUME NEW v \in Workers, v # w PROVE TurnFits(v)' /\ CacheFits(v)' /\ BumpedIsAhead(v)'
  <2>1. ses[v].seen \in Nat
    BY DEF TypeOK, Session
  <2>2. QED
    BY <1>3, <1>4, <1>6, <1>7, <1>8, <2>1
    DEF TurnFits, CacheFits, CurrentKnows, LocalKnows, InactiveIsUnused, BumpedIsAhead,
        Upserted, AskingSteps, StoreInv
<1>9. TurnFits(w)' /\ CacheFits(w)' /\ BumpedIsAhead(w)'
  <2>ses. ses[w] \in Session
    OBVIOUS
  <2>1. CASE Bump(w)
    <3>1. pc'[w] = "settle" /\ ses'[w] = CurrentWith(ses[w], row'.seq)
      BY <1>2, <2>1 DEF Bump, TypeOK
    <3>2. /\ ses'[w].seen = row'.seq /\ ses'[w].cli = ses[w].cli /\ ses'[w].sid = ses[w].sid
          /\ ses'[w].archived = ses[w].archived
      BY ONLY <2>ses, <1>seq, <3>1, CurrentWithFields
    <3>3. BumpedIsAhead(w)'
      <4>1. \A v \in Workers : ses[v].seen \in Nat
        BY DEF TypeOK, Session
      <4>2. QED
        BY <1>3, <1>6, <1>7, <3>2, <4>1 DEF BumpedIsAhead
    <3>4. QED
      BY <1>1, <1>3, <1>4, <3>1, <3>2, <3>3, NoRowFields
      DEF TurnFits, CacheFits, CurrentKnows, LocalKnows, InactiveIsUnused, Upserted,
          AskingSteps, Knows
  <2>2. CASE BumpAckLost(w)
    <3>1. pc'[w] = "idle" /\ ses'[w] = Dropped(ses[w])
      BY <2>2 DEF BumpAckLost, Raises, TypeOK
    <3>2. ~ses'[w].client /\ ses'[w].seen = ses[w].seen /\ ses'[w].sid = ses[w].sid
      BY <3>1, DroppedFields
    <3>3. ses[w].sid # NoSid => ses[w].seen <= row.seq
      BY DEF CacheFits
    <3>4. ses[w].seen \in Nat
      BY DEF Session
    <3>5. QED
      BY <1>3, <3>1, <3>2, <3>3, <3>4
      DEF TurnFits, CacheFits, CurrentKnows, LocalKnows, InactiveIsUnused, Upserted,
          AskingSteps, BumpedIsAhead
  <2>3. QED
    BY <2>1, <2>2
<1>10. QED
  BY <1>5, <1>8, <1>9 DEF StoreInv

\* The archived copy extends what was archived, and whoever else holds a copy knows
\* that it is behind.
LEMMA StoreArchive ==
  ASSUME BaseInv, StoreInv, NEW w \in Workers, Archive(w) \/ ArchiveFails(w)
  PROVE  /\ StoreInv'
         /\ blob' # blob => /\ blob'.sid > blob.sid \/ blob'.sid = blob.sid
                            /\ blob.recs \subseteq blob'.recs
<1> USE OwnFits DEF tables, db, manager, locals, sweeper, history, ghosts, Goto
<1> DEFINE c == ses[w].cli
<1>1. /\ pc[w] = "archive" /\ row.exists /\ row.active /\ row.sid = c /\ Knows(w, c)
      /\ c \in Turns /\ c # NoSid /\ disk[w][c] # {} /\ ses[w].seen = row.seq
      /\ \A v \in Workers \ {w} : ses[v].sid # NoSid \/ ses[v].client => ses[v].seen < row.seq
  <2>1. pc[w] = "archive"
    BY DEF Archive, ArchiveFails
  <2>2. c \in Turns /\ c # NoSid
    BY <2>1, ConstantsAssumption DEF BaseInv, TypeInv, AskedIsNamed, AskingSteps, Turns, NoSid
  <2>3. row.exists /\ row.active /\ row.sid = c /\ Knows(w, c)
    BY <2>1 DEF TurnFits, Upserted, AskingSteps
  <2>4. disk[w][c] # {}
    BY <2>1, <2>2 DEF LocalFits, FileIsThere, HasClient, Serving, AskingSteps
  <2>5. QED
    BY <2>1, <2>2, <2>3, <2>4 DEF BumpedIsAhead
<1>2. /\ \E b \in BOOLEAN : ses'[w] = Filed(ses[w], b)
      /\ pc'[w] = "idle" /\ row' = row /\ disk' = disk /\ snap' = snap
      /\ blob' = blob \/ blob' = [sid |-> c, recs |-> disk[w][c]]
      /\ \A v \in Workers \ {w} : ses'[v] = ses[v] /\ pc'[v] = pc[v]
  BY DEF Archive, ArchiveFails, Saves, Returns, TypeOK
<1>3. /\ ses'[w].seen = row.seq /\ ses'[w].sid = c /\ ses'[w].cli = c
      /\ ses'[w].client = ses[w].client
  BY <1>1, <1>2, FiledFields
<1>4. Knows(w, ses[w].cli)'
  BY <1>1, <1>2, <1>3 DEF Knows
<1>5. TablesFit'
  BY <1>1, <1>2 DEF TablesFit
<1>6. TurnFits(w)' /\ CacheFits(w)' /\ BumpedIsAhead(w)'
  <2>1. row.seq \in Nat
    BY DEF Row
  <2>2. LocalKnows(w)'
    BY <1>3, <1>4, NoRowFields DEF LocalKnows, Knows, TablesFit
  <2>3. QED
    BY <1>1, <1>2, <1>3, <1>4, <2>1, <2>2
    DEF TurnFits, CacheFits, CurrentKnows, InactiveIsUnused, Upserted, AskingSteps, BumpedIsAhead
<1>7. ASSUME NEW v \in Workers, v # w PROVE TurnFits(v)' /\ CacheFits(v)' /\ BumpedIsAhead(v)'
  <2>1. pc[v] = "idle"
    BY <1>1, <1>7, OthersIdle DEF BaseInv
  <2>2. ses[v].seen \in Nat /\ row.seq \in Nat
    BY DEF TypeOK, Session, Row
  <2>3. QED
    BY <1>1, <1>2, <1>7, <2>1, <2>2
    DEF TurnFits, CacheFits, CurrentKnows, LocalKnows, InactiveIsUnused, Upserted, AskingSteps,
        BumpedIsAhead
<1>8. StoreInv'
  BY <1>5, <1>6, <1>7 DEF StoreInv
<1>9. ASSUME blob' # blob
      PROVE  /\ blob'.sid > blob.sid \/ blob'.sid = blob.sid
             /\ blob.recs \subseteq blob'.recs
  <2>1. blob'.sid = c /\ blob'.recs = disk[w][c]
    BY <1>2, <1>9
  <2>2. CASE blob = NoBlob
    BY <1>1, <2>1, <2>2, NoRowFields, ConstantsAssumption DEF Turns, NoSid
  <2>3. CASE blob # NoBlob
    BY <1>1, <2>1, <2>3 DEF Knows
  <2>4. QED
    BY <2>2, <2>3
<1>10. QED
  BY <1>8, <1>9
-----------------------------------------------------------------------------
(* What interrupts a turn, and what happens beside one. *)

\* A turn given up before or after query() leaves a file the store does not contradict.
LEMMA StoreRaises ==
  ASSUME BaseInv, StoreInv, NEW w \in Workers, TurnRaises(w) \/ QueryRaises(w) PROVE StoreInv'
<1> USE OwnFits DEF tables, db, manager, locals, sweeper, history, ghosts, Goto
<1>1. UNCHANGED tables /\ disk'[w] = disk[w] /\ pc'[w] = "idle" /\ pc[w] # "idle"
  BY DEF TurnRaises, QueryRaises, Raises, TypeOK
<1>2. TurnFits(w)' /\ CacheFits(w)' /\ BumpedIsAhead(w)'
  <2>1. CASE TurnRaises(w)
    <3>1. ses'[w] = Dropped(ses[w])
      BY <2>1 DEF TurnRaises, Raises, TypeOK
    <3>2. QED
      BY <1>1, <3>1, DroppedFields, GivesUp
  <2>2. CASE QueryRaises(w)
    <3> DEFINE s == [ses[w] EXCEPT !.archived = FALSE]
    <3>1. ses'[w] = Dropped(s) /\ pc[w] = "query"
      BY <2>2 DEF QueryRaises, Raises, TypeOK
    <3>2. s \in Session /\ s.seen = ses[w].seen /\ s.sid = ses[w].sid
      BY UnarchivedFields
    <3> HIDE DEF s
    <3>3. ~ses'[w].client /\ ses'[w].seen = ses[w].seen /\ ses'[w].sid = ses[w].sid
      BY <3>1, <3>2, DroppedFields
    <3>4. ses[w].sid # NoSid /\ ses[w].sid = blob.sid => blob.recs \subseteq disk[w][ses[w].sid]
      BY <3>1, NoRowFields DEF TurnFits, Knows
    <3>5. QED
      BY <1>1, <3>3, <3>4, GivesUp
  <2>3. QED
    BY <2>1, <2>2
<1>3. QED
  BY <1>1, <1>2, Quiet DEF WorkerStep, Failure

\* The write-behind only appends, and never to a file that is not there.
LEMMA StoreFlush ==
  ASSUME BaseInv, StoreInv, NEW w \in Workers, Flush(w) PROVE StoreInv'
<1> USE OwnFits DEF tables, db, manager, locals, sweeper, history, ghosts, Goto
<1>1. /\ ses[w].client /\ pc' = pc /\ UNCHANGED tables /\ snap' = snap
      /\ ses'[w] = [ses[w] EXCEPT !.owes = {}]
  BY DEF Flush, TypeOK
<1>2. /\ ses'[w].client = ses[w].client /\ ses'[w].seen = ses[w].seen
      /\ ses'[w].sid = ses[w].sid /\ ses'[w].archived = ses[w].archived /\ ses'[w].cli = ses[w].cli
  <2>1. ses[w] \in Session
    OBVIOUS
  <2>2. QED
    BY ONLY <1>1, <2>1, FlushedFields
<1>3. \A c \in Turns : disk[w][c] \subseteq disk'[w][c]
  BY DEF Flush, TypeOK
<1>4. /\ ses[w].sid # NoSid => ses[w].sid \in Turns
      /\ ses[w].cli # NoSid => disk[w][ses[w].cli] # {}
      /\ blob.sid # NoSid => blob.sid \in Turns
  BY <1>1, ConstantsAssumption
  DEF LocalFits, FileIsThere, Session, Blob, Sids, Turns, NoSid
<1>5. LocalKnows(w)'
  <2>1. ses[w].sid # NoSid /\ disk[w][ses[w].sid] = {} => disk'[w][ses[w].sid] = {}
    BY <1>4 DEF Flush, TypeOK
  <2>2. QED
    BY <1>1, <1>2, <1>3, <1>4, <2>1 DEF CacheFits, LocalKnows
<1>6. \A c : Knows(w, c) => Knows(w, c)'
  BY <1>1, <1>3, <1>4 DEF Knows, TablesFit
<1>7. CacheFits(w)'
  BY <1>1, <1>2, <1>5, <1>6 DEF CacheFits, CurrentKnows, InactiveIsUnused
<1>8. TurnFits(w)'
  BY <1>1, <1>2, <1>6 DEF TurnFits, SnapshotHolds
<1>9. BumpedIsAhead(w)'
  <2>1. \A v \in Workers \ {w} : ses'[v] = ses[v]
    BY DEF Flush, TypeOK
  <2>2. QED
    BY <1>1, <1>2, <2>1 DEF BumpedIsAhead
<1>10. QED
  BY <1>1, <1>2, <1>7, <1>8, <1>9, Quiet DEF WorkerStep

\* A session swept, or gone with its process, fits anything.
LEMMA StoreForgets ==
  ASSUME BaseInv, StoreInv, NEW w \in Workers,
         SweepPop(w) \/ SweepDelete(w) \/ Crash(w) \/ Replace(w)
  PROVE  StoreInv'
<1> USE DEF tables, db, manager, locals, sweeper, history, ghosts, Goto
<1>1. ses'[w] = NewSession /\ pc'[w] = "idle" /\ UNCHANGED tables
  <2>1. CASE SweepPop(w)
    BY <2>1, OwnFits DEF SweepPop, TypeOK, BaseInv, TypeInv, IdleIsNotRunning
  <2>2. CASE SweepDelete(w)
    BY <2>2, OwnFits DEF SweepDelete, LocalFits, UncachedIsNew, ClosesAlone, Closing
  <2>3. CASE Crash(w) \/ Replace(w)
    BY <2>3, OwnFits DEF Crash, Replace, Dies, TypeOK
  <2>4. QED
    BY <2>1, <2>2, <2>3
<1>2. QED
  BY <1>1, NewSessionFields, Forgets, Quiet DEF WorkerStep, SweepStep, Failure

\* Scheduling a sweep and tearing a child down change nothing a turn relies on.
LEMMA StoreBeside ==
  ASSUME BaseInv, StoreInv, NEW w \in Workers,
         GoIdle(w) \/ SweepPick(w) \/ SweepSpare(w) \/ SweepTeardown(w)
  PROVE  StoreInv'
<1>1. UNCHANGED <<row, blob, disk, ses, pc, snap>>
  BY DEF GoIdle, SweepPick, SweepSpare, SweepTeardown, db, locals, tables
<1>2. QED
  BY <1>1 DEF StoreInv, TablesFit, TurnFits, CacheFits, CurrentKnows, LocalKnows,
              InactiveIsUnused, Knows, SnapshotHolds, BumpedIsAhead

\* Every step that is harmless keeps every worker's knowledge of the store true.
LEMMA StoreStep == ASSUME BaseInv, StoreInv, [Next]_vars, Harmless PROVE StoreInv'
<1>1. CASE UNCHANGED vars
  BY <1>1 DEF vars, StoreInv, TablesFit, TurnFits, CacheFits, CurrentKnows, LocalKnows,
              InactiveIsUnused, Knows, SnapshotHolds, BumpedIsAhead
<1>2. ASSUME NEW w \in Workers, WorkerStep(w) PROVE StoreInv'
  <2>1. ~LoadFails(w) /\ ~StreamSilent(w) /\ ~LockLost(w)
    BY DEF Harmless
  <2>2. QED
    BY <1>2, <2>1, StoreRead, StoreClose, StoreConnect, StoreOpen, StoreQuery, StoreUpsert,
       StoreDeliver, StoreBump, StoreArchive, StoreRaises, StoreFlush, StoreForgets, StoreBeside
    DEF WorkerStep, TurnStep, SweepStep, Failure
<1>3. QED
  BY <1>1, <1>2, StoreTables, StepsAreWorkersOrTables
-----------------------------------------------------------------------------
Fatal == {"load", "silent", "unlock", "refuse"}

\* Without the fatal kinds of failure, or in a step at which nothing fails, a step is harmless.
LEMMA HarmlessFaults ==
  ASSUME TypeOK, [Next]_vars, Fatal \cap Faults = {} \/ UNCHANGED faults PROVE Harmless
<1>1. \A k \in Fatal : ~Suffers(k)
  BY DEF Suffers, TypeOK
<1>2. ASSUME NEW w \in Workers PROVE ~LoadFails(w) /\ ~StreamSilent(w) /\ ~LockLost(w)
  BY <1>1 DEF LoadFails, StreamSilent, LockLost, Fatal
<1>3. ASSUME NEW w \in Workers, OpenFallback(w) PROVE UNCHANGED faults
  BY <1>1, <1>3 DEF OpenFallback, Fatal
<1>4. QED
  BY <1>2, <1>3 DEF Harmless

LEMMA StoreInit == Init => BaseInv /\ StoreInv
<1> SUFFICES ASSUME Init PROVE BaseInv /\ StoreInv
  OBVIOUS
<1>1. TypeInv
  BY InitType
<1>2. LockInv
  BY DEF Init, LockInv, TurnHoldsLock, SweepHoldsLock, Closing
<1>3. LocalInv
  BY NewSessionFields
  DEF Init, LocalInv, LocalFits, HasClient, UncachedIsNew, ClosesAlone, FileIsThere, ModeFits,
      Serving, Connecting, AskingSteps, Closing
<1>4. StoreInv
  BY NewSessionFields, NoRowFields
  DEF Init, StoreInv, TablesFit, TurnFits, CacheFits, CurrentKnows, LocalKnows, InactiveIsUnused,
      BumpedIsAhead, Upserted, AskingSteps
<1>5. QED
  BY <1>1, <1>2, <1>3, <1>4 DEF BaseInv

LEMMA BaseStep == ASSUME BaseInv, [Next]_vars, Harmless PROVE BaseInv'
BY TypeStep, LocalStep, LockStep DEF BaseInv, Harmless

\* What one step may make of the archived history.
LEMMA BlobStep ==
  ASSUME BaseInv, StoreInv, [Next]_vars, Harmless
  PROVE  blob' # blob => \/ blob' = NoBlob
                         \/ blob'.sid > blob.sid
                         \/ blob'.sid = blob.sid /\ blob.recs \subseteq blob'.recs
<1> USE DEF tables, db
<1>1. CASE TableStep \/ UNCHANGED vars
  BY <1>1 DEF TableStep, Engage, SetMode, Expire, Prune, vars
<1>2. ASSUME NEW w \in Workers, WorkerStep(w), ~Archive(w), ~ArchiveFails(w) PROVE blob' = blob
  <2>1. CASE TurnStep(w)
    BY <1>2, <2>1 DEF TurnStep, ReadRow, CloseStale, Connect, OpenFresh, OpenResume, OpenFallback,
                      Query, Upsert, Deliver, Bump, Settle
  <2>2. CASE Failure(w)
    BY <1>2, <2>2 DEF Failure, LoadFails, QueryRaises, StreamSilent, BumpAckLost, TurnRaises,
                      Crash, Replace, Dies, LockLost
  <2>3. QED
    BY <1>2, <2>1, <2>2 DEF WorkerStep, Acquire, Flush, GoIdle, SweepStep, SweepPick, SweepPop,
                            SweepSpare, SweepTeardown, SweepDelete
<1>3. QED
  BY <1>1, <1>2, StoreArchive, StepsAreWorkersOrTables

\* The tables fit together and every worker knows of the store what its next turn will
\* rely on, as long as hydration does not raise, no stream ends unnamed, no lock connection
\* drops and no transcript on disk is refused.
THEOREM StoreCorrect ==
  ASSUME Fatal \cap Faults = {} PROVE Spec => [](BaseInv /\ StoreInv)
<1>1. BaseInv /\ StoreInv /\ [Next]_vars => (BaseInv /\ StoreInv)'
  <2> SUFFICES ASSUME BaseInv, StoreInv, [Next]_vars PROVE (BaseInv /\ StoreInv)'
    OBVIOUS
  <2>1. Harmless
    BY HarmlessFaults DEF BaseInv, TypeInv
  <2>2. QED
    BY <2>1, BaseStep, StoreStep
<1>2. QED
  BY <1>1, StoreInit, PTL DEF Spec

\* A turn is asked on a history that misses nothing the store has of its conversation:
\* run_turn's staleness check and _connect's hydration do together what they are for.
THEOREM HistoryIsTheStores ==
  ASSUME Fatal \cap Faults = {} PROVE Spec => []AnswersFromTheStoresHistory
<1>1. BaseInv /\ StoreInv => AnswersFromTheStoresHistory
  BY NoRowFields DEF AnswersFromTheStoresHistory, StoreInv, TurnFits, Knows
<1>2. QED
  BY <1>1, StoreCorrect, PTL

\* No archive puts an older or a divergent history over what a worker stored: what
\* turn_seq and `_archived` are compared for in _connect.
THEOREM NeverRewinds ==
  ASSUME Fatal \cap Faults = {} PROVE Spec => StoreNeverRewinds
<1>1. BaseInv /\ StoreInv /\ [Next]_vars
        => [\/ blob' = NoBlob
            \/ blob'.sid > blob.sid
            \/ blob'.sid = blob.sid /\ blob.recs \subseteq blob'.recs]_blob
  <2> SUFFICES ASSUME BaseInv, StoreInv, [Next]_vars, blob' # blob
               PROVE  \/ blob' = NoBlob
                      \/ blob'.sid > blob.sid
                      \/ blob'.sid = blob.sid /\ blob.recs \subseteq blob'.recs
    OBVIOUS
  <2>1. Harmless
    BY HarmlessFaults DEF BaseInv, TypeInv
  <2>2. QED
    BY <2>1, BlobStep
<1>2. QED
  BY <1>1, StoreCorrect, PTL DEF Spec, StoreNeverRewinds
-----------------------------------------------------------------------------
(* `_archived` may be trusted, as long as the CLI keeps up with the turns.   *)

SavedFits(w, s) ==
  s.archived => /\ s.sid # NoSid
                /\ s.sid = blob.sid => disk[w][s.sid] \cup s.owes \subseteq blob.recs

SavedInv ==
  \A w \in Workers : /\ SavedFits(w, ses[w]) /\ SavedFits(w, vic[w])
                     /\ ses[w].archived => blob # NoBlob
                     /\ pc[w] = "archive" => ses[w].owes = {}

KeepsUp == \A w \in Workers : Settle(w) => UNCHANGED faults

\* Nothing a step leaves alone needs saving again.
LEMMA SavedFrame ==
  ASSUME BaseInv, SavedInv, NEW w \in Workers, WorkerStep(w), UNCHANGED blob,
         SavedFits(w, ses[w])', SavedFits(w, vic[w])', (ses[w].archived => blob # NoBlob)',
         (pc[w] = "archive" => ses[w].owes = {})'
  PROVE  SavedInv'
<1>1. ASSUME NEW v \in Workers, v # w
      PROVE  (/\ SavedFits(v, ses[v]) /\ SavedFits(v, vic[v])
              /\ ses[v].archived => blob # NoBlob
              /\ pc[v] = "archive" => ses[v].owes = {})'
  <2>1. SameFor(v)
    BY <1>1, OthersStay DEF BaseInv, TypeInv
  <2>2. QED
    BY <2>1 DEF SavedInv, SavedFits, SameFor
<1>2. QED
  BY <1>1 DEF SavedInv

\* What is marked stored stays stored, by every step that is harmless and keeps up.
LEMMA SavedStep ==
  ASSUME BaseInv, StoreInv, SavedInv, [Next]_vars, Harmless, KeepsUp PROVE SavedInv'
<1> USE DEF tables, db, manager, locals, sweeper, history, ghosts, Goto
<1>1. CASE UNCHANGED vars
  BY <1>1 DEF vars, SavedInv, SavedFits
<1>2. CASE TableStep
  <2>1. UNCHANGED <<disk, ses, vic, pc>>
    BY <1>2, TablesOnly
  <2>2. CASE ~Prune
    BY <1>2, <2>1, <2>2 DEF TableStep, Engage, Expire, SetMode, SavedInv, SavedFits
  <2>3. CASE Prune
    <3>1. blob' = NoBlob /\ ~row.active
      BY <2>3 DEF Prune
    <3>2. \A w \in Workers : ~ses[w].archived
      BY <3>1 DEF StoreInv, CacheFits, InactiveIsUnused, SavedInv, SavedFits
    <3>3. QED
      BY <2>1, <3>1, <3>2, NoRowFields DEF SavedInv, SavedFits
  <2>4. QED
    BY <2>2, <2>3
<1>3. ASSUME NEW w \in Workers, WorkerStep(w) PROVE SavedInv'
  <2>0. /\ SavedFits(w, ses[w]) /\ SavedFits(w, vic[w])
        /\ ses[w].archived => blob # NoBlob
        /\ pc[w] = "archive" => ses[w].owes = {}
    BY DEF SavedInv
  <2>typed. /\ TypeOK /\ ses[w] \in Session /\ vic[w] \in Session /\ snap[w] \in Row /\ row \in Row
        /\ blob \in Blob /\ cur[w] \in Turns /\ disk[w] \in [Turns -> SUBSET Records]
        /\ LocalFits(w) /\ TurnFits(w)
    BY OwnFits
  <2>ses. ses[w] \in Session
    BY <2>typed
  <2>1. CASE Acquire(w) \/ ReadRow(w) \/ Upsert(w) \/ Deliver(w) \/ GoIdle(w) \/ SweepPick(w)
             \/ SweepSpare(w)
    <3>1. UNCHANGED <<blob, disk, ses, vic>> /\ (pc'[w] # "archive" \/ pc' = pc)
      BY <2>1, <2>typed
      DEF Acquire, ReadRow, Upsert, Deliver, GoIdle, SweepPick, SweepSpare, TypeOK
    <3>2. QED
      BY <1>3, <2>0, <3>1, SavedFrame DEF SavedFits
  <2>2. CASE CloseStale(w)
    <3>1. /\ ses'[w] = Closed(ses[w]) /\ vic' = vic /\ blob' = blob /\ pc'[w] = "connect"
          /\ vic[w] = NewSession
      BY <2>2, <2>typed DEF CloseStale, TypeOK, LocalFits, UncachedIsNew, ClosesAlone
    <3>2. ~ses'[w].archived /\ ~vic'[w].archived
      BY <2>typed, <3>1, ClosedFields, NewSessionFields
    <3>3. QED
      BY <1>3, <3>1, <3>2, SavedFrame DEF SavedFits
  <2>3. CASE Connect(w)
    <3>1. /\ ses'[w] = CurrentWith(ses[w], snap[w].seq) /\ vic' = vic /\ blob' = blob
          /\ pc'[w] = "open" /\ vic[w] = NewSession /\ snap[w].seq \in Nat
      BY <2>3, <2>typed DEF Connect, TypeOK, LocalFits, UncachedIsNew, ClosesAlone, Row
    <3>2. /\ ses'[w].archived = ses[w].archived /\ ses'[w].sid = ses[w].sid
          /\ ses'[w].owes = ses[w].owes /\ ~vic'[w].archived
      BY <2>typed, <3>1, CurrentWithFields, NewSessionFields
    <3>3. \A c \in Turns : disk'[w][c] = disk[w][c] \/ (c = blob.sid /\ disk'[w][c] = blob.recs)
      BY <2>3, <2>typed DEF Connect, TypeOK
    <3>4. ses[w].sid # NoSid => ses[w].sid \in Turns
      BY <2>typed, ConstantsAssumption DEF Session, Sids, Turns, NoSid
    <3>5. SavedFits(w, ses[w])'
      BY <2>0, <3>1, <3>2, <3>3, <3>4 DEF SavedFits
    <3>6. QED
      BY <1>3, <2>0, <3>1, <3>2, <3>5, SavedFrame DEF SavedFits
  <2>4. CASE OpenFresh(w) \/ OpenResume(w) \/ OpenFallback(w)
    <3>1. /\ \E t \in Sids : ses'[w] = Opened(ses[w], snap[w].mode, t)
          /\ vic' = vic /\ blob' = blob /\ pc'[w] = "query" /\ vic[w] = NewSession
          /\ snap[w].mode \in Modes
      BY <2>4, <2>typed, SessionTypes
      DEF OpenFresh, OpenResume, OpenFallback, TypeOK, LocalFits, UncachedIsNew, ClosesAlone, Row
    <3>2. /\ ses'[w].archived = ses[w].archived /\ ses'[w].sid = ses[w].sid
          /\ ses'[w].owes = ses[w].owes /\ ~vic'[w].archived
      BY <2>typed, <3>1, OpenedFields, NewSessionFields
    <3>3. \A c \in Turns : disk'[w][c] = disk[w][c] \/ disk'[w][c] = {}
      BY <2>4, <2>typed DEF OpenFresh, OpenResume, OpenFallback, TypeOK
    <3>4. ses[w].sid # NoSid => ses[w].sid \in Turns
      BY <2>typed, ConstantsAssumption DEF Session, Sids, Turns, NoSid
    <3>5. SavedFits(w, ses[w])'
      BY <2>0, <3>1, <3>2, <3>3, <3>4 DEF SavedFits
    <3>6. QED
      BY <1>3, <2>0, <3>1, <3>2, <3>5, SavedFrame DEF SavedFits
  <2>5. CASE Query(w) \/ QueryRaises(w)
    <3>1. /\ vic' = vic /\ blob' = blob /\ pc'[w] # "archive" /\ vic[w] = NewSession
      BY <2>5, <2>typed
      DEF Query, QueryRaises, Raises, TypeOK, LocalFits, UncachedIsNew, ClosesAlone
    <3>2. CASE Query(w)
      <4>1. ses'[w] = Asked(ses[w], cur[w])
        BY <3>2, <2>typed DEF Query, TypeOK
      <4>2. ~ses'[w].archived /\ ~vic'[w].archived
        BY <2>typed, <3>1, <4>1, AskedFields, NewSessionFields
      <4>3. QED
        BY <1>3, <3>1, <4>2, SavedFrame DEF SavedFits
    <3>3. CASE QueryRaises(w)
      <4>1. PICK s : s = [ses[w] EXCEPT !.archived = FALSE] /\ ses'[w] = Dropped(s)
        BY <3>3, <2>typed DEF QueryRaises, Raises, TypeOK
      <4>2. s \in Session /\ ~s.archived
        BY <2>typed, <4>1, UnarchivedFields
      <4>3. ~ses'[w].archived /\ ~vic'[w].archived
        BY <3>1, <4>1, <4>2, DroppedFields, NewSessionFields
      <4>4. QED
        BY <1>3, <3>1, <4>3, SavedFrame DEF SavedFits
    <3>4. QED
      BY <2>5, <3>2, <3>3
  <2>6. CASE Bump(w)
    <3>1. /\ ses'[w] = CurrentWith(ses[w], BumpedRow.seq) /\ vic' = vic /\ UNCHANGED <<blob, disk>>
          /\ pc'[w] = "settle" /\ BumpedRow.seq \in Nat
      BY <2>6, <2>typed, BumpedRowType DEF Bump, TypeOK, Row
    <3>2. /\ ses'[w].archived = ses[w].archived /\ ses'[w].sid = ses[w].sid
          /\ ses'[w].owes = ses[w].owes
      BY ONLY <2>typed, <3>1, CurrentWithFields
    <3>3. QED
      BY <1>3, <2>0, <3>1, <3>2, SavedFrame DEF SavedFits
  <2>7. CASE Settle(w)
    <3>1. UNCHANGED <<blob, disk, ses, vic>> /\ pc[w] = "settle"
      BY <2>7 DEF Settle
    <3>2. Settled(w)
      <4>1. faults' = faults /\ faults \in Int
        BY <2>7, <2>typed DEF KeepsUp, TypeOK
      <4>2. QED
        BY <2>7, <4>1 DEF Settle, Suffers
    <3>3. ses[w].client /\ ses[w].cli \in Turns /\ ses[w].cli # NoSid
      BY <2>typed, <3>1, ConstantsAssumption
      DEF LocalFits, HasClient, Serving, AskingSteps, BaseInv, TypeInv, AskedIsNamed, Turns, NoSid
    <3>4. ses[w].owes = {}
      BY <2>typed, <3>2, <3>3 DEF Settled, LocalFits, FileIsThere
    <3>5. QED
      BY <1>3, <2>0, <3>1, <3>4, SavedFrame DEF SavedFits
  <2>8. CASE Archive(w) \/ ArchiveFails(w)
    <3> DEFINE c == ses[w].cli
    <3>1. /\ pc[w] = "archive" /\ pc'[w] = "idle" /\ vic' = vic /\ disk' = disk
          /\ c \in Turns /\ c # NoSid /\ ses[w].owes = {}
          /\ \A v \in Workers \ {w} : ses'[v] = ses[v] /\ pc'[v] = pc[v]
          /\ \A v \in Workers : vic[v] = NewSession
      <4>1. pc[w] = "archive"
        BY <2>8 DEF Archive, ArchiveFails
      <4>2. c \in Turns /\ c # NoSid
        BY <4>1, ConstantsAssumption DEF BaseInv, TypeInv, AskedIsNamed, AskingSteps, Turns, NoSid
      <4>3. \A v \in Workers : vic[v] = NewSession
        BY <4>1, OthersIdle DEF BaseInv, LocalInv, LocalFits, ClosesAlone
      <4>4. QED
        BY <2>0, <2>8, <2>typed, <4>1, <4>2, <4>3 DEF Archive, ArchiveFails, Returns, TypeOK
    <3>2. /\ blob' = blob \/ blob = NoBlob
             \/ (blob'.sid = blob.sid /\ blob.recs \subseteq blob'.recs)
          /\ blob' = blob \/ blob' = [sid |-> c, recs |-> disk[w][c]]
      <4>1. blob # NoBlob => c = blob.sid /\ blob.recs \subseteq disk[w][c]
        BY <2>typed, <3>1 DEF TurnFits, Knows, AskingSteps
      <4>2. blob' = blob \/ blob' = [sid |-> c, recs |-> disk[w][c]]
        BY <2>8 DEF Archive, ArchiveFails, Saves
      <4>3. QED
        BY <4>1, <4>2
    <3>3. blob # NoBlob => blob' # NoBlob
      <4>1. c # NoBlob.sid
        BY <3>1, NoRowFields
      <4>2. QED
        BY <3>2, <4>1
    <3>4. /\ SavedFits(w, ses[w])' /\ (ses[w].archived => blob # NoBlob)'
      <4>1. CASE Archive(w)
        <5>1. ses'[w] = Filed(ses[w], TRUE) /\ blob' = [sid |-> c, recs |-> disk[w][c]]
          BY <2>typed, <4>1 DEF Archive, Saves, TypeOK
        <5>2. ses'[w].sid = c /\ ses'[w].owes = {}
          BY ONLY <2>ses, <3>1, <5>1, FiledFields
        <5>3. blob'.sid = c /\ blob'.recs = disk'[w][c] /\ blob' # NoBlob
          BY <3>1, <5>1, NoRowFields
        <5>4. QED
          BY <3>1, <5>2, <5>3 DEF SavedFits
      <4>2. CASE ArchiveFails(w)
        <5>1. ses'[w] = Filed(ses[w], FALSE)
          BY <2>typed, <4>2 DEF ArchiveFails, TypeOK
        <5>2. ~ses'[w].archived
          BY <2>typed, <5>1, FiledFields
        <5>3. QED
          BY <5>2 DEF SavedFits
      <4>3. QED
        BY <2>8, <4>1, <4>2
    <3>5. ASSUME NEW v \in Workers, v # w
          PROVE  SavedFits(v, ses[v])' /\ (ses[v].archived => blob # NoBlob)' /\ pc'[v] # "archive"
      <4>1. /\ SavedFits(v, ses[v]) /\ (ses[v].archived => blob # NoBlob)
            /\ ses'[v] = ses[v] /\ pc'[v] = "idle"
        BY <3>1, <3>5, OthersIdle DEF SavedInv, BaseInv
      <4>2. QED
        BY <3>1, <3>2, <3>3, <4>1 DEF SavedFits
    <3>6. \A v \in Workers : SavedFits(v, vic[v])'
      BY <3>1, NewSessionFields DEF SavedFits
    <3>7. QED
      BY <3>1, <3>4, <3>5, <3>6 DEF SavedInv
  <2>9. CASE Flush(w)
    <3>1. /\ ses'[w] = [ses[w] EXCEPT !.owes = {}] /\ vic' = vic /\ pc' = pc /\ blob' = blob
          /\ \A c \in Turns : disk'[w][c] \subseteq disk[w][c] \cup ses[w].owes
          /\ vic[w] = NewSession
      BY <2>9, <2>typed, NewSessionFields DEF Flush, TypeOK, LocalFits, ClosesAlone, UncachedIsNew
    <3>2. /\ ses'[w].archived = ses[w].archived /\ ses'[w].sid = ses[w].sid /\ ses'[w].owes = {}
      BY ONLY <2>typed, <3>1, FlushedFields
    <3>3. ses[w].sid # NoSid => ses[w].sid \in Turns
      BY <2>typed, ConstantsAssumption DEF Session, Sids, Turns, NoSid
    <3>4. SavedFits(w, ses[w])'
      BY <2>0, <3>1, <3>2, <3>3 DEF SavedFits
    <3>5. QED
      BY <1>3, <2>0, <3>1, <3>2, <3>4, NewSessionFields, SavedFrame DEF SavedFits
  <2>10. CASE SweepPop(w)
    <3>1. /\ ses'[w] = NewSession /\ vic'[w] = ses[w] /\ UNCHANGED <<blob, disk>>
          /\ pc'[w] # "archive"
      BY <2>10, <2>typed DEF SweepPop, TypeOK, BaseInv, TypeInv, IdleIsNotRunning
    <3>2. QED
      BY <1>3, <2>0, <3>1, NewSessionFields, SavedFrame DEF SavedFits
  <2>11. CASE SweepTeardown(w)
    <3>1. /\ ses' = ses /\ vic'[w] = Dropped(vic[w]) /\ UNCHANGED <<blob, disk, pc>>
      BY <2>11, <2>typed DEF SweepTeardown, TypeOK
    <3>2. vic'[w].archived = vic[w].archived /\ vic'[w].sid = vic[w].sid /\ vic'[w].owes = {}
      BY <2>typed, <3>1, DroppedFields
    <3>3. QED
      BY <1>3, <2>0, <3>1, <3>2, SavedFrame DEF SavedFits
  <2>12. CASE SweepDelete(w) \/ Crash(w) \/ Replace(w)
    <3>1. ses'[w] = NewSession /\ vic'[w] = NewSession /\ pc'[w] = "idle" /\ blob' = blob
      BY <2>12, <2>typed
      DEF SweepDelete, Crash, Replace, Dies, TypeOK, LocalFits, UncachedIsNew, ClosesAlone, Closing
    <3>2. QED
      BY <1>3, <3>1, NewSessionFields, SavedFrame DEF SavedFits
  <2>13. CASE BumpAckLost(w) \/ TurnRaises(w)
    <3>1. /\ ses'[w] = Dropped(ses[w]) /\ vic' = vic /\ UNCHANGED <<blob, disk>> /\ pc'[w] = "idle"
      BY <2>13, <2>typed DEF BumpAckLost, TurnRaises, Raises, TypeOK
    <3>2. ses'[w].archived = ses[w].archived /\ ses'[w].sid = ses[w].sid /\ ses'[w].owes = {}
      BY <2>typed, <3>1, DroppedFields
    <3>3. QED
      BY <1>3, <2>0, <3>1, <3>2, SavedFrame DEF SavedFits
  <2>14. QED
    BY <1>3, <2>1, <2>2, <2>3, <2>4, <2>5, <2>6, <2>7, <2>8, <2>9, <2>10, <2>11, <2>12, <2>13
    DEF Harmless, WorkerStep, TurnStep, SweepStep, Failure
<1>4. QED
  BY <1>1, <1>2, <1>3, StepsAreWorkersOrTables

\* _settle gives up only by a failure.
LEMMA KeepsUpWithoutFault ==
  ASSUME TypeOK, "settle" \notin Faults \/ UNCHANGED faults PROVE KeepsUp
BY DEF KeepsUp, Settle, Suffers, TypeOK

LEMMA SavedInit == Init => SavedInv
BY NewSessionFields DEF Init, SavedInv, SavedFits

\* The same, and every session marked `_archived` is stored, if the CLI also writes each
\* answer before _settle gives up.
THEOREM SavedCorrect ==
  ASSUME (Fatal \cup {"settle"}) \cap Faults = {}
  PROVE  Spec => [](BaseInv /\ StoreInv /\ SavedInv)
<1>1. BaseInv /\ StoreInv /\ SavedInv /\ [Next]_vars => (BaseInv /\ StoreInv /\ SavedInv)'
  <2> SUFFICES ASSUME BaseInv, StoreInv, SavedInv, [Next]_vars
               PROVE  (BaseInv /\ StoreInv /\ SavedInv)'
    OBVIOUS
  <2>1. Harmless /\ KeepsUp
    BY HarmlessFaults, KeepsUpWithoutFault DEF BaseInv, TypeInv
  <2>2. QED
    BY <2>1, BaseStep, StoreStep, SavedStep
<1>2. QED
  BY <1>1, StoreInit, SavedInit, PTL DEF Spec

\* Whenever `_archived` licenses close() to delete the file, the store has all of it and
\* all the CLI still owes it.
THEOREM ArchivedIsSaved ==
  ASSUME (Fatal \cup {"settle"}) \cap Faults = {} PROVE Spec => []ArchivedMeansSaved
<1>1. BaseInv /\ StoreInv /\ SavedInv => ArchivedMeansSaved
  BY DEF ArchivedMeansSaved, SavedInv, SavedFits
<1>2. QED
  BY <1>1, SavedCorrect, PTL
-----------------------------------------------------------------------------
(* Records: they are of turns already taken, and the answer of a turn in     *)
(* flight is on its way to the file.                                         *)

Unasked == {"read", "close", "connect", "open", "query"}

RecordsFit(w) ==
  /\ pc[w] # "idle" => cur[w] < next
  /\ \A c \in Turns : \A r \in disk[w][c] : r[1] < next
  /\ \A r \in ses[w].owes : r[1] < next
  /\ pc[w] \in Unasked => \A r \in blob.recs : r[1] # cur[w]
  /\ pc[w] \in AskingSteps => <<cur[w], "answered">> \in ses[w].owes \cup disk[w][ses[w].cli]

RecordsInv == (\A r \in blob.recs : r[1] < next) /\ \A w \in Workers : RecordsFit(w)

\* A step that leaves the store alone disturbs no other worker's records.
LEMMA RecordsFrame ==
  ASSUME BaseInv, RecordsInv, NEW w \in Workers, WorkerStep(w), next' = next, blob' = blob,
         RecordsFit(w)'
  PROVE  RecordsInv'
<1>1. ASSUME NEW v \in Workers, v # w PROVE RecordsFit(v)'
  <2>1. SameFor(v) /\ RecordsFit(v)
    BY <1>1, OthersStay DEF BaseInv, TypeInv, RecordsInv
  <2>2. QED
    BY <2>1 DEF RecordsFit, SameFor
<1>2. QED
  BY <1>1 DEF RecordsInv

\* Steps that write nothing of their own, outside an asked turn.
LEMMA RecordsShrink ==
  ASSUME BaseInv, RecordsInv, NEW w \in Workers, WorkerStep(w), next' = next, blob' = blob,
         cur'[w] = cur[w], pc'[w] \notin AskingSteps,
         pc'[w] = "idle" \/ (pc[w] # "idle" /\ (pc'[w] \in Unasked => pc[w] \in Unasked)),
         ses'[w].owes \subseteq ses[w].owes,
         \A c \in Turns : disk'[w][c] \subseteq disk[w][c] \cup blob.recs
  PROVE  RecordsInv'
<1>1. RecordsFit(w)'
  BY DEF RecordsInv, RecordsFit, Unasked
<1>2. QED
  BY <1>1, RecordsFrame

\* Steps that write nothing at all.
LEMMA RecordsSame ==
  ASSUME BaseInv, RecordsInv, NEW w \in Workers, WorkerStep(w), next' = next, blob' = blob,
         cur'[w] = cur[w], disk'[w] = disk[w],
         pc'[w] # "idle" => pc[w] # "idle",
         pc'[w] \in Unasked => pc[w] \in Unasked,
         pc'[w] \in AskingSteps => pc[w] \in AskingSteps,
         ses'[w].owes = ses[w].owes, ses'[w].cli = ses[w].cli
  PROVE  RecordsInv'
<1>1. RecordsFit(w)'
  BY DEF RecordsInv, RecordsFit, Unasked
<1>2. QED
  BY <1>1, RecordsFrame

\* Records are only ever written by the turn they are of, and reach the file they are for.
LEMMA RecordsStep == ASSUME BaseInv, RecordsInv, [Next]_vars, Harmless PROVE RecordsInv'
<1> USE DEF tables, db, manager, locals, sweeper, history, ghosts, Goto
<1>1. CASE UNCHANGED vars
  BY <1>1 DEF vars, RecordsInv, RecordsFit
<1>2. CASE TableStep
  <2>1. UNCHANGED <<disk, ses, pc, cur, next>> /\ (blob' = blob \/ blob' = NoBlob)
    BY <1>2, TablesOnly DEF TableStep, Engage, Expire, Prune, SetMode
  <2>2. QED
    BY <2>1, NoRowFields DEF RecordsInv, RecordsFit
<1>3. ASSUME NEW w \in Workers, WorkerStep(w) PROVE RecordsInv'
  <2>typed. /\ TypeOK /\ ses[w] \in Session /\ vic[w] \in Session /\ snap[w] \in Row /\ row \in Row
        /\ blob \in Blob /\ cur[w] \in Turns /\ disk[w] \in [Turns -> SUBSET Records]
        /\ LocalFits(w) /\ next \in Nat
    BY DEF BaseInv, TypeInv, TypeOK, LocalInv
  <2>ses. ses[w] \in Session /\ cur[w] \in Turns
    BY <2>typed
  <2>records. RecordsFit(w) /\ \A r \in blob.recs : r[1] < next
    BY DEF RecordsInv
  <2>1. CASE Acquire(w)
    <3>1. /\ UNCHANGED <<blob, disk, ses>> /\ cur'[w] = next /\ next' = next + 1
          /\ pc[w] = "idle" /\ pc'[w] = "read"
          /\ \A v \in Workers \ {w} : cur'[v] = cur[v] /\ pc'[v] = pc[v]
      BY <2>1, <2>typed DEF Acquire, TypeOK
    <3>2. \A v \in Workers : /\ \A c \in Turns : \A r \in disk[v][c] : r[1] \in Nat
                             /\ \A r \in ses[v].owes : r[1] \in Nat
                             /\ cur[v] \in Nat
      <4>1. \A r \in Records : r[1] \in Nat
        BY DEF Records, Turns
      <4>2. ASSUME NEW v \in Workers
            PROVE  /\ \A c \in Turns : disk[v][c] \subseteq Records
                   /\ ses[v].owes \subseteq Records /\ cur[v] \in Nat
        <5>1. ses[v] \in Session /\ cur[v] \in Turns /\ disk[v] \in [Turns -> SUBSET Records]
          BY <2>typed DEF TypeOK
        <5>2. ses[v].owes \subseteq Records
          BY <5>1, FlushedType
        <5>3. cur[v] \in Nat
          BY <5>1 DEF Turns
        <5>4. QED
          BY <5>1, <5>2, <5>3
      <4>3. QED
        BY <4>1, <4>2
    <3>3. \A r \in blob.recs : r[1] \in Nat
      BY <2>typed DEF Blob, Records, Turns
    <3>4. RecordsFit(w)'
      BY <2>typed, <2>records, <3>1, <3>2, <3>3 DEF RecordsFit, Unasked, AskingSteps
    <3>5. ASSUME NEW v \in Workers, v # w PROVE RecordsFit(v)'
      <4>1. RecordsFit(v)
        BY DEF RecordsInv
      <4>2. QED
        BY <2>typed, <3>1, <3>2, <3>5, <4>1 DEF RecordsFit
    <3>6. QED
      BY <2>typed, <2>records, <3>1, <3>3, <3>4, <3>5 DEF RecordsInv
  <2>2. CASE ReadRow(w) \/ Upsert(w) \/ Deliver(w) \/ Settle(w) \/ GoIdle(w) \/ SweepPick(w)
             \/ SweepSpare(w) \/ SweepTeardown(w)
    <3>1. /\ UNCHANGED <<blob, disk, ses, cur, next>>
          /\ \/ pc' = pc
             \/ pc[w] = "read" /\ pc'[w] \in Unasked
             \/ pc[w] \in AskingSteps /\ pc'[w] \in AskingSteps
      BY <2>2, <2>typed
      DEF ReadRow, Upsert, Deliver, Settle, GoIdle, SweepPick, SweepSpare, SweepTeardown, TypeOK,
          Unasked, AskingSteps
    <3>2. QED
      BY <1>3, <3>1, RecordsSame DEF Unasked, AskingSteps
  <2>3. CASE Bump(w)
    <3>1. /\ ses'[w] = CurrentWith(ses[w], BumpedRow.seq) /\ BumpedRow.seq \in Nat
          /\ UNCHANGED <<blob, disk, cur, next>> /\ pc[w] = "bump" /\ pc'[w] = "settle"
      BY <2>3, <2>typed, BumpedRowType DEF Bump, TypeOK, Row
    <3>2. ses'[w].owes = ses[w].owes /\ ses'[w].cli = ses[w].cli
      BY ONLY <2>ses, <3>1, CurrentWithFields
    <3>3. QED
      BY <1>3, <3>1, <3>2, RecordsSame DEF Unasked, AskingSteps
  <2>4. CASE CloseStale(w) \/ Connect(w)
    <3>1. /\ UNCHANGED <<blob, cur, next>> /\ pc[w] \in Unasked /\ pc'[w] \in Unasked
          /\ ses'[w] = Closed(ses[w]) \/ ses'[w] = CurrentWith(ses[w], snap[w].seq)
          /\ snap[w].seq \in Nat
      BY <2>4, <2>typed DEF CloseStale, Connect, TypeOK, Unasked, Row
    <3>2. ses'[w].owes \subseteq ses[w].owes
      BY ONLY <2>ses, <3>1, ClosedFields, CurrentWithFields
    <3>3. \A c \in Turns : disk'[w][c] \subseteq disk[w][c] \cup blob.recs
      <4>1. CASE CloseStale(w)
        BY <4>1, <2>typed DEF CloseStale, Reclaimed, TypeOK
      <4>2. CASE Connect(w)
        <5>1. disk' = disk \/ disk' = [disk EXCEPT ![w][snap[w].sid] = blob.recs]
          BY <4>2 DEF Connect
        <5>2. QED
          BY <5>1, <2>typed DEF TypeOK
      <4>3. QED
        BY <2>4, <4>1, <4>2
    <3>4. QED
      BY <1>3, <3>1, <3>2, <3>3, RecordsShrink DEF Unasked, AskingSteps
  <2>5. CASE OpenFresh(w) \/ OpenResume(w) \/ OpenFallback(w)
    <3>1. /\ UNCHANGED <<blob, cur, next>> /\ pc[w] = "open" /\ pc'[w] = "query"
          /\ \E t \in Sids : ses'[w] = Opened(ses[w], snap[w].mode, t)
          /\ snap[w].mode \in Modes
      BY <2>5, <2>typed, SessionTypes DEF OpenFresh, OpenResume, OpenFallback, TypeOK, Row
    <3>2. ses'[w].owes = ses[w].owes
      BY ONLY <2>ses, <3>1, OpenedFields
    <3>3. \A c \in Turns : disk'[w][c] \subseteq disk[w][c]
      BY <2>5, <2>typed DEF OpenFresh, OpenResume, OpenFallback, TypeOK
    <3>4. QED
      BY <1>3, <3>1, <3>2, <3>3, RecordsShrink DEF Unasked, AskingSteps
  <2>6. CASE Query(w)
    <3>1. /\ ses'[w] = Asked(ses[w], cur[w]) /\ UNCHANGED <<blob, cur, next>>
          /\ pc[w] = "query" /\ pc'[w] = "stream"
          /\ disk' = [disk EXCEPT ![w][Asked(ses[w], cur[w]).cli] = @ \cup {<<cur[w], "asked">>}]
      BY <2>6, <2>typed DEF Query, TypeOK
    <3>2. ses'[w].owes = ses[w].owes \cup {<<cur[w], "answered">>}
      BY ONLY <2>ses, <3>1, AskedFields
    <3>3. \A c \in Turns : disk'[w][c] \subseteq disk[w][c] \cup {<<cur[w], "asked">>}
      BY <2>typed, <3>1 DEF TypeOK
    <3>4. RecordsFit(w)'
      BY <2>records, <3>1, <3>2, <3>3 DEF RecordsFit, Unasked
    <3>5. QED
      BY <1>3, <3>1, <3>4, RecordsFrame
  <2>7. CASE Archive(w) \/ ArchiveFails(w)
    <3>1. /\ \E b \in BOOLEAN : ses'[w] = Filed(ses[w], b)
          /\ pc[w] = "archive" /\ pc'[w] = "idle" /\ UNCHANGED <<disk, cur, next>>
          /\ blob' = blob \/ blob' = [sid |-> ses[w].cli, recs |-> disk[w][ses[w].cli]]
          /\ \A v \in Workers \ {w} : ses'[v] = ses[v] /\ pc'[v] = pc[v]
      BY <2>7, <2>typed DEF Archive, ArchiveFails, Saves, Returns, TypeOK
    <3>2. ses'[w].owes = ses[w].owes
      BY ONLY <2>ses, <3>1, FiledFields
    <3>3. ses[w].cli \in Turns
      BY <3>1 DEF BaseInv, TypeInv, AskedIsNamed, AskingSteps
    <3>4. \A r \in blob'.recs : r[1] < next
      BY <2>records, <3>1, <3>3 DEF RecordsFit
    <3>5. ASSUME NEW v \in Workers PROVE RecordsFit(v)'
      <4>1. pc'[v] = "idle"
        BY <3>1, OthersIdle DEF BaseInv
      <4>2. ses'[v].owes = ses[v].owes
        BY <3>1, <3>2
      <4>3. RecordsFit(v)
        BY DEF RecordsInv
      <4>4. QED
        BY <3>1, <4>1, <4>2, <4>3 DEF RecordsFit, Unasked, AskingSteps
    <3>6. QED
      BY <3>1, <3>4, <3>5 DEF RecordsInv
  <2>8. CASE Flush(w)
    <3>1. /\ ses'[w] = [ses[w] EXCEPT !.owes = {}] /\ UNCHANGED <<blob, cur, next, pc>>
          /\ disk' = [disk EXCEPT ![w][ses[w].cli] = @ \cup ses[w].owes]
      BY <2>8, <2>typed DEF Flush, TypeOK
    <3>2. ses'[w].owes = {} /\ ses'[w].cli = ses[w].cli
      BY ONLY <2>ses, <3>1, FlushedFields
    <3>3. \A c \in Turns : disk'[w][c] \subseteq disk[w][c] \cup ses[w].owes
      BY <2>typed, <3>1 DEF TypeOK
    <3>4. pc[w] \in AskingSteps => disk'[w][ses[w].cli] = disk[w][ses[w].cli] \cup ses[w].owes
      BY <2>typed, <3>1 DEF TypeOK, BaseInv, TypeInv, AskedIsNamed
    <3>5. RecordsFit(w)'
      BY <2>records, <3>1, <3>2, <3>3, <3>4 DEF RecordsFit
    <3>6. QED
      BY <1>3, <3>1, <3>5, RecordsFrame
  <2>9. CASE SweepPop(w) \/ SweepDelete(w) \/ Crash(w) \/ Replace(w)
    <3>1. /\ ses'[w] = NewSession /\ pc'[w] = "idle" /\ UNCHANGED <<blob, cur, next>>
      BY <2>9, <2>typed
      DEF SweepPop, SweepDelete, Crash, Replace, Dies, TypeOK, LocalFits, UncachedIsNew,
          ClosesAlone, Closing, BaseInv, TypeInv, IdleIsNotRunning
    <3>2. \A c \in Turns : disk'[w][c] \subseteq disk[w][c]
      BY <2>9, <2>typed DEF SweepPop, SweepDelete, Crash, Replace, Reclaimed, TypeOK
    <3>3. QED
      BY <1>3, <3>1, <3>2, NewSessionFields, RecordsShrink DEF AskingSteps
  <2>10. CASE BumpAckLost(w) \/ TurnRaises(w) \/ QueryRaises(w)
    <3>1. /\ UNCHANGED <<blob, disk, cur, next>> /\ pc'[w] = "idle"
      BY <2>10, <2>typed DEF BumpAckLost, TurnRaises, QueryRaises, Raises, TypeOK
    <3>2. PICK s \in Session : ses'[w] = Dropped(s)
      BY <2>10, <2>typed, FlushedType DEF BumpAckLost, TurnRaises, QueryRaises, Raises, TypeOK
    <3>3. ses'[w].owes = {}
      BY <3>2, DroppedFields
    <3>4. QED
      BY <1>3, <3>1, <3>3, RecordsShrink DEF AskingSteps
  <2>11. QED
    BY <1>3, <2>1, <2>2, <2>3, <2>4, <2>5, <2>6, <2>7, <2>8, <2>9, <2>10
    DEF Harmless, WorkerStep, TurnStep, SweepStep, Failure
<1>4. QED
  BY <1>1, <1>2, <1>3, StepsAreWorkersOrTables

LEMMA RecordsInit == Init => RecordsInv
BY NewSessionFields, NoRowFields DEF Init, RecordsInv, RecordsFit, Unasked, AskingSteps
-----------------------------------------------------------------------------
(* While nothing has failed, every answer a human was given is in the store  *)
(* or in the turn about to store it.                                         *)

Told(w, t) == pc[w] \in {"bump", "settle", "archive"} /\ cur[w] = t

ToldIsKept ==
  \A t \in told : <<t, "answered">> \in blob.recs \/ \E w \in Workers : Told(w, t)

DurableInv == BaseInv /\ StoreInv /\ SavedInv /\ RecordsInv /\ ToldIsKept

\* An answer told is stored by the turn that told it, if nothing fails.
LEMMA ToldStep ==
  ASSUME DurableInv, [Next]_vars, faults' = faults PROVE ToldIsKept'
<1> USE DEF tables, db, manager, locals, sweeper, history, ghosts, Goto
<1>0. /\ TypeOK /\ faults \in Nat /\ \A k : ~Suffers(k)
  BY DEF DurableInv, BaseInv, TypeInv, TypeOK, Suffers
<1>1. CASE UNCHANGED vars
  BY <1>1 DEF vars, DurableInv, ToldIsKept, Told
<1>2. CASE TableStep
  BY <1>2, TablesOnly DEF TableStep, Engage, Expire, Prune, SetMode, DurableInv, ToldIsKept, Told
<1>3. ASSUME NEW w \in Workers, WorkerStep(w) PROVE ToldIsKept'
  <2>1. \A v \in Workers \ {w} : \A t : Told(v, t) => Told(v, t)'
    BY <1>0, <1>3, OthersStay DEF SameFor, Told
  <2>kept. \A t \in told : <<t, "answered">> \in blob.recs \/ \E v \in Workers : Told(v, t)
    BY DEF DurableInv, ToldIsKept
  <2>2. CASE Archive(w)
    <3>1. /\ pc[w] = "archive" /\ told' = told /\ blob'.recs = disk[w][ses[w].cli]
      BY <2>2 DEF Archive, Saves
    <3>2. <<cur[w], "answered">> \in blob'.recs
      BY <3>1 DEF DurableInv, SavedInv, RecordsInv, RecordsFit, AskingSteps
    <3>3. blob.recs \subseteq blob'.recs
      BY <2>2, StoreArchive DEF DurableInv
    <3>4. \A t : Told(w, t) => <<t, "answered">> \in blob'.recs
      BY <3>2 DEF Told
    <3>5. QED
      BY <2>1, <2>kept, <3>1, <3>3, <3>4 DEF ToldIsKept
  <2>3. ~ArchiveFails(w)
    <3>1. SUFFICES ASSUME ArchiveFails(w) PROVE FALSE
      OBVIOUS
    <3>2. pc[w] = "archive" /\ (disk[w][ses[w].cli] = {} \/ ~row.exists)
      BY <1>0, <3>1 DEF ArchiveFails
    <3>3. TurnFits(w) /\ LocalFits(w) /\ ses[w].cli \in Turns
      BY <3>2 DEF DurableInv, BaseInv, LocalInv, StoreInv, TypeInv, AskedIsNamed, AskingSteps
    <3>4. QED
      BY <3>2, <3>3, ConstantsAssumption
      DEF TurnFits, Upserted, LocalFits, HasClient, FileIsThere, Serving, AskingSteps, Turns, NoSid
  <2>4. CASE Deliver(w)
    <3>1. /\ told' = told \cup {cur[w]} \/ told' = told
          /\ blob' = blob /\ pc[w] = "deliver" /\ pc'[w] = "bump" /\ cur'[w] = cur[w]
      BY <1>0, <2>4 DEF Deliver, TypeOK
    <3>2. Told(w, cur[w])' /\ \A t : ~Told(w, t)
      BY <3>1 DEF Told
    <3>3. QED
      BY <2>1, <2>kept, <3>1, <3>2 DEF ToldIsKept
  <2>5. CASE WorkerStep(w) /\ ~Archive(w) /\ ~Deliver(w)
    <3>1. told' = told /\ blob' = blob
          /\ (pc[w] \in {"bump", "settle", "archive"}
                => cur'[w] = cur[w] /\ pc'[w] \in {"bump", "settle", "archive"})
      <4>1. CASE Acquire(w) \/ ReadRow(w) \/ CloseStale(w) \/ Connect(w) \/ OpenFresh(w)
                  \/ OpenResume(w) \/ OpenFallback(w) \/ Query(w) \/ Upsert(w) \/ Bump(w) \/ Settle(w)
        BY <1>0, <4>1
        DEF Acquire, ReadRow, CloseStale, Connect, OpenFresh, OpenResume, OpenFallback, Query,
            Upsert, Bump, Settle, TypeOK
      <4>2. CASE Flush(w) \/ GoIdle(w) \/ SweepPick(w) \/ SweepPop(w) \/ SweepSpare(w)
                  \/ SweepTeardown(w) \/ SweepDelete(w)
        BY <4>2 DEF Flush, GoIdle, SweepPick, SweepPop, SweepSpare, SweepTeardown, SweepDelete
      <4>3. ~Failure(w)
        BY <1>0 DEF Failure, LoadFails, QueryRaises, StreamSilent, BumpAckLost, TurnRaises, Crash,
                    Replace, LockLost
      <4>4. QED
        BY <2>3, <2>5, <4>1, <4>2, <4>3 DEF WorkerStep, TurnStep, SweepStep
    <3>2. \A t : Told(w, t) => Told(w, t)'
      BY <3>1 DEF Told
    <3>3. QED
      BY <2>1, <2>kept, <3>1, <3>2 DEF ToldIsKept
  <2>6. QED
    BY <1>3, <2>2, <2>4, <2>5
<1>4. QED
  BY <1>1, <1>2, <1>3, StepsAreWorkersOrTables

\* Failures are counted, never forgotten.
LEMMA FaultsGrow == ASSUME TypeOK, [Next]_vars PROVE faults' = faults \/ faults' = faults + 1
<1> USE DEF ghosts, history, Suffers
<1>1. CASE TableStep \/ UNCHANGED vars
  BY <1>1, TablesOnly DEF vars
<1>2. ASSUME NEW w \in Workers, Failure(w) PROVE faults' = faults + 1
  BY <1>2 DEF Failure, LoadFails, QueryRaises, StreamSilent, BumpAckLost, TurnRaises, Crash,
              Replace, LockLost
<1>3. ASSUME NEW w \in Workers, WorkerStep(w), ~Failure(w)
      PROVE  faults' = faults \/ faults' = faults + 1
  BY <1>3 DEF WorkerStep, TurnStep, SweepStep, Acquire, ReadRow, CloseStale, Connect, OpenFresh,
              OpenResume, OpenFallback, Query, Upsert, Deliver, Bump, Settle, Archive,
              ArchiveFails, Flush, GoIdle, SweepPick, SweepPop, SweepSpare, SweepTeardown,
              SweepDelete
<1>4. QED
  BY <1>1, <1>2, <1>3, StepsAreWorkersOrTables

\* As long as nothing has failed, and whatever may fail later: once no turn is in flight,
\* the store has every answer a human was given since the thread last expired.
THEOREM DurableAnswers == Spec => []AnswersDurable
<1> DEFINE I == TypeInv /\ (faults = 0 => DurableInv)
<1>1. Init => I
  BY StoreInit, SavedInit, RecordsInit DEF DurableInv, BaseInv, ToldIsKept, Init
<1>2. I /\ [Next]_vars => I'
  <2> SUFFICES ASSUME I, [Next]_vars PROVE I'
    OBVIOUS
  <2>1. TypeInv'
    BY TypeStep
  <2>2. ASSUME faults' = 0 PROVE DurableInv'
    <3>1. faults = 0 /\ faults' = faults /\ DurableInv
      BY <2>2, FaultsGrow DEF TypeInv, TypeOK
    <3>2. Harmless /\ KeepsUp
      BY <3>1, HarmlessFaults, KeepsUpWithoutFault DEF TypeInv
    <3>3. BaseInv' /\ StoreInv' /\ SavedInv' /\ RecordsInv'
      BY <3>1, <3>2, BaseStep, StoreStep, SavedStep, RecordsStep DEF DurableInv
    <3>4. QED
      BY <3>1, <3>3, ToldStep DEF DurableInv
  <2>3. QED
    BY <2>1, <2>2
<1>3. I => AnswersDurable
  BY DEF DurableInv, ToldIsKept, Told, AnswersDurable
<1>4. QED
  BY <1>1, <1>2, <1>3, PTL DEF Spec
-----------------------------------------------------------------------------
(* The workers together are one memory.                                      *)

\* The open turn of the abstract memory is the one that is asked.
LEMMA TurnIs ==
  /\ Asking = {} => OpenTurn = [sid |-> NoSid, base |-> {}]
  /\ \A w : Asking = {w} => OpenTurn = [sid |-> ses[w].cli, base |-> BaseOf(w)]
BY DEF OpenTurn

LEMMA TurnIsNext ==
  /\ Asking' = {} => OpenTurn' = [sid |-> NoSid, base |-> {}]
  /\ \A w : Asking' = {w} => OpenTurn' = [sid |-> ses'[w].cli, base |-> BaseOf(w)']
BY DEF OpenTurn

\* At most one turn is asked, and it has the lock.
LEMMA OneAsking ==
  ASSUME LockInv, NEW w \in Workers, pc[w] # "idle" PROVE Asking \subseteq {w}
BY OthersIdle DEF Asking

AskedAs(v) == <<ses[v].cli, cur[v], disk[v][ses[v].cli] \cup ses[v].owes>>

\* A step that leaves the asked turn's history alone is a stutter of the abstract turn.
LEMMA SameTurn ==
  ASSUME LockInv, \A v \in Workers : (pc'[v] \in AskingSteps) <=> (pc[v] \in AskingSteps),
         \A v \in Workers : pc[v] \in AskingSteps => AskedAs(v)' = AskedAs(v)
  PROVE  OpenTurn' = OpenTurn
<1>1. Asking' = Asking
  BY DEF Asking, AskingSteps
<1>2. CASE Asking = {}
  BY <1>1, <1>2, TurnIs, TurnIsNext
<1>3. CASE Asking # {}
  <2>1. PICK w \in Asking : TRUE
    BY <1>3
  <2>2. w \in Workers /\ pc[w] \in AskingSteps /\ pc[w] # "idle"
    BY <2>1 DEF Asking, AskingSteps
  <2>3. Asking = {w}
    BY <2>1, <2>2, OneAsking
  <2>4. ses'[w].cli = ses[w].cli /\ cur'[w] = cur[w]
        /\ disk'[w][ses'[w].cli] \cup ses'[w].owes = disk[w][ses[w].cli] \cup ses[w].owes
    BY <2>2 DEF AskedAs
  <2>5. BaseOf(w)' = BaseOf(w)
    BY <2>4 DEF BaseOf
  <2>6. QED
    BY <1>1, <2>3, <2>4, <2>5, TurnIs, TurnIsNext
<1>4. QED
  BY <1>2, <1>3

\* query(): the abstract turn begins on a history that misses nothing.
LEMMA QueryBegins ==
  ASSUME BaseInv, StoreInv, RecordsInv, BaseInv', NEW w \in Workers, Query(w)
  PROVE  Memory!Begin
<1> USE OwnFits DEF tables, db, manager, locals, sweeper, history, ghosts, Goto
<1>1. /\ pc[w] = "query" /\ pc'[w] = "stream" /\ ses'[w] = Asked(ses[w], cur[w])
      /\ UNCHANGED <<blob, cur>> /\ Asked(ses[w], cur[w]).cli \in Turns
      /\ disk' = [disk EXCEPT ![w][Asked(ses[w], cur[w]).cli] = @ \cup {<<cur[w], "asked">>}]
  BY AskedType DEF Query, TypeOK
<1>2. \A c \in Turns : disk[w][c] \subseteq disk'[w][c]
  BY <1>1 DEF TypeOK
<1>3. /\ ses[w].cli # NoSid => ses'[w].cli = ses[w].cli
      /\ ses'[w].cli \in Turns
  BY <1>1, AskedFields
<1>4. Asking = {} /\ Asking' = {w}
  <2>1. Asking \subseteq {w}
    BY <1>1, OneAsking DEF BaseInv
  <2>2. \A v \in Workers \ {w} : pc'[v] = pc[v]
    BY <1>1 DEF Query, TypeOK
  <2>3. QED
    BY <1>1, <2>1, <2>2 DEF Asking
<1>5. OpenTurn = Memory!NoTurn /\ OpenTurn' = [sid |-> ses'[w].cli, base |-> BaseOf(w)']
  BY <1>4, TurnIs, TurnIsNext DEF Memory!NoTurn, NoSid
<1>6. BaseOf(w)' \in SUBSET Records
  <2>1. TypeOK'
    BY DEF BaseInv, TypeInv
  <2>2. disk'[w][ses'[w].cli] \subseteq Records
    BY <1>3, <2>1 DEF TypeOK
  <2>3. ses'[w].owes \subseteq Records
    BY <2>1, FlushedType DEF TypeOK, Session
  <2>4. QED
    BY <2>2, <2>3 DEF BaseOf
<1>7. ses'[w].cli \in Sids \ {0}
  BY <1>3, SessionTypes, ConstantsAssumption DEF Turns
<1>8. OpenTurn'.sid > blob.sid \/ (OpenTurn'.sid = blob.sid /\ blob.recs \subseteq OpenTurn'.base)
  <2>1. CASE blob = NoBlob
    BY <1>3, <1>5, <2>1, NoRowFields, ConstantsAssumption DEF Turns, NoSid
  <2>2. CASE blob # NoBlob
    <3>1. ses[w].cli = blob.sid /\ blob.recs \subseteq disk[w][ses[w].cli] /\ ses[w].cli # NoSid
      BY <1>1, <2>2 DEF TurnFits, Knows, TablesFit
    <3>2. \A r \in blob.recs : r[1] # cur[w]
      BY <1>1 DEF RecordsInv, RecordsFit, Unasked
    <3>3. blob.recs \subseteq disk'[w][ses'[w].cli] /\ cur'[w] = cur[w]
      BY <1>1, <1>2, <1>3, <3>1
    <3>4. blob.recs \subseteq BaseOf(w)'
      BY <3>2, <3>3 DEF BaseOf
    <3>5. QED
      BY <1>3, <1>5, <3>1, <3>4
  <2>3. QED
    BY <2>1, <2>2
<1>9. QED
  BY <1>1, <1>5, <1>6, <1>7, <1>8 DEF Memory!Begin

\* handle() gives the lock back: what the turn had is stored, or nothing is.
LEMMA TurnCloses ==
  ASSUME BaseInv, NEW w \in Workers, pc[w] \in AskingSteps, pc'[w] = "idle",
         \A v \in Workers \ {w} : pc'[v] = pc[v]
  PROVE  /\ OpenTurn = [sid |-> ses[w].cli, base |-> BaseOf(w)]
         /\ OpenTurn # Memory!NoTurn /\ OpenTurn' = Memory!NoTurn
<1>1. Asking = {w} /\ Asking' = {}
  <2>1. pc[w] # "idle"
    BY DEF AskingSteps
  <2>2. Asking \subseteq {w}
    BY <2>1, OneAsking DEF BaseInv
  <2>3. QED
    BY <2>2 DEF Asking, AskingSteps
<1>2. ses[w].cli # 0
  BY ConstantsAssumption DEF BaseInv, TypeInv, AskedIsNamed, Turns
<1>3. QED
  BY <1>1, <1>2, TurnIs, TurnIsNext DEF Memory!NoTurn, NoSid

\* Archiving commits the turn; failing to archive abandons it, or commits it unnoticed.
LEMMA ArchiveCommits ==
  ASSUME BaseInv, SavedInv, NEW w \in Workers, Archive(w) \/ ArchiveFails(w)
  PROVE  Memory!Commit \/ Memory!Abandon
<1> DEFINE c == ses[w].cli
<1>1. /\ pc[w] = "archive" /\ ses[w].owes = {} /\ pc'[w] = "idle"
      /\ \A v \in Workers \ {w} : pc'[v] = pc[v]
      /\ blob' = blob \/ blob' = [sid |-> c, recs |-> disk[w][c]]
  BY DEF Archive, ArchiveFails, Saves, Returns, Goto, SavedInv, BaseInv, TypeInv, TypeOK, tables
<1>2. /\ OpenTurn = [sid |-> c, base |-> BaseOf(w)]
      /\ OpenTurn # Memory!NoTurn /\ OpenTurn' = Memory!NoTurn
  BY <1>1, TurnCloses DEF AskingSteps
<1>3. CASE blob' = blob
  BY <1>2, <1>3 DEF Memory!Abandon
<1>4. CASE blob' = [sid |-> c, recs |-> disk[w][c]]
  <2>1. c \in Turns
    BY <1>1 DEF BaseInv, TypeInv, AskedIsNamed, AskingSteps
  <2>2. disk[w][c] \in SUBSET Records
    BY <2>1 DEF BaseInv, TypeInv, TypeOK
  <2>3. BaseOf(w) \subseteq disk[w][c]
    BY <1>1 DEF BaseOf
  <2>4. QED
    BY <1>2, <1>4, <2>2, <2>3 DEF Memory!Commit
<1>5. QED
  BY <1>1, <1>3, <1>4

\* Every step is a step of the abstract memory, or none.
LEMMA RefinesStep ==
  ASSUME BaseInv, StoreInv, SavedInv, RecordsInv, [Next]_vars, Harmless, BaseInv'
  PROVE  Memory!Next \/ UNCHANGED <<blob, OpenTurn>>
<1> USE DEF tables, db, manager, locals, sweeper, history, ghosts, Goto
<1>1. CASE UNCHANGED vars
  BY <1>1, SameTurn DEF vars, AskedAs, BaseInv
<1>2. CASE TableStep
  <2>1. UNCHANGED OpenTurn
    BY <1>2, TablesOnly, SameTurn DEF AskedAs, BaseInv
  <2>2. blob' = blob \/ blob' = Memory!Nothing
    BY <1>2 DEF TableStep, Engage, Expire, Prune, SetMode, NoBlob, Memory!Nothing, NoSid
  <2>3. QED
    BY <2>1, <2>2 DEF Memory!Next, Memory!Forget
<1>3. ASSUME NEW w \in Workers, WorkerStep(w)
      PROVE  Memory!Next \/ UNCHANGED <<blob, OpenTurn>>
  <2>typed. TypeOK /\ ses[w] \in Session /\ LocalFits(w)
    BY DEF BaseInv, TypeInv, TypeOK, LocalInv
  <2>ses. ses[w] \in Session
    BY <2>typed
  <2>others. \A v \in Workers \ {w} : SameFor(v)
    BY <1>3, <2>typed, OthersStay
  <2>same. ASSUME blob' = blob, (pc'[w] \in AskingSteps) <=> (pc[w] \in AskingSteps),
                  pc[w] \in AskingSteps => AskedAs(w)' = AskedAs(w)
           PROVE  UNCHANGED <<blob, OpenTurn>>
    <3>1. \A v \in Workers \ {w} : pc'[v] = pc[v] /\ AskedAs(v)' = AskedAs(v)
      BY <2>others DEF SameFor, AskedAs
    <3>2. QED
      BY <2>same, <3>1, SameTurn DEF BaseInv
  <2>left. ASSUME blob' = blob, pc'[w] = "idle"
           PROVE  Memory!Next \/ UNCHANGED <<blob, OpenTurn>>
    <3>1. CASE pc[w] \in AskingSteps
      BY <2>left, <2>others, <3>1, TurnCloses DEF SameFor, Memory!Next, Memory!Abandon
    <3>2. CASE pc[w] \notin AskingSteps
      BY <2>left, <3>2, <2>same DEF AskingSteps
    <3>3. QED
      BY <3>1, <3>2
  <2>1. CASE Acquire(w) \/ ReadRow(w) \/ CloseStale(w) \/ Connect(w) \/ OpenFresh(w)
             \/ OpenResume(w) \/ OpenFallback(w)
    <3>1. blob' = blob /\ pc[w] \notin AskingSteps /\ pc'[w] \notin AskingSteps
      BY <2>1, <2>typed DEF Acquire, ReadRow, CloseStale, Connect, OpenFresh, OpenResume,
                        OpenFallback, TypeOK, AskingSteps
    <3>2. QED
      BY <3>1, <2>same
  <2>2. CASE Query(w)
    BY <2>2, QueryBegins DEF Memory!Next
  <2>3. CASE Upsert(w) \/ Deliver(w) \/ Settle(w) \/ GoIdle(w) \/ SweepPick(w)
             \/ SweepSpare(w) \/ SweepTeardown(w)
    <3>1. /\ UNCHANGED <<blob, disk, ses, cur>>
          /\ pc' = pc \/ (pc[w] \in AskingSteps /\ pc'[w] \in AskingSteps)
      BY <2>3, <2>typed DEF Upsert, Deliver, Settle, GoIdle, SweepPick, SweepSpare, SweepTeardown,
                        TypeOK, AskingSteps
    <3>2. QED
      BY <3>1, <2>same DEF AskedAs
  <2>4. CASE Bump(w)
    <3>1. /\ ses'[w] = CurrentWith(ses[w], BumpedRow.seq) /\ BumpedRow.seq \in Nat
          /\ UNCHANGED <<blob, disk, cur>> /\ pc[w] = "bump" /\ pc'[w] = "settle"
      BY <2>4, <2>typed, BumpedRowType DEF Bump, TypeOK, Row
    <3>2. ses'[w].owes = ses[w].owes /\ ses'[w].cli = ses[w].cli
      BY ONLY <2>ses, <3>1, CurrentWithFields
    <3>3. QED
      BY <3>1, <3>2, <2>same DEF AskedAs, AskingSteps
  <2>5. CASE Archive(w) \/ ArchiveFails(w)
    BY <2>5, ArchiveCommits DEF Memory!Next
  <2>6. CASE Flush(w)
    <3>1. /\ ses'[w] = [ses[w] EXCEPT !.owes = {}] /\ UNCHANGED <<blob, cur, pc>>
          /\ disk' = [disk EXCEPT ![w][ses[w].cli] = @ \cup ses[w].owes]
      BY <2>6, <2>typed DEF Flush, TypeOK
    <3>2. ses'[w].owes = {} /\ ses'[w].cli = ses[w].cli
      BY ONLY <2>ses, <3>1, FlushedFields
    <3>3. pc[w] \in AskingSteps => disk'[w][ses[w].cli] = disk[w][ses[w].cli] \cup ses[w].owes
      BY <2>typed, <3>1 DEF TypeOK, BaseInv, TypeInv, AskedIsNamed
    <3>4. QED
      BY <3>1, <3>2, <3>3, <2>same DEF AskedAs
  <2>7. CASE SweepPop(w) \/ SweepDelete(w) \/ Crash(w) \/ Replace(w) \/ BumpAckLost(w)
             \/ TurnRaises(w) \/ QueryRaises(w)
    <3>1. blob' = blob /\ pc'[w] = "idle"
      BY <2>7, <2>typed
      DEF SweepPop, SweepDelete, Crash, Replace, Dies, BumpAckLost, TurnRaises, QueryRaises,
          Raises, TypeOK, LocalFits, UncachedIsNew, ClosesAlone, Closing, BaseInv, TypeInv,
          IdleIsNotRunning
    <3>2. QED
      BY <3>1, <2>left
  <2>8. QED
    BY <1>3, <2>1, <2>2, <2>3, <2>4, <2>5, <2>6, <2>7
    DEF Harmless, WorkerStep, TurnStep, SweepStep, Failure
<1>4. QED
  BY <1>1, <1>2, <1>3, StepsAreWorkersOrTables

\* All the workers, with their caches, disks and crashes, and the store behave as one
\* memory that one turn at a time extends (ThreadMemory).
THEOREM OneMemory ==
  ASSUME (Fatal \cup {"settle"}) \cap Faults = {} PROVE Spec => ImplementsThreadMemory
<1> DEFINE I == BaseInv /\ StoreInv /\ SavedInv /\ RecordsInv
<1>1. Init => I /\ Memory!Init
  <2> SUFFICES ASSUME Init PROVE I /\ Memory!Init
    OBVIOUS
  <2>1. Asking = {}
    BY DEF Init, Asking
  <2>2. QED
    BY <2>1, StoreInit, SavedInit, RecordsInit, TurnIs
    DEF Init, Memory!Init, Memory!NoTurn, Memory!Nothing, NoBlob, NoSid
<1>2. I /\ [Next]_vars => I' /\ [Memory!Next]_<<blob, OpenTurn>>
  <2> SUFFICES ASSUME I, [Next]_vars PROVE I' /\ [Memory!Next]_<<blob, OpenTurn>>
    OBVIOUS
  <2>1. Harmless /\ KeepsUp
    BY HarmlessFaults, KeepsUpWithoutFault DEF BaseInv, TypeInv
  <2>2. I'
    BY <2>1, BaseStep, StoreStep, SavedStep, RecordsStep
  <2>3. QED
    BY <2>1, <2>2, RefinesStep
<1>3. QED
  BY <1>1, <1>2, PTL DEF Spec, ImplementsThreadMemory, Memory!Spec
=============================================================================
