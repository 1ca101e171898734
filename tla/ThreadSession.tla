--------------------------- MODULE ThreadSession ---------------------------
(***************************************************************************)
(* One Slack thread served by any number of stateless workers              *)
(* (session/session.py, session/manager.py, and the sessions/transcripts   *)
(* tables and thread lock of db/postgres.py).                              *)
(*                                                                         *)
(* Every worker may cache a JeanSession whose CLI child appends to a       *)
(* .jsonl on the worker's own disk; the store keeps one archived copy.     *)
(* A transcript is the set of records in it: it only ever grows by         *)
(* appending, so prefix is inclusion.  Turns are numbered in the order     *)
(* they take the thread lock, and a conversation (sdk_session_id) is named *)
(* by the turn that opened it.                                             *)
(***************************************************************************)
EXTENDS Integers, FiniteSets

CONSTANTS
  Workers,    \* the processes that serve the thread
  MaxTurns,   \* bound on the turns ever taken
  Modes,      \* values of sessions.permission_mode
  NoMode,     \* permission_mode IS NULL, also the mode of a thread with no row
  Faults,     \* the kinds of failure that may happen, out of FaultKinds
  MaxFaults   \* bound on how many failures happen in a behaviour

FaultKinds ==
  {"raise",   \* an awaited call of the turn raises and changed nothing
   "load",    \* TranscriptStore.load raises while hydrating
   "refuse",  \* the CLI refuses to resume a transcript that is on disk
   "query",   \* the CLI dies on query(), before it wrote anything
   "silent",  \* the stream ends without ever naming its session
   "post",    \* the answer could not be posted
   "bumpack", \* bump_turn commits but its connection drops
   "settle",  \* the CLI has not written the answer by settle_timeout
   "cap",     \* the transcript is over JEAN_TRANSCRIPT_MAX_MB
   "save",    \* TranscriptStore.save raises and stored nothing
   "saveack", \* save commits but its connection drops
   "crash",   \* the process dies and restarts on the same disk
   "replace", \* the process dies and its disk with it
   "unlock"}  \* the dedicated connection that holds the lock drops

ASSUME ConstantsAssumption ==
  /\ MaxTurns \in Nat \ {0}
  /\ NoMode \in Modes
  /\ Faults \subseteq FaultKinds
  /\ MaxFaults \in Nat

Turns   == 1..MaxTurns
NoSid   == 0
Sids    == 0..MaxTurns
Records == Turns \X {"asked", "answered"}

VARIABLES
  row,    \* the thread's row in `sessions`
  blob,   \* its row in `transcripts`
  lock,   \* the actors the database believes hold the thread lock
  disk,   \* disk[w][s]: the records in s.jsonl on worker w
  cached, \* is a session cached in the worker's SessionManager?
  ses,    \* the cached JeanSession
  idle,   \* is its _last_touch older than idle_seconds?
  pc,     \* where the turn in flight on the worker is, "idle" if none
  cur,    \* that turn
  snap,   \* the row as it read it
  spc,    \* where the worker's idle sweeper is with this thread
  vic,    \* the session it popped and is closing
  next,   \* the next turn
  told,   \* the turns whose answer a human saw and the thread should remember
  faults  \* failures so far

vars == <<row, blob, lock, disk, cached, ses, idle, pc, cur, snap, spc, vic,
          next, told, faults>>

tables  == <<row, blob>>
db      == <<row, blob, lock>>
manager == <<cached, idle>>
locals  == <<cur, snap>>
sweeper == <<spc, vic>>
history == <<next, told>>
ghosts  == <<next, told, faults>>
-----------------------------------------------------------------------------
Row  == [exists: BOOLEAN, sid: Sids, seq: Nat, mode: Modes, active: BOOLEAN]
Blob == [sid: Sids, recs: SUBSET Records]

\* `active` is "last_active_at is within the retention window".
NoRow  == [exists |-> FALSE, sid |-> NoSid, seq |-> 0, mode |-> NoMode,
           active |-> FALSE]
NoBlob == [sid |-> NoSid, recs |-> {}]

\* A JeanSession together with the CLI child it owns: `cli` is the transcript
\* the child appends to (NoSid before a fresh one is named), `owes` the records
\* it has streamed but not yet written, and the rest are the object's fields.
Session == [client: BOOLEAN, mode: Modes, seen: Nat, sid: Sids,
            archived: BOOLEAN, cli: Sids, owes: SUBSET Records]

NewSession == [client |-> FALSE, mode |-> NoMode, seen |-> 0, sid |-> NoSid,
               archived |-> FALSE, cli |-> NoSid, owes |-> {}]

TurnSteps  == {"idle", "read", "close", "connect", "open", "query", "stream",
               "deliver", "bump", "settle", "archive"}
SweepSteps == {"idle", "wait", "teardown", "delete"}

Actors == {"turn", "sweep"} \X Workers

\* The sweeper drains only while it holds the lock, in these steps.
Closing == {"teardown", "delete"}

Init ==
  /\ row = NoRow /\ blob = NoBlob /\ lock = {}
  /\ disk = [w \in Workers |-> [s \in Turns |-> {}]]
  /\ cached = [w \in Workers |-> FALSE]
  /\ ses = [w \in Workers |-> NewSession]
  /\ idle = [w \in Workers |-> FALSE]
  /\ pc = [w \in Workers |-> "idle"]
  /\ cur = [w \in Workers |-> 1]
  /\ snap = [w \in Workers |-> NoRow]
  /\ spc = [w \in Workers |-> "idle"]
  /\ vic = [w \in Workers |-> NewSession]
  /\ next = 1 /\ told = {} /\ faults = 0
-----------------------------------------------------------------------------
Suffers(kind) == /\ kind \in Faults
                 /\ faults < MaxFaults
                 /\ faults' = faults + 1

\* What __aexit__ leaves of a session: the child is gone, with whatever it
\* still owed its file.
Dropped(s) == [s EXCEPT !.client = FALSE, !.cli = NoSid, !.owes = {}]

Closed(s) == [Dropped(s) EXCEPT !.archived = FALSE]

\* The session takes turn_seq n for the one its history is current with.
CurrentWith(s, n) == [s EXCEPT !.seen = n]

\* The files of a worker once close() is done with session s.
Reclaimed(files, s) ==
  IF s.archived /\ s.sid # NoSid THEN [files EXCEPT ![s.sid] = {}] ELSE files

Goto(w, step) == pc' = [pc EXCEPT ![w] = step]

-----------------------------------------------------------------------------
(* Variants: what parts of the code below would be with a plausible mistake  *)
(* in them.  No action uses them; each can be put in the place of the        *)
(* operator it varies, to see that a property notices.                       *)

UnlockForgotten(actor) == UNCHANGED lock

LockAlwaysGranted == TRUE

SweepUnlocked(w) == UNCHANGED lock

RaisesHoldingLock(w, s) == /\ ses' = [ses EXCEPT ![w] = Dropped(s)]
                           /\ Goto(w, "idle")
                           /\ UNCHANGED <<lock, idle>>

SupersededByModeOnly(s, r) == s.mode # r.mode \/ ~r.exists

SupersededBySeqOnly(s, r) == ~r.exists \/ r.seq # s.seen

LocalIsNewerWheneverUnarchived(s, r, files) ==
  s.sid = r.sid /\ ~s.archived /\ files[r.sid] # {}

AskedStillArchived(s, t) ==
  [s EXCEPT !.cli = IF @ = NoSid THEN t ELSE @,
            !.owes = @ \cup {<<t, "answered">>}]

SettledAtOnce(w) == TRUE

BumpTouchesOnly == [row EXCEPT !.exists = TRUE, !.active = TRUE]
-----------------------------------------------------------------------------
\* pg_advisory_xact_lock: granted when nobody holds it, released when the
\* holder's transaction ends.
LockFree == lock = {}

Unlock(actor) == lock' = lock \ {actor}

\* handle() returns: the touch that follows run_turn, then the lock.
Returns(w) == /\ Goto(w, "idle")
              /\ Unlock(<<"turn", w>>)
              /\ idle' = [idle EXCEPT ![w] = FALSE]

\* run_turn's `except BaseException`: s is what the failed step made of the
\* session, its client is dropped and handle() is left without a touch.
Raises(w, s) == /\ ses' = [ses EXCEPT ![w] = Dropped(s)]
                /\ Goto(w, "idle")
                /\ Unlock(<<"turn", w>>)
                /\ UNCHANGED idle
-----------------------------------------------------------------------------
(* SessionManager.handle and JeanSession.run_turn *)

Acquire(w) ==
  /\ pc[w] = "idle" /\ LockFree /\ next <= MaxTurns
  /\ lock' = {<<"turn", w>>}
  /\ cached' = [cached EXCEPT ![w] = TRUE]
  /\ idle' = [idle EXCEPT ![w] = FALSE]
  /\ cur' = [cur EXCEPT ![w] = next]
  /\ next' = next + 1
  /\ Goto(w, "read")
  /\ UNCHANGED <<tables, disk, ses, snap, sweeper, told, faults>>

\* A cached client is wrong when its mode is no longer the thread's or
\* somebody else has taken a turn since it was current.
Superseded(s, r) == s.mode # r.mode \/ ~r.exists \/ r.seq # s.seen

ReadRow(w) ==
  /\ pc[w] = "read"
  /\ snap' = [snap EXCEPT ![w] = row]
  /\ Goto(w, IF ~ses[w].client THEN "connect"
             ELSE IF Superseded(ses[w], row) THEN "close" ELSE "query")
  /\ UNCHANGED <<db, disk, manager, ses, cur, sweeper, ghosts>>

CloseStale(w) ==
  /\ pc[w] = "close"
  /\ ses' = [ses EXCEPT ![w] = Closed(@)]
  /\ disk' = [disk EXCEPT ![w] = Reclaimed(@, ses[w])]
  /\ Goto(w, "connect")
  /\ UNCHANGED <<db, manager, locals, sweeper, ghosts>>

LocalIsNewer(s, r, files) ==
  /\ s.sid = r.sid
  /\ ~s.archived
  /\ s.seen = r.seq
  /\ files[r.sid] # {}

\* _connect up to its first _open: commit to the row's turn_seq, then put the
\* store's copy on disk unless ours is ahead of it.
Hydrates(s, r, files) ==
  /\ r.sid # NoSid
  /\ ~LocalIsNewer(s, r, files)

Connect(w) ==
  LET r == snap[w]
  IN /\ pc[w] = "connect"
     /\ ses' = [ses EXCEPT ![w] = CurrentWith(@, r.seq)]
     /\ disk' = IF Hydrates(ses[w], r, disk[w]) /\ blob.sid = r.sid
                  THEN [disk EXCEPT ![w][r.sid] = blob.recs] ELSE disk
     /\ Goto(w, "open")
     /\ UNCHANGED <<db, manager, locals, sweeper, ghosts>>

LoadFails(w) ==
  /\ pc[w] = "connect"
  /\ Hydrates(ses[w], snap[w], disk[w])
  /\ Suffers("load")
  /\ Raises(w, CurrentWith(ses[w], snap[w].seq))
  /\ UNCHANGED <<tables, disk, cached, locals, sweeper, history>>

\* A client opened in the snapshot's mode, on transcript t or (NoSid) a fresh one.
Opened(s, mode, t) ==
  [s EXCEPT !.client = TRUE, !.mode = mode, !.cli = t]

OpenFresh(w) ==
  /\ pc[w] = "open" /\ snap[w].sid = NoSid
  /\ ses' = [ses EXCEPT ![w] = Opened(@, snap[w].mode, NoSid)]
  /\ Goto(w, "query")
  /\ UNCHANGED <<db, disk, manager, locals, sweeper, ghosts>>

OpenResume(w) ==
  /\ pc[w] = "open" /\ snap[w].sid # NoSid
  /\ disk[w][snap[w].sid] # {}
  /\ ses' = [ses EXCEPT ![w] = Opened(@, snap[w].mode, snap[w].sid)]
  /\ Goto(w, "query")
  /\ UNCHANGED <<db, disk, manager, locals, sweeper, ghosts>>

\* The resume was refused but a bare open succeeds: a new conversation, and
\* the old file is dead weight.
OpenFallback(w) ==
  /\ pc[w] = "open" /\ snap[w].sid # NoSid
  /\ IF disk[w][snap[w].sid] = {} THEN UNCHANGED faults ELSE Suffers("refuse")
  /\ ses' = [ses EXCEPT ![w] = Opened(@, snap[w].mode, NoSid)]
  /\ disk' = [disk EXCEPT ![w][snap[w].sid] = {}]
  /\ Goto(w, "query")
  /\ UNCHANGED <<db, manager, locals, sweeper, history>>

\* query(): the flag is cleared before it, the CLI then writes the question to
\* its file and owes it the answer.
Asked(s, t) ==
  [s EXCEPT !.archived = FALSE,
            !.cli = IF @ = NoSid THEN t ELSE @,
            !.owes = @ \cup {<<t, "answered">>}]

Query(w) ==
  LET s == Asked(ses[w], cur[w])
  IN /\ pc[w] = "query"
     /\ ses' = [ses EXCEPT ![w] = s]
     /\ disk' = [disk EXCEPT ![w][s.cli] = @ \cup {<<cur[w], "asked">>}]
     /\ Goto(w, "stream")
     /\ UNCHANGED <<db, manager, locals, sweeper, ghosts>>

QueryRaises(w) ==
  /\ pc[w] = "query"
  /\ Suffers("query")
  /\ Raises(w, [ses[w] EXCEPT !.archived = FALSE])
  /\ UNCHANGED <<tables, disk, cached, locals, sweeper, history>>

\* A streamed message names the session: upsert_session, which touches the row.
Upsert(w) ==
  /\ pc[w] = "stream"
  /\ row' = [row EXCEPT !.exists = TRUE, !.sid = ses[w].cli, !.active = TRUE]
  /\ Goto(w, "deliver")
  /\ UNCHANGED <<blob, lock, disk, manager, ses, locals, sweeper, ghosts>>

\* `sid is None` at the end of the stream: nothing is committed or archived.
StreamSilent(w) ==
  /\ pc[w] = "stream"
  /\ Suffers("silent")
  /\ Returns(w)
  /\ UNCHANGED <<tables, disk, cached, ses, locals, sweeper, history>>

\* The stream is over and the answer reaches the thread, or does not: the turn
\* goes on either way.
Deliver(w) ==
  /\ pc[w] = "deliver"
  /\ \/ told' = told \cup {cur[w]} /\ UNCHANGED faults
     \/ UNCHANGED told /\ Suffers("post")
  /\ Goto(w, "bump")
  /\ UNCHANGED <<db, disk, manager, ses, locals, sweeper, next>>

\* bump_turn: INSERT ... ON CONFLICT DO UPDATE.
BumpedRow ==
  IF row.exists THEN [row EXCEPT !.seq = @ + 1]
                ELSE [NoRow EXCEPT !.exists = TRUE, !.seq = 1, !.active = TRUE]

Bump(w) ==
  /\ pc[w] = "bump"
  /\ row' = BumpedRow
  /\ ses' = [ses EXCEPT ![w] = CurrentWith(@, BumpedRow.seq)]
  /\ Goto(w, "settle")
  /\ UNCHANGED <<blob, lock, disk, manager, locals, sweeper, ghosts>>

BumpAckLost(w) ==
  /\ pc[w] = "bump"
  /\ Suffers("bumpack")
  /\ row' = BumpedRow
  /\ Raises(w, ses[w])
  /\ UNCHANGED <<blob, disk, cached, locals, sweeper, history>>

\* _settle: return when there is no file, when it holds every record the turn
\* owes it, or at the deadline.
Settled(w) == ses[w].owes = {} \/ disk[w][ses[w].cli] = {}

Settle(w) ==
  /\ pc[w] = "settle"
  /\ IF Settled(w) THEN UNCHANGED faults ELSE Suffers("settle")
  /\ Goto(w, "archive")
  /\ UNCHANGED <<db, disk, manager, ses, locals, sweeper, history>>

\* _archive names the transcript it was asked to store, and marks it stored only
\* when save() returned.
Filed(s, saved) == [s EXCEPT !.sid = s.cli, !.archived = saved]

\* The store's copy becomes this worker's file; the foreign key refuses it
\* when the session row is gone.
Saves(w) == /\ row.exists
            /\ blob' = [sid |-> ses[w].cli, recs |-> disk[w][ses[w].cli]]

Archive(w) ==
  /\ pc[w] = "archive"
  /\ disk[w][ses[w].cli] # {}
  /\ Saves(w)
  /\ ses' = [ses EXCEPT ![w] = Filed(@, TRUE)]
  /\ Returns(w)
  /\ UNCHANGED <<row, disk, cached, locals, sweeper, ghosts>>

\* Every other way out of _archive leaves _archived False: no file, a file
\* over the cap, a save that raised (with or without having stored it).
ArchiveFails(w) ==
  /\ pc[w] = "archive"
  /\ \/ disk[w][ses[w].cli] = {} /\ UNCHANGED <<blob, faults>>
     \/ ~row.exists /\ UNCHANGED <<blob, faults>>
     \/ Suffers("cap") /\ UNCHANGED blob
     \/ Suffers("save") /\ UNCHANGED blob
     \/ Suffers("saveack") /\ Saves(w)
  /\ ses' = [ses EXCEPT ![w] = Filed(@, FALSE)]
  /\ Returns(w)
  /\ UNCHANGED <<row, disk, cached, locals, sweeper, history>>

\* get_session, both opens, the stream (before or after it named its session)
\* or bump_turn raise, or the turn is cancelled there.
TurnRaises(w) ==
  /\ pc[w] \in {"read", "open", "stream", "deliver", "bump"}
  /\ Suffers("raise")
  /\ Raises(w, ses[w])
  /\ UNCHANGED <<tables, disk, cached, locals, sweeper, history>>

\* The CLI's write-behind catches up.
Flush(w) ==
  LET s == ses[w]
  IN /\ s.client /\ s.owes # {}
     /\ disk' = [disk EXCEPT ![w][s.cli] = @ \cup s.owes]
     /\ ses' = [ses EXCEPT ![w].owes = {}]
     /\ UNCHANGED <<db, manager, pc, locals, sweeper, ghosts>>
-----------------------------------------------------------------------------
(* SessionManager.sweep *)

\* Idleness is judged against the `now` the sweep started with, so a session
\* touched since does not become idle for the sweep under way.
GoIdle(w) ==
  /\ cached[w] /\ ~idle[w] /\ spc[w] = "idle"
  /\ idle' = [idle EXCEPT ![w] = TRUE]
  /\ UNCHANGED <<db, disk, cached, ses, pc, locals, sweeper, ghosts>>

SweepPick(w) ==
  /\ spc[w] = "idle" /\ cached[w] /\ idle[w]
  /\ pc[w] = "idle"   \* not session.busy
  /\ spc' = [spc EXCEPT ![w] = "wait"]
  /\ UNCHANGED <<db, disk, manager, ses, pc, locals, vic, ghosts>>

SweepLocks(w) == LockFree /\ lock' = {<<"sweep", w>>}

\* The lock is granted and the session is still idle: pop it.
SweepPop(w) ==
  /\ spc[w] = "wait" /\ SweepLocks(w) /\ idle[w]
  /\ vic' = [vic EXCEPT ![w] = ses[w]]
  /\ ses' = [ses EXCEPT ![w] = NewSession]
  /\ cached' = [cached EXCEPT ![w] = FALSE]
  /\ idle' = [idle EXCEPT ![w] = FALSE]
  /\ spc' = [spc EXCEPT ![w] = "teardown"]
  /\ UNCHANGED <<tables, disk, pc, locals, ghosts>>

SweepSpare(w) ==
  /\ spc[w] = "wait" /\ LockFree /\ ~idle[w]
  /\ spc' = [spc EXCEPT ![w] = "idle"]
  /\ UNCHANGED <<db, disk, manager, ses, pc, locals, vic, ghosts>>

\* close(): the teardown yields the event loop before the file is deleted.
SweepTeardown(w) ==
  /\ spc[w] = "teardown"
  /\ vic' = [vic EXCEPT ![w] = Dropped(@)]
  /\ spc' = [spc EXCEPT ![w] = "delete"]
  /\ UNCHANGED <<db, disk, manager, ses, pc, locals, ghosts>>

SweepDelete(w) ==
  /\ spc[w] = "delete"
  /\ disk' = [disk EXCEPT ![w] = Reclaimed(@, vic[w])]
  /\ vic' = [vic EXCEPT ![w] = NewSession]
  /\ Unlock(<<"sweep", w>>)
  /\ spc' = [spc EXCEPT ![w] = "idle"]
  /\ UNCHANGED <<tables, manager, ses, pc, locals, ghosts>>
-----------------------------------------------------------------------------
(* What happens to the row outside a turn, and to the processes *)

\* on_mention's set_partner on a thread with no row: born with
\* last_active_at = 0.
Engage ==
  /\ ~row.exists
  /\ row' = [NoRow EXCEPT !.exists = TRUE]
  /\ UNCHANGED <<blob, lock, disk, manager, ses, pc, locals, sweeper, ghosts>>

\* /mode: upsert_session(permission_mode=m, touch=False), which never clears it.
SetMode(m) ==
  /\ m # NoMode /\ m # row.mode
  /\ row' = [row EXCEPT !.exists = TRUE, !.mode = m]
  /\ UNCHANGED <<blob, lock, disk, manager, ses, pc, locals, sweeper, ghosts>>

\* The retention window (days) passes without a turn; it dwarfs the idle window
\* (minutes), so no worker still caches the thread.
Expire ==
  /\ row.exists /\ row.active
  /\ \A w \in Workers : ~cached[w] /\ pc[w] = "idle" /\ spc[w] = "idle"
  /\ row' = [row EXCEPT !.active = FALSE]
  /\ UNCHANGED <<blob, lock, disk, manager, ses, pc, locals, sweeper, ghosts>>

\* MaintenanceStore.prune: the transcript goes with its session, by cascade.
Prune ==
  /\ row.exists /\ ~row.active
  /\ row' = NoRow /\ blob' = NoBlob /\ told' = {}
  /\ UNCHANGED <<lock, disk, manager, ses, pc, locals, sweeper, next, faults>>

\* A process dies: its memory is gone and the database releases its locks.
Dies(w) ==
  /\ lock' = lock \ {<<"turn", w>>, <<"sweep", w>>}
  /\ cached' = [cached EXCEPT ![w] = FALSE]
  /\ ses' = [ses EXCEPT ![w] = NewSession]
  /\ idle' = [idle EXCEPT ![w] = FALSE]
  /\ Goto(w, "idle")
  /\ spc' = [spc EXCEPT ![w] = "idle"]
  /\ vic' = [vic EXCEPT ![w] = NewSession]
  /\ UNCHANGED <<tables, locals, history>>

Crash(w) == Suffers("crash") /\ Dies(w) /\ UNCHANGED disk

Replace(w) ==
  /\ Suffers("replace")
  /\ Dies(w)
  /\ disk' = [disk EXCEPT ![w] = [s \in Turns |-> {}]]

\* The lock's dedicated connection drops: the server releases the lock and the
\* turn is not told.
LockLost(w) ==
  /\ <<"turn", w>> \in lock
  /\ Suffers("unlock")
  /\ Unlock(<<"turn", w>>)
  /\ UNCHANGED <<tables, disk, manager, ses, pc, locals, sweeper, history>>
-----------------------------------------------------------------------------
TurnStep(w) ==
  \/ ReadRow(w) \/ CloseStale(w) \/ Connect(w)
  \/ OpenFresh(w) \/ OpenResume(w) \/ OpenFallback(w)
  \/ Query(w) \/ Upsert(w) \/ Deliver(w) \/ Bump(w) \/ Settle(w)
  \/ Archive(w) \/ ArchiveFails(w)

SweepStep(w) ==
  \/ SweepPick(w) \/ SweepPop(w) \/ SweepSpare(w)
  \/ SweepTeardown(w) \/ SweepDelete(w)

Failure(w) ==
  \/ LoadFails(w) \/ QueryRaises(w) \/ StreamSilent(w) \/ BumpAckLost(w)
  \/ TurnRaises(w) \/ Crash(w) \/ Replace(w) \/ LockLost(w)

Next ==
  \/ \E w \in Workers : \/ Acquire(w) \/ TurnStep(w) \/ Flush(w)
                        \/ GoIdle(w) \/ SweepStep(w) \/ Failure(w)
  \/ Engage \/ Expire \/ Prune
  \/ \E m \in Modes : SetMode(m)

Spec == Init /\ [][Next]_vars
-----------------------------------------------------------------------------
(* What must hold *)

\* Every variable has its type (the fields of JeanSession, SessionRow and the
\* two tables).
TypeOK ==
  /\ row \in Row
  /\ blob \in Blob
  /\ lock \in SUBSET Actors
  /\ disk \in [Workers -> [Turns -> SUBSET Records]]
  /\ cached \in [Workers -> BOOLEAN]
  /\ ses \in [Workers -> Session]
  /\ idle \in [Workers -> BOOLEAN]
  /\ pc \in [Workers -> TurnSteps]
  /\ cur \in [Workers -> Turns]
  /\ snap \in [Workers -> Row]
  /\ spc \in [Workers -> SweepSteps]
  /\ vic \in [Workers -> Session]
  /\ next \in 1..(MaxTurns + 1)
  /\ told \in SUBSET Turns
  /\ faults \in 0..MaxFaults

\* Turns of the thread, and the sweeper closing its session, are serialized
\* across workers (README: "turns on the same thread are serialized"; the
\* sweeper's reason is in sweep's comment on popping under the lock).
InSection(a) == \/ a[1] = "turn"  /\ pc[a[2]] # "idle"
                \/ a[1] = "sweep" /\ spc[a[2]] \in Closing

OneAtATime == \A a, b \in Actors : InSection(a) /\ InSection(b) => a = b

\* A turn about to be asked runs on a history that misses nothing the store has
\* of its conversation: run_turn's staleness check and _connect's hydration
\* ("it would answer from a history missing that turn").
AnswersFromTheStoresHistory ==
  \A w \in Workers :
    LET s == ses[w]
    IN pc[w] = "query" /\ s.cli # NoSid /\ s.cli = blob.sid =>
         blob.recs \subseteq disk[w][s.cli]

\* The archived history is only ever extended, replaced by a conversation that
\* began later, or expired: no worker puts an older or a divergent history over
\* what another one stored (_connect: "destroying an answer the user has already
\* seen").
StoreNeverRewinds ==
  [][\/ blob' = NoBlob
     \/ blob'.sid > blob.sid
     \/ blob'.sid = blob.sid /\ blob.recs \subseteq blob'.recs]_blob

\* `_archived` licenses close() to delete the file, so while it is set the
\* store has all the file has and all the CLI still owes it.
ArchivedMeansSaved ==
  \A w \in Workers : \A s \in {ses[w], vic[w]} :
    s.archived /\ s.sid = blob.sid => disk[w][s.sid] \cup s.owes \subseteq blob.recs

\* The .jsonl an open client appends to is never deleted under it (sweep: "the
\* CLI holds the unlinked inode").
LiveFileOnDisk ==
  \A w \in Workers : \A s \in {ses[w], vic[w]} :
    s.client /\ s.cli # NoSid => disk[w][s.cli] # {}

\* The client that answers was opened with the permission mode the turn read,
\* whatever /mode did on any worker since it was cached.
AnswersInTheThreadsMode ==
  \A w \in Workers :
    pc[w] \in {"query", "stream", "deliver"} => ses[w].mode = snap[w].mode

\* As long as nothing failed, once no turn is in flight the store has every
\* answer a human was given since the thread last expired: any worker can resume
\* it.
AnswersDurable ==
  faults = 0 /\ (\A w \in Workers : pc[w] = "idle") =>
    \A t \in told : <<t, "answered">> \in blob.recs
-----------------------------------------------------------------------------
(* The abstract memory this implements: the store's transcript is the memory, *)
(* and a turn is open from query() until handle() gives the lock back.        *)

Asking == {w \in Workers : pc[w] \in {"stream", "deliver", "bump", "settle", "archive"}}

\* The history a turn was asked on: everything its client knew before it.
BaseOf(w) == {r \in disk[w][ses[w].cli] \cup ses[w].owes : r[1] # cur[w]}

OpenTurn ==
  IF Asking = {} THEN [sid |-> NoSid, base |-> {}]
  ELSE LET w == CHOOSE v \in Asking : TRUE
       IN [sid |-> ses[w].cli, base |-> BaseOf(w)]

Memory == INSTANCE ThreadMemory WITH memory <- blob, turn <- OpenTurn

\* All the workers together behave as one memory that a turn at a time extends.
ImplementsThreadMemory == Memory!Spec
-----------------------------------------------------------------------------
(* Scheduling: a step of a turn or of the sweeper that can be taken is taken   *)
(* (every awaited call returns or raises, and the CLI catches up); Postgres    *)
(* queues for an advisory lock in order, so a waiting sweeper is not starved;  *)
(* time passes; the sweeper's loop keeps running.  Nothing obliges a failure,  *)
(* a message or a command to happen.                                           *)

Fairness ==
  \A w \in Workers :
    /\ WF_vars(TurnStep(w)) /\ WF_vars(Flush(w))
    /\ WF_vars(GoIdle(w)) /\ WF_vars(SweepPick(w))
    /\ SF_vars(SweepPop(w) \/ SweepSpare(w))
    /\ WF_vars(SweepTeardown(w)) /\ WF_vars(SweepDelete(w))

FairSpec == Spec /\ Fairness

\* Every cached session is eventually swept, however often turns, modes and
\* other workers' turns on the thread interrupt the sweep.
IdleSessionsAreSwept == \A w \in Workers : cached[w] ~> ~cached[w]

\* Every turn that takes the lock gives it back (handle's `async with`).
TurnsEnd == \A w \in Workers : pc[w] # "idle" ~> lock = {}
=============================================================================
