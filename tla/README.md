# jean in TLA+

jean is a Slack agent that runs on any number of identical workers. A worker keeps
nothing that the database does not also have, in principle; in practice it caches
sessions, leaves transcripts on its disk, waits for people in coroutines and shares child
processes between threads. This directory specifies that program in TLA+, checks it with
TLC and proves part of it with TLAPS. Paths below are relative to the repository; where
only a file name is given, it is the one under `src/jean/`.

## The system

| component | state | operations | depends on |
|---|---|---|---|
| gateway and engagement (`gateway/`) | none of its own; `sessions.engaged_with` | `on_mention`, `on_message`, `on_command`, `decide`, `dispatch` | store, session manager |
| session manager (`session/manager.py`) | the cached `JeanSession` of each thread, `_last_touch` | `handle`, `sweep`, `run_sweeper` | thread lock, sessions |
| thread session (`session/session.py`, `transcript.py`) | client, `_seen_seq`, `_sid`, `_archived`, mode; the CLI's `.jsonl` on the local disk | `run_turn`, `_connect`, `_settle`, `_archive`, `close` | session and transcript store, Slack |
| store (`db/postgres.py`) | tables `sessions`, `transcripts`, `approvals`, `schedules`, `maintenance`; advisory locks; LISTEN/NOTIFY | one statement or transaction per method | PostgreSQL |
| approvals (`approval/gate.py`, `authz.py`, `agent_options.py`) | `_pending` per thread; the Slack message; a waiting coroutine per request | `request`, `wait`, `handle_action`, `resolve` | store, Slack, the approvers of the persona |
| MCP client (`plugins/mcp_client.py`, `mcp_stdio.py`) | one child process per server, its reader task, the pending requests, the restart lock | `start`, `call`, `_restart`, `close` | the child |
| schedules (`schedule/`) | table `schedules` | `create`, `list`, `remove`, `run_once` | approvals, store, session manager |
| retention (`maintenance/cleanup.py`) | `maintenance.last_run` | `run_once`, `try_claim_cleanup`, `prune` | store |
| plugins (`plugins/git_resolver.py`, `overlay.py`, `mcp_config.py`, `manifest.py`, `env_refs.py`) | marketplace clones, overlays and renamed `.mcp.json` files on disk | `resolve`, `build_overlay`, `stdio_servers`, `remote_servers`, `take_over_plugin_mcp` | git, jean.json, mcp.json |
| persona (`persona/`) | the soul; its cache on disk, by digest | `load_soul_data`, `assert_ids_grounded` | IDENTITY.md, the model |
| worker (`server.py`, `config.py`) | where a life is: booting, serving, stopping | `run` | all of the above |
| surface (`slack/`, `metrics/`, `health.py`) | counters | Slack API, formatting, probes | - |

How they interact. A Slack event reaches some worker; the gateway decides from the
thread's row whether it is for jean and who the partner is now, and calls
`SessionManager.handle`. That takes the thread lock (a PostgreSQL advisory lock, so it
spans workers) and runs a turn in the cached session, which first finds out whether
another worker was here meanwhile. In the turn the agent calls tools: risky ones go through
the approval gate, which waits for a click that any worker may receive; plugin tools go to
the worker's MCP clients, which all threads share. The schedule runner calls the same
`handle`. The sweeper closes idle sessions, and retention deletes rows under all of them.

What is hard:

- *Stale caches.* A worker's session, its file on disk and the archived transcript are three
  copies of one conversation, and which is newest is inferred from `turn_seq`, `_seen_seq`,
  `_archived` and the session id. Any of the statements that keep these may fail.
- *Reads before awaits.* The gateway reads the partner and writes it later, the schedule
  tools compute the next run before a human answers, the MCP client looks at the child
  before it writes to it, and the sweeper picks a session before it has the lock.
- *Racing endings.* A click against a timeout, a child's death against a request, a
  prune against the row's first turn, one cleanup against another.
- *Failures in between.* A worker may die between any two statements, a statement may
  commit and still raise, a notification or a lock's connection may be lost.
- *Liveness.* A turn that raises must give up the thread lock; a request nobody answers must
  end; a worker that dies must not take a schedule or a session with it.
- *What a boot leaves behind.* A boot is a long series of writes to a disk that outlives it:
  it may end between any two, and the next one takes what it finds for finished work.

What makes each component correct, in a sentence: a thread has one memory, which a turn at
a time extends (session); a risky call runs only on the click of somebody jean asked, and
everybody is told the same (approvals); a call gets its own reply or an error, and no
child is left behind (MCP); nobody who did not address jean costs a turn or changes whom
she answers, and who addressed her is answered (engagement); an occurrence is dealt with at
most once, and none is forgotten (schedules); one cleanup per interval (retention); what a
worker serves with is what its files ask for, whatever earlier lives left (boot).

## The modules

`X.tla` is the model, `MCX.tla` gives its constants values for TLC, `XProofs.tla` holds
its theorems. An operator introduced by "As if" (or under "Variants") is no part of a model:
it is a plausible mistake, put in the place of the definition next to it to see that a
property notices. `PROJECT.json` says for each definition which lines it stands for.

**ThreadSession** (`session/session.py`, `session/manager.py`; `sessions`, `transcripts`
and the thread lock of `db/postgres.py`; `on_command`'s `/mode`, `prune`). One thread.
`row`, `blob` and `lock` are the database's; `disk`, `cached`, `ses`, `idle` a worker's;
`pc`, `cur`, `snap` the turn in flight there and `spc`, `vic` its sweeper. A turn is a
chain of steps, one per await: `Acquire`, `ReadRow` with the staleness check, `Connect`
(hydration), `Open...`, `Query`, `Upsert`, `Deliver`, `Bump`, `Settle`, `Archive`. A
transcript is a set of records, since it only grows by appending; a conversation is named by
the turn that opened it. Failures are named in `FaultKinds`: each is a statement that
raises, with or without having taken effect, a CLI that misbehaves, a process or disk that
is lost, or a lock connection that drops.

**ThreadMemory** is what the former promises: one memory, and turns that start from all of
it and leave it longer, or leave it alone. `ThreadSession` implements it under the mapping
`memory <- blob`, `turn <-` the conversation and history of the turn being answered.

**Approvals** (`approval/gate.py`, `approval/authz.py`, the permission callback of
`agent_options.py`; the `approvals` table and its notifications). Any number of requests
wait on workers; a click is handled by any worker. `pc` and `click[c].pc` go through the
awaits of `request`/`wait` and `handle_action`. `SelectApprovers` is `select_approvers` as a
set expression. The statements of `wait` (LISTEN, SELECT, sleep, the resolving UPDATE of the
timeout, the SELECT after it) are steps of their own, as a click may fall between any two.

**ApprovalLedger** is what it promises: a request is decided at most once, by one of
those it was put to or, never in favour, by nobody; the agent acts on that; and a decision
is forgotten only after it has. `Approvals` implements it.

**McpClient** (`plugins/mcp_client.py`, `mcp_stdio.py`). One server, any number of concurrent
callers, each through `call`, `_attempt`, `_request`, `_restart`, `start` and `close`; the
reader task; and the children, of which only the latest is the client's. Ids are handed
out by the counter `nextId`, as `_next_id` does, and never reused. The child handles frames in
order and answers in any, or not at all.

**Engagement** (`gateway/app.py`, `engagement.py`, `dispatch.py`; `engaged_with` and
`last_active_at` of `sessions`). One thread. Each posted message yields the events Slack
sends for it, each event a handler: `Read` (with `decide()`), `Write`, `Ack`, `Turn`.
`Decide` is the decision table. A turn is one step here: `ThreadSession` has its inside.

**Schedules** (`schedule/runner.py`, `schedule/mcp.py`; the `schedules` table). `run[w]` is a
worker's `run_once`: poll, claim (SELECT ... FOR UPDATE SKIP LOCKED), advance and commit,
then occurrence by occurrence skip or fire, and record. `tool` is a request by an agent that
waits for approval. A cron expression is a period, until it `Breaks`: from then on `next_after`
raises for it, so it cannot be created any more (`Create`) and a claim that includes it is
rolled back (`ClaimRaises`). `fate` is a history variable.

**Retention** (`maintenance/cleanup.py`, `try_claim_cleanup`). The claim is its
transaction, statement by statement: begin (which fixes `now()`), lock, compare, write and
commit; then the prune. What a prune deletes is an action of the module that has the table.

**MemoryStore**, **PostgresStore** and **Stores** (`db/memory.py`, `db/postgres.py`). The
first two are what each method makes of its dictionaries, or its tables, and what it answers;
`Stores` calls both with the same arguments. Here a method is one step: what two callers can
do to one another is the other modules' subject. Tests run on the one store and production
on the other, so that they answer alike is what every test rests on. The mapping is
dictionary entry to row; `None` is `NULL`; a sleeping waiter that is told to wake is a
reader. They are known to differ in four ways, and each is an action: `WaitCancelled`,
`WaitOvertaken`, `WaitTooEarly`, and `ClaimDueSchedules` where `advance` raises for the
schedules in `bad`. The history variables `apart` and `strayed` hold the approvals and the
schedules this has happened to; `SameAnswers` is about all else. `done` is the state of a row's
future, which a cancelled wait completes without a decision.

**Worker**, **Persona**, **Plugins** and **Preflight** (`server.py`'s `run`;
`persona/extract.py`; `plugins/git_resolver.py`, `overlay.py`, `mcp_config.py`; `start_clients`
of `plugins/mcp_client.py`). The life of a process over its home directory, again and again.
The last three declare the state of a component and what each step makes of it; `Worker`
extends them and says when each step is taken, as `run` does: `LoadSoul`, `SaveSoul` (two
steps, as a file is empty before it is written), then for each entry of jean.json `Resolve`,
`Clone`, `Checkout` and `BuildOverlay`, then `Start`, `Connect` (all servers at once),
`Register`, `TakeOver` (rename by rename), the tasks of the gather, and `Stop`. `text`, `cache`,
`asks`, `mounted`, `clone`, `part`, `mcp` and `overlay` are files, which survive; everything else ends
with the process, except its children (`kids`), which only a new container is sure to be rid
of (`Restart`). `Edit` is the operator at the files between two lives. Each failure is a kind,
and `Raises` is what the files, or a client that cannot be closed, do to `run` without any. A
git that ends while it writes a working tree leaves a `.git` and any part of a tree
(`CutShort`): `part` says which entries it holds, `mcp` which of their `.mcp.json` files, and a
boot serves what it finds there. `Chokes` is a server that prints what kills its client's
reader; no bound is set to it, since a server may do so on every start. `botched` is a history
variable. The home is taken to belong to one worker: two that share
the volume, as `docker compose --scale` would have them, would also race for the same clone.

The modules share the database's tables, not variables: what one component may do to
another's rows is an action of the other's module (`Prune`, `SetMode`, `Engage` in
ThreadSession; `Mode`, `Expire`, `Touch` in Engagement).

## What is checked

| run | instance | states | what it shows |
|---|---|---|---|
| `thread_failures` | 2 workers, 4 turns, 2 modes, 1 failure of ten kinds | 2,077,289 | the thread's six invariants, `StoreNeverRewinds`, and that it implements `ThreadMemory` |
| `thread_liveness` | 2 workers, 2 turns, 1 failure of all kinds | 51,676 | turns give up the lock, idle sessions are swept |
| `thread_load_fails` | 2 workers, 5 turns, 2 failures of `save`, `load` | violated | a failed hydration makes a divergent branch look current |
| `approval_failures` | 2 workers, 2 requests, 1 click, 2 failures | 804,865 | who may decide, no lost wakeup, messages and counters right |
| `approval_liveness` | 2 workers, 1 request, 2 clicks, 2 failures | 947,450 | one verdict for all, requests end, implements `ApprovalLedger` |
| `mcp_client` | 2 callers, 2 failures of all kinds | 713,744 | replies matched, nobody waits for the dead, one rebuild, no stray child, calls end or a mute handshake holds them up |
| `engagement` | 3 messages of 9 sorts, 1 failure | 1,796,614 | six properties of who is answered and who is partner |
| `engagement_pruned` | the same without failures | violated | a cleanup silences a partner who has just come |
| `schedules` | 2 workers, 2 schedules, 2 instants, 2 failures | 547,248 | at most once, none forgotten, due is taken unless a broken one is due |
| `retention` | 3 workers, 5 instants, interval 2, 2 failures | 66,291 | one cycle per interval |
| `worker` | 2 entries of 2 repos, 2 texts, 3 filters, a stdio and an http server, 2 attempts, 3 failures of 5 kinds | 387,612 | what a worker serves with, whatever earlier boots left; no child left behind; it comes up |
| `stores` | 5 calls, 3 instants, 2 threads, 2 session ids, 1 approval, 2 schedules | 1,300,619 | both stores answer alike whatever was called before, four named cases apart |

The properties are commented where they are defined, with the passage of the repository
they make precise. `PROJECT.json` has for each property of a passing run a mistake in the
code that would break it, and for each violated one the passage that claims it.

Why the bounds are enough. *Workers*: the shared state knows only "me" and "another", and
each hazard above has two sides; two workers give both, and `Retention` takes three
because a third could start between the two. *Turns*: divergence takes one turn to create a copy, one on
another worker to supersede it, one to come back and one to archive; four are one round, and
five the longest counterexample that TLC finds unaided. *Failures*: the properties promise something under one
failure at a time (two failed saves in a row do lose two turns, see below); approvals and the
MCP client are checked under two, since their failures overlap with each other's handling.
*Messages*: three are a partner, an interloper and a follow-up; sorts that `decide` treats
alike are represented once, and all sixteen sorts were checked with two messages.
*Schedules*: one is due at every instant and one at every other, so a poll finds one, both or
a backlog; grace 0 makes an occurrence late after one instant. *Boots*: a hazard on disk takes a life that is cut
short and one that goes on from there; three failures cut three. Of the two entries one has
a manifest, a token, a stdio and an http server, the other is overlaid, so every branch of
`_plugin_dir` but the missing directory has an entry; the filters are none, one skill and one
that does not exist; mcp.json may name a server of either kind, and collides with the plugin's
or does not. Two attempts are one retry. *Calls*: five are enough to create a row, change it in two ways, prune
it and create it again; two schedules are one for which `advance` raises and one that is
advanced before it. *Symmetry* is used only where all properties of
the run are invariants or action properties, over sets no action distinguishes.

`CHECK_DEADLOCK FALSE` stands where bounds or the world stop the system: no turns left,
every request decided, every call over, nothing left to say. `schedules` and `retention`,
which poll for ever, and `stores`, which can always be read, are checked for deadlock.

### Fairness

- `ThreadSession!FairSpec`: every step of a turn and of the sweeper, once it can be taken, is
  taken: each is the return of an awaited call. That these do return is an assumption: the
  settle has its timeout and a lost connection raises, but nothing bounds the CLI's stream of
  an answer, so a CLI that neither speaks nor ends would keep its turn, and the thread lock, for
  ever. The CLI writes what it owes; time makes sessions idle. For the sweeper's lock
  fairness is strong: PostgreSQL queues for an advisory lock in order, so a waiting sweeper
  gets it although it is taken again and again. Messages, commands and failures are under no
  obligation.
- `Approvals!FairSpec`: weak fairness of the steps of a request, of its listener and of a
  click: `wait` has a timeout, so they are enabled whatever others do. Nobody need click.
- `McpClient!FairClientSpec`: weak fairness of each call's steps, of its timeout and of the reader.
  Nothing is assumed of the child, which may be mute: `CallsEnd` names the one wait that is then
  without end (`HeldUp`, see below).
- `Schedules!Spec`: weak fairness of each worker's loop as a whole. A turn that has begun
  ends; that is `ThreadSession`'s `TurnsEnd`, with what it assumes. Nothing obliges time or
  people, and nothing mends an expression that broke: `DueIsTaken` names it.
- `Worker!FairSpec`: weak fairness of `run`'s steps as a whole and of `Restart`: the event loop
  runs what is ready, `wait_for` ends a handshake, and whatever runs jean starts it again.
  Failures are bounded in number, the servers' own are not: one may fail every attempt, or
  choke its client on every start. `ComesUp` promises nothing to a worker whose servers choke
  again and again (`Choking`), or whose files are past help (`Doomed`).
- The other specifications are safety only.

## What is proved

Eight modules hold proofs; all theorems are for any values of the constants that satisfy the
module's named assumptions (any workers, people, turns, bounds, fault kinds).

**ThreadSessionProofs.** Every invariant and action property of the thread, and its
refinement. The invariant comes in layers, each resting on those before it; a hypothesis is
made where a layer needs it and nowhere else.

- *TypeInv* (`TypeCorrect`): types; a turn past `query` has a named transcript.
- *LocalInv* (`LiveFiles`, `AnswersInMode`), whatever fails: a turn has a client from when it
  opened one, an uncached session is new and has no turn, and the sweeper closes a session
  only it has, so nobody deletes a file a client appends to.
- *LockInv* (`Serialized`), if the lock's connection does not drop (`"unlock" \notin Faults`):
  whoever is in the section, a turn or the sweeper between pop and delete, is alone in `lock`.
- *StoreInv* (`HistoryIsTheStores`, `NeverRewinds`), if no failure is of a kind in `Fatal`, that
  is `load`, `silent`, `unlock` or `refuse`. `Knows(w, c)` says that w's file of conversation
  c has all the store has. *TurnFits*: from hydration to archive a turn knows what it will
  replace. *CacheFits*: so does an open client, and an unarchived file, whose `_seen_seq` is the
  row's `turn_seq`; that is what the staleness check and `local_is_newer` take for granted.
  *BumpedIsAhead*: a turn that has bumped `turn_seq` is ahead of every session that could think
  itself current, so when it replaces the store's copy, nobody's knowledge goes stale unnoticed.
  *TablesFit*: the store's copy is the one the row names.
- *SavedInv* (`ArchivedIsSaved`), if also `settle` cannot happen, that is the CLI writes its
  answer before `_settle` gives up: `_archived` implies the store has the file and what is owed.
- *RecordsInv*: a conversation's records are of turns already taken, and a turn in flight is
  on its way to its file.

`DurableAnswers` needs no hypothesis, since it speaks of the time until something has failed: the
layers are proved of each *step* that is `Harmless`, of which a run without the fatal kinds, and
the part of any run before its first failure, consist. `OneMemory` is the refinement: `Query`
is `Begin`, `Archive` is `Commit`, a turn that gives up or crashes is `Abandon`, `Prune` is
`Forget`, and every other step is a stutter (`RefinesStep`).

The hypothesis of `NeverRewinds` cannot be dropped: `load` with `save` is `thread_load_fails`, `refuse`
with `raise` is *Refused resume* below, and `silent` or `unlock` alone breaks it with two workers,
five turns and one failure. A single refusal does no harm within the four turns of
`thread_failures`, whose faults include it. `settle` breaks `ArchivedMeansSaved`. It is not claimed that the other theorems
need all of their hypothesis.

**EngagementProofs.** `OnlyTheEngaged` (`[]PartnerHasEngaged`), `NoTurnForBystanders`
(`[]TurnsAreEarned`), `BystandersInert` (the action property `BystandersAreInert`) and `TypeCorrect`. The
stated properties are not inductive: a handler writes what it decided on what it read some
time ago. The invariant adds that a handler past its guards has an admitted message
(`HandlersHaveAMessage`), and that a handler about to write read a partner who had engaged
jean *then*, and is about to change it (`WritersHaveRead`); as `Engaged` only grows,
stale is harmless. `DecideCases` is the one lemma about the decision table.

`UnheardAreTheDms` says which messages that engage jean have no event that is listened to:
DMs that mention her or have a subtype, and no other. `AddressedAnswered` and `OneTurn` follow from *HandledInv*: a handler runs only for an event
that is listened to, each message has at most one such event (`OneEventHeard`), and its first delivery
is not lost sight of. `RulesFollowed` (`[]OrderlyMessagesFollowTheRules`) relates what `decide`
does with one row to rules over the whole history of the thread. *RulesInv*, for messages that are
read in order: whatever was read is answered, or about to be, as the rules say
(`AnsweredSoFar`), and the partner in the row, or the one somebody is about to write, is the one the
rules leave after what was read (`PartnerSoFar`). `RulesNext` and `RulesKept` say how the rules change
with one more message and with messages nobody listens to, and `DecideFollows` that `decide`
does the same; so the history is never summed up, and no induction over it is needed.

**RetentionProofs.** `OneCyclePerInterval` (the action property `OnePrunePerInterval`), `MutualExclusion` and
`TypeCorrect`. The invariant: at most one worker is inside the claim's transaction, and
what a worker there found due still is. Commit preserves it because nobody else is there.

**WorkerProofs.** All five invariants of the run (`OwnsEveryServer`, `LeavesNoChild`,
`ServesAGroundedSoul`, `ServesTheSkills`, `ServesTheRef`) and `TypeCorrect`, for any plugins,
repos, servers, texts, attempts and failures, from one invariant of six parts. *SoulInv*: the
cache holds only grounded replies, which is what justifies reading it back ungrounded.
*CloneInv*: an entry resolved in this life has a clone, no entry before the one being cloned
shares its repo, and a clone that is not at its ref, whole or cut short, is botched or being made.
*OverlayInv*: an entry resolved has the overlay asked for; the one at hand is not among them.
*OwnerInv*: what a whole clone has is readable under one of two names (`ReadableStays`: renames only
park), and of a cut one what is there, so everything declared is read (`AllIsRead`), so it is
started or registered before the first rename, and no rename changes what is declared
(`DeclarationsStand`). *ClientInv*: a server's state fixes the number of its children, except between a
failed attempt and its close. `Steps`, `ServingFrame` and `EndingFrame` group the twenty
actions by what they leave alone.

**ApprovalsProofs.** All seven invariants of `Approvals`: `OnlyOnApproval`
(`RunsOnApproval`), `TellsTheOutcome`, `ShownButtonsWork`, `NoWakeupIsLost`,
`RetiresWhatIsDecided`, `CountsTheWaiting`, `TypeCorrect`; and the refinement,
`KeepsTheLedger` (`Spec => ImplementsLedger`). What a click found out, and what a request
did, must stay true while others act; the invariant says which part of it does. *RowFits* and
*ShownFits*: where a request is fixes the status of its row and of its message, and buttons
are shown only once the row has the approvers that were selected. *ClickFits*: a click past
authorization is by one of those, and one that goes on to notify has decided the row.
*WellDecided*: a decision in favour, in the row or in the worker, has an approving click behind
it. The lemmas group the steps by what they touch: a request that moves without writing
(`RequestMoves`), one that prepares its row, the deciding UPDATE (`RowDecided`), the answer of
`wait`, a click that moves. For the refinement `Stutters`, `GivesUp`, `DecidesOnce` and
`ActsOnIt` say what such a step is to the ledger. The counter is right because
each way out of the wait takes one request from a finite set.

**McpClientProofs.** `LeavesNoStray` (`[]NoStray`), `HearsOfTheEnd` (`[]NobodyAwaitsTheGone`)
and `OneRebuilds` (`RebuiltOnce`). The invariant: only the holder of the restart lock is in
`close`, spawn or handshake (`Holder`); it got there because the reader had ended, and has
taken both reader and child away before it spawns (`Closing`); and an unanswered request is
registered with a reader that runs (`Heard`), which is why a reader's end reaches everybody.
`TypeCorrect`: that there always is a child left to spawn takes counting, as each one that was left
behind has cost a failure (`Typed`). `RepliesMatchTheirRequests` (`[]RepliesMatch`), by *Matched*:
a registered request is its caller's current one (`Registered`) and its id is nobody else's
(`Unshared`); a frame or reply with that id, however deep in the pipe of however old a child,
is about that very call (`Traffic`); and the ids to come are unused (`Numbered`).

**SchedulesProofs.** `FiresOnce` (`[]FiredOnce`) and `ForgetsNone` (`[]NoneForgotten`). The
invariant: a claimed occurrence is its row's next one and nobody else's claim, a committed one
lies behind the row's next or the row is gone (`Holds`); no two workers have the same one
(`Apart`); what is in a batch and not being dealt with is open (`Undealt`); and only
what lies behind a row has a fate (`Fates`). `NextIsLater` and `NoneBetween` are the
arithmetic of a period: the next occurrence is later, and there is none in between.

**StoresProofs.** `AnswersAlike` (`[]SameAnswers`), for any calls in any number and order. The
invariant is stronger than equal answers: each table is the image of its dictionary, a row for
an entry under its key (`AreSessions`, `AreTranscripts`, `AreApprovals`, `AreSchedules`; an
approval is decided in the one where it is in the other), entries are typed and dictionaries
finite, and no claim yet is a claim at the epoch (`IsLast`). Of an approval in `apart`
it only asks that its row has the columns of one, and of a schedule in `strayed` that entry and
row agree on all but the next run; what a method does to an approval in `apart` stays there
(`ApartWritten`). One lemma per method shows that it
keeps this, over lemmas that say what putting or removing entries does to a table; one per
group of methods, that answers are then equal, the counts of `prune` by a bijection. It
assumes that None is neither a time nor a decision, and that the stores are opened
at least one cleanup interval after the epoch (`StartAssumption`): without that the two
would answer the first claim differently.

Only model-checked: the liveness properties, for `ENABLED` and fairness are beyond the prover:
`TurnsEnd`, `IdleSessionsAreSwept`, `RequestsEnd`, `CallsEnd`, `DueIsTaken` and `ComesUp`. All
invariants, action properties and refinements of the passing runs are proved, those of the thread
under the hypotheses above; of a failure of the kind `refuse` what depends on `Fatal` is only
checked.

## What the checks found

Two disagreements between the code and what it says of itself have a run and are described
under "findings" in `PROJECT.json`: `thread_load_fails` and `engagement_pruned`.

### Other divergences

Met while modelling. Where a change to a configuration is given, TLC then shows it.

- *Settle timeout* (`session.py:427-439`, 479): `_archive` sets `_archived` although the CLI
  still owes the file the answer; a later `close()` deletes the only complete copy, against
  `session.py:446`. Add `"settle"` to the faults of `ThreadFailures.cfg`: `ArchivedMeansSaved`.
- *Refused resume* (`session.py:279`): `_connect` sets `_seen_seq` to the row's `turn_seq` whichever
  transcript the row names, and `local_is_newer` (309-314) later takes it to be about `_sid`,
  though 293-304 call that "trustworthy here". This is where an invariant for
  `StoreNeverRewinds` breaks, and how it was found. w1 fails in its second turn, its file
  unarchived; w2 answers and archives; w3's resume is refused, it upserts the id of a fresh
  session (710) and fails before `bump_turn`; w1 connects while the row names that id and fails
  to open; w2, still current, upserts the old id and fails; the next turn on w1 takes its old file
  for the newer copy and archives over w2's. In `ThreadLoadFails.cfg` put `MCWorkers3`, `MCModes1`,
  7 turns, `{"raise", "refuse"}` and 5 failures, and `CONSTRAINT OnSchedule` for `SYMMETRY`: `TakenBy`
  says who takes each turn, and TLC needs half a minute.
- *Dead waiter* (`postgres.py:346`): the timeout of a request lives in the coroutine that waits; if its
  worker dies nobody ever times it out, against "time out and auto-deny" in `README.md`. Add
  `PendingIsDecided` to `ApprovalLiveness.cfg`.
- *Retried calls* (`mcp_client.py:112`): a child that ran the tool and died before its reply was read is
  sent the same call again, against lines 31-32 and 107-110. Add
  `ExecutedAtMostOnce` to `McpClient.cfg`.
- *A line of JSON that is not an object* (`mcp_client.py:165`): `frame.get` raises and the reader
  dies of it, though line 164 means to skip noise; `close()` (line 136) re-raises that from
  every later restart, out of `call`, which says that every failure is "returned as an `is_error`
  result rather than raised" (98-100). Add `NeverRaises` to `McpClient.cfg`. During the handshake
  the same line ends the whole boot (`start_clients`), against "jean must still come up for the
  servers that work" (243), and a server that prints it on each start keeps the worker from ever
  coming up (`Choking` in `ComesUp`); in the `finally` of `run` it keeps the remaining clients, the
  health server and the store from being closed. Both are `Raises` in `Worker`.
- *Half a clone* (`git_resolver.py:122`): a boot that ends after `git clone` began (127) and before
  the checkout of the ref is over (151) may leave a `.git`, so every later boot skips both and
  silently serves what is beside it, against "Fails loudly on any resolve error" (100): the default
  branch, or, if git ended while it wrote the working tree, whatever part of it lists the plugin and has
  its directory (167-182). If it ends before line 148 the remote keeps the token that "never
  lingers on disk" (147). `PinnedUnlessBotched` names the exception.
- *Half a cache file* (`extract.py:258`, 228): `write_text` cut short leaves a file that every
  later boot fails to parse, outside the `try`, although "any failure at any step" is to fall back
  to the regular expressions (218-220); nothing short of deleting it helps (`Doomed`). Missing
  credentials (231) raise outside the `try` too.
- *Children of a boot that ends late* (`server.py:247-341`): an exception after `start_clients`
  and before the `try` (two http servers of one name, an unset variable, a failed rename) ends
  the process with its servers running, though "jean is what reaps them -- nothing else will" (344).
- *An ignored filter* (`git_resolver.py:196-208`): `skills` for a plugin with neither a manifest
  nor inline skills is dropped without a word, against "fatal rather than ignored" (80).
- *Restart without a timeout* (`mcp_client.py:152`): `call_timeout` does not cover the handshake of
  a restart; a child that does not answer it holds the caller and the restart lock, against lines 24-26.
  `CallsEnd` names the calls this holds up (`HeldUp`) and promises that every other one ends.
- *Stale handoff* (`app.py:138`, 152): a handoff read before and written after somebody else's
  mention steps jean back from the new partner, against `README.md:225`. Add the property
  `OnlyThePartnerStepsBack` to `EngagementPruned.cfg`.
- *Failed prunes* (`cleanup.py:48`): the claim commits `last_run` before the prune it is for,
  so a cycle that fails is next tried when the interval has passed again, against
  `cleanup.py:22` ("retried on the next check"). Add the property `FailedCycleIsRetried` to
  `Retention.cfg`.
- *Two failed saves* in a row leave two answers only in one worker's file, and a turn elsewhere then
  loses both, though `session.py:762` says "at worst one turn is lost". The store still
  does not rewind, so no property here excludes it.
- *A lost lock connection* (`postgres.py:289`) lets a second worker into the section, though `README.md`
  says turns of a thread are serialized: `Serialized` needs its assumption. A turn that
  lost its lock may archive over a later one: add `"unlock"` to the faults of
  `ThreadFailures.cfg`, set `MaxTurns` to 5 and check `StoreNeverRewinds` alone.
- *Pruning restarts `turn_seq`* (`postgres.py:388`, `session.py:619-623`), so a cached
  client may take a new row for the one it knew; this needs a stream that names no session: `"silent"`
  in the place of `"unlock"` above.
- *Calls before the handshake* (`mcp_client.py:143`): `_alive()` is true from the moment a child is spawned,
  so another caller's `tools/call` may precede `initialized`.
- *Redelivered events* (`app.py:219`): nothing deduplicates what Slack sends again; a message may run
  its turn twice, which `OneTurnEach` allows for.
- *Mentions in DMs* (`app.py:115`): `on_message` leaves every text that mentions jean to
  `app_mention`, which Slack does not send in a DM, and a DM with a subtype, such as a file
  with a comment, is dropped at line 240. Nobody answers either, although `README.md:219` says "DM it
  directly". `AddressedAreAnswered` names them (`LeftUnheard`) and says that they are never
  answered, and that every other message that engages jean is.
- *One bad schedule* (`postgres.py:479-490`, `cron.py:49`): if `next_after` raises for a row
  (an expression that has run out of occurrences, a zone this worker does not know) the whole
  claim is rolled back, at every poll, and no schedule due with it runs, although
  `runner.py:72` means to contain that. `DueIsTaken` names the exception (`CannotAdvance`).
- *Schedules created late* (`schedule/mcp.py:87`): the first run is computed before the approval is
  waited for; granted late it is already past, and is fired or given up at the next poll.
- *Lateness* (`runner.py:52`, 56) is judged by when the batch was claimed; an occurrence
  behind long turns may fire later than `grace_seconds`.
- *The stores* part, against "must match these semantics exactly" (`memory.py:31`,
  `postgres.py:101`), in four ways that `Stores` has as actions. A `wait` that is cancelled takes the
  row's future with it (`memory.py:176`): in memory the row can be neither resolved nor waited for
  any more (188), in PostgreSQL it can. A `wait` whose timeout passes in the very moment of the
  `resolve` overwrites the decision in memory (177-180; from Python 3.12 on, where `wait_for` raises
  although the future is done), and reports the one in the row in PostgreSQL (`postgres.py:343-354`).
  A `wait` for an id that is created only afterwards sleeps and denies in memory (`memory.py:167-172`),
  and times the row out in PostgreSQL. If `advance` raises, `claim_due_schedules` keeps the rows
  it has advanced in memory (276-281), and PostgreSQL rolls all of them back. In a fifth way, two
  waits for one approval under way at a time, memory raises `CancelledError` out of the second
  when the first times out; the gate waits once, and `Stores` does not have it.
- *Catching up*: after an outage several occurrences of one schedule within the grace are fired, one per poll.

## What is left out

Text: what Slack messages and prompts say, mrkdwn, Block Kit, the risk patterns
(`approval/risk.py` is a table of regular expressions and would only be repeated), the regular
expressions of the persona's fallback. The Slack surface (`slack/`), metrics and probes: they
call an API or count, and nothing else here depends on what they keep. The environment
(`config.py`). In the modelled parts: the heads-up notice and the text delivery of a turn, the
size cap except as the fault `cap`, the session-wide allow rules of "always", the renaming of
tools by `mcp_proxy`, URLs, paths and their validation, calendar arithmetic, and connection pool
exhaustion. A reply that raises while a failed resume is announced (`session.py:346`) leaves a
CLI child behind: the children of sessions are not part of `ThreadSession`'s state. Bytes and
identifiers are abstract throughout.

Of boots: entries of jean.json are told apart by their place, while the code keys a stdio server by the
plugin's name (`mcp_config.py:80`) and an overlay by repo and name, so that two entries of one
name would overwrite each other's; `shutil.rmtree` is taken to remove what it is given, though
it is told to ignore errors (`overlay.py:54`, `git_resolver.py`) and may leave part of a directory; and a
clone that was cut short has each entry, its `plugin.json` and each `.mcp.json` whole or not at all.

## Plan

1. `NeverRewinds` with a single `refuse`: the known counterexample has a refusal and four other
   failures, so a hypothesis on their number may do in the place of the one on the kind.
2. A composition of `Engagement` and `ThreadSession` over one `sessions` row, and of two
   workers over one home.
