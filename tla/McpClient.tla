------------------------------ MODULE McpClient ------------------------------
(***************************************************************************)
(* One stdio MCP server shared by all the threads of a worker: McpClient    *)
(* (plugins/mcp_client.py) and the child it runs (plugins/mcp_stdio.py).    *)
(*                                                                         *)
(* The client is past its boot: start_clients() keeps only the clients whose *)
(* handshake succeeded.  Each caller makes one call(); the child handles    *)
(* frames in order and answers in any; a write to its pipe is one step.     *)
(***************************************************************************)
EXTENDS Integers, Sequences

CONSTANTS
  Callers,   \* the calls to McpClient.call
  Nobody,    \* who holds a lock that is free
  Faults,    \* the kinds of failure that may happen, out of FaultKinds
  MaxFaults  \* bound on how many failures happen in a behaviour

FaultKinds ==
  {"dies",     \* the child exits
   "hangup",   \* it closes its output and lives on
   "spawn",    \* a child cannot be spawned
   "refuse",   \* a child answers the handshake with an error
   "noise",    \* a child prints a line of JSON that is not an object
   "stubborn"} \* a child outlives terminate() by more than five seconds

ASSUME ConstantsAssumption ==
  /\ Nobody \notin Callers
  /\ Faults \subseteq FaultKinds
  /\ MaxFaults \in Nat

VARIABLES
  proc,    \* self._proc, a child or None
  reader,  \* self._reader: none, running, done or failed (with an exception)
  nextId,  \* self._next_id, the id of the last request
  pending, \* self._pending: the requests registered
  lock,    \* who holds self._restart_lock
  pc,      \* where each call is
  try,     \* its first _attempt, the restart in between, or its second
  doing,   \* the method it is requesting
  req,     \* the id of that request
  got,     \* its future
  mine,    \* the reply in it answers that request (history)
  ret,     \* what call() came to
  child,   \* the children
  ran,     \* how often each call was executed (history)
  faults   \* failures so far

vars == <<proc, reader, nextId, pending, lock, pc, try, doing, req, got, mine, ret,
          child, ran, faults>>

future == <<got, mine>>
-----------------------------------------------------------------------------
None     == 0
Children == 1..(MaxFaults + 1)
Ids      == Nat \ {0}
Methods  == {"initialize", "initialized", "tools/list", "call"}
Requests == Methods \ {"initialized"}

Steps    == {"idle", "attempt", "request", "write", "await", "restart", "close",
             "reap", "spawn", "over"}

Frame == [id: Ids \cup {0}, from: Callers, method: Methods]
Reply == [id: Ids, from: Callers, method: Requests, ok: BOOLEAN]

Unborn == [up |-> FALSE, phase |-> "new", inbox |-> <<>>, out |-> {}, noisy |-> FALSE,
           hungup |-> FALSE, reaped |-> FALSE]
Born   == [Unborn EXCEPT !.up = TRUE]

Init ==
  /\ proc = 1
  /\ reader = "running"
  /\ nextId = 0
  /\ pending = {}
  /\ lock = Nobody
  /\ pc = [c \in Callers |-> "idle"]
  /\ try = [c \in Callers |-> "first"]
  /\ doing = [c \in Callers |-> "call"]
  /\ req = [c \in Callers |-> 0]
  /\ got = [c \in Callers |-> "nothing"]
  /\ mine = [c \in Callers |-> TRUE]
  /\ ret = [c \in Callers |-> "none"]
  /\ child = [k \in Children |-> IF k = 1 THEN [Born EXCEPT !.phase = "ready"] ELSE Unborn]
  /\ ran = [c \in Callers |-> 0]
  /\ faults = 0

Suffers(kind) == /\ kind \in Faults
                 /\ faults < MaxFaults
                 /\ faults' = faults + 1

Goto(c, step) == pc' = [pc EXCEPT ![c] = step]
-----------------------------------------------------------------------------
Alive == proc # None /\ reader = "running"

(* Variants: parts of the code with a plausible mistake in them, each before   *)
(* what it varies.  No action uses them; with one in place a property breaks.  *)
KeepsTheLock(c) == lock

ByArrival(f) == IF pending = {} THEN {} ELSE {(CHOOSE r \in pending : TRUE).by}

Waits(c) == \E r \in pending : r.by = c

Unregistered(c) == {r \in pending : r.by # c}

\* The `finally` of _read_loop: nobody is left to answer these.
ReaderEnds(how) ==
  /\ reader' = how
  /\ got' = [c \in Callers |-> IF Waits(c) THEN "gone" ELSE got[c]]
  /\ pending' = {}
  /\ UNCHANGED mine
-----------------------------------------------------------------------------
(* How a call leaves: with an answer, an is_error result or an exception, and  *)
(* in any case without the restart lock and without a registered request.      *)

Unlocked(c) == IF lock = c THEN Nobody ELSE lock

Leave(c, how) ==
  /\ ret' = [ret EXCEPT ![c] = how]
  /\ Goto(c, "over")
  /\ lock' = Unlocked(c)
  /\ pending' = Unregistered(c)

\* call() restarts the child and tries again, once.
Disconnected(c) ==
  \/ /\ try[c] = "first"
     /\ try' = [try EXCEPT ![c] = "between"]
     /\ Goto(c, "restart")
     /\ lock' = Unlocked(c)
     /\ pending' = Unregistered(c)
     /\ UNCHANGED ret
  \/ /\ try[c] # "first"
     /\ Leave(c, "is_error")
     /\ UNCHANGED try
-----------------------------------------------------------------------------
(* call, _attempt and _restart *)

Call(c) ==
  /\ pc[c] = "idle"
  /\ Goto(c, "attempt")
  /\ UNCHANGED <<nextId, proc, reader, pending, lock, try, doing, req, future, ret,
                 child, ran, faults>>

Attempt(c) ==
  /\ pc[c] = "attempt"
  /\ Goto(c, IF Alive THEN "request" ELSE "restart")
  /\ doing' = [doing EXCEPT ![c] = "call"]
  /\ UNCHANGED <<nextId, proc, reader, pending, lock, try, req, future, ret, child, ran,
                 faults>>

\* The restart of _attempt is followed by its request, the one between the two
\* attempts by the second.
Restarted(c) ==
  /\ Goto(c, IF try[c] = "between" THEN "attempt" ELSE "request")
  /\ try' = [try EXCEPT ![c] = IF @ = "between" THEN "second" ELSE @]
  /\ doing' = [doing EXCEPT ![c] = "call"]

\* A variant of Restart.
RestartsAnyway(c) ==
  /\ pc[c] = "restart" /\ lock = Nobody
  /\ lock' = c
  /\ Goto(c, "close")
  /\ UNCHANGED <<nextId, proc, reader, pending, try, doing, req, future, ret, child, ran,
                 faults>>

\* Whoever gets the lock after the child was rebuilt leaves it alone.
Restart(c) ==
  /\ pc[c] = "restart" /\ lock = Nobody
  /\ \/ /\ Alive
        /\ Restarted(c)
        /\ UNCHANGED lock
     \/ /\ ~Alive
        /\ lock' = c
        /\ Goto(c, "close")
        /\ UNCHANGED <<try, doing>>
  /\ UNCHANGED <<nextId, proc, reader, pending, req, future, ret, child, ran, faults>>

\* Awaiting a reader that failed raises what it failed with, before anything
\* is cleaned up; no `except` of call() names that exception.
Close(c) ==
  /\ pc[c] = "close"
  /\ \/ /\ reader = "failed"
        /\ Leave(c, "raised")
        /\ UNCHANGED reader
     \/ /\ reader # "failed"
        /\ reader' = "none"
        /\ Goto(c, IF proc = None THEN "spawn" ELSE "reap")
        /\ UNCHANGED <<pending, lock, ret>>
  /\ UNCHANGED <<nextId, proc, try, doing, req, future, child, ran, faults>>

\* A variant of Reap.
ForgetsTheChild(c) ==
  /\ pc[c] = "reap"
  /\ proc' = None
  /\ Goto(c, "spawn")
  /\ UNCHANGED <<nextId, reader, pending, lock, try, doing, req, future, ret, child, ran,
                 faults>>

\* reap() asks the child to terminate and waits five seconds for it.
Reap(c) ==
  /\ pc[c] = "reap"
  /\ \/ child' = [child EXCEPT ![proc] = Unborn] /\ UNCHANGED faults
     \/ /\ child[proc].up /\ Suffers("stubborn")
        /\ child' = [child EXCEPT ![proc].reaped = TRUE]
  /\ proc' = None
  /\ Goto(c, "spawn")
  /\ UNCHANGED <<nextId, reader, pending, lock, try, doing, req, future, ret, ran>>

Spawned == CHOOSE k \in Children : child[k] = Unborn

Spawn(c) ==
  /\ pc[c] = "spawn"
  /\ \/ /\ child' = [child EXCEPT ![Spawned] = Born]
        /\ proc' = Spawned
        /\ reader' = "running"
        /\ doing' = [doing EXCEPT ![c] = "initialize"]
        /\ Goto(c, "request")
        /\ UNCHANGED <<pending, lock, ret, faults>>
     \/ /\ Suffers("spawn")
        /\ Leave(c, "is_error")
        /\ UNCHANGED <<child, proc, reader, doing>>
  /\ UNCHANGED <<nextId, try, req, future, ran>>
-----------------------------------------------------------------------------
(* _request, _notify and _write *)

Register(c) ==
  /\ pending' = pending \cup {[id |-> nextId', by |-> c]}
  /\ req' = [req EXCEPT ![c] = nextId']
  /\ got' = [got EXCEPT ![c] = "nothing"]
  /\ mine' = [mine EXCEPT ![c] = TRUE]

\* A variant of Request.
NeverChecks(c) ==
  /\ pc[c] = "request"
  /\ nextId' = nextId + 1
  /\ Register(c)
  /\ Goto(c, "write")
  /\ UNCHANGED <<proc, reader, lock, try, doing, ret, child, ran, faults>>

\* Register, then check: the reader fails what is registered when it ends.
Request(c) ==
  /\ pc[c] = "request"
  /\ nextId' = nextId + 1
  /\ \/ /\ Alive
        /\ Register(c)
        /\ Goto(c, "write")
        /\ UNCHANGED <<lock, try, ret>>
     \/ /\ ~Alive
        /\ Disconnected(c)
        /\ UNCHANGED <<req, future>>
  /\ UNCHANGED <<proc, reader, doing, child, ran, faults>>

FrameOf(c) == [id |-> IF doing[c] = "initialized" THEN 0 ELSE req[c],
               from |-> c, method |-> doing[c]]

Sent(c) == [child EXCEPT ![proc].inbox = Append(@, FrameOf(c))]

\* Into the pipe of a child that exited a write may fail or just be lost.
Write(c) ==
  /\ pc[c] = "write"
  /\ \/ /\ proc = None
        /\ Leave(c, "is_error")
        /\ UNCHANGED <<try, child>>
     \/ /\ proc # None /\ child[proc].up
        /\ child' = Sent(c)
        /\ Goto(c, "await")
        /\ UNCHANGED <<pending, lock, try, ret>>
     \/ /\ proc # None /\ ~child[proc].up
        /\ \/ Goto(c, "await") /\ UNCHANGED <<pending, lock, try, ret>>
           \/ Disconnected(c)
        /\ UNCHANGED child
  /\ UNCHANGED <<nextId, proc, reader, doing, req, future, ran, faults>>

Asks(c, method) ==
  /\ doing' = [doing EXCEPT ![c] = method]
  /\ Goto(c, IF method = "initialized" THEN "write" ELSE "request")

\* The handshake goes on with the next frame.
Proceed(c) ==
  /\ pc[c] = "await"
  /\ \/ doing[c] = "initialize" /\ got[c] = "result" /\ Asks(c, "initialized")
     \/ doing[c] = "initialized" /\ Asks(c, "tools/list")
  /\ UNCHANGED <<nextId, proc, reader, pending, lock, try, req, future, ret, child, ran,
                 faults>>

\* The tools are listed: the restart is over.
Rebuilt(c) ==
  /\ pc[c] = "await" /\ doing[c] = "tools/list" /\ got[c] = "result"
  /\ Restarted(c)
  /\ lock' = Nobody
  /\ UNCHANGED <<nextId, proc, reader, pending, req, future, ret, child, ran, faults>>

Answered(c) ==
  /\ pc[c] = "await" /\ doing[c] = "call" /\ got[c] = "result"
  /\ Leave(c, "answer")
  /\ UNCHANGED <<nextId, proc, reader, try, doing, req, future, child, ran, faults>>

\* A JSON-RPC error is a RuntimeError, in the handshake too.
Refused(c) ==
  /\ pc[c] = "await" /\ doing[c] # "initialized" /\ got[c] = "error"
  /\ Leave(c, "is_error")
  /\ UNCHANGED <<nextId, proc, reader, try, doing, req, future, child, ran, faults>>

LostTheServer(c) ==
  /\ pc[c] = "await" /\ doing[c] # "initialized" /\ got[c] = "gone"
  /\ Disconnected(c)
  /\ UNCHANGED <<nextId, proc, reader, doing, req, future, child, ran, faults>>

\* wait_for is around the call's request only, not around a restart.
TimeOut(c) ==
  /\ pc[c] \in {"request", "write", "await"} /\ doing[c] = "call"
  /\ got[c] \notin {"result", "error"}
  /\ Leave(c, "timeout")
  /\ UNCHANGED <<nextId, proc, reader, try, doing, req, future, child, ran, faults>>
-----------------------------------------------------------------------------
(* The child, and _read_loop *)

\* The child takes the next frame, does what it says and answers.
Handle(k) ==
  /\ child[k].up /\ child[k].inbox # <<>>
  /\ LET f == Head(child[k].inbox)
         left == [child[k] EXCEPT !.inbox = Tail(@)]
         reply(ok) == [id |-> f.id, from |-> f.from, method |-> f.method, ok |-> ok]
         Says(ok) == IF left.hungup THEN left
                     ELSE [left EXCEPT !.out = @ \cup {reply(ok)}]
     IN \/ /\ f.method = "initialized"
           /\ child' = [child EXCEPT ![k] = [left EXCEPT !.phase = "ready"]]
           /\ UNCHANGED <<ran, faults>>
        \/ /\ f.method \in {"initialize", "tools/list"}
           /\ \/ child' = [child EXCEPT ![k] = Says(TRUE)] /\ UNCHANGED faults
              \/ child' = [child EXCEPT ![k] = Says(FALSE)] /\ Suffers("refuse")
           /\ UNCHANGED ran
        \/ /\ f.method = "call"
           /\ \E ok \in BOOLEAN : child' = [child EXCEPT ![k] = Says(ok)]
           /\ ran' = [ran EXCEPT ![f.from] = @ + 1]
           /\ UNCHANGED faults
  /\ UNCHANGED <<nextId, proc, reader, pending, lock, pc, try, doing, req, future, ret>>

\* Some of what it was about to say may never have reached the pipe.
Dies(k) ==
  /\ child[k].up
  /\ Suffers("dies")
  /\ \E said \in SUBSET child[k].out :
       child' = [child EXCEPT ![k] =
         [@ EXCEPT !.up = FALSE, !.inbox = <<>>, !.out = said]]
  /\ UNCHANGED <<nextId, proc, reader, pending, lock, pc, try, doing, req, future, ret, ran>>

HangsUp(k) ==
  /\ child[k].up /\ ~child[k].hungup
  /\ Suffers("hangup")
  /\ child' = [child EXCEPT ![k].hungup = TRUE]
  /\ UNCHANGED <<nextId, proc, reader, pending, lock, pc, try, doing, req, future, ret, ran>>

Noise(k) ==
  /\ child[k].up /\ ~child[k].hungup /\ ~child[k].noisy
  /\ Suffers("noise")
  /\ child' = [child EXCEPT ![k].noisy = TRUE]
  /\ UNCHANGED <<nextId, proc, reader, pending, lock, pc, try, doing, req, future, ret, ran>>

\* Whose future a reply completes: whoever registered its id and still waits.
Addressee(f) == {r.by : r \in {q \in pending : q.id = f.id}}

Read ==
  /\ Alive
  /\ \E f \in child[proc].out :
       /\ child' = [child EXCEPT ![proc].out = @ \ {f}]
       /\ got' = [c \in Callers |-> IF c \in Addressee(f)
                    THEN IF f.ok THEN "result" ELSE "error" ELSE got[c]]
       /\ mine' = [c \in Callers |-> IF c \in Addressee(f)
                    THEN f.from = c /\ f.method = doing[c] ELSE mine[c]]
       /\ pending' = {r \in pending : r.by \notin Addressee(f)}
  /\ UNCHANGED <<nextId, proc, reader, lock, pc, try, doing, req, ret, ran, faults>>

EndOfFile ==
  /\ Alive /\ (child[proc].up => child[proc].hungup)
  /\ child[proc].out = {} /\ ~child[proc].noisy
  /\ ReaderEnds("done")
  /\ UNCHANGED <<nextId, proc, lock, pc, try, doing, req, ret, child, ran, faults>>

\* json.loads accepts the line and `frame.get` raises AttributeError.
Chokes ==
  /\ Alive /\ child[proc].noisy
  /\ ReaderEnds("failed")
  /\ UNCHANGED <<nextId, proc, lock, pc, try, doing, req, ret, child, ran, faults>>
-----------------------------------------------------------------------------
CallStep(c) ==
  \/ Attempt(c) \/ Restart(c) \/ Close(c) \/ Reap(c) \/ Spawn(c) \/ Request(c)
  \/ Write(c) \/ Proceed(c) \/ Rebuilt(c) \/ Answered(c) \/ Refused(c)
  \/ LostTheServer(c)

ReaderStep == Read \/ EndOfFile \/ Chokes

Next ==
  \/ \E c \in Callers : Call(c) \/ CallStep(c) \/ TimeOut(c)
  \/ \E k \in Children : Handle(k) \/ Dies(k) \/ HangsUp(k) \/ Noise(k)
  \/ ReaderStep

Spec == Init /\ [][Next]_vars
-----------------------------------------------------------------------------
(* What must hold *)

\* Every variable has its type (the fields of McpClient and of a call).
TypeOK ==
  /\ proc \in Children \cup {None}
  /\ reader \in {"none", "running", "done", "failed"}
  /\ nextId \in Nat
  /\ pending \in SUBSET [id: Ids, by: Callers]
  /\ lock \in Callers \cup {Nobody}
  /\ pc \in [Callers -> Steps]
  /\ try \in [Callers -> {"first", "between", "second"}]
  /\ doing \in [Callers -> Methods]
  /\ req \in [Callers -> Ids \cup {0}]
  /\ got \in [Callers -> {"nothing", "result", "error", "gone"}]
  /\ mine \in [Callers -> BOOLEAN]
  /\ ret \in [Callers -> {"none", "answer", "is_error", "timeout", "raised"}]
  /\ ran \in [Callers -> Nat]
  /\ \A k \in Children :
       /\ child[k].phase \in {"new", "ready"}
       /\ child[k].inbox \in Seq(Frame)
       /\ child[k].out \subseteq Reply
  /\ faults \in 0..MaxFaults

\* A caller is handed the reply to its own request, whatever it shares the pipe
\* with and whatever answers late to one that gave up ("matched by JSON-RPC id,
\* never by arrival order").
RepliesMatch ==
  \A c \in Callers : pc[c] = "await" /\ got[c] \in {"result", "error"} => mine[c]

\* Nobody waits out the call_timeout for a child that is gone: while a request
\* is unanswered its reader runs and knows of it (_request, on registering
\* before checking).
NobodyAwaitsTheGone ==
  \A c \in Callers :
    pc[c] = "await" /\ doing[c] # "initialized" /\ got[c] = "nothing" =>
      Alive /\ Waits(c)

\* However many callers find the child gone, one rebuilds it: a child whose
\* reader runs is never closed under the others ("another caller won the race
\* and already rebuilt it").
RebuiltOnce == [][Alive => reader' # "none"]_vars

\* However restarts race and fail, every child but the client's own has been told
\* to terminate ("jean must never leave a stray process behind").
NoStray == \A k \in Children : child[k].up => k = proc \/ child[k].reaped

\* Every failure of a call is "returned as an is_error result rather than
\* raised", where it would kill the turn (call).
NeverRaises == \A c \in Callers : ret[c] # "raised"

\* A lost connection "is safe to retry" (_Disconnected): what a tool does, it
\* does once per call.
ExecutedAtMostOnce == \A c \in Callers : ran[c] <= 1
-----------------------------------------------------------------------------
(* Scheduling: the event loop runs what is ready and call_timeout passes.  Of  *)
(* the child nothing is assumed: it may stay mute for ever.                    *)

FairClientSpec ==
  /\ Spec
  /\ \A c \in Callers : WF_vars(CallStep(c)) /\ WF_vars(TimeOut(c))
  /\ WF_vars(ReaderStep)

\* The one wait without a timeout: a restart awaits an answer to its handshake,
\* with the lock that whoever else must restart waits for.
InHandshake(c) ==
  /\ lock = c /\ pc[c] = "await" /\ got[c] = "nothing"
  /\ doing[c] \in {"initialize", "tools/list"}

HeldUp(c) == InHandshake(c) \/ (pc[c] = "restart" /\ \E d \in Callers : InHandshake(d))

\* A tool call ends, whatever the child does: it "must not outlive the patience of
\* the Slack thread waiting on it" (the comment of DEFAULT_CALL_TIMEOUT).  With
\* one exception, which that comment does not make: _restart awaits start() with
\* no timeout, so a new child that never answers the handshake holds up for
\* ever the call that spawned it, and those that wait for its lock.
CallsEnd ==
  \A c \in Callers : (pc[c] = "attempt" ~> pc[c] = "over") \/ <>[]HeldUp(c)
=============================================================================
