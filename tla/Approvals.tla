----------------------------- MODULE Approvals -----------------------------
(***************************************************************************)
(* Human approval of risky tool calls: ApprovalGate (approval/gate.py), the *)
(* approver selection of approval/authz.py and PostgresStore's             *)
(* ApprovalCoordinator (the approvals table and its LISTEN/NOTIFY).         *)
(*                                                                         *)
(* Several requests may be outstanding on a worker at once, each waited for *)
(* there (those on one worker are of one thread, whose turn makes them); a  *)
(* click is handled by whichever worker Slack delivers it to.  An approval  *)
(* id is its request.                                                       *)
(***************************************************************************)
EXTENDS Integers, FiniteSets

CONSTANTS
  Workers,      \* the processes
  Requests,     \* the calls to ApprovalGate.request
  Clicks,       \* the button presses that may ever be handled
  Users,        \* the Slack users
  Topics,       \* the words a summary may contain that some scope names
  Souls,        \* what IDENTITY.md may say: [approvers, manager]
  EnvApprovers, \* JEAN_APPROVERS
  System,       \* "system", who decides when nobody does
  Faults,       \* the kinds of failure that may happen, out of FaultKinds
  MaxFaults     \* bound on how many failures happen in a behaviour

FaultKinds ==
  {"raise",  \* an awaited call raises and changed nothing
   "ack",    \* a statement or a post took effect but its call raises
   "update", \* the rewrite of the message fails
   "drop",   \* the connection that LISTENs drops
   "crash"}  \* a process dies

Entries  == [user: Users, scope: SUBSET Topics, catchall: BOOLEAN]
SoulType == [approvers: SUBSET Entries, manager: SUBSET Users]

ASSUME ConstantsAssumption ==
  /\ Souls \subseteq SoulType
  /\ EnvApprovers \subseteq Users
  /\ System \notin Users
  /\ Faults \subseteq FaultKinds
  /\ MaxFaults \in Nat

VARIABLES
  appr,     \* the approvals table
  at,       \* the worker each request runs on
  pc,       \* where the request is
  asked,    \* the approvers request() selected
  decision, \* what wait() returned
  mail,     \* a notification is on its way to the request's LISTEN connection
  woken,    \* the future its listener sets is done
  deaf,     \* its LISTEN connection has dropped
  msg,      \* the Block Kit message: absent, with live buttons, or retired
  pending,  \* ApprovalGate._pending of each worker, for this thread
  click,    \* the button presses, each with the handle_action that serves it
  faults    \* failures so far

vars == <<appr, at, pc, asked, decision, mail, woken, deaf, msg, pending,
          click, faults>>

waiter == <<decision, mail, woken, deaf>>
-----------------------------------------------------------------------------
Deciders == Users \cup {System}
Scopes   == {"once", "always"}
Verbs    == {"approve", "always", "deny"}

Decision == [approved: BOOLEAN, by: Deciders, scope: Scopes]
Expired  == [approved |-> FALSE, by |-> System, scope |-> "once"]

\* A row is deleted ("pruned") only after it existed.
Row   == [status: {"absent", "pending", "resolved", "pruned"},
          approvers: SUBSET Users, decided: Decision]
NoRow == [status |-> "absent", approvers |-> {}, decided |-> Expired]

\* The steps of request() from its first await to its last.
InWait == {"listen", "check", "wait", "expire", "read"}
Steps  == {"new", "refuse", "create", "approvers", "post", "posted", "retire"} \cup InWait
Ends   == {"done", "raised", "dead"}

ClickSteps == {"lookup", "authorize", "resolve", "notify"}
Click == [pc: {"told"} \cup ClickSteps, id: Requests, user: Users,
          verb: Verbs, at: Workers,
          result: {"none", "approved", "denied", "gone", "unauthorized"}]
Unpressed == [pc |-> "free"]

Init ==
  /\ appr = [r \in Requests |-> NoRow]
  /\ at \in [Requests -> Workers]
  /\ pc = [r \in Requests |-> "new"]
  /\ asked = [r \in Requests |-> {}]
  /\ decision = [r \in Requests |-> Expired]
  /\ mail = [r \in Requests |-> FALSE]
  /\ woken = [r \in Requests |-> FALSE]
  /\ deaf = [r \in Requests |-> FALSE]
  /\ msg = [r \in Requests |-> "none"]
  /\ pending = [w \in Workers |-> 0]
  /\ click = [c \in Clicks |-> Unpressed]
  /\ faults = 0
-----------------------------------------------------------------------------
Suffers(kind) == /\ kind \in Faults
                 /\ faults < MaxFaults
                 /\ faults' = faults + 1

Goto(r, step) == pc' = [pc EXCEPT ![r] = step]

-----------------------------------------------------------------------------
(* Variants: parts of the code below with a plausible mistake in them.  No    *)
(* action uses them; each can replace what it varies, to see a property break. *)

DecidesAnyRow(r) == appr[r].status \in {"pending", "resolved"}

AnyoneIsAuthorized(c) == TRUE

PendingDropped(w) == [pending EXCEPT ![w] = 0]

SlackFirst(r) ==
  /\ pc[r] = "create"
  /\ msg' = [msg EXCEPT ![r] = "live"]
  /\ appr' = [appr EXCEPT ![r] = [NoRow EXCEPT !.status = "pending"]]
  /\ Goto(r, "approvers")
  /\ UNCHANGED <<at, asked, waiter, pending, click, faults>>

WaitsWithoutLooking(r) ==
  /\ pc[r] = "check" /\ ~deaf[r]
  /\ Goto(r, "wait")
  /\ UNCHANGED <<appr, at, asked, waiter, msg, pending, click, faults>>

NeverTimesOut(r) == FALSE

IgnoresTheRow(row) == Expired
-----------------------------------------------------------------------------
\* select_approvers: the first of these that names anybody.
FirstNonEmpty(a, b, c, d) ==
  IF a # {} THEN a ELSE IF b # {} THEN b ELSE IF c # {} THEN c ELSE d

SelectApprovers(summary, soul) ==
  LET scoped    == {e \in soul.approvers : ~e.catchall /\ e.scope \cap summary # {}}
      catchalls == {e \in soul.approvers : e.catchall}
      UsersOf(es) == {e.user : e \in es}
  IN FirstNonEmpty(UsersOf(scoped), UsersOf(catchalls), EnvApprovers, soul.manager)

\* What wait() makes of the row it reads, whether or not anybody decided it.
DecisionOf(row) == IF row.status = "resolved" THEN row.decided ELSE Expired

\* UPDATE approvals SET ... WHERE id = $1 AND status = 'pending'.
Pending(r) == appr[r].status = "pending"

Resolved(r, d) ==
  IF Pending(r)
    THEN [appr EXCEPT ![r] = [@ EXCEPT !.status = "resolved", !.decided = d]]
    ELSE appr
-----------------------------------------------------------------------------
(* ApprovalGate.request and PostgresStore.wait *)

\* Nobody may approve: refuse at once, in words.
Ask(r) ==
  /\ pc[r] = "new"
  /\ \E soul \in Souls, summary \in SUBSET Topics :
       LET approvers == SelectApprovers(summary, soul)
       IN /\ asked' = [asked EXCEPT ![r] = approvers]
          /\ Goto(r, IF approvers = {} THEN "refuse" ELSE "create")
  /\ UNCHANGED <<appr, at, waiter, msg, pending, click, faults>>

Refuse(r) ==
  /\ pc[r] = "refuse"
  /\ Goto(r, "done")
  /\ UNCHANGED <<appr, at, asked, waiter, msg, pending, click, faults>>

Create(r) ==
  /\ pc[r] = "create"
  /\ appr' = [appr EXCEPT ![r] = [NoRow EXCEPT !.status = "pending"]]
  /\ Goto(r, "approvers")
  /\ UNCHANGED <<at, asked, waiter, msg, pending, click, faults>>

SetApprovers(r) ==
  /\ pc[r] = "approvers"
  /\ appr' = [appr EXCEPT ![r] = [@ EXCEPT !.approvers = asked[r]]]
  /\ Goto(r, "post")
  /\ UNCHANGED <<at, asked, waiter, msg, pending, click, faults>>

\* Slack shows the buttons before the worker hears that it does.
Post(r) ==
  /\ pc[r] = "post"
  /\ msg' = [msg EXCEPT ![r] = "live"]
  /\ Goto(r, "posted")
  /\ UNCHANGED <<appr, at, asked, waiter, pending, click, faults>>

Posted(r) ==
  /\ pc[r] = "posted"
  /\ pending' = [pending EXCEPT ![at[r]] = @ + 1]
  /\ Goto(r, "listen")
  /\ UNCHANGED <<appr, at, asked, waiter, msg, click, faults>>

Listening(r) == pc[r] \in {"check", "wait", "expire", "read"} /\ ~deaf[r]

Listen(r) ==
  /\ pc[r] = "listen"
  /\ Goto(r, "check")
  /\ UNCHANGED <<appr, at, asked, waiter, msg, pending, click, faults>>

\* The `finally` of request(): this one is no longer outstanding.
Unpended(w) == [pending EXCEPT ![w] = IF @ <= 1 THEN 0 ELSE @ - 1]

Returns(r, d) ==
  /\ decision' = [decision EXCEPT ![r] = d]
  /\ pending' = Unpended(at[r])
  /\ Goto(r, "retire")

\* Somebody may have clicked before we were listening.
Check(r) ==
  /\ pc[r] = "check" /\ ~deaf[r]
  /\ IF appr[r].status = "resolved"
       THEN Returns(r, DecisionOf(appr[r]))
       ELSE Goto(r, "wait") /\ UNCHANGED <<decision, pending>>
  /\ UNCHANGED <<appr, at, asked, mail, woken, deaf, msg, click, faults>>

Heard(r) ==
  /\ mail[r] /\ Listening(r)
  /\ mail' = [mail EXCEPT ![r] = FALSE]
  /\ woken' = [woken EXCEPT ![r] = TRUE]
  /\ UNCHANGED <<appr, at, pc, asked, decision, deaf, msg, pending, click, faults>>

Wake(r) ==
  /\ pc[r] = "wait" /\ woken[r]
  /\ Goto(r, "read")
  /\ UNCHANGED <<appr, at, asked, waiter, msg, pending, click, faults>>

TimeOut(r) ==
  /\ pc[r] = "wait" /\ ~woken[r]
  /\ Goto(r, "expire")
  /\ UNCHANGED <<appr, at, asked, waiter, msg, pending, click, faults>>

\* The time is up: deny, unless somebody decided in the meantime.  Nobody else
\* waits for this id, so the notification that follows goes unheard.
Expire(r) ==
  /\ pc[r] = "expire"
  /\ appr' = Resolved(r, Expired)
  /\ Goto(r, "read")
  /\ UNCHANGED <<at, asked, waiter, msg, pending, click, faults>>

Read(r) ==
  /\ pc[r] = "read" /\ ~deaf[r]
  /\ Returns(r, DecisionOf(appr[r]))
  /\ UNCHANGED <<appr, at, asked, mail, woken, deaf, msg, click, faults>>

\* _retire: a rewrite that fails costs the buttons' retirement, nothing else.
Retire(r) ==
  /\ pc[r] = "retire"
  /\ \/ msg' = [msg EXCEPT ![r] = "retired"] /\ UNCHANGED faults
     \/ Suffers("update") /\ UNCHANGED msg
  /\ Goto(r, "done")
  /\ UNCHANGED <<appr, at, asked, waiter, pending, click>>

\* can_use_tool on what request() returned: does the risky call run?
Runs(r) == pc[r] = "done" /\ decision[r].approved
-----------------------------------------------------------------------------
(* How a request fails.  Only what it awaits inside the `try` is undone. *)

Raises(r) ==
  /\ Goto(r, "raised")
  /\ pending' = IF pc[r] \in InWait THEN Unpended(at[r]) ELSE pending

RequestRaises(r) ==
  /\ pc[r] \in {"refuse", "create", "approvers", "post"} \cup InWait
  /\ Suffers("raise")
  /\ Raises(r)
  /\ UNCHANGED <<appr, at, asked, waiter, msg, click>>

\* The statement or the post took effect and its acknowledgement did not arrive.
AckLost(r) ==
  /\ Suffers("ack")
  /\ \/ /\ pc[r] = "create"
        /\ appr' = [appr EXCEPT ![r] = [NoRow EXCEPT !.status = "pending"]]
        /\ UNCHANGED msg
     \/ /\ pc[r] = "approvers"
        /\ appr' = [appr EXCEPT ![r] = [@ EXCEPT !.approvers = asked[r]]]
        /\ UNCHANGED msg
     \/ /\ pc[r] = "post"
        /\ msg' = [msg EXCEPT ![r] = "live"]
        /\ UNCHANGED appr
     \/ /\ pc[r] = "expire"
        /\ appr' = Resolved(r, Expired)
        /\ UNCHANGED msg
  /\ Raises(r)
  /\ UNCHANGED <<at, asked, waiter, click>>

\* The dropped connection wakes nobody; it raises when it is next used.
Drop(r) ==
  /\ Listening(r)
  /\ Suffers("drop")
  /\ deaf' = [deaf EXCEPT ![r] = TRUE]
  /\ mail' = [mail EXCEPT ![r] = FALSE]
  /\ UNCHANGED <<appr, at, pc, asked, decision, woken, msg, pending, click>>

FindsItDropped(r) ==
  /\ pc[r] \in {"check", "read"} /\ deaf[r]
  /\ Raises(r)
  /\ UNCHANGED <<appr, at, asked, waiter, msg, click, faults>>
-----------------------------------------------------------------------------
(* ApprovalGate.handle_action, which takes the clicker's word for nothing *)

Approves(c) == click[c].verb # "deny"

DecisionBy(c) ==
  [approved |-> Approves(c), by |-> click[c].user,
   scope |-> IF click[c].verb = "always" THEN "always" ELSE "once"]

Verdict(c) == IF Approves(c) THEN "approved" ELSE "denied"

ClickGoto(c, step) == click' = [click EXCEPT ![c] = [@ EXCEPT !.pc = step]]

Tell(c, result) ==
  click' = [click EXCEPT ![c] = [@ EXCEPT !.pc = "told", !.result = result]]

Press(c) ==
  /\ click[c].pc = "free"
  /\ \E r \in Requests, u \in Users, v \in Verbs, w \in Workers :
       /\ msg[r] = "live"
       /\ click' = [click EXCEPT ![c] =
            [pc |-> "lookup", id |-> r, user |-> u, verb |-> v, at |-> w,
             result |-> "none"]]
  /\ UNCHANGED <<appr, at, pc, asked, waiter, msg, pending, faults>>

\* get_pending finds a row whatever its status.
Lookup(c) ==
  /\ click[c].pc = "lookup"
  /\ IF appr[click[c].id].status \in {"absent", "pruned"}
       THEN Tell(c, "gone") ELSE ClickGoto(c, "authorize")
  /\ UNCHANGED <<appr, at, pc, asked, waiter, msg, pending, faults>>

Authorized(c) == click[c].user \in appr[click[c].id].approvers

Authorize(c) ==
  /\ click[c].pc = "authorize"
  /\ IF Authorized(c) THEN ClickGoto(c, "resolve") ELSE Tell(c, "unauthorized")
  /\ UNCHANGED <<appr, at, pc, asked, waiter, msg, pending, faults>>

Resolve(c) ==
  LET r == click[c].id
  IN /\ click[c].pc = "resolve"
     /\ appr' = Resolved(r, DecisionBy(c))
     /\ IF Pending(r) THEN ClickGoto(c, "notify") ELSE Tell(c, "gone")
     /\ UNCHANGED <<at, pc, asked, waiter, msg, pending, faults>>

\* pg_notify reaches only those who listen.
Notify(c) ==
  LET r == click[c].id
  IN /\ click[c].pc = "notify"
     /\ mail' = [mail EXCEPT ![r] = Listening(r) \/ @]
     /\ Tell(c, Verdict(c))
     /\ UNCHANGED <<appr, at, pc, asked, decision, woken, deaf, msg, pending, faults>>

\* Any of its four statements raises, or the UPDATE commits and then raises:
\* the clicker is told nothing.
ClickRaises(c) ==
  /\ click[c].pc \in ClickSteps
  /\ Tell(c, "none")
  /\ \/ Suffers("raise") /\ UNCHANGED appr
     \/ /\ click[c].pc = "resolve"
        /\ Suffers("ack")
        /\ appr' = Resolved(click[c].id, DecisionBy(c))
  /\ UNCHANGED <<at, pc, asked, waiter, msg, pending>>
-----------------------------------------------------------------------------
InFlight(c) == click[c].pc \in ClickSteps

\* A worker dies: its requests and the clicks it was serving go with it.
Crash(w) ==
  /\ Suffers("crash")
  /\ pc' = [r \in Requests |->
              IF at[r] = w /\ pc[r] \in Steps \ {"new"} THEN "dead" ELSE pc[r]]
  /\ click' = [c \in Clicks |->
                 IF InFlight(c) /\ click[c].at = w
                   THEN [click[c] EXCEPT !.pc = "told"] ELSE click[c]]
  /\ pending' = [pending EXCEPT ![w] = 0]
  /\ UNCHANGED <<appr, at, asked, waiter, msg>>

\* MaintenanceStore.prune, a retention window (days) after the decision: what
\* was waiting (minutes) and clicking (seconds) then is long over.
Prune(r) ==
  /\ appr[r].status = "resolved"
  /\ pc[r] \in Ends
  /\ \A c \in Clicks : InFlight(c) => click[c].id # r
  /\ appr' = [appr EXCEPT ![r] = [NoRow EXCEPT !.status = "pruned"]]
  /\ UNCHANGED <<at, pc, asked, waiter, msg, pending, click, faults>>
-----------------------------------------------------------------------------
RequestStep(r) ==
  \/ Refuse(r) \/ Create(r) \/ SetApprovers(r) \/ Post(r) \/ Posted(r) \/ Listen(r)
  \/ Check(r) \/ Wake(r) \/ TimeOut(r) \/ Expire(r) \/ Read(r) \/ Retire(r)
  \/ FindsItDropped(r)

ClickStep(c) == Lookup(c) \/ Authorize(c) \/ Resolve(c) \/ Notify(c)

Next ==
  \/ \E r \in Requests : \/ Ask(r) \/ RequestStep(r) \/ Heard(r)
                         \/ RequestRaises(r) \/ AckLost(r) \/ Drop(r) \/ Prune(r)
  \/ \E c \in Clicks : Press(c) \/ ClickStep(c) \/ ClickRaises(c)
  \/ \E w \in Workers : Crash(w)

Spec == Init /\ [][Next]_vars
-----------------------------------------------------------------------------
(* What must hold *)

\* Every variable has its type (the approvals table, ApprovalDecision, the
\* gate's _pending).
TypeOK ==
  /\ appr \in [Requests -> Row]
  /\ at \in [Requests -> Workers]
  /\ pc \in [Requests -> Steps \cup Ends]
  /\ asked \in [Requests -> SUBSET Users]
  /\ decision \in [Requests -> Decision]
  /\ mail \in [Requests -> BOOLEAN]
  /\ woken \in [Requests -> BOOLEAN]
  /\ deaf \in [Requests -> BOOLEAN]
  /\ msg \in [Requests -> {"none", "live", "retired"}]
  /\ pending \in [Workers -> Nat]
  /\ click \in [Clicks -> Click \cup {Unpressed}]
  /\ faults \in 0..MaxFaults

\* A risky call runs only because one of the people request() selected pressed
\* Approve or Always on it (README: "Only the people jean picks here may click
\* Approve/Deny").
RunsOnApproval ==
  \A r \in Requests : Runs(r) =>
    \E c \in Clicks : /\ click[c].pc # "free" /\ click[c].id = r
                      /\ Approves(c) /\ click[c].user \in asked[r]

\* Whoever was told that the request is approved or denied was told what the
\* agent gets to act on, however clicks, timeouts and workers interleave.
ToldWhatTheAgentIsTold ==
  \A c \in Clicks, r \in Requests :
    /\ click[c].pc = "told" /\ click[c].id = r
    /\ click[c].result \in {"approved", "denied"}
    /\ pc[r] \in {"retire", "done"}
    => decision[r] = DecisionBy(c)

\* A button that is shown works: an approver is turned away only when the
\* request is decided (request, on creating the row before posting: otherwise "a
\* click ... finds no pending row (gone) or no authorized approvers").
ButtonsWork ==
  \A c \in Clicks :
    click[c].pc = "told" =>
      LET r == click[c].id
      IN /\ click[c].result = "gone" => appr[r].status \in {"resolved", "pruned"}
         /\ click[c].result = "unauthorized" => click[c].user \notin asked[r]

\* A decision made while its waiter sleeps is on its way to it: listening
\* before looking leaves no moment in which a click is missed and the agent
\* sits out the approval_ttl, as long as nothing failed.
NoLostWakeup ==
  \A r \in Requests :
    faults = 0 /\ pc[r] = "wait" /\ ~Pending(r) =>
      \/ woken[r] \/ mail[r]
      \/ \E c \in Clicks : click[c].pc = "notify" /\ click[c].id = r

\* pending_for is right about this worker: _pending counts the requests that
\* wait on it, whichever ways earlier ones ended.
PendingCountsWaits ==
  \A w \in Workers :
    pending[w] = Cardinality({r \in Requests : at[r] = w /\ pc[r] \in InWait})

\* Buttons are retired only from a decided request, as what it was decided.
RetiredIsDecided ==
  \A r \in Requests : msg[r] = "retired" =>
    \/ appr[r].status = "pruned"
    \/ appr[r].status = "resolved" /\ appr[r].decided = decision[r]
-----------------------------------------------------------------------------
(* The abstract ledger this implements: a verdict is what the row holds, and  *)
(* the agent has acted when request() is over.                                *)

VerdictOf(row) ==
  CASE row.status = "resolved" -> row.decided
    [] row.status = "pruned"   -> [approved |-> FALSE, by |-> {System}]
    [] OTHER                   -> [approved |-> FALSE, by |-> {}]

OutcomeOf(r) ==
  CASE pc[r] \notin Ends -> "asking"
    [] Runs(r)           -> "ran"
    [] OTHER             -> "refused"

Ledger == INSTANCE ApprovalLedger WITH
  approvers <- asked,
  verdict   <- [r \in Requests |-> VerdictOf(appr[r])],
  outcome   <- [r \in Requests |-> OutcomeOf(r)]

\* All the workers, their clicks and the table together behave as the ledger.
ImplementsLedger == Ledger!Spec
-----------------------------------------------------------------------------
(* Scheduling: awaited calls return, time passes, Slack and Postgres deliver.  *)

Fairness ==
  /\ \A r \in Requests : WF_vars(RequestStep(r)) /\ WF_vars(Heard(r))
  /\ \A c \in Clicks : WF_vars(ClickStep(c))

FairSpec == Spec /\ Fairness

\* No request keeps its turn, and the thread's lock with it, for ever.
RequestsEnd == \A r \in Requests : pc[r] = "create" ~> pc[r] \in Ends

\* "a Block Kit approval request ... waits for an authorized approver to click
\* ... (or for the request to time out and auto-deny)" (README): a pending row
\* is decided in the end.
PendingIsDecided == \A r \in Requests : Pending(r) ~> ~Pending(r)
=============================================================================
