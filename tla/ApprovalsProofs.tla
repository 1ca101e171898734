--------------------------- MODULE ApprovalsProofs ---------------------------
(***************************************************************************)
(* Proofs about Approvals, for any number of workers, requests, clicks and   *)
(* failures, any souls and any users.                                        *)
(***************************************************************************)
EXTENDS Approvals, FiniteSetTheorems, TLAPS

\* Where a request is says what its row and its message are.
RowFits(r) ==
  /\ pc[r] = "new" => asked[r] = {}
  /\ pc[r] \in {"new", "refuse", "create"} =>
       appr[r].status = "absent" /\ msg[r] = "none"
  /\ pc[r] \in {"approvers", "post"} => appr[r].status = "pending" /\ msg[r] = "none"
  /\ pc[r] = "post" => appr[r].approvers = asked[r]
  /\ pc[r] \in {"posted", "retire"} \cup InWait => msg[r] = "live"
  /\ pc[r] \in {"read", "retire"} => appr[r].status = "resolved"
  /\ pc[r] = "done" => appr[r].status # "pending"
  /\ pc[r] \in {"retire", "done"} /\ appr[r].status = "resolved" =>
       decision[r] = appr[r].decided
  /\ appr[r].status = "pruned" => pc[r] \in Ends
  /\ msg[r] = "retired" => pc[r] = "done"

\* Buttons are shown once the row knows who may press them, and wake-ups mean it is
\* decided.
ShownFits(r) ==
  /\ msg[r] # "none" =>
       \/ appr[r].status = "pruned"
       \/ appr[r].status \in {"pending", "resolved"} /\ appr[r].approvers = asked[r]
  /\ mail[r] \/ woken[r] => appr[r].status \in {"resolved", "pruned"}
  /\ faults = 0 => ~ deaf[r]

\* A decision in favour has an approver behind it, in the row and in the worker.
Backed(r, d) ==
  d.approved =>
    \E c \in Clicks : /\ click[c].pc # "free" /\ click[c].id = r
                      /\ Approves(c) /\ click[c].user \in asked[r]

WellDecided(r) ==
  /\ appr[r].status = "resolved" => Backed(r, appr[r].decided)
  /\ Backed(r, decision[r])

\* What a click has found out stays true, and it decides a row at most once.
ClickFits(c) ==
  click[c].pc # "free" =>
    LET r == click[c].id
    IN /\ msg[r] # "none"
       /\ click[c].pc # "told" => click[c].result = "none"
       /\ click[c].pc \in {"authorize", "resolve", "notify"} => appr[r].status # "pruned"
       /\ click[c].pc \in {"resolve", "notify"} => click[c].user \in asked[r]
       /\ click[c].pc = "notify" \/ click[c].result \in {"approved", "denied"} =>
            \/ appr[r].status = "resolved" /\ appr[r].decided = DecisionBy(c)
            \/ appr[r].status = "pruned"

Inv ==
  /\ TypeOK
  /\ \A r \in Requests : RowFits(r) /\ ShownFits(r) /\ WellDecided(r)
  /\ \A c \in Clicks : ClickFits(c)
  /\ ButtonsWork /\ NoLostWakeup /\ RetiredIsDecided /\ ToldWhatTheAgentIsTold
-----------------------------------------------------------------------------
(* Types: what the table, a decision and a click may be. *)

LEMMA Values ==
  /\ Expired \in Decision
  /\ [NoRow EXCEPT !.status = "pending"] \in Row
  /\ [NoRow EXCEPT !.status = "pruned"] \in Row
  /\ \A row \in Row : DecisionOf(row) \in Decision
  /\ \A row \in Row, us \in SUBSET Users : [row EXCEPT !.approvers = us] \in Row
<1>1. Expired \in Decision
  BY DEF Expired, Decision, Deciders, Scopes
<1>2. NoRow \in Row
  BY <1>1 DEF NoRow, Row
<1>3. QED
  BY <1>1, <1>2 DEF Row, DecisionOf

\* The UPDATE changes a pending row only, and nothing of it but what it decides.
LEMMA Decides ==
  ASSUME TypeOK, NEW r \in Requests, NEW d \in Decision
  PROVE  /\ Resolved(r, d) \in [Requests -> Row]
         /\ \A q \in Requests : q # r \/ ~ Pending(q) => Resolved(r, d)[q] = appr[q]
         /\ Pending(r) => /\ Resolved(r, d)[r].status = "resolved"
                         /\ Resolved(r, d)[r].decided = d
                         /\ Resolved(r, d)[r].approvers = appr[r].approvers
  BY DEF TypeOK, Resolved, Pending, Row

LEMMA Pressed ==
  ASSUME TypeOK, NEW c \in Clicks, click[c].pc # "free"
  PROVE  click[c] \in Click /\ DecisionBy(c) \in Decision
<1>1. click[c] \in Click
  BY DEF TypeOK, Unpressed
<1>2. QED
  BY <1>1 DEF Click, DecisionBy, Decision, Deciders, Scopes, Approves

\* handle_action moves its own click on, and never to another request or user.
Serves(c) ==
  /\ click' \in [Clicks -> Click \cup {Unpressed}]
  /\ \A e \in Clicks : e # c => click'[e] = click[e]
  /\ click'[c].id = click[c].id /\ click'[c].user = click[c].user
  /\ click'[c].verb = click[c].verb

LEMMA Goes ==
  ASSUME TypeOK, NEW c \in Clicks, click[c].pc # "free", NEW step \in ClickSteps,
         ClickGoto(c, step)
  PROVE  Serves(c) /\ click'[c].pc = step /\ click'[c].result = click[c].result
<1> DEFINE y == [click[c] EXCEPT !.pc = step]
<1>1. y \in Click /\ y.pc = step /\ y.result = click[c].result
  BY Pressed DEF Click
<1>2. y.id = click[c].id /\ y.user = click[c].user /\ y.verb = click[c].verb
  BY Pressed DEF Click
<1>3. click' = [click EXCEPT ![c] = y]
  BY DEF ClickGoto
<1> HIDE DEF y
<1>4. QED
  BY <1>1, <1>2, <1>3 DEF TypeOK, Serves

LEMMA Tells ==
  ASSUME TypeOK, NEW c \in Clicks, click[c].pc # "free",
         NEW result \in {"none", "approved", "denied", "gone", "unauthorized"},
         Tell(c, result)
  PROVE  Serves(c) /\ click'[c].pc = "told" /\ click'[c].result = result
<1> DEFINE y == [click[c] EXCEPT !.pc = "told", !.result = result]
<1>1. y \in Click /\ y.pc = "told" /\ y.result = result
  BY Pressed DEF Click
<1>2. y.id = click[c].id /\ y.user = click[c].user /\ y.verb = click[c].verb
  BY Pressed DEF Click
<1>3. click' = [click EXCEPT ![c] = y]
  BY DEF Tell
<1> HIDE DEF y
<1>4. QED
  BY <1>1, <1>2, <1>3 DEF TypeOK, Serves

LEMMA Fails ==
  ASSUME TypeOK, NEW kind, Suffers(kind)
  PROVE  faults' \in 0..MaxFaults /\ faults' # 0
  BY ConstantsAssumption DEF TypeOK, Suffers

LEMMA Undone ==
  ASSUME TypeOK, NEW r \in Requests, Raises(r)
  PROVE  pending' \in [Workers -> Nat] /\ pc' = [pc EXCEPT ![r] = "raised"]
  BY DEF TypeOK, Raises, Unpended, Goto

LEMMA Verdicts == ASSUME NEW c PROVE Verdict(c) \in {"approved", "denied"}
  BY DEF Verdict

LEMMA Selected ==
  ASSUME NEW summary, NEW soul \in Souls
  PROVE  SelectApprovers(summary, soul) \in SUBSET Users
<1>1. soul.manager \subseteq Users /\ \A e \in soul.approvers : e.user \in Users
  BY ConstantsAssumption DEF SoulType, Entries
<1>2. QED
  BY <1>1, ConstantsAssumption DEF SelectApprovers, FirstNonEmpty

LEMMA TypePreserved == ASSUME TypeOK, [Next]_vars PROVE TypeOK'
<1> USE DEF waiter, Goto, Steps, Ends, InWait
<1>1. CASE UNCHANGED vars
  BY <1>1 DEF TypeOK, vars
<1>2. ASSUME NEW r \in Requests, Ask(r) PROVE TypeOK'
  BY <1>2, Selected DEF TypeOK, Ask
<1>3. ASSUME NEW r \in Requests, Refuse(r) PROVE TypeOK'
  BY <1>3 DEF TypeOK, Refuse
<1>4. ASSUME NEW r \in Requests, Create(r) PROVE TypeOK'
  BY <1>4, Values DEF TypeOK, Create
<1>5. ASSUME NEW r \in Requests, SetApprovers(r) PROVE TypeOK'
  BY <1>5, Values DEF TypeOK, SetApprovers
<1>6. ASSUME NEW r \in Requests, Post(r) PROVE TypeOK'
  BY <1>6 DEF TypeOK, Post
<1>7. ASSUME NEW r \in Requests, Posted(r) PROVE TypeOK'
  BY <1>7 DEF TypeOK, Posted
<1>8. ASSUME NEW r \in Requests, Listen(r) PROVE TypeOK'
  BY <1>8 DEF TypeOK, Listen
<1>9. ASSUME NEW r \in Requests, Check(r) PROVE TypeOK'
  BY <1>9, Values DEF TypeOK, Check, Returns, Unpended
<1>10. ASSUME NEW r \in Requests, Wake(r) PROVE TypeOK'
  BY <1>10 DEF TypeOK, Wake
<1>11. ASSUME NEW r \in Requests, TimeOut(r) PROVE TypeOK'
  BY <1>11 DEF TypeOK, TimeOut
<1>12. ASSUME NEW r \in Requests, Expire(r) PROVE TypeOK'
  BY <1>12, Values, Decides DEF TypeOK, Expire
<1>13. ASSUME NEW r \in Requests, Read(r) PROVE TypeOK'
  BY <1>13, Values DEF TypeOK, Read, Returns, Unpended
<1>14. ASSUME NEW r \in Requests, Retire(r) PROVE TypeOK'
  BY <1>14, Fails DEF TypeOK, Retire
<1>15. ASSUME NEW r \in Requests, FindsItDropped(r) PROVE TypeOK'
  BY <1>15, Undone DEF TypeOK, FindsItDropped
<1>16. ASSUME NEW r \in Requests, Heard(r) PROVE TypeOK'
  BY <1>16 DEF TypeOK, Heard
<1>17. ASSUME NEW r \in Requests, RequestRaises(r) PROVE TypeOK'
  BY <1>17, Undone, Fails DEF TypeOK, RequestRaises
<1>18. ASSUME NEW r \in Requests, AckLost(r) PROVE TypeOK'
  <2>1. appr' \in [Requests -> Row]
    <3>1. CASE pc[r] = "expire"
      BY <1>18, <3>1, Values, Decides DEF TypeOK, AckLost
    <3>2. CASE pc[r] = "create"
      BY <1>18, <3>2, Values DEF TypeOK, AckLost
    <3>3. CASE pc[r] = "approvers"
      <4>1. appr' = [appr EXCEPT ![r] = [@ EXCEPT !.approvers = asked[r]]]
        BY <1>18, <3>3 DEF AckLost
      <4>2. QED
        BY <4>1, Values DEF TypeOK
    <3>4. CASE pc[r] = "post"
      BY <1>18, <3>4 DEF TypeOK, AckLost
    <3>5. QED
      BY <1>18, <3>1, <3>2, <3>3, <3>4 DEF AckLost
  <2>2. QED
    BY <1>18, <2>1, Undone, Fails DEF TypeOK, AckLost
<1>19. ASSUME NEW r \in Requests, Drop(r) PROVE TypeOK'
  BY <1>19, Fails DEF TypeOK, Drop
<1>20. ASSUME NEW r \in Requests, Prune(r) PROVE TypeOK'
  BY <1>20, Values DEF TypeOK, Prune
<1>21. ASSUME NEW c \in Clicks, Press(c) PROVE TypeOK'
  BY <1>21 DEF TypeOK, Press, Click, ClickSteps
<1>22. ASSUME NEW c \in Clicks, Lookup(c) PROVE TypeOK'
  BY <1>22, Goes, Tells DEF TypeOK, Lookup, Serves, ClickSteps
<1>23. ASSUME NEW c \in Clicks, Authorize(c) PROVE TypeOK'
  BY <1>23, Goes, Tells DEF TypeOK, Authorize, Serves, ClickSteps
<1>24. ASSUME NEW c \in Clicks, Resolve(c) PROVE TypeOK'
  <2>1. click[c].pc # "free" /\ click[c].id \in Requests /\ DecisionBy(c) \in Decision
    BY <1>24, Pressed DEF Resolve, Click
  <2>2. appr' \in [Requests -> Row]
    BY <1>24, <2>1, Decides DEF Resolve
  <2>3. click' \in [Clicks -> Click \cup {Unpressed}]
    BY <1>24, <2>1, Goes, Tells DEF Resolve, Serves, ClickSteps
  <2>4. QED
    BY <1>24, <2>2, <2>3 DEF TypeOK, Resolve
<1>25. ASSUME NEW c \in Clicks, Notify(c) PROVE TypeOK'
  BY <1>25, Tells, Verdicts DEF TypeOK, Notify, Serves
<1>26. ASSUME NEW c \in Clicks, ClickRaises(c) PROVE TypeOK'
  <2>1. click[c].pc # "free" /\ click[c].id \in Requests /\ DecisionBy(c) \in Decision
    BY <1>26, Pressed DEF ClickRaises, ClickSteps, Click
  <2>2. appr' \in [Requests -> Row]
    BY <1>26, <2>1, Decides DEF TypeOK, ClickRaises
  <2>3. click' \in [Clicks -> Click \cup {Unpressed}]
    BY <1>26, <2>1, Tells DEF ClickRaises, Serves
  <2>4. QED
    BY <1>26, <2>2, <2>3, Fails DEF TypeOK, ClickRaises
<1>27. ASSUME NEW w \in Workers, Crash(w) PROVE TypeOK'
  <2>1. click' \in [Clicks -> Click \cup {Unpressed}]
    BY <1>27, Pressed DEF TypeOK, Crash, InFlight, ClickSteps, Click
  <2>2. QED
    BY <1>27, <2>1, Fails DEF TypeOK, Crash
<1>28. QED
  BY <1>1, <1>2, <1>3, <1>4, <1>5, <1>6, <1>7, <1>8, <1>9, <1>10, <1>11, <1>12, <1>13,
     <1>14, <1>15, <1>16, <1>17, <1>18, <1>19, <1>20, <1>21, <1>22, <1>23, <1>24, <1>25,
     <1>26, <1>27
  DEF Next, RequestStep, ClickStep
-----------------------------------------------------------------------------
(* The invariant. *)

\* While a request has no buttons there are no clicks on it.
LEMMA Unclicked ==
  ASSUME Inv, NEW r \in Requests, msg[r] = "none"
  PROVE  /\ \A c \in Clicks : click[c].pc # "free" => click[c].id # r
         /\ ~ decision[r].approved
  BY DEF Inv, ClickFits, WellDecided, Backed

\* A request that moves on without touching its row or its decision.
LEMMA RequestMoves ==
  ASSUME Inv, TypeOK', NEW r \in Requests,
         UNCHANGED <<appr, asked, decision, click>>,
         \A q \in Requests : q # r =>
           /\ pc'[q] = pc[q] /\ msg'[q] = msg[q]
           /\ mail'[q] = mail[q] /\ woken'[q] = woken[q] /\ deaf'[q] = deaf[q],
         faults' = 0 => faults = 0,
         RowFits(r)', ShownFits(r)',
         msg[r] # "none" => msg'[r] # "none",
         pc'[r] \in {"retire", "done"} => pc[r] \in {"retire", "done"} \/ msg[r] = "none",
         pc'[r] = "wait" => \/ pc[r] = "wait" /\ (woken[r] \/ mail[r] => woken'[r] \/ mail'[r])
                           \/ Pending(r) \/ faults' # 0,
         msg'[r] = "retired" => msg[r] = "retired" \/ pc[r] = "retire"
  PROVE  Inv'
<1>1. ASSUME NEW q \in Requests PROVE RowFits(q)' /\ ShownFits(q)' /\ WellDecided(q)'
  BY DEF Inv, RowFits, ShownFits, WellDecided, Backed, Approves
<1>2. ASSUME NEW c \in Clicks PROVE ClickFits(c)'
  <2>1. \A q \in Requests : msg[q] # "none" => msg'[q] # "none"
    OBVIOUS
  <2>2. click[c].pc # "free" => click[c].id \in Requests
    BY Pressed DEF Inv, Click
  <2>3. QED
    BY <2>1, <2>2 DEF Inv, ClickFits, DecisionBy, Approves
<1>3. ButtonsWork'
  BY DEF Inv, ButtonsWork
<1>4. NoLostWakeup'
  BY DEF Inv, NoLostWakeup, Pending
<1>5. RetiredIsDecided'
  BY DEF Inv, RetiredIsDecided, RowFits
<1>6. ToldWhatTheAgentIsTold'
  <2>1. ASSUME NEW c \in Clicks, NEW q \in Requests, click[c].pc = "told", click[c].id = q,
               pc'[q] \in {"retire", "done"}
        PROVE  pc[q] \in {"retire", "done"}
    BY <2>1, Unclicked
  <2>2. QED
    BY <2>1 DEF Inv, ToldWhatTheAgentIsTold, DecisionBy, Approves
<1>7. QED
  BY <1>1, <1>2, <1>3, <1>4, <1>5, <1>6 DEF Inv

\* The row is made, and gets its approvers, before anybody sees a button.
LEMMA RowPrepared ==
  ASSUME Inv, TypeOK', NEW r \in Requests, pc[r] \in {"create", "approvers"},
         NEW row, row.status = "pending", appr' = [appr EXCEPT ![r] = row],
         NEW step \in {"approvers", "post", "raised"}, pc' = [pc EXCEPT ![r] = step],
         step = "post" => row.approvers = asked[r],
         UNCHANGED <<asked, waiter, msg, click>>, faults' = 0 => faults = 0
  PROVE  Inv'
<1>1. msg[r] = "none" /\ appr[r].status \in {"absent", "pending"}
  BY DEF Inv, RowFits
<1>2. \A c \in Clicks : click[c].pc # "free" => click[c].id # r
  BY <1>1, Unclicked
<1>3. /\ appr'[r] = row /\ pc'[r] = step
      /\ \A q \in Requests : q # r => appr'[q] = appr[q] /\ pc'[q] = pc[q]
  BY DEF Inv, TypeOK
<1>4. ASSUME NEW q \in Requests PROVE RowFits(q)' /\ ShownFits(q)' /\ WellDecided(q)'
  BY <1>1, <1>3
  DEF Inv, RowFits, ShownFits, WellDecided, Backed, Approves, waiter, InWait, Ends
<1>5. ASSUME NEW c \in Clicks PROVE ClickFits(c)'
  BY <1>2, <1>3, Pressed DEF Inv, ClickFits, DecisionBy, Approves, Click
<1>6. ButtonsWork'
  BY <1>2, <1>3, Pressed DEF Inv, ButtonsWork, Click
<1>7. NoLostWakeup'
  BY <1>3 DEF Inv, NoLostWakeup, Pending, waiter
<1>8. RetiredIsDecided'
  BY <1>1, <1>3 DEF Inv, RetiredIsDecided, waiter
<1>9. ToldWhatTheAgentIsTold'
  BY <1>2, <1>3 DEF Inv, ToldWhatTheAgentIsTold, DecisionBy, Approves, waiter
<1>10. QED
  BY <1>4, <1>5, <1>6, <1>7, <1>8, <1>9 DEF Inv

\* wait() returns what the row says.
LEMMA Answers ==
  ASSUME Inv, TypeOK', NEW r \in Requests, pc[r] \in {"check", "read"},
         appr[r].status = "resolved",
         decision' = [decision EXCEPT ![r] = appr[r].decided],
         pc' = [pc EXCEPT ![r] = "retire"],
         UNCHANGED <<appr, asked, mail, woken, deaf, msg, click, faults>>
  PROVE  Inv'
<1>1. /\ decision'[r] = appr[r].decided /\ pc'[r] = "retire"
      /\ \A q \in Requests : q # r => decision'[q] = decision[q] /\ pc'[q] = pc[q]
  BY DEF Inv, TypeOK
<1>2. ASSUME NEW q \in Requests PROVE RowFits(q)' /\ ShownFits(q)'
  BY <1>1 DEF Inv, RowFits, ShownFits, InWait, Ends
<1>3. ASSUME NEW q \in Requests PROVE WellDecided(q)'
  BY <1>1 DEF Inv, WellDecided, Backed, Approves
<1>4. ASSUME NEW c \in Clicks PROVE ClickFits(c)'
  BY DEF Inv, ClickFits, DecisionBy, Approves
<1>5. ButtonsWork' /\ NoLostWakeup'
  BY <1>1 DEF Inv, ButtonsWork, NoLostWakeup, Pending
<1>6. RetiredIsDecided'
  BY <1>1 DEF Inv, RetiredIsDecided, RowFits
<1>7. ToldWhatTheAgentIsTold'
  <2>1. ASSUME NEW c \in Clicks, click[c].pc = "told", click[c].id = r,
               click[c].result \in {"approved", "denied"}
        PROVE  appr[r].decided = DecisionBy(c)
    BY <2>1 DEF Inv, ClickFits
  <2>2. QED
    BY <1>1, <2>1 DEF Inv, ToldWhatTheAgentIsTold, DecisionBy, Approves
<1>8. QED
  BY <1>2, <1>3, <1>4, <1>5, <1>6, <1>7 DEF Inv

\* A click that is served keeps what it decides, and backs what it backed.
LEMMA Serving ==
  ASSUME Inv, NEW k \in Clicks, Serves(k), click[k].pc # "free", click'[k].pc # "free",
         UNCHANGED asked
  PROVE  /\ \A e \in Clicks :
              /\ click'[e].pc # "free" <=> click[e].pc # "free"
              /\ click'[e].id = click[e].id /\ click'[e].user = click[e].user
              /\ DecisionBy(e)' = DecisionBy(e) /\ Approves(e)' = Approves(e)
         /\ \A q, d : Backed(q, d) => Backed(q, d)'
  BY DEF Serves, Backed, DecisionBy, Approves

\* A click that finds out, or says, how its row is.
LEMMA ClickMoves ==
  ASSUME Inv, TypeOK', NEW k \in Clicks, Serves(k), click[k].pc \in ClickSteps,
         click'[k].pc # "free", UNCHANGED <<appr, pc, asked, decision, woken, deaf, msg>>,
         \A q \in Requests : /\ mail[q] => mail'[q]
                             /\ mail'[q] => mail[q] \/ appr[q].status = "resolved",
         faults' = 0 => faults = 0,
         ClickFits(k)',
         click[k].pc = "notify" /\ faults' = 0 /\ pc[click[k].id] = "wait" =>
           mail'[click[k].id],
         click'[k].pc = "told" =>
           /\ click'[k].result = "gone" => appr[click[k].id].status \in {"resolved", "pruned"}
           /\ click'[k].result = "unauthorized" => click[k].user \notin asked[click[k].id]
           /\ click'[k].result \in {"approved", "denied"} =>
                appr[click[k].id].status = "resolved"
  PROVE  Inv'
<1>1. click[k].pc # "free" /\ click[k].id \in Requests
  BY Pressed DEF ClickSteps, Inv, Click
<1>2. ASSUME NEW q \in Requests PROVE RowFits(q)' /\ ShownFits(q)' /\ WellDecided(q)'
  BY <1>1, Serving DEF Inv, RowFits, ShownFits, WellDecided
<1>3. ASSUME NEW c \in Clicks PROVE ClickFits(c)'
  BY <1>1, Serving DEF Inv, ClickFits, Serves
<1>4. ButtonsWork'
  BY <1>1 DEF Inv, ButtonsWork, Serves
<1>5. NoLostWakeup'
  <2>1. ASSUME NEW r \in Requests, faults' = 0, pc[r] = "wait", ~ Pending(r),
               ~ woken[r], ~ mail'[r]
        PROVE  \E c \in Clicks : click'[c].pc = "notify" /\ click'[c].id = r
    <3>1. PICK c \in Clicks : click[c].pc = "notify" /\ click[c].id = r
      BY <2>1 DEF Inv, NoLostWakeup
    <3>2. c # k
      BY <2>1, <3>1
    <3>3. QED
      BY <3>1, <3>2 DEF Serves
  <2>2. QED
    BY <2>1 DEF NoLostWakeup, Pending
<1>6. RetiredIsDecided'
  BY DEF Inv, RetiredIsDecided
<1>7. ToldWhatTheAgentIsTold'
  <2>1. ASSUME NEW c \in Clicks, NEW r \in Requests, click'[c].pc = "told",
               click'[c].id = r, click'[c].result \in {"approved", "denied"},
               pc[r] \in {"retire", "done"}
        PROVE  decision[r] = DecisionBy(c)
    <3>1. CASE c = k
      BY <1>1, <2>1, <3>1, Serving DEF Inv, RowFits, ClickFits
    <3>2. CASE c # k
      BY <2>1, <3>2 DEF Inv, ToldWhatTheAgentIsTold, Serves
    <3>3. QED
      BY <3>1, <3>2
  <2>2. QED
    BY <1>1, <2>1, Serving DEF ToldWhatTheAgentIsTold
<1>8. QED
  BY <1>2, <1>3, <1>4, <1>5, <1>6, <1>7 DEF Inv

\* The UPDATE decides a row whose message shows buttons.
LEMMA RowDecided ==
  ASSUME Inv, TypeOK', NEW r \in Requests, NEW d \in Decision, msg[r] # "none",
         appr' = Resolved(r, d), UNCHANGED <<asked, waiter, msg>>,
         faults' = 0 => faults = 0,
         \A q \in Requests : \/ pc'[q] = pc[q]
                             \/ q = r /\ pc[r] = "expire" /\ pc'[r] \in {"read", "raised"},
         \A q, e : Backed(q, e) => Backed(q, e)',
         Pending(r) => Backed(r, d)'
  PROVE  /\ \A q \in Requests :
              /\ q # r \/ ~ Pending(q) => appr'[q] = appr[q]
              /\ appr[q].status = "pending" => appr'[q].status \in {"pending", "resolved"}
         /\ Pending(r) => appr'[r].status = "resolved" /\ appr'[r].decided = d
         /\ \A q \in Requests : RowFits(q)' /\ ShownFits(q)' /\ WellDecided(q)'
         /\ RetiredIsDecided'
<1>1. /\ \A q \in Requests : q # r \/ ~ Pending(q) => appr'[q] = appr[q]
      /\ Pending(r) => /\ appr'[r].status = "resolved" /\ appr'[r].decided = d
                       /\ appr'[r].approvers = appr[r].approvers
  BY Decides DEF Inv
<1>2. ASSUME NEW q \in Requests, q # r
      PROVE  RowFits(q)' /\ ShownFits(q)' /\ WellDecided(q)'
  BY <1>1, <1>2 DEF Inv, RowFits, ShownFits, WellDecided, waiter
<1>3. RowFits(r)'
  <2>1. appr[r].status # "absent" /\ (appr[r].status = "pruned" => appr'[r] = appr[r])
    BY <1>1 DEF Inv, ShownFits, Pending
  <2>2. (appr'[r].status = appr[r].status /\ appr'[r] = appr[r]) \/ Pending(r)
    BY <1>1
  <2>3. pc[r] = "expire" => msg[r] = "live" /\ appr[r].status \in {"pending", "resolved"}
    BY DEF Inv, RowFits, ShownFits, InWait, Ends
  <2>4. CASE pc'[r] = pc[r]
    BY <1>1, <2>1, <2>2, <2>4 DEF Inv, RowFits, Pending, waiter, InWait, Ends
  <2>5. CASE pc[r] = "expire" /\ pc'[r] \in {"read", "raised"}
    BY <1>1, <2>2, <2>3, <2>5 DEF Inv, RowFits, Pending, waiter, InWait, Ends
  <2>6. QED
    BY <2>4, <2>5
<1>4. ShownFits(r)' /\ WellDecided(r)'
  BY <1>1 DEF Inv, ShownFits, WellDecided, Pending, waiter
<1>5. RetiredIsDecided'
  BY <1>1 DEF Inv, RetiredIsDecided, Pending, waiter
<1>6. QED
  BY <1>1, <1>2, <1>3, <1>4, <1>5 DEF Pending

\* The time is up, and wait() denies unless somebody was faster.
LEMMA Expires ==
  ASSUME Inv, TypeOK', NEW r \in Requests, pc[r] = "expire",
         appr' = Resolved(r, Expired),
         NEW step \in {"read", "raised"}, pc' = [pc EXCEPT ![r] = step],
         UNCHANGED <<asked, waiter, msg, click>>, faults' = 0 => faults = 0
  PROVE  Inv'
<1>1. msg[r] = "live"
  BY DEF Inv, RowFits, InWait
<1>2. \A q, e : Backed(q, e) => Backed(q, e)'
  BY DEF Backed, Approves
<1>3. Expired \in Decision /\ Backed(r, Expired)'
  BY Values DEF Backed, Expired
<1>4. \A q \in Requests : IF q = r THEN pc'[q] = step ELSE pc'[q] = pc[q]
  BY DEF Inv, TypeOK
<1>5. /\ \A q \in Requests : q # r \/ ~ Pending(q) => appr'[q] = appr[q]
      /\ \A q \in Requests :
           appr[q].status = "pending" => appr'[q].status \in {"pending", "resolved"}
      /\ \A q \in Requests : RowFits(q)' /\ ShownFits(q)' /\ WellDecided(q)'
      /\ RetiredIsDecided'
  BY <1>1, <1>2, <1>3, <1>4, RowDecided
<1>6. ASSUME NEW c \in Clicks PROVE ClickFits(c)'
  <2>1. click[c].pc # "free" => click[c].id \in Requests
    BY Pressed DEF Inv, Click
  <2>2. QED
    BY <1>5, <2>1 DEF Inv, ClickFits, DecisionBy, Approves, Pending
<1>7. ButtonsWork'
  <2>1. \A c \in Clicks : click[c].pc = "told" => click[c].id \in Requests
    BY Pressed DEF Inv, Click
  <2>2. QED
    BY <1>5, <2>1 DEF Inv, ButtonsWork, Pending
<1>8. NoLostWakeup'
  BY <1>4, <1>5 DEF Inv, NoLostWakeup, Pending, waiter
<1>9. ToldWhatTheAgentIsTold'
  BY <1>4 DEF Inv, ToldWhatTheAgentIsTold, DecisionBy, Approves, waiter
<1>10. QED
  BY <1>5, <1>6, <1>7, <1>8, <1>9 DEF Inv

\* An approver decides, and is on the way to say so or fails.
LEMMA ClickDecides ==
  ASSUME Inv, TypeOK', NEW k \in Clicks, click[k].pc = "resolve", Serves(k),
         appr' = Resolved(click[k].id, DecisionBy(k)), click'[k].result = "none",
         \/ click'[k].pc = "notify" /\ Pending(click[k].id)
         \/ click'[k].pc = "told" /\ faults' # 0,
         UNCHANGED <<pc, asked, waiter, msg>>, faults' = 0 => faults = 0
  PROVE  Inv'
<1>1. PICK r \in Requests : r = click[k].id
  BY Pressed DEF Inv, Click
<1>2. msg[r] # "none" /\ appr[r].status # "pruned" /\ click[k].user \in asked[r]
  BY <1>1 DEF Inv, ClickFits
<1>3. /\ \A e \in Clicks :
           /\ click'[e].pc # "free" <=> click[e].pc # "free"
           /\ click'[e].id = click[e].id /\ click'[e].user = click[e].user
           /\ DecisionBy(e)' = DecisionBy(e) /\ Approves(e)' = Approves(e)
      /\ \A q, d : Backed(q, d) => Backed(q, d)'
  BY Serving
<1>4. PICK d \in Decision : d = DecisionBy(k)
  BY Pressed DEF Inv
<1>5. /\ \A q \in Requests : q # r \/ ~ Pending(q) => appr'[q] = appr[q]
      /\ \A q \in Requests :
           appr[q].status = "pending" => appr'[q].status \in {"pending", "resolved"}
      /\ Pending(r) => appr'[r].status = "resolved" /\ appr'[r].decided = DecisionBy(k)
      /\ \A q \in Requests : RowFits(q)' /\ ShownFits(q)' /\ WellDecided(q)'
      /\ RetiredIsDecided'
  <2>1. appr' = Resolved(r, d)
    BY <1>1, <1>4
  <2>2. Backed(r, d)'
    <3>1. d.approved => Approves(k)
      BY <1>4 DEF DecisionBy
    <3>2. click'[k].id = r /\ click'[k].user \in asked'[r] /\ click'[k].pc # "free"
      BY <1>1, <1>2, <1>3
    <3>3. QED
      BY <1>3, <3>1, <3>2 DEF Backed
  <2>3. QED
    BY <1>1, <1>2, <1>3, <1>4, <2>1, <2>2, RowDecided
<1>6. ASSUME NEW c \in Clicks PROVE ClickFits(c)'
  <2>1. click[c].pc # "free" => click[c].id \in Requests
    BY Pressed DEF Inv, Click
  <2>2. CASE c = k
    BY <1>1, <1>2, <1>3, <1>5, <2>2 DEF ClickFits
  <2>3. CASE c # k
    <3>1. click'[c] = click[c]
      BY <2>3 DEF Serves
    <3>2. QED
      BY <1>3, <1>5, <2>1, <3>1 DEF Inv, ClickFits, Pending
  <2>4. QED
    BY <2>2, <2>3
<1>7. ButtonsWork'
  <2>1. ASSUME NEW c \in Clicks, click'[c].pc = "told",
               click'[c].result \in {"gone", "unauthorized"}
        PROVE  c # k /\ click'[c] = click[c] /\ click[c].id \in Requests
    BY <2>1, Pressed DEF Inv, Serves, Click
  <2>2. QED
    BY <1>5, <2>1 DEF Inv, ButtonsWork, Pending
<1>8. NoLostWakeup'
  <2>1. ASSUME NEW q \in Requests, faults' = 0, pc[q] = "wait", ~ Pending(q)', q # r,
               ~ woken[q], ~ mail[q]
        PROVE  \E c \in Clicks : click'[c].pc = "notify" /\ click'[c].id = q
    <3>1. PICK c \in Clicks : click[c].pc = "notify" /\ click[c].id = q
      BY <1>5, <2>1 DEF Inv, NoLostWakeup, Pending
    <3>2. QED
      BY <3>1 DEF Serves
  <2>2. ASSUME faults' = 0, ~ Pending(r)'
        PROVE  \E c \in Clicks : click'[c].pc = "notify" /\ click'[c].id = r
    BY <1>1, <1>3, <2>2
  <2>3. ASSUME NEW q \in Requests, faults' = 0, pc'[q] = "wait", ~ Pending(q)'
        PROVE  \/ woken'[q] \/ mail'[q]
               \/ \E c \in Clicks : click'[c].pc = "notify" /\ click'[c].id = q
    BY <2>1, <2>2, <2>3 DEF waiter
  <2>4. QED
    BY <2>3 DEF NoLostWakeup
<1>9. ToldWhatTheAgentIsTold'
  <2>1. ASSUME NEW c \in Clicks, click'[c].pc = "told",
               click'[c].result \in {"approved", "denied"}
        PROVE  c # k /\ click'[c] = click[c]
    BY <2>1 DEF Serves
  <2>2. QED
    BY <1>3, <2>1 DEF Inv, ToldWhatTheAgentIsTold, waiter
<1>10. QED
  BY <1>5, <1>6, <1>7, <1>8, <1>9 DEF Inv

\* A step of request() on its own: where it stands, its message and its wake-ups.
LEMMA RequestAlone ==
  ASSUME Inv, TypeOK', NEW r \in Requests,
         \/ Refuse(r) \/ Post(r) \/ Posted(r) \/ Listen(r) \/ Wake(r) \/ TimeOut(r)
         \/ Retire(r) \/ FindsItDropped(r) \/ Heard(r) \/ RequestRaises(r) \/ Drop(r)
  PROVE  Inv'
<1> USE DEF waiter, Goto, InWait, Ends
<1>1. CASE Refuse(r)
  <2>1. RowFits(r)' /\ ShownFits(r)'
    BY <1>1 DEF Inv, TypeOK, RowFits, ShownFits, Refuse
  <2>2. QED
    BY <1>1, <2>1, RequestMoves DEF Inv, TypeOK, RowFits, Refuse
<1>2. CASE Post(r)
  <2>1. RowFits(r)' /\ ShownFits(r)'
    BY <1>2 DEF Inv, TypeOK, RowFits, ShownFits, Post
  <2>2. QED
    BY <1>2, <2>1, RequestMoves DEF Inv, TypeOK, Post
<1>3. CASE Posted(r)
  <2>1. RowFits(r)' /\ ShownFits(r)'
    BY <1>3 DEF Inv, TypeOK, RowFits, ShownFits, Posted
  <2>2. QED
    BY <1>3, <2>1, RequestMoves DEF Inv, TypeOK, Posted
<1>4. CASE Listen(r)
  <2>1. RowFits(r)' /\ ShownFits(r)'
    BY <1>4 DEF Inv, TypeOK, RowFits, ShownFits, Listen
  <2>2. QED
    BY <1>4, <2>1, RequestMoves DEF Inv, TypeOK, Listen
<1>5. CASE Wake(r)
  <2>1. RowFits(r)' /\ ShownFits(r)'
    BY <1>5 DEF Inv, TypeOK, RowFits, ShownFits, Wake
  <2>2. QED
    BY <1>5, <2>1, RequestMoves DEF Inv, TypeOK, Wake
<1>6. CASE TimeOut(r)
  <2>1. RowFits(r)' /\ ShownFits(r)'
    BY <1>6 DEF Inv, TypeOK, RowFits, ShownFits, TimeOut
  <2>2. QED
    BY <1>6, <2>1, RequestMoves DEF Inv, TypeOK, TimeOut
<1>7. CASE Retire(r)
  <2>1. RowFits(r)' /\ ShownFits(r)'
    BY <1>7, Fails DEF Inv, TypeOK, RowFits, ShownFits, Retire
  <2>2. QED
    BY <1>7, <2>1, RequestMoves, Fails DEF Inv, TypeOK, Retire
<1>8. CASE FindsItDropped(r)
  <2>1. RowFits(r)' /\ ShownFits(r)'
    BY <1>8, Undone DEF Inv, TypeOK, RowFits, ShownFits, FindsItDropped
  <2>2. QED
    BY <1>8, <2>1, RequestMoves, Undone DEF Inv, TypeOK, FindsItDropped
<1>9. CASE Heard(r)
  <2>1. RowFits(r)' /\ ShownFits(r)'
    BY <1>9 DEF Inv, TypeOK, RowFits, ShownFits, Heard, Listening
  <2>2. QED
    BY <1>9, <2>1, RequestMoves DEF Inv, TypeOK, Heard
<1>10. CASE RequestRaises(r)
  <2>1. RowFits(r)' /\ ShownFits(r)'
    BY <1>10, Undone, Fails DEF Inv, TypeOK, RowFits, ShownFits, RequestRaises
  <2>2. QED
    BY <1>10, <2>1, RequestMoves, Undone, Fails DEF Inv, TypeOK, RequestRaises
<1>11. CASE Drop(r)
  <2>1. RowFits(r)' /\ ShownFits(r)'
    BY <1>11, Fails DEF Inv, TypeOK, RowFits, ShownFits, Drop, Listening
  <2>2. QED
    BY <1>11, <2>1, RequestMoves, Fails DEF Inv, TypeOK, Drop
<1>12. QED
  BY <1>1, <1>2, <1>3, <1>4, <1>5, <1>6, <1>7, <1>8, <1>9, <1>10, <1>11

LEMMA Asks ==
  ASSUME Inv, TypeOK', NEW r \in Requests, Ask(r)
  PROVE  Inv'
<1>1. /\ pc[r] = "new" /\ pc'[r] \in {"refuse", "create"}
      /\ \A q \in Requests : q # r => pc'[q] = pc[q] /\ asked'[q] = asked[q]
      /\ UNCHANGED <<appr, at, waiter, msg, pending, click, faults>>
  BY DEF Inv, TypeOK, Ask, Goto
<1>2. /\ msg[r] = "none" /\ appr[r].status = "absent" /\ ~ decision[r].approved
      /\ \A c \in Clicks : click[c].pc # "free" => click[c].id # r
  BY <1>1, Unclicked DEF Inv, RowFits
<1>3. ASSUME NEW q \in Requests PROVE RowFits(q)' /\ ShownFits(q)' /\ WellDecided(q)'
  BY <1>1, <1>2
  DEF Inv, RowFits, ShownFits, WellDecided, Backed, Approves, waiter, InWait, Ends
<1>4. ASSUME NEW c \in Clicks PROVE ClickFits(c)'
  BY <1>1, <1>2, Pressed DEF Inv, ClickFits, DecisionBy, Approves, waiter, Click
<1>5. ButtonsWork'
  BY <1>1, <1>2, Pressed DEF Inv, ButtonsWork, Click
<1>6. NoLostWakeup' /\ RetiredIsDecided'
  BY <1>1 DEF Inv, NoLostWakeup, RetiredIsDecided, Pending, waiter
<1>7. ToldWhatTheAgentIsTold'
  BY <1>1 DEF Inv, ToldWhatTheAgentIsTold, DecisionBy, Approves, waiter
<1>8. QED
  BY <1>3, <1>4, <1>5, <1>6, <1>7 DEF Inv

\* The retention window is over: nobody waits for the row or serves a click on it.
LEMMA Prunes ==
  ASSUME Inv, TypeOK', NEW r \in Requests, Prune(r)
  PROVE  Inv'
<1>1. /\ appr'[r].status = "pruned" /\ appr[r].status = "resolved" /\ pc[r] \in Ends
      /\ \A q \in Requests : q # r => appr'[q] = appr[q]
      /\ UNCHANGED <<at, pc, asked, waiter, msg, pending, click, faults>>
  BY DEF Inv, TypeOK, Prune, Row, NoRow
<1>2. \A c \in Clicks : click[c].pc \in ClickSteps => click[c].id # r
  BY DEF Prune, InFlight
<1>3. ASSUME NEW q \in Requests PROVE RowFits(q)' /\ ShownFits(q)' /\ WellDecided(q)'
  BY <1>1
  DEF Inv, RowFits, ShownFits, WellDecided, Backed, Approves, waiter, InWait, Ends
<1>4. ASSUME NEW c \in Clicks PROVE ClickFits(c)'
  BY <1>1, <1>2, Pressed
  DEF Inv, ClickFits, DecisionBy, Approves, waiter, Click, ClickSteps
<1>5. ButtonsWork'
  BY <1>1, Pressed DEF Inv, ButtonsWork, Click
<1>6. NoLostWakeup' /\ RetiredIsDecided'
  BY <1>1 DEF Inv, NoLostWakeup, RetiredIsDecided, Pending, waiter, Ends
<1>7. ToldWhatTheAgentIsTold'
  BY <1>1 DEF Inv, ToldWhatTheAgentIsTold, DecisionBy, Approves, waiter
<1>8. QED
  BY <1>3, <1>4, <1>5, <1>6, <1>7 DEF Inv

LEMMA Presses ==
  ASSUME Inv, TypeOK', NEW k \in Clicks, Press(k)
  PROVE  Inv'
<1>1. /\ click[k].pc = "free" /\ click'[k].pc = "lookup" /\ click'[k].result = "none"
      /\ msg[click'[k].id] = "live"
      /\ \A e \in Clicks : e # k => click'[e] = click[e]
      /\ UNCHANGED <<appr, at, pc, asked, waiter, msg, pending, faults>>
  BY DEF Inv, TypeOK, Press
<1>2. ASSUME NEW q \in Requests PROVE RowFits(q)' /\ ShownFits(q)'
  BY <1>1 DEF Inv, RowFits, ShownFits, waiter
<1>3. ASSUME NEW q, NEW d, Backed(q, d) PROVE Backed(q, d)'
  BY <1>1, <1>3 DEF Backed, Approves
<1>4. ASSUME NEW q \in Requests PROVE WellDecided(q)'
  <2>1. PICK d, e : d = appr[q].decided /\ e = decision[q]
    OBVIOUS
  <2>2. Backed(q, e)' /\ (appr[q].status = "resolved" => Backed(q, d)')
    BY <1>3, <2>1 DEF Inv, WellDecided
  <2>3. QED
    BY <1>1, <2>1, <2>2 DEF WellDecided, Backed, waiter
<1>5. ASSUME NEW c \in Clicks PROVE ClickFits(c)'
  BY <1>1 DEF Inv, ClickFits, DecisionBy, Approves, waiter
<1>6. ButtonsWork' /\ RetiredIsDecided'
  BY <1>1 DEF Inv, ButtonsWork, RetiredIsDecided, waiter
<1>7. NoLostWakeup'
  BY <1>1 DEF Inv, NoLostWakeup, Pending, waiter
<1>8. ToldWhatTheAgentIsTold'
  BY <1>1 DEF Inv, ToldWhatTheAgentIsTold, DecisionBy, Approves, waiter
<1>9. QED
  BY <1>2, <1>4, <1>5, <1>6, <1>7, <1>8 DEF Inv

\* A worker's requests and clicks end where they are.
LEMMA Crashes ==
  ASSUME Inv, TypeOK', NEW w \in Workers, Crash(w)
  PROVE  Inv'
<1>1. /\ UNCHANGED <<appr, at, asked, waiter, msg>> /\ faults' # 0
      /\ \A q \in Requests : pc'[q] = pc[q] \/ pc'[q] = "dead"
      /\ \A q \in Requests : pc'[q] = "dead" => pc[q] = "dead" \/ pc[q] \in Steps \ {"new"}
  BY Fails DEF Inv, TypeOK, Crash
<1>2. ASSUME NEW e \in Clicks
      PROVE  \/ click'[e] = click[e]
             \/ /\ click[e].pc \in ClickSteps /\ click'[e].pc = "told"
                /\ click'[e].id = click[e].id /\ click'[e].user = click[e].user
                /\ click'[e].verb = click[e].verb /\ click'[e].result = "none"
  BY Pressed DEF Inv, Crash, InFlight, ClickSteps, ClickFits, Click
<1>3. \A e \in Clicks :
        /\ click'[e].pc # "free" <=> click[e].pc # "free"
        /\ click'[e].id = click[e].id /\ click'[e].user = click[e].user
        /\ DecisionBy(e)' = DecisionBy(e) /\ Approves(e)' = Approves(e)
        /\ click'[e].pc = "told" /\ click'[e].result # "none" => click'[e] = click[e]
        /\ click'[e].pc # "told" => click'[e] = click[e]
  BY <1>2 DEF DecisionBy, Approves, ClickSteps
<1>4. ASSUME NEW q \in Requests PROVE RowFits(q)' /\ ShownFits(q)'
  BY <1>1 DEF Inv, RowFits, ShownFits, waiter, InWait, Ends, Steps
<1>5. ASSUME NEW q \in Requests PROVE WellDecided(q)'
  BY <1>1, <1>3 DEF Inv, WellDecided, Backed, waiter
<1>6. ASSUME NEW c \in Clicks PROVE ClickFits(c)'
  BY <1>1, <1>2, <1>3 DEF Inv, ClickFits, ClickSteps, waiter
<1>7. ButtonsWork'
  BY <1>1, <1>2 DEF Inv, ButtonsWork, ClickSteps
<1>8. NoLostWakeup' /\ RetiredIsDecided'
  BY <1>1 DEF Inv, NoLostWakeup, RetiredIsDecided, waiter
<1>9. ToldWhatTheAgentIsTold'
  BY <1>1, <1>3 DEF Inv, ToldWhatTheAgentIsTold, waiter
<1>10. QED
  BY <1>4, <1>5, <1>6, <1>7, <1>8, <1>9 DEF Inv

\* A step of handle_action.
LEMMA ClickAlone ==
  ASSUME Inv, TypeOK', NEW k \in Clicks, ClickStep(k) \/ ClickRaises(k)
  PROVE  Inv'
<1> USE DEF waiter
<1>1. /\ click[k].pc \in ClickSteps /\ click[k].pc # "free" /\ click[k].result = "none"
      /\ click[k].id \in Requests /\ ClickFits(k)
      /\ click[k].pc # "lookup" => appr[click[k].id].status # "pruned"
  <2>1. click[k].pc \in ClickSteps
    BY DEF ClickStep, Lookup, Authorize, Resolve, Notify, ClickRaises, ClickSteps
  <2>2. QED
    BY <2>1, Pressed DEF Inv, Click, ClickSteps, ClickFits
<1>2. /\ msg[click[k].id] # "none" /\ appr[click[k].id].status # "absent"
      /\ appr[click[k].id].status \in {"pending", "resolved", "pruned"}
      /\ appr[click[k].id].status # "pruned" =>
           appr[click[k].id].approvers = asked[click[k].id]
  BY <1>1 DEF Inv, ClickFits, ShownFits
<1>3. CASE Lookup(k)
  <2>1. CASE appr[click[k].id].status = "pruned"
    <3>1. Serves(k) /\ click'[k].pc = "told" /\ click'[k].result = "gone"
      BY <1>1, <1>3, <2>1, Tells DEF Inv, Lookup
    <3>2. ClickFits(k)'
      BY <1>1, <1>2, <1>3, <3>1 DEF ClickFits, Lookup, Serves
    <3>3. QED
      BY <1>1, <1>3, <2>1, <3>1, <3>2, ClickMoves DEF Lookup
  <2>2. CASE appr[click[k].id].status # "pruned"
    <3>1. Serves(k) /\ click'[k].pc = "authorize" /\ click'[k].result = "none"
      BY <1>1, <1>2, <1>3, <2>2, Goes DEF Inv, Lookup, ClickSteps
    <3>2. ClickFits(k)'
      BY <1>1, <1>2, <1>3, <2>2, <3>1 DEF ClickFits, Lookup, Serves
    <3>3. QED
      BY <1>1, <1>3, <3>1, <3>2, ClickMoves DEF Lookup
  <2>3. QED
    BY <2>1, <2>2
<1>4. CASE Authorize(k)
  <2>1. appr[click[k].id].status # "pruned"
    BY <1>1, <1>4 DEF Authorize
  <2>2. CASE Authorized(k)
    <3>1. Serves(k) /\ click'[k].pc = "resolve" /\ click'[k].result = "none"
      BY <1>1, <1>4, <2>2, Goes DEF Inv, Authorize, ClickSteps
    <3>2. ClickFits(k)'
      BY <1>1, <1>2, <1>4, <2>1, <2>2, <3>1 DEF ClickFits, Authorize, Authorized, Serves
    <3>3. QED
      BY <1>1, <1>4, <3>1, <3>2, ClickMoves DEF Authorize
  <2>3. CASE ~ Authorized(k)
    <3>1. Serves(k) /\ click'[k].pc = "told" /\ click'[k].result = "unauthorized"
      BY <1>1, <1>4, <2>3, Tells DEF Inv, Authorize
    <3>2. ClickFits(k)'
      BY <1>1, <1>2, <1>4, <3>1 DEF ClickFits, Authorize, Serves
    <3>3. click[k].user \notin asked[click[k].id]
      BY <1>2, <2>1, <2>3 DEF Authorized
    <3>4. QED
      BY <1>1, <1>4, <3>1, <3>2, <3>3, ClickMoves DEF Authorize
  <2>4. QED
    BY <2>2, <2>3
<1>5. CASE Resolve(k)
  <2>1. CASE Pending(click[k].id)
    <3>1. Serves(k) /\ click'[k].pc = "notify" /\ click'[k].result = "none"
      BY <1>1, <1>5, <2>1, Goes DEF Inv, Resolve, ClickSteps
    <3>2. QED
      BY <1>5, <2>1, <3>1, ClickDecides DEF Resolve
  <2>2. CASE ~ Pending(click[k].id)
    <3>1. Serves(k) /\ click'[k].pc = "told" /\ click'[k].result = "gone"
      BY <1>1, <1>5, <2>2, Tells DEF Inv, Resolve
    <3>2. appr' = appr
      BY <1>5, <2>2 DEF Resolve, Resolved
    <3>3. ClickFits(k)'
      BY <1>1, <1>2, <1>5, <3>1, <3>2 DEF ClickFits, Resolve, Serves
    <3>4. appr[click[k].id].status \in {"resolved", "pruned"}
      BY <1>2, <2>2 DEF Pending
    <3>5. QED
      BY <1>1, <1>5, <3>1, <3>2, <3>3, <3>4, ClickMoves DEF Resolve
  <2>3. QED
    BY <2>1, <2>2
<1>6. CASE Notify(k)
  <2> DEFINE r == click[k].id
  <2>1. appr[r].status = "resolved" /\ appr[r].decided = DecisionBy(k)
    BY <1>1, <1>6 DEF ClickFits, Notify
  <2>2. Serves(k) /\ click'[k].pc = "told" /\ click'[k].result \in {"approved", "denied"}
    BY <1>1, <1>6, Tells, Verdicts DEF Inv, Notify
  <2>3. ClickFits(k)'
    BY <1>1, <1>2, <1>6, <2>1, <2>2
    DEF ClickFits, Notify, Serves, DecisionBy, Approves
  <2>4. /\ \A q \in Requests : q # r => mail'[q] = mail[q]
        /\ mail'[r] = (Listening(r) \/ mail[r])
    BY <1>1, <1>6 DEF Inv, TypeOK, Notify
  <2>5. /\ \A q \in Requests : mail[q] => mail'[q]
        /\ \A q \in Requests : mail'[q] => mail[q] \/ appr[q].status = "resolved"
    BY <2>1, <2>4
  <2>6. faults = 0 /\ pc[r] = "wait" => mail'[r]
    BY <1>1, <2>4 DEF Inv, ShownFits, Listening
  <2>7. UNCHANGED <<appr, pc, asked, decision, woken, deaf, msg, faults>>
    BY <1>6 DEF Notify
  <2>8. QED
    BY <1>1, <2>1, <2>2, <2>3, <2>5, <2>6, <2>7, ClickMoves
<1>7. CASE ClickRaises(k)
  <2>1. Serves(k) /\ click'[k].pc = "told" /\ click'[k].result = "none"
    BY <1>1, <1>7, Tells DEF Inv, ClickRaises
  <2>2. faults' # 0 /\ UNCHANGED <<pc, asked, waiter, msg>>
    BY <1>7, Fails DEF Inv, ClickRaises
  <2>3. CASE UNCHANGED appr
    <3>1. ClickFits(k)'
      BY <1>1, <1>2, <2>1, <2>2, <2>3 DEF ClickFits, Serves
    <3>2. QED
      BY <1>1, <2>1, <2>2, <2>3, <3>1, ClickMoves
  <2>4. CASE click[k].pc = "resolve" /\ appr' = Resolved(click[k].id, DecisionBy(k))
    BY <2>1, <2>2, <2>4, ClickDecides
  <2>5. QED
    BY <1>7, <2>3, <2>4 DEF ClickRaises
<1>8. QED
  BY <1>3, <1>4, <1>5, <1>6, <1>7 DEF ClickStep

\* The steps of request() that write its row, or read it to answer.
LEMMA RequestWrites ==
  ASSUME Inv, TypeOK', NEW r \in Requests,
         Create(r) \/ SetApprovers(r) \/ Check(r) \/ Expire(r) \/ Read(r) \/ AckLost(r)
  PROVE  Inv'
<1> USE DEF Goto, waiter
<1> DEFINE made == [NoRow EXCEPT !.status = "pending"]
           given == [appr[r] EXCEPT !.approvers = asked[r]]
<1>1. made.status = "pending"
  BY DEF NoRow
<1>2. given.approvers = asked[r] /\ given.status = appr[r].status
  BY DEF Inv, TypeOK, Row
<1>3. CASE Create(r)
  BY <1>1, <1>3, RowPrepared DEF Create
<1>4. CASE SetApprovers(r)
  <2>1. given.status = "pending"
    BY <1>2, <1>4 DEF Inv, RowFits, SetApprovers
  <2>2. appr' = [appr EXCEPT ![r] = given] /\ pc[r] = "approvers"
    BY <1>4 DEF SetApprovers
  <2> HIDE DEF given
  <2>3. QED
    BY <1>2, <1>4, <2>1, <2>2, RowPrepared DEF SetApprovers
<1>5. CASE Check(r)
  <2>1. CASE appr[r].status = "resolved"
    BY <1>5, <2>1, Answers DEF Check, Returns, DecisionOf
  <2>2. CASE appr[r].status # "resolved"
    <3>1. /\ pc[r] = "check" /\ pc' = [pc EXCEPT ![r] = "wait"]
          /\ UNCHANGED <<appr, asked, waiter, msg, click, faults>>
      BY <1>5, <2>2 DEF Check
    <3>2. Pending(r) /\ pc'[r] = "wait" /\ msg[r] = "live"
      BY <2>2, <3>1 DEF Inv, TypeOK, RowFits, ShownFits, Pending, InWait, Ends
    <3>3. RowFits(r)' /\ ShownFits(r)'
      BY <3>1, <3>2 DEF Inv, RowFits, ShownFits, Pending, InWait, Ends
    <3>4. QED
      BY <3>1, <3>2, <3>3, RequestMoves DEF Inv, TypeOK
  <2>3. QED
    BY <2>1, <2>2
<1>6. CASE Expire(r)
  BY <1>6, Expires DEF Expire
<1>7. CASE Read(r)
  <2>1. appr[r].status = "resolved"
    BY <1>7 DEF Inv, RowFits, Read
  <2>2. QED
    BY <1>7, <2>1, Answers DEF Read, Returns, DecisionOf
<1>8. CASE AckLost(r)
  <2>1. faults' # 0 /\ pc' = [pc EXCEPT ![r] = "raised"]
    BY <1>8, Fails, Undone DEF Inv, AckLost
  <2>2. UNCHANGED <<asked, waiter, click>>
    BY <1>8 DEF AckLost
  <2>3. CASE pc[r] = "create" /\ appr' = [appr EXCEPT ![r] = made] /\ UNCHANGED msg
    BY <1>1, <2>1, <2>2, <2>3, RowPrepared
  <2>4. CASE pc[r] = "approvers" /\ appr' = [appr EXCEPT ![r] = given] /\ UNCHANGED msg
    <3>1. given.status = "pending"
      BY <1>2, <2>4 DEF Inv, RowFits
    <3> HIDE DEF given
    <3>2. QED
      BY <1>2, <2>1, <2>2, <2>4, <3>1, RowPrepared
  <2>5. CASE pc[r] = "post" /\ msg' = [msg EXCEPT ![r] = "live"] /\ UNCHANGED appr
    <3>1. RowFits(r)' /\ ShownFits(r)'
      BY <2>1, <2>2, <2>5 DEF Inv, TypeOK, RowFits, ShownFits, InWait, Ends
    <3>2. QED
      BY <2>1, <2>2, <2>5, <3>1, RequestMoves DEF Inv, TypeOK
  <2>6. CASE pc[r] = "expire" /\ appr' = Resolved(r, Expired) /\ UNCHANGED msg
    BY <2>1, <2>2, <2>6, Expires
  <2>7. QED
    BY <1>8, <2>3, <2>4, <2>5, <2>6 DEF AckLost
<1>9. QED
  BY <1>3, <1>4, <1>5, <1>6, <1>7, <1>8

LEMMA Invariance == ASSUME Inv, [Next]_vars PROVE Inv'
<1>1. TypeOK'
  BY TypePreserved DEF Inv
<1>2. CASE UNCHANGED vars
  BY <1>2
  DEF Inv, TypeOK, RowFits, ShownFits, WellDecided, Backed, ClickFits, ButtonsWork,
    NoLostWakeup, RetiredIsDecided, ToldWhatTheAgentIsTold, DecisionBy, Approves, Pending,
    vars
<1>3. ASSUME NEW r \in Requests, Ask(r) \/ Prune(r) PROVE Inv'
  BY <1>1, <1>3, Asks, Prunes
<1>4. ASSUME NEW r \in Requests,
             RequestStep(r) \/ Heard(r) \/ RequestRaises(r) \/ AckLost(r) \/ Drop(r)
      PROVE  Inv'
  BY <1>1, <1>4, RequestAlone, RequestWrites DEF RequestStep
<1>5. ASSUME NEW c \in Clicks, Press(c) \/ ClickStep(c) \/ ClickRaises(c) PROVE Inv'
  BY <1>1, <1>5, Presses, ClickAlone
<1>6. ASSUME NEW w \in Workers, Crash(w) PROVE Inv'
  BY <1>1, <1>6, Crashes
<1>7. QED
  BY <1>2, <1>3, <1>4, <1>5, <1>6 DEF Next

LEMMA Invariant == Spec => []Inv
<1>1. ASSUME Init PROVE Inv
  <2>1. NoRow \in Row
    BY Values DEF NoRow, Row
  <2>2. TypeOK
    BY <1>1, <2>1, Values, ConstantsAssumption DEF Init, TypeOK, Steps
  <2>3. ASSUME NEW r \in Requests PROVE RowFits(r) /\ ShownFits(r) /\ WellDecided(r)
    BY <1>1
    DEF Init, RowFits, ShownFits, WellDecided, Backed, NoRow, Expired, InWait, Ends
  <2>4. \A c \in Clicks : click[c].pc = "free"
    BY <1>1 DEF Init, Unpressed
  <2>5. QED
    BY <1>1, <2>2, <2>3, <2>4
    DEF Init, Inv, ClickFits, ButtonsWork, NoLostWakeup, RetiredIsDecided,
      ToldWhatTheAgentIsTold
<1>2. QED
  BY <1>1, Invariance, PTL DEF Spec

\* The table, the requests and the clicks have their types.
THEOREM TypeCorrect == Spec => []TypeOK
<1>1. Inv => TypeOK
  BY DEF Inv
<1>2. QED
  BY <1>1, Invariant, PTL

\* A risky call runs only because somebody whom request() selected approved it: a
\* decision in favour, in the row or in the worker, always has such a click behind it.
THEOREM OnlyOnApproval == Spec => []RunsOnApproval
<1>1. Inv => RunsOnApproval
  BY DEF Inv, WellDecided, Backed, Runs, RunsOnApproval
<1>2. QED
  BY <1>1, Invariant, PTL

\* What handle_action tells a clicker is what the waiting agent gets, whoever is faster.
THEOREM TellsTheOutcome == Spec => []ToldWhatTheAgentIsTold
<1>1. Inv => ToldWhatTheAgentIsTold
  BY DEF Inv
<1>2. QED
  BY <1>1, Invariant, PTL

\* A shown button finds its row and its approvers (request: create and set_approvers
\* before post).
THEOREM ShownButtonsWork == Spec => []ButtonsWork
<1>1. Inv => ButtonsWork
  BY DEF Inv
<1>2. QED
  BY <1>1, Invariant, PTL

\* A decision reaches the worker that sleeps on it (wait: LISTEN before the first look).
THEOREM NoWakeupIsLost == Spec => []NoLostWakeup
<1>1. Inv => NoLostWakeup
  BY DEF Inv
<1>2. QED
  BY <1>1, Invariant, PTL

\* A message says what its row says (_retire after wait).
THEOREM RetiresWhatIsDecided == Spec => []RetiredIsDecided
<1>1. Inv => RetiredIsDecided
  BY DEF Inv
<1>2. QED
  BY <1>1, Invariant, PTL
-----------------------------------------------------------------------------
(* The refinement: what each step is to the ledger. *)

\* The ledger does not tell a row that is not there from one that is pending.
SameVerdict(r) ==
  \/ appr'[r] = appr[r]
  \/ {appr[r].status, appr'[r].status} \subseteq {"absent", "pending"}

SameOutcome(r) ==
  \/ pc'[r] = pc[r] /\ decision'[r] = decision[r]
  \/ pc[r] \notin Ends /\ pc'[r] \notin Ends

Sees == <<asked, [r \in Requests |-> VerdictOf(appr[r])], [r \in Requests |-> OutcomeOf(r)]>>

LEMMA Seen ==
  ASSUME NEW r \in Requests
  PROVE  /\ SameVerdict(r) => VerdictOf(appr[r])' = VerdictOf(appr[r])
         /\ SameOutcome(r) => OutcomeOf(r)' = OutcomeOf(r)
<1>1. SameVerdict(r) => VerdictOf(appr[r])' = VerdictOf(appr[r])
  BY DEF SameVerdict, VerdictOf
<1>2. SameOutcome(r) => OutcomeOf(r)' = OutcomeOf(r)
  BY DEF SameOutcome, OutcomeOf, Runs, Ends
<1>3. QED
  BY <1>1, <1>2

LEMMA Undecided ==
  ASSUME NEW row, row.status \in {"absent", "pending"}
  PROVE  VerdictOf(row) = Ledger!Open
<1>1. row.status # "resolved" /\ row.status # "pruned"
  OBVIOUS
<1>2. QED
  BY <1>1 DEF VerdictOf, Ledger!Open

LEMMA Stutters ==
  ASSUME UNCHANGED asked, \A r \in Requests : SameVerdict(r) /\ SameOutcome(r)
  PROVE  UNCHANGED Sees
  BY Seen DEF Sees

LEMMA GivesUp ==
  ASSUME UNCHANGED asked, \A r \in Requests : SameVerdict(r),
         NEW rs \in SUBSET Requests,
         \A r \in rs : pc[r] \notin Ends /\ pc'[r] \in {"raised", "dead"},
         \A r \in Requests \ rs : SameOutcome(r)
  PROVE  Ledger!GiveUp
<1>1. \A r \in rs : OutcomeOf(r) = "asking" /\ OutcomeOf(r)' = "refused"
  BY DEF OutcomeOf, Runs, Ends
<1>2. \A r \in Requests \ rs : OutcomeOf(r)' = OutcomeOf(r)
  BY Seen
<1>3. \A r \in Requests : VerdictOf(appr[r])' = VerdictOf(appr[r])
  BY Seen
<1>4. QED
  BY <1>1, <1>2, <1>3 DEF Ledger!GiveUp

\* The row is decided, by somebody who may, while the agent waits or has given up.
LEMMA DecidesOnce ==
  ASSUME Inv, NEW r \in Requests, NEW d \in Decision, appr' = Resolved(r, d),
         d.by \in asked[r] \/ (d.by = System /\ ~ d.approved),
         UNCHANGED asked, \A q \in Requests : SameOutcome(q)
  PROVE  Ledger!Decide(r) \/ UNCHANGED Sees
<1>1. CASE ~ Pending(r)
  BY <1>1, Stutters DEF Resolved, SameVerdict
<1>2. CASE Pending(r)
  <2>1. VerdictOf(appr[r]) = Ledger!Open /\ VerdictOf(appr[r])' = d
    BY <1>2, Decides DEF Inv, VerdictOf, Ledger!Open, Pending
  <2>2. \A q \in Requests : q # r => VerdictOf(appr[q])' = VerdictOf(appr[q])
    BY Decides, Seen DEF Inv, SameVerdict
  <2>3. \A q \in Requests : OutcomeOf(q)' = OutcomeOf(q)
    BY Seen
  <2>4. d \in Ledger!Decision
    BY DEF Decision, Deciders, Ledger!Decision
  <2>5. QED
    BY <2>1, <2>2, <2>3, <2>4 DEF Ledger!Decide
<1>3. QED
  BY <1>1, <1>2

\* request() returns: the agent acts on what the row says.
LEMMA ActsOnIt ==
  ASSUME Inv, NEW r \in Requests, pc[r] \in {"refuse", "retire"},
         pc' = [pc EXCEPT ![r] = "done"], UNCHANGED <<appr, asked, decision>>
  PROVE  Ledger!Act(r)
<1>1. VerdictOf(appr[r]).approved = decision[r].approved
  BY Unclicked DEF Inv, RowFits, VerdictOf, TypeOK, Decision
<1>2. /\ OutcomeOf(r) = "asking"
      /\ OutcomeOf(r)' = IF VerdictOf(appr[r]).approved THEN "ran" ELSE "refused"
  BY <1>1 DEF Inv, TypeOK, OutcomeOf, Runs, Ends
<1>3. \A q \in Requests : q # r => OutcomeOf(q)' = OutcomeOf(q)
  BY Seen DEF Inv, TypeOK, SameOutcome
<1>4. QED
  BY <1>2, <1>3, Seen DEF Ledger!Act, SameVerdict

\* A request that raises gives up, alone; nobody else's row is touched.
LEMMA RaisesOut ==
  ASSUME Inv, NEW r \in Requests, pc[r] \notin Ends, Raises(r),
         UNCHANGED <<asked, decision>>, \A q \in Requests : SameVerdict(q)
  PROVE  Ledger!GiveUp
<1>1. pc' = [pc EXCEPT ![r] = "raised"]
  BY Undone DEF Inv
<1>2. \A q \in Requests \ {r} : SameOutcome(q)
  BY <1>1 DEF Inv, TypeOK, SameOutcome
<1>3. {r} \in SUBSET Requests /\ \A q \in {r} : pc[q] \notin Ends /\ pc'[q] = "raised"
  BY <1>1 DEF Inv, TypeOK
<1>4. QED
  BY <1>2, <1>3, GivesUp

\* A row in the making stays undecided.
LEMMA Prepares ==
  ASSUME Inv, NEW r \in Requests,
         \/ /\ pc[r] = "create"
            /\ appr' = [appr EXCEPT ![r] = [NoRow EXCEPT !.status = "pending"]]
         \/ /\ pc[r] = "approvers"
            /\ appr' = [appr EXCEPT ![r] = [@ EXCEPT !.approvers = asked[r]]]
  PROVE  \A q \in Requests : SameVerdict(q)
<1>1. appr[r].status \in {"absent", "pending"}
  BY DEF Inv, RowFits
<1>2. appr'[r].status = "pending"
  <2>1. [NoRow EXCEPT !.status = "pending"].status = "pending"
    BY DEF NoRow
  <2>2. pc[r] = "approvers" =>
          [appr[r] EXCEPT !.approvers = asked[r]].status = "pending"
    BY DEF Inv, TypeOK, RowFits, Row
  <2>3. QED
    BY <2>1, <2>2 DEF Inv, TypeOK
<1>3. \A q \in Requests : q # r => appr'[q] = appr[q]
  BY DEF Inv, TypeOK
<1>4. QED
  BY <1>1, <1>2, <1>3 DEF SameVerdict

LEMMA RequestRefines ==
  ASSUME Inv, NEW r \in Requests,
         Ask(r) \/ RequestStep(r) \/ Heard(r) \/ RequestRaises(r) \/ AckLost(r) \/ Drop(r)
         \/ Prune(r)
  PROVE  Ledger!Next \/ UNCHANGED Sees
<1> DEFINE Step(q) == Ledger!Put(q) \/ Ledger!Decide(q) \/ Ledger!Lapse(q)
                      \/ Ledger!Act(q) \/ Ledger!Forget(q)
<1>1. SUFFICES Step(r) \/ Ledger!GiveUp \/ UNCHANGED Sees
  BY DEF Ledger!Next
<1>2. CASE Ask(r)
  <2>1. /\ asked[r] = {} /\ appr[r].status = "absent" /\ pc[r] = "new"
        /\ \A q \in Requests : SameVerdict(q) /\ SameOutcome(q)
    BY <1>2 DEF Inv, TypeOK, RowFits, Ask, Goto, SameVerdict, SameOutcome, waiter, Ends
  <2>2. PICK us \in SUBSET Users : asked' = [asked EXCEPT ![r] = us]
    BY <1>2, Selected DEF Ask
  <2>3. VerdictOf(appr[r]) = Ledger!Open /\ OutcomeOf(r) = "asking"
    BY <2>1, Undecided DEF OutcomeOf, Runs, Ends
  <2>4. Ledger!Put(r)
    BY <2>1, <2>2, <2>3, Seen DEF Ledger!Put
  <2>5. QED
    BY <2>4
<1>3. CASE \/ SetApprovers(r) \/ Post(r) \/ Posted(r) \/ Listen(r) \/ Check(r)
           \/ Wake(r) \/ TimeOut(r) \/ Read(r) \/ Heard(r) \/ Drop(r) \/ Create(r)
  <2>1. \A q \in Requests : SameVerdict(q)
    <3>1. CASE Create(r)
      BY <3>1, Prepares DEF Create
    <3>2. CASE SetApprovers(r)
      BY <3>2, Prepares DEF SetApprovers
    <3>3. CASE UNCHANGED appr
      BY <3>3 DEF SameVerdict
    <3>4. QED
      BY <1>3, <3>1, <3>2, <3>3
      DEF Post, Posted, Listen, Check, Wake, TimeOut, Read, Heard, Drop
  <2>2. \A q \in Requests : SameOutcome(q)
    BY <1>3
    DEF SetApprovers, Post, Posted, Listen, Check, Wake, TimeOut, Read, Heard, Drop,
      Create, Returns, SameOutcome, Inv, TypeOK, Goto, Ends, waiter
  <2>3. UNCHANGED asked
    BY <1>3
    DEF SetApprovers, Post, Posted, Listen, Check, Wake, TimeOut, Read, Heard, Drop,
      Create
  <2>4. QED
    BY <2>1, <2>2, <2>3, Stutters
<1>4. CASE Refuse(r) \/ Retire(r)
  BY <1>4, ActsOnIt DEF Refuse, Retire, Goto, waiter
<1>5. CASE Expire(r)
  <2>1. \A q \in Requests : SameOutcome(q)
    BY <1>5 DEF Inv, TypeOK, Expire, Goto, SameOutcome, Ends, waiter
  <2>2. Expired.by = System /\ ~ Expired.approved
    BY DEF Expired
  <2>3. QED
    BY <1>5, <2>1, <2>2, Values, DecidesOnce DEF Expire
<1>6. CASE RequestRaises(r) \/ FindsItDropped(r)
  <2>1. \A q \in Requests : SameVerdict(q)
    BY <1>6 DEF RequestRaises, FindsItDropped, SameVerdict
  <2>2. QED
    BY <1>6, <2>1, RaisesOut DEF RequestRaises, FindsItDropped, waiter, Ends, InWait
<1>7. CASE AckLost(r)
  <2>1. pc[r] \notin Ends /\ Raises(r) /\ UNCHANGED <<asked, decision>>
    BY <1>7 DEF AckLost, waiter, Ends
  <2>2. CASE pc[r] # "expire" \/ ~ Pending(r)
    <3>1. \A q \in Requests : SameVerdict(q)
      <4>1. CASE pc[r] \in {"create", "approvers"}
        BY <1>7, <4>1, Prepares DEF AckLost
      <4>2. CASE UNCHANGED appr
        BY <4>2 DEF SameVerdict
      <4>3. QED
        BY <1>7, <2>2, <4>1, <4>2 DEF AckLost, Resolved
    <3>2. QED
      BY <2>1, <3>1, RaisesOut
  <2>3. CASE pc[r] = "expire" /\ Pending(r)
    <3>1. appr' = Resolved(r, Expired) /\ pc' = [pc EXCEPT ![r] = "raised"]
      BY <1>7, <2>1, <2>3, Undone DEF Inv, AckLost
    <3>2. VerdictOf(appr[r]) = Ledger!Open /\ VerdictOf(appr[r])' = Expired
      BY <2>3, <3>1, Values, Decides DEF Inv, VerdictOf, Ledger!Open, Pending
    <3>3. \A q \in Requests : q # r => SameVerdict(q) /\ SameOutcome(q)
      BY <2>1, <3>1, Values, Decides DEF Inv, TypeOK, SameVerdict, SameOutcome
    <3>4. OutcomeOf(r) = "asking" /\ OutcomeOf(r)' = "refused"
      BY <2>1, <3>1 DEF Inv, TypeOK, OutcomeOf, Runs, Ends
    <3>5. Expired \in Ledger!Decision /\ Expired.by = System /\ ~ Expired.approved
      BY DEF Expired, Scopes, Ledger!Decision
    <3>6. Ledger!Lapse(r)
      BY <2>1, <3>2, <3>3, <3>4, <3>5, Seen DEF Ledger!Lapse
    <3>7. QED
      BY <3>6
  <2>4. QED
    BY <2>2, <2>3
<1>8. CASE Prune(r)
  <2>1. /\ VerdictOf(appr[r]) \in Ledger!Decision
        /\ OutcomeOf(r) # "asking"
    BY <1>8
    DEF Inv, TypeOK, Prune, VerdictOf, OutcomeOf, Runs, Row, Decision, Deciders,
      Ledger!Decision
  <2>2. VerdictOf(appr[r])' = Ledger!Forgotten
    BY <1>8 DEF Inv, TypeOK, Prune, VerdictOf, NoRow, Ledger!Forgotten
  <2>3. /\ \A q \in Requests : q # r => SameVerdict(q)
        /\ \A q \in Requests : SameOutcome(q)
        /\ UNCHANGED asked
    BY <1>8 DEF Inv, TypeOK, Prune, SameVerdict, SameOutcome, waiter
  <2>4. Ledger!Forget(r)
    BY <2>1, <2>2, <2>3, Seen DEF Ledger!Forget
  <2>5. QED
    BY <2>4
<1>9. QED
  BY <1>2, <1>3, <1>4, <1>5, <1>6, <1>7, <1>8 DEF RequestStep

LEMMA ClickRefines ==
  ASSUME Inv, NEW c \in Clicks, Press(c) \/ ClickStep(c) \/ ClickRaises(c)
  PROVE  Ledger!Next \/ UNCHANGED Sees
<1>1. UNCHANGED asked /\ \A q \in Requests : SameOutcome(q)
  BY DEF Press, ClickStep, Lookup, Authorize, Resolve, Notify, ClickRaises, SameOutcome,
    waiter
<1>2. CASE UNCHANGED appr
  BY <1>1, <1>2, Stutters DEF SameVerdict
<1>3. CASE /\ click[c].pc = "resolve"
           /\ appr' = Resolved(click[c].id, DecisionBy(c))
  <2>1. click[c].id \in Requests /\ DecisionBy(c) \in Decision
    BY <1>3, Pressed DEF Inv, Click
  <2>2. DecisionBy(c).by \in asked[click[c].id]
    BY <1>3 DEF Inv, ClickFits, DecisionBy
  <2>3. QED
    BY <1>1, <1>3, <2>1, <2>2, DecidesOnce DEF Ledger!Next
<1>4. QED
  BY <1>2, <1>3
  DEF Press, ClickStep, Lookup, Authorize, Resolve, Notify, ClickRaises

LEMMA CrashRefines ==
  ASSUME Inv, NEW w \in Workers, Crash(w)
  PROVE  Ledger!Next
<1> DEFINE rs == {r \in Requests : at[r] = w /\ pc[r] \in Steps \ {"new"}}
<1>1. /\ UNCHANGED asked
      /\ \A r \in Requests : SameVerdict(r)
      /\ \A r \in Requests \ rs : SameOutcome(r)
  BY DEF Crash, SameVerdict, SameOutcome, waiter
<1>2. \A r \in rs : pc[r] \notin Ends /\ pc'[r] = "dead"
  BY DEF Crash, Steps, Ends, InWait
<1>3. Ledger!GiveUp
  <2> HIDE DEF rs
  <2>1. rs \in SUBSET Requests
    BY DEF rs
  <2>2. QED
    BY <1>1, <1>2, <2>1, GivesUp
<1>4. QED
  BY <1>3 DEF Ledger!Next

\* Requests, clicks, timeouts, prunes and crashes of all workers on the approvals table
\* are together one ledger in which a request is decided at most once and acted on as
\* decided (resolve and wait: UPDATE ... WHERE status = 'pending').
THEOREM KeepsTheLedger == Spec => ImplementsLedger
<1>1. Init => Ledger!Init
  <2>1. NoRow.status = "absent"
    BY DEF NoRow
  <2>2. QED
    BY <2>1, Undecided DEF Init, Ledger!Init, OutcomeOf, Runs, Ends
<1>2. Inv /\ [Next]_vars => Ledger!Next \/ UNCHANGED Sees
  <2>1. UNCHANGED vars => UNCHANGED Sees
    BY Stutters DEF vars, SameVerdict, SameOutcome
  <2>2. QED
    BY <2>1, RequestRefines, ClickRefines, CrashRefines DEF Next
<1>3. Inv /\ [Next]_vars => [Ledger!Next]_<<asked, [r \in Requests |-> VerdictOf(appr[r])],
                                           [r \in Requests |-> OutcomeOf(r)]>>
  BY <1>2 DEF Sees
<1>4. QED
  BY <1>1, <1>3, Invariant, PTL DEF Spec, ImplementsLedger, Ledger!Spec
-----------------------------------------------------------------------------
(* The counters. *)

Waiting(w) == {r \in Requests : at[r] = w /\ pc[r] \in InWait}

Counted == \A w \in Workers : /\ IsFiniteSet(Waiting(w))
                              /\ pending[w] = Cardinality(Waiting(w))

LEMMA CountStays ==
  ASSUME Counted, UNCHANGED <<at, pending>>,
         \A r \in Requests : pc'[r] \in InWait <=> pc[r] \in InWait
  PROVE  Counted'
<1>1. \A w \in Workers : Waiting(w)' = Waiting(w)
  BY DEF Waiting
<1>2. QED
  BY <1>1 DEF Counted

LEMMA CountLeaves ==
  ASSUME TypeOK, Counted, NEW r \in Requests, pc[r] \in InWait,
         NEW step \in {"retire", "raised"}, pc' = [pc EXCEPT ![r] = step],
         pending' = Unpended(at[r]), UNCHANGED at
  PROVE  Counted'
<1> DEFINE v == at[r]
<1>1. v \in Workers /\ r \in Waiting(v)
  BY DEF TypeOK, Waiting
<1>2. Waiting(v)' = Waiting(v) \ {r}
  BY DEF TypeOK, Waiting, InWait
<1>3. \A w \in Workers \ {v} : Waiting(w)' = Waiting(w) /\ pending'[w] = pending[w]
  BY DEF TypeOK, Waiting, Unpended
<1>4. /\ IsFiniteSet(Waiting(v) \ {r})
      /\ Cardinality(Waiting(v) \ {r}) = Cardinality(Waiting(v)) - 1
  BY <1>1, FS_RemoveElement DEF Counted
<1>5. Cardinality(Waiting(v) \ {r}) \in Nat /\ Cardinality(Waiting(v)) \in Nat
  BY <1>1, <1>4, FS_CardinalityType DEF Counted
<1>6. pending'[v] = Cardinality(Waiting(v)) - 1
  BY <1>1, <1>4, <1>5 DEF TypeOK, Counted, Unpended
<1>7. QED
  BY <1>2, <1>3, <1>4, <1>6 DEF Counted

LEMMA CountEnters ==
  ASSUME TypeOK, Counted, NEW r \in Requests, Posted(r)
  PROVE  Counted'
<1> DEFINE v == at[r]
<1>1. v \in Workers /\ r \notin Waiting(v)
  BY DEF TypeOK, Waiting, Posted, InWait
<1>2. Waiting(v)' = Waiting(v) \cup {r}
  BY DEF TypeOK, Waiting, Posted, Goto, InWait
<1>3. \A w \in Workers \ {v} : Waiting(w)' = Waiting(w) /\ pending'[w] = pending[w]
  BY DEF TypeOK, Waiting, Posted, Goto
<1>4. /\ IsFiniteSet(Waiting(v) \cup {r})
      /\ Cardinality(Waiting(v) \cup {r}) = Cardinality(Waiting(v)) + 1
  BY <1>1, FS_AddElement DEF Counted
<1>5. pending'[v] = Cardinality(Waiting(v)) + 1
  BY <1>1 DEF TypeOK, Counted, Posted
<1>6. UNCHANGED at
  BY DEF Posted
<1>7. QED
  BY <1>2, <1>3, <1>4, <1>5, <1>6 DEF Counted

\* A raise inside the `try` of request() gives up a wait, one before it has none.
LEMMA CountRaises ==
  ASSUME TypeOK, Counted, NEW r \in Requests, pc[r] \in Steps, Raises(r), UNCHANGED at
  PROVE  Counted'
<1>1. pc' = [pc EXCEPT ![r] = "raised"]
  BY Undone
<1>2. CASE pc[r] \in InWait
  BY <1>1, <1>2, CountLeaves DEF Raises
<1>3. CASE pc[r] \notin InWait
  <2>1. \A q \in Requests : pc'[q] \in InWait <=> pc[q] \in InWait
    BY <1>1, <1>3 DEF TypeOK, InWait
  <2>2. QED
    BY <1>3, <2>1, CountStays DEF Raises
<1>4. QED
  BY <1>2, <1>3

LEMMA CountCrashes ==
  ASSUME TypeOK, Counted, NEW v \in Workers, Crash(v)
  PROVE  Counted'
<1>1. Waiting(v)' = {} /\ pending'[v] = 0
  BY DEF TypeOK, Waiting, Crash, Steps, InWait
<1>2. \A w \in Workers \ {v} : Waiting(w)' = Waiting(w) /\ pending'[w] = pending[w]
  BY DEF TypeOK, Waiting, Crash
<1>3. QED
  BY <1>1, <1>2, FS_EmptySet DEF Counted

\* pending_for counts the requests that wait on the worker, however each of them ended
\* (request: `+= 1` before the `try`, down again in its `finally`).
THEOREM CountsTheWaiting == Spec => []PendingCountsWaits
<1>1. Init => Counted
  <2>1. Init => \A w \in Workers : Waiting(w) = {}
    BY DEF Init, Waiting, InWait
  <2>2. QED
    BY <2>1, FS_EmptySet DEF Init, Counted
<1>2. TypeOK /\ Counted /\ [Next]_vars => Counted'
  <2> SUFFICES ASSUME TypeOK, Counted, [Next]_vars PROVE Counted'
    OBVIOUS
  <2>1. CASE UNCHANGED vars
    BY <2>1, CountStays DEF vars
  <2>2. ASSUME NEW r \in Requests, Posted(r) PROVE Counted'
    BY <2>2, CountEnters
  <2>3. ASSUME NEW r \in Requests, Check(r) \/ Read(r) PROVE Counted'
    <3>1. CASE Returns(r, DecisionOf(appr[r]))
      BY <2>3, <3>1, CountLeaves DEF Check, Read, Returns, Goto, InWait
    <3>2. CASE pc[r] = "check" /\ Goto(r, "wait") /\ UNCHANGED <<at, pending>>
      BY <3>2, CountStays DEF TypeOK, Goto, InWait
    <3>3. QED
      BY <2>3, <3>1, <3>2 DEF Check, Read
  <2>4. ASSUME NEW r \in Requests, RequestRaises(r) \/ AckLost(r) \/ FindsItDropped(r)
        PROVE  Counted'
    BY <2>4, CountRaises DEF RequestRaises, AckLost, FindsItDropped, Steps, InWait
  <2>5. ASSUME NEW r \in Requests,
               \/ Ask(r) \/ Refuse(r) \/ Create(r) \/ SetApprovers(r) \/ Post(r) \/ Listen(r)
               \/ Wake(r) \/ TimeOut(r) \/ Expire(r) \/ Retire(r)
        PROVE  Counted'
    <3>1. \A q \in Requests : pc'[q] \in InWait <=> pc[q] \in InWait
      BY <2>5
      DEF TypeOK, Ask, Refuse, Create, SetApprovers, Post, Listen, Wake, TimeOut, Expire,
        Retire, Goto, InWait
    <3>2. UNCHANGED <<at, pending>>
      BY <2>5
      DEF Ask, Refuse, Create, SetApprovers, Post, Listen, Wake, TimeOut, Expire, Retire
    <3>3. QED
      BY <3>1, <3>2, CountStays
  <2>6. ASSUME NEW r \in Requests, Heard(r) \/ Drop(r) \/ Prune(r) PROVE Counted'
    BY <2>6, CountStays DEF Heard, Drop, Prune
  <2>7. ASSUME NEW c \in Clicks, Press(c) \/ ClickStep(c) \/ ClickRaises(c) PROVE Counted'
    BY <2>7, CountStays
    DEF Press, ClickStep, Lookup, Authorize, Resolve, Notify, ClickRaises
  <2>8. ASSUME NEW w \in Workers, Crash(w) PROVE Counted'
    BY <2>8, CountCrashes
  <2>9. QED
    BY <2>1, <2>2, <2>3, <2>4, <2>5, <2>6, <2>7, <2>8 DEF Next, RequestStep
<1>3. Counted => PendingCountsWaits
  BY DEF Counted, Waiting, PendingCountsWaits
<1>4. QED
  BY <1>1, <1>2, <1>3, TypeCorrect, PTL DEF Spec
=============================================================================
