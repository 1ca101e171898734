--------------------------- MODULE ApprovalLedger ---------------------------
(***************************************************************************)
(* What approvals promise, whoever clicks, waits, times out or fails where: *)
(* a request is decided at most once, by one of the approvers it was put to *)
(* or (never in favour) by nobody; the agent runs the call only on that     *)
(* decision; and a decision is forgotten only after the agent is done.      *)
(***************************************************************************)
CONSTANTS Requests, Users, System, Scopes

VARIABLES approvers, \* whom each request is put to
          verdict,   \* its decision, Open before and Forgotten after
          outcome    \* "asking", then "ran" or "refused"

Decision  == [approved: BOOLEAN, by: Users \cup {System}, scope: Scopes]
Open      == [approved |-> FALSE, by |-> {}]
Forgotten == [approved |-> FALSE, by |-> {System}]

Init == /\ approvers = [r \in Requests |-> {}]
        /\ verdict = [r \in Requests |-> Open]
        /\ outcome = [r \in Requests |-> "asking"]

Put(r) == /\ approvers[r] = {} /\ outcome[r] = "asking" /\ verdict[r] = Open
          /\ \E us \in SUBSET Users : approvers' = [approvers EXCEPT ![r] = us]
          /\ UNCHANGED <<verdict, outcome>>

Decide(r) == /\ verdict[r] = Open
             /\ \E d \in Decision :
                  /\ d.by \in approvers[r] \/ (d.by = System /\ ~d.approved)
                  /\ verdict' = [verdict EXCEPT ![r] = d]
             /\ UNCHANGED <<approvers, outcome>>

\* Nobody decides in time, and the request fails in the same step.
Lapse(r) == /\ outcome[r] = "asking" /\ verdict[r] = Open
            /\ \E d \in Decision :
                 /\ d.by = System /\ ~d.approved
                 /\ verdict' = [verdict EXCEPT ![r] = d]
            /\ outcome' = [outcome EXCEPT ![r] = "refused"]
            /\ UNCHANGED approvers

Act(r) == /\ outcome[r] = "asking"
          /\ outcome' = [outcome EXCEPT ![r] =
               IF verdict[r].approved THEN "ran" ELSE "refused"]
          /\ UNCHANGED <<approvers, verdict>>

\* The request fails, alone or with all of its worker's.
GiveUp == \E rs \in SUBSET {r \in Requests : outcome[r] = "asking"} :
            /\ outcome' = [r \in Requests |->
                             IF r \in rs THEN "refused" ELSE outcome[r]]
            /\ UNCHANGED <<approvers, verdict>>

Forget(r) == /\ outcome[r] # "asking" /\ verdict[r] \in Decision
             /\ verdict' = [verdict EXCEPT ![r] = Forgotten]
             /\ UNCHANGED <<approvers, outcome>>

Next == \/ GiveUp
        \/ \E r \in Requests :
             Put(r) \/ Decide(r) \/ Lapse(r) \/ Act(r) \/ Forget(r)

Spec == Init /\ [][Next]_<<approvers, verdict, outcome>>
=============================================================================
