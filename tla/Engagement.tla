----------------------------- MODULE Engagement -----------------------------
(***************************************************************************)
(* Who jean talks to in one Slack thread: Gateway._engage (gateway/app.py), *)
(* the rules it asks (gateway/engagement.py) and the partner it keeps in    *)
(* the thread's session row.                                                *)
(*                                                                         *)
(* Handlers run concurrently, on one worker or several: between the read of *)
(* the partner and the write of the next one lies an await, and nothing     *)
(* orders two messages.  The turn a handler ends in is one step here;       *)
(* ThreadSession has what happens in it.                                    *)
(***************************************************************************)
EXTENDS Integers, Sequences, FiniteSets

CONSTANTS
  People,     \* the human authors
  Blocked,    \* soul.blocked_users
  Manager,    \* soul.manager, or NoOne
  Bot,        \* another bot, as an author
  NoOne,      \* no partner, and the author of an unattributed event
  Jean, Else, \* whom a text may mention: jean, and anybody else
  Messages,   \* the messages that may be posted
  MaxPosts,   \* bound on the number of messages posted
  Faults,     \* the kinds of failure that may happen, out of FaultKinds
  MaxFaults   \* bound on how many failures happen in a behaviour

FaultKinds ==
  {"fails",       \* a handler ends in an exception, or with its worker
   "redelivered", \* Slack sends an event again
   "ack"}         \* the acknowledging reaction is refused

Message == [author: People \cup {Bot, NoOne}, to: SUBSET {Jean, Else}, subtyped: BOOLEAN]

ASSUME ConstantsAssumption ==
  /\ Blocked \subseteq People
  /\ Manager \in People \cup {NoOne}
  /\ NoOne \notin People /\ Bot \notin People \cup {NoOne}
  /\ Jean # Else
  /\ Messages \subseteq Message
  /\ Faults \subseteq FaultKinds
  /\ MaxPosts \in Nat /\ MaxFaults \in Nat

VARIABLES
  place,  \* the thread is in a DM, an open channel, or one soul.md does not list
  posts,  \* the messages of the thread
  row,    \* engaged_with of its session row, and how old last_active_at is
  at,     \* where the handler of each event is
  seen,   \* the partner it read, while that is to be replaced
  since,  \* messages posted before the row last expired (history)
  order,  \* whether messages were read one by one as posted, and if a cleanup
          \* in between took a row that was in use (history)
  faults  \* failures so far

vars == <<place, posts, row, at, seen, since, order, faults>>
-----------------------------------------------------------------------------
Kinds    == {"app_mention", "message"}
Copies   == {1, 2}
Handlers == (1..MaxPosts) \X Kinds \X Copies

Steps   == {"unsent", "sent", "write", "ack", "turn",
            "ignored", "answered", "failed"}
Working == {"write", "ack", "turn"}
Orders  == {"orderly", "pruned", "disorderly"}

Places   == {"dm", "open", "closed"}
Ages     == {"absent", "never", "recent", "old"}
Partners == People \cup {NoOne}

NoRow == [partner |-> NoOne, age |-> "absent"]

Init ==
  /\ place \in Places
  /\ posts = <<>>
  /\ row = NoRow
  /\ at = [h \in Handlers |-> "unsent"]
  /\ seen = [h \in Handlers |-> NoOne]
  /\ since = 0
  /\ order = "orderly"
  /\ faults = 0

AsPlanned == UNCHANGED faults

Fault(kind) ==
  /\ kind \in Faults
  /\ faults < MaxFaults
  /\ faults' = faults + 1

At(h, step) == at' = [at EXCEPT ![h] = step]

Of(h) == posts[h[1]]
-----------------------------------------------------------------------------
(* The rules: decide().                                                     *)

Ignore(partner) == [handle |-> FALSE, partner |-> partner]
Answer(partner) == [handle |-> TRUE, partner |-> partner]
StepBack        == [handle |-> FALSE, partner |-> NoOne]

\* An unattributed event leaves the partner alone.
Speaker(m, partner) == IF m.author # NoOne THEN m.author ELSE partner

\* As if any author were the partner once there is one.
FromAnyone(m, partner) == m.author # NoOne /\ partner # NoOne

\* m is by the partner, of whom there may be none.
FromPartner(m, partner) == m.author # NoOne /\ m.author = partner

BlockedUser(m) == m.author \in Blocked

IsManager(m) == m.author # NoOne /\ m.author = Manager

\* As if soul.md's list of channels were decoration, which it once was.
AnyChannelAllowed(m) == FALSE

ChannelNotAllowed(m) == place = "closed" /\ ~ IsManager(m)

\* A slip the rules once had: whoever mentions somebody else steps jean back.
AnyoneHandsOff(m, partner) == StepBack

\* Of those who talk to somebody else only the partner hands off.
Handoff(m, partner) == IF FromPartner(m, partner) THEN StepBack ELSE Ignore(partner)

Decide(m, partner) ==
  IF BlockedUser(m) THEN Ignore(partner)
  ELSE IF place = "dm" THEN Answer(Speaker(m, partner))
  ELSE IF ChannelNotAllowed(m) THEN Ignore(partner)
  ELSE IF Jean \in m.to THEN Answer(Speaker(m, partner))
  ELSE IF m.to # {} THEN Handoff(m, partner)
  ELSE IF FromPartner(m, partner) THEN Answer(partner)
  ELSE Ignore(partner)
-----------------------------------------------------------------------------
(* The row.                                                                 *)

\* As if NULL meant: keep the partner there is.
SetPartnerCoalesced(partner) ==
  row' = [partner |-> IF partner = NoOne THEN row.partner ELSE partner,
          age |-> IF row.age = "absent" THEN "never" ELSE row.age]

\* set_partner: a new row is born with last_active_at 0.
SetPartner(partner) ==
  row' = [partner |-> partner, age |-> IF row.age = "absent" THEN "never" ELSE row.age]

\* upsert_session(touch=True), which a turn calls as soon as it has a session id.
Touch == row' = [row EXCEPT !.age = "recent"]

\* /mode, for which touch is False.
Mode ==
  /\ row' = IF row.age = "absent" THEN [row EXCEPT !.age = "never"] ELSE row
  /\ UNCHANGED <<place, posts, at, seen, since, order>>
  /\ AsPlanned

Busy == \E h \in Handlers : at[h] \in Working \cup {"sent"}

\* Nobody writes for longer than the retention window.
Expire ==
  /\ row.age = "recent" /\ ~ Busy
  /\ row' = [row EXCEPT !.age = "old"]
  /\ UNCHANGED <<place, posts, at, seen, since, order>>
  /\ AsPlanned

\* The retention cleanup, to which a row nobody touched yet is older than any cutoff.
Prune ==
  /\ row.age \in {"never", "old"}
  /\ row' = NoRow
  /\ LET idle == row.age = "old" /\ ~ Busy
     IN /\ since' = IF idle THEN Len(posts) ELSE since
        /\ order' = IF order = "orderly" /\ ~ idle /\ row.partner # NoOne
                      THEN "pruned" ELSE order
  /\ UNCHANGED <<place, posts, at, seen>>
  /\ AsPlanned
-----------------------------------------------------------------------------
(* Slack, and what of it reaches _engage.                                   *)

\* As if on_message took mentions too.
ListensTwice(m, kind) ==
  /\ m.author # Bot
  /\ kind = "message" => ~ m.subtyped

\* What register() and on_message let through: no other bot's message, no message
\* with a subtype, and no plain message event for a mention of jean.
Listens(m, kind) ==
  /\ m.author # Bot
  /\ kind = "message" => ~ m.subtyped /\ Jean \notin m.to

\* A mention comes as an app_mention and as a message; in a DM as a message.
Events(m) == IF Jean \in m.to /\ place # "dm" THEN Kinds ELSE {"message"}

\* The events of m that are not dropped.
Heard(m) == {k \in Events(m) : Listens(m, k)}

Post(m) ==
  /\ Len(posts) < MaxPosts
  /\ posts' = Append(posts, m)
  /\ at' = [h \in Handlers |->
              IF h[1] = Len(posts') /\ h[2] \in Heard(m) /\ h[3] = 1
                THEN "sent" ELSE at[h]]
  /\ UNCHANGED <<place, row, seen, since, order>>
  /\ AsPlanned

Redeliver(h) ==
  /\ h[3] = 2 /\ at[h] = "unsent"
  /\ at[<<h[1], h[2], 1>>] \notin {"unsent", "sent"}
  /\ Fault("redelivered")
  /\ At(h, "sent")
  /\ order' = "disorderly"
  /\ UNCHANGED <<place, posts, row, seen, since>>
-----------------------------------------------------------------------------
(* A handler.                                                               *)

\* What it read is of no use after the write.
Forget(h) == seen' = [seen EXCEPT ![h] = NoOne]

Decision(h) == Decide(Of(h), seen[h])

\* What get_partner and decide() lead to; the write is left out when nothing changed.
AfterRead(d, partner) ==
  IF d.partner # partner THEN "write" ELSE IF d.handle THEN "ack" ELSE "ignored"

\* Somebody has read the partner and not yet written the next one.
Overlapping(h) == \E g \in Handlers \ {h} : at[g] = "write"

\* A message posted before has not been read yet.
Overtaking(h) ==
  \E g \in Handlers : at[g] = "sent" /\ g[1] < h[1]

Read(h) ==
  /\ at[h] = "sent"
  /\ LET next == AfterRead(Decide(Of(h), row.partner), row.partner)
     IN /\ At(h, next)
        /\ seen' = IF next = "write" THEN [seen EXCEPT ![h] = row.partner] ELSE seen
  /\ order' = IF Overlapping(h) \/ Overtaking(h) THEN "disorderly" ELSE order
  /\ UNCHANGED <<place, posts, row, since>>
  /\ AsPlanned

Write(h) ==
  /\ at[h] = "write"
  /\ SetPartner(Decision(h).partner)
  /\ At(h, IF Decision(h).handle THEN "ack" ELSE "ignored")
  /\ Forget(h)
  /\ UNCHANGED <<place, posts, since, order>>
  /\ AsPlanned

\* As if a refused reaction cost the turn.
GivesUpUnacked(refused) == IF refused THEN "ignored" ELSE "turn"

\* The reaction is best effort: its failure does not cost the turn.
AfterAck(refused) == "turn"

Ack(h) ==
  /\ at[h] = "ack"
  /\ \/ At(h, AfterAck(FALSE)) /\ AsPlanned
     \/ At(h, AfterAck(TRUE)) /\ Fault("ack")
  /\ UNCHANGED <<place, posts, row, seen, since, order>>

Turn(h) ==
  /\ at[h] = "turn"
  /\ Touch
  /\ At(h, "answered")
  /\ UNCHANGED <<place, posts, seen, since, order>>
  /\ AsPlanned

\* An exception or a crash at any await; a statement on its way may still commit.
Fails(h) ==
  /\ at[h] \in Working \cup {"sent"}
  /\ Fault("fails")
  /\ \/ UNCHANGED row
     \/ at[h] = "write" /\ SetPartner(Decision(h).partner)
     \/ at[h] = "turn" /\ Touch
  /\ At(h, "failed")
  /\ order' = "disorderly"
  /\ Forget(h)
  /\ UNCHANGED <<place, posts, since>>
-----------------------------------------------------------------------------
Handle(h) == Read(h) \/ Write(h) \/ Ack(h) \/ Turn(h)

Next ==
  \/ \E m \in Messages : Post(m)
  \/ \E h \in Handlers : Handle(h) \/ Redeliver(h) \/ Fails(h)
  \/ Mode \/ Expire \/ Prune

Spec == Init /\ [][Next]_vars
-----------------------------------------------------------------------------
(* Properties.                                                              *)

\* Every variable has its type.
TypeOK ==
  /\ place \in Places
  /\ posts \in Seq(Messages) /\ Len(posts) <= MaxPosts
  /\ row \in [partner: Partners, age: Ages]
  /\ at \in [Handlers -> Steps]
  /\ seen \in [Handlers -> Partners]
  /\ since \in 0..MaxPosts
  /\ order \in Orders
  /\ faults \in 0..MaxFaults

\* Those jean listens to at all.
Admitted(m) == m.author \notin Blocked /\ (place = "closed" => IsManager(m))

\* m engages jean with its author: an admitted person addresses her.
Engages(m) ==
  /\ m.author \in People /\ Admitted(m)
  /\ place = "dm" \/ Jean \in m.to

\* Who has engaged jean in this thread so far; everybody else is a bystander.
Engaged == {posts[i].author : i \in {j \in 1..Len(posts) : Engages(posts[j])}}

HasTurn(h) == at[h] \in {"ack", "turn", "answered"}

\* However handlers interleave, fail and are repeated, and whatever retention deletes, the
\* partner is a person who engaged jean in this thread (design doc 2026-07-14: "replies to
\* the person who most recently addressed her, and to nobody else").
PartnerHasEngaged == row.partner \in Engaged \cup {NoOne}

\* No turn is spent on a bystander: its message addresses jean, or its author once did
\* (engagement.py:104-111, "no turn, no tokens").
TurnsAreEarned ==
  \A h \in Handlers : HasTurn(h) =>
     /\ Admitted(Of(h))
     /\ place = "dm" \/ Jean \in Of(h).to \/ Of(h).author \in Engaged

\* "Nothing a bystander does may change the thread's engagement state" (design doc
\* 2026-07-14): the partner changes at the hands of somebody who has engaged jean, by a
\* message of theirs that addresses her or, to nobody, somebody else; or the row expires.
BystandersAreInert ==
  [][row'.partner # row.partner =>
       \/ row' = NoRow
       \/ \E h \in Handlers :
            /\ at[h] = "write" /\ at'[h] # "write"
            /\ Of(h).author \in Engaged
            /\ \/ Engages(Of(h)) /\ row'.partner = Of(h).author
               \/ Of(h).to = {Else} /\ row'.partner = NoOne]_vars

\* A message has at most one turn, although a mention arrives as two events, and one more
\* for each event Slack sends again (app.py:85-88, 113-117).
OneTurnEach ==
  \A i \in 1..MaxPosts :
     LET handlers == {h \in Handlers : h[1] = i}
     IN Cardinality({h \in handlers : HasTurn(h)})
          <= 1 + Cardinality({h \in handlers : h[3] = 2 /\ at[h] # "unsent"})

\* The rules as README.md:219-227 has them, with no state: the partner after the first n
\* messages is who last engaged jean, unless they have since addressed somebody else.
\* Messages that nobody hears (LeftUnheard, below) do not count, which those lines do not say.
PartnerByTheRules(n) ==
  LET heard   == {i \in since + 1..n : Heard(posts[i]) # {}}
      engages == {i \in heard : Engages(posts[i])}
      handoff(i) == \E j \in heard : /\ j > i /\ posts[j].author = posts[i].author
                                     /\ posts[j].to = {Else}
  IN {posts[i].author : i \in {j \in engages : /\ \A k \in engages : k <= j
                                             /\ ~ handoff(j)}}

AnsweredByTheRules(i) ==
  LET m == posts[i]
  IN /\ Heard(m) # {} /\ Admitted(m)
     /\ \/ place = "dm" \/ Jean \in m.to
        \/ m.to = {} /\ m.author \in PartnerByTheRules(i - 1)

AnswersByTheRules ==
  \A i \in since + 1..Len(posts) :
     AnsweredByTheRules(i) <=> \E h \in Handlers : h[1] = i /\ HasTurn(h)

PartnerIsByTheRules ==
  IF row.partner = NoOne THEN PartnerByTheRules(Len(posts)) = {}
                         ELSE row.partner \in PartnerByTheRules(Len(posts))

\* Messages read one after the other, in the order they were posted, are answered by
\* README.md:219-227, and leave the partner it says: those that are heard, and so no DM that
\* mentions jean.
OrderlyMessagesFollowTheRules ==
  (order = "orderly" /\ ~ Busy) => AnswersByTheRules /\ PartnerIsByTheRules

\* What is dropped of a DM: a text that mentions jean, which on_message leaves to an
\* app_mention that Slack does not send there (app.py:115), and a message with a subtype, say
\* a file with a comment (app.py:240).
LeftUnheard(m) == place = "dm" /\ (Jean \in m.to \/ m.subtyped)

\* When everything has come to rest, a message that engages jean has had its turn or failed,
\* whatever others did in between and even if the acknowledgement was refused
\* (app.py:178-194), or it is a DM that is left unheard; and no such DM is ever answered,
\* although README.md:219 says "DM it directly" and makes no exception for a mention.
AddressedAreAnswered ==
  ~ Busy =>
    \A i \in 1..Len(posts) :
      Engages(posts[i]) =>
        (~ LeftUnheard(posts[i]) <=>
           \E h \in Handlers : h[1] = i /\ at[h] \in {"answered", "failed"})

\* README.md:225: "Only the partner can step jean back".
OnlyThePartnerStepsBack ==
  [][(row.partner # NoOne /\ row'.partner = NoOne /\ row' # NoRow) =>
       \E h \in Handlers : at[h] = "write" /\ at'[h] # "write"
                           /\ Of(h).author = row.partner]_vars

\* README.md:60: a session is deleted, partner and all, when "idle longer than this"; until
\* then a cleanup has no bearing on who is answered.
CleanupSilencesNobody ==
  (order \in {"orderly", "pruned"} /\ ~ Busy) => AnswersByTheRules
=============================================================================
