-------------------------- MODULE EngagementProofs --------------------------
(***************************************************************************)
(* For any people, messages and number of both: that no interleaving,       *)
(* failure, repetition or cleanup lets a bystander into the conversation;   *)
(* that each message is handled, and once; and that messages read in order  *)
(* are answered by rules stated over the whole history of the thread.       *)
(***************************************************************************)
EXTENDS Engagement, FiniteSetTheorems, TLAPS

\* Handlers run only for messages that were posted, and not by a bot.
HandlersHaveAMessage ==
  \A h \in Handlers : at[h] # "unsent" => h[1] \in 1..Len(posts) /\ Of(h).author # Bot

\* Who is about to write read the partner of some moment, and is about to change it.
WritersHaveRead ==
  \A h \in Handlers : at[h] = "write" =>
    /\ seen[h] \in Engaged \cup {NoOne}
    /\ Decision(h).partner # seen[h]

IInv ==
  /\ TypeOK
  /\ HandlersHaveAMessage
  /\ WritersHaveRead
  /\ PartnerHasEngaged
  /\ TurnsAreEarned
-----------------------------------------------------------------------------
\* What decide() may come to: it keeps the partner, or takes its author in, or lets its
\* author go; and it spends a turn only on who addresses jean or is the partner.
LEMMA DecideCases ==
  ASSUME ConstantsAssumption, NEW m \in Message, m.author # Bot, NEW p \in Partners
  PROVE  LET d == Decide(m, p)
         IN /\ d \in [handle : BOOLEAN, partner : Partners]
            /\ d.partner # p =>
                 \/ Engages(m) /\ d.partner = m.author
                 \/ m.to = {Else} /\ d.partner = NoOne /\ m.author = p
            /\ d.handle => /\ Admitted(m)
                           /\ \/ place = "dm" \/ Jean \in m.to
                              \/ m.author = p /\ m.author # NoOne
<1>1. m.author \in Partners /\ m.to \subseteq {Jean, Else}
  BY DEF Message, Partners
<1>2. m.author \in People \/ m.author = NoOne
  BY <1>1 DEF Partners
<1>3. Speaker(m, p) = IF m.author \in People THEN m.author ELSE p
  BY <1>2 DEF ConstantsAssumption, Speaker
<1>4. Ignore(p) \in [handle : BOOLEAN, partner : Partners] /\ Ignore(p).partner = p
        /\ ~ Ignore(p).handle
  BY DEF Ignore
<1>5. Answer(p).partner = p /\ Answer(p) \in [handle : BOOLEAN, partner : Partners]
  BY DEF Answer
<1>6. /\ Answer(Speaker(m, p)) \in [handle : BOOLEAN, partner : Partners]
      /\ Answer(Speaker(m, p)).partner = Speaker(m, p)
  BY <1>1, <1>3 DEF Answer
<1>7. StepBack \in [handle : BOOLEAN, partner : Partners] /\ StepBack.partner = NoOne
        /\ ~ StepBack.handle
  BY DEF StepBack, Partners
<1>8. CASE BlockedUser(m)
  BY <1>4, <1>8 DEF Decide
<1>9. CASE ~ BlockedUser(m) /\ place = "dm"
  <2>1. Decide(m, p) = Answer(Speaker(m, p))
    BY <1>9 DEF Decide
  <2>2. Admitted(m)
    BY <1>9 DEF BlockedUser, Admitted
  <2> QED
    BY <1>2, <1>3, <1>6, <1>9, <2>1, <2>2 DEF Engages
<1>10. CASE ~ BlockedUser(m) /\ place # "dm" /\ ChannelNotAllowed(m)
  BY <1>4, <1>10 DEF Decide
<1>11. CASE ~ BlockedUser(m) /\ place # "dm" /\ ~ ChannelNotAllowed(m)
  <2>1. Admitted(m)
    BY <1>11 DEF BlockedUser, Admitted, ChannelNotAllowed
  <2>2. CASE Jean \in m.to
    <3>1. Decide(m, p) = Answer(Speaker(m, p))
      BY <1>11, <2>2 DEF Decide
    <3> QED
      BY <1>2, <1>3, <1>6, <2>1, <2>2, <3>1 DEF Engages
  <2>3. CASE Jean \notin m.to /\ m.to # {}
    <3>1. m.to = {Else}
      BY <1>1, <2>3
    <3>2. Decide(m, p) = Handoff(m, p)
      BY <1>11, <2>3 DEF Decide
    <3> QED
      BY <1>4, <1>7, <3>1, <3>2 DEF Handoff, FromPartner
  <2>4. CASE Jean \notin m.to /\ m.to = {}
    <3>1. Decide(m, p) = IF FromPartner(m, p) THEN Answer(p) ELSE Ignore(p)
      BY <1>11, <2>4 DEF Decide
    <3> QED
      BY <1>4, <1>5, <2>1, <3>1 DEF FromPartner
  <2> QED
    BY <2>2, <2>3, <2>4
<1> QED
  BY <1>8, <1>9, <1>10, <1>11
-----------------------------------------------------------------------------
\* Posting takes nobody's engagement back, and leaves earlier messages alone.
LEMMA PostKeeps ==
  ASSUME TypeOK, NEW m \in Messages, Post(m)
  PROVE  /\ Len(posts') = Len(posts) + 1
         /\ \A i \in 1..Len(posts) : posts'[i] = posts[i]
         /\ posts'[Len(posts) + 1] = m
         /\ Engaged \subseteq Engaged'
<1>1. posts' = Append(posts, m) /\ place' = place /\ posts \in Seq(Messages)
  BY DEF Post, TypeOK
<1>2. Len(posts') = Len(posts) + 1
  BY <1>1
<1>3. \A i \in 1..Len(posts) : posts'[i] = posts[i]
  BY <1>1
<1>4. posts'[Len(posts) + 1] = m
  BY <1>1
<1>5. ASSUME NEW i \in 1..Len(posts), Engages(posts[i])
      PROVE  Engages(posts[i])'
  BY <1>1, <1>3, <1>5 DEF Engages, Admitted, IsManager
<1>6. Engaged \subseteq Engaged'
  BY <1>1, <1>2, <1>3, <1>5 DEF Engaged
<1> QED
  BY <1>2, <1>3, <1>4, <1>6

\* A step that posts nothing changes nobody's standing.
LEMMA StandingKept ==
  ASSUME UNCHANGED <<place, posts>>
  PROVE  /\ Engaged' = Engaged
         /\ \A h : Of(h)' = Of(h)
         /\ \A m : Admitted(m)' = Admitted(m)
BY DEF Engaged, Engages, Admitted, IsManager, Of

\* What decide() says of a message depends on nothing else that a step may change.
LEMMA DecisionAfter ==
  ASSUME NEW h, UNCHANGED place, Of(h)' = Of(h)
  PROVE  Decision(h)' = Decide(Of(h), seen'[h])
BY DEF Decision, Decide, BlockedUser, ChannelNotAllowed, IsManager, Handoff, FromPartner,
       Speaker, Answer, Ignore, StepBack
-----------------------------------------------------------------------------
LEMMA InitInv == ConstantsAssumption /\ Init => IInv
<1> SUFFICES ASSUME ConstantsAssumption, Init PROVE IInv
  OBVIOUS
<1>1. TypeOK
  BY DEF Init, ConstantsAssumption, TypeOK, NoRow, Partners, Ages, Orders, Steps
<1> QED
  BY <1>1 DEF Init, IInv, HandlersHaveAMessage, WritersHaveRead, PartnerHasEngaged,
              TurnsAreEarned, HasTurn, NoRow

LEMMA PostInv ==
  ASSUME ConstantsAssumption, IInv, NEW m \in Messages, Post(m) PROVE IInv'
<1> USE DEF IInv
<1>1. /\ Len(posts') = Len(posts) + 1
      /\ \A i \in 1..Len(posts) : posts'[i] = posts[i]
      /\ posts'[Len(posts) + 1] = m
      /\ Engaged \subseteq Engaged'
  BY PostKeeps
<1>2. /\ at \in [Handlers -> Steps] /\ Len(posts) \in Nat /\ MaxPosts \in Nat
      /\ UNCHANGED <<place, row, seen, since, order, faults>>
  BY DEF TypeOK, Post, AsPlanned, ConstantsAssumption
<1>3. /\ at' \in [Handlers -> Steps]
      /\ \A h \in Handlers :
           \/ at'[h] = at[h]
           \/ at'[h] = "sent" /\ h[1] = Len(posts) + 1 /\ h[2] \in Heard(m)
  BY <1>1, <1>2 DEF Post, Steps
<1>4. TypeOK'
  BY <1>1, <1>2, <1>3 DEF TypeOK, Post
<1>5. \A h \in Handlers : at[h] # "unsent" => Of(h)' = Of(h)
  BY <1>1 DEF Of, HandlersHaveAMessage
<1>6. HandlersHaveAMessage'
  <2> SUFFICES ASSUME NEW h \in Handlers, at'[h] # "unsent"
               PROVE  h[1] \in 1..Len(posts') /\ Of(h)'.author # Bot
    BY DEF HandlersHaveAMessage
  <2>1. CASE at'[h] = at[h]
    BY <1>1, <1>2, <1>5, <2>1 DEF HandlersHaveAMessage
  <2>2. CASE h[1] = Len(posts) + 1 /\ h[2] \in Heard(m)
    BY <1>1, <1>2, <2>2 DEF Of, Heard, Listens
  <2> QED
    BY <1>3, <2>1, <2>2
<1>7. \A h \in Handlers : at[h] # "unsent" => Decision(h)' = Decision(h)
  BY <1>2, <1>5, DecisionAfter DEF Decision
<1>8. WritersHaveRead'
  BY <1>1, <1>2, <1>3, <1>7 DEF WritersHaveRead
<1>9. PartnerHasEngaged'
  BY <1>1, <1>2 DEF PartnerHasEngaged
<1>10. TurnsAreEarned'
  BY <1>1, <1>2, <1>3, <1>5 DEF TurnsAreEarned, HasTurn, Admitted, IsManager
<1> QED
  BY <1>4, <1>6, <1>8, <1>9, <1>10

\* A step of a handler, or of the row, that posts nothing keeps the invariant if what it
\* leaves behind is typed, and neither its writer, its partner nor its turn is a bystander's.
LEMMA StepInv ==
  ASSUME ConstantsAssumption, IInv, UNCHANGED <<place, posts>>,
         TypeOK', PartnerHasEngaged', NEW h \in Handlers,
         \A g \in Handlers \ {h} : at'[g] = at[g] /\ seen'[g] = seen[g],
         at'[h] # "unsent" => h[1] \in 1..Len(posts) /\ Of(h).author # Bot,
         at'[h] = "write" => /\ seen'[h] \in Engaged \cup {NoOne}
                             /\ Decide(Of(h), seen'[h]).partner # seen'[h],
         HasTurn(h)' => /\ Admitted(Of(h))
                        /\ place = "dm" \/ Jean \in Of(h).to \/ Of(h).author \in Engaged
  PROVE  IInv'
<1> USE DEF IInv
<1>1. /\ Engaged' = Engaged
      /\ \A g : Of(g)' = Of(g)
      /\ \A m : Admitted(m)' = Admitted(m)
  BY StandingKept
<1>2. \A g \in Handlers \ {h} : Decision(g)' = Decision(g)
  BY <1>1, DecisionAfter DEF Decision
<1>3. Decision(h)' = Decide(Of(h), seen'[h])
  BY <1>1, DecisionAfter
<1>4. HandlersHaveAMessage'
  BY <1>1 DEF HandlersHaveAMessage
<1>5. WritersHaveRead'
  BY <1>1, <1>2, <1>3 DEF WritersHaveRead
<1>6. TurnsAreEarned'
  BY <1>1 DEF TurnsAreEarned, HasTurn
<1> QED
  BY <1>4, <1>5, <1>6

\* What the decision of a handler that has read p amounts to.
LEMMA DecisionOf ==
  ASSUME ConstantsAssumption, IInv, NEW h \in Handlers, at[h] # "unsent",
         NEW p \in Engaged \cup {NoOne}
  PROVE  LET d == Decide(Of(h), p)
         IN /\ d \in [handle : BOOLEAN, partner : Partners]
            /\ d.partner \in Engaged \cup {NoOne}
            /\ d.partner # p =>
                 /\ Of(h).author \in Engaged
                 /\ \/ Engages(Of(h)) /\ d.partner = Of(h).author
                    \/ Of(h).to = {Else} /\ d.partner = NoOne
            /\ d.handle => /\ Admitted(Of(h))
                           /\ \/ place = "dm" \/ Jean \in Of(h).to
                              \/ Of(h).author \in Engaged
<1>1. h[1] \in 1..Len(posts) /\ Of(h).author # Bot
  BY DEF IInv, HandlersHaveAMessage
<1>2. Of(h) \in Message
  BY <1>1 DEF IInv, TypeOK, Of, ConstantsAssumption
<1>3. p \in Partners
  BY DEF Engaged, Engages, Partners
<1>4. Engages(Of(h)) => Of(h).author \in Engaged
  BY <1>1 DEF Of, Engaged
<1>5. Of(h).author = p /\ Of(h).author # NoOne => Of(h).author \in Engaged
  OBVIOUS
<1>6. LET d == Decide(Of(h), p)
      IN /\ d \in [handle : BOOLEAN, partner : Partners]
         /\ d.partner # p =>
              \/ Engages(Of(h)) /\ d.partner = Of(h).author
              \/ Of(h).to = {Else} /\ d.partner = NoOne /\ Of(h).author = p
         /\ d.handle => /\ Admitted(Of(h))
                        /\ \/ place = "dm" \/ Jean \in Of(h).to
                           \/ Of(h).author = p /\ Of(h).author # NoOne
  BY <1>1, <1>2, <1>3, DecideCases
<1>7. Decide(Of(h), p).partner # p /\ Of(h).author = p => p # NoOne
  <2> SUFFICES ASSUME Of(h).author = NoOne, p = NoOne PROVE Decide(Of(h), p).partner = p
    OBVIOUS
  <2> QED
    BY DEF Decide, Ignore, Answer, Speaker, Handoff, FromPartner
<1> QED
  BY <1>4, <1>5, <1>6, <1>7

LEMMA ReadInv ==
  ASSUME ConstantsAssumption, IInv, NEW h \in Handlers, Read(h) PROVE IInv'
<1> USE DEF IInv
<1> DEFINE d == Decide(Of(h), row.partner)
<1> DEFINE next == AfterRead(d, row.partner)
<1>1. /\ at[h] = "sent" /\ at' = [at EXCEPT ![h] = next]
      /\ seen' = IF next = "write" THEN [seen EXCEPT ![h] = row.partner] ELSE seen
      /\ order' \in {"disorderly", order}
      /\ UNCHANGED <<place, posts, row, since, faults>>
  BY DEF Read, At, AsPlanned
<1>2. row.partner \in Engaged \cup {NoOne} /\ row.partner \in Partners
  BY DEF PartnerHasEngaged, TypeOK
<1>3. /\ d.partner \in Engaged \cup {NoOne}
      /\ d.handle => /\ Admitted(Of(h))
                     /\ place = "dm" \/ Jean \in Of(h).to \/ Of(h).author \in Engaged
  BY <1>1, <1>2, DecisionOf
<1>4. /\ next \in {"write", "ack", "ignored"}
      /\ next = "write" => d.partner # row.partner
      /\ next = "ack" => d.handle
  BY DEF AfterRead
<1>5. at[h] \in Steps /\ at \in [Handlers -> Steps] /\ seen \in [Handlers -> Partners]
  BY DEF TypeOK
<1>6. TypeOK'
  BY <1>1, <1>2, <1>4, <1>5 DEF TypeOK, Steps, Orders
<1>7. PartnerHasEngaged'
  BY <1>1, StandingKept DEF PartnerHasEngaged
<1>8. at'[h] = next /\ (next = "write" => seen'[h] = row.partner)
  BY <1>1, <1>5
<1>9. \A g \in Handlers \ {h} : at'[g] = at[g] /\ seen'[g] = seen[g]
  BY <1>1, <1>5
<1>10. h[1] \in 1..Len(posts) /\ Of(h).author # Bot
  BY <1>1 DEF HandlersHaveAMessage
<1>11. HasTurn(h)' => next = "ack"
  BY <1>4, <1>8 DEF HasTurn
<1> HIDE DEF d, next
<1>12. at'[h] = "write" => /\ seen'[h] \in Engaged \cup {NoOne}
                          /\ Decide(Of(h), seen'[h]).partner # seen'[h]
  BY <1>2, <1>4, <1>8 DEF d
<1> QED
  BY <1>1, <1>3, <1>4, <1>6, <1>7, <1>9, <1>10, <1>11, <1>12, StepInv DEF d

\* What setting the partner leaves in the row.
LEMMA SetPartnerType ==
  ASSUME TypeOK, NEW p \in Partners, SetPartner(p)
  PROVE  row' \in [partner : Partners, age : Ages] /\ row'.partner = p
BY DEF TypeOK, SetPartner, Ages

\* Likewise a touch: it is none of its business who the partner is.
LEMMA TouchType ==
  ASSUME TypeOK, Touch
  PROVE  row' \in [partner : Partners, age : Ages] /\ row'.partner = row.partner
BY DEF TypeOK, Touch, Ages

LEMMA WriteInv ==
  ASSUME ConstantsAssumption, IInv, NEW h \in Handlers, Write(h) PROVE IInv'
<1> USE DEF IInv
<1> DEFINE d == Decision(h)
<1>1. /\ at[h] = "write"
      /\ at' = [at EXCEPT ![h] = IF d.handle THEN "ack" ELSE "ignored"]
      /\ seen' = [seen EXCEPT ![h] = NoOne]
      /\ SetPartner(d.partner)
      /\ UNCHANGED <<place, posts, since, order, faults>>
  BY DEF Write, At, Forget, AsPlanned
<1>2. seen[h] \in Engaged \cup {NoOne}
  BY <1>1 DEF WritersHaveRead
<1>3. /\ d.partner \in Engaged \cup {NoOne} /\ d.partner \in Partners
      /\ d.handle => /\ Admitted(Of(h))
                     /\ place = "dm" \/ Jean \in Of(h).to \/ Of(h).author \in Engaged
  BY <1>1, <1>2, DecisionOf DEF Decision
<1> HIDE DEF d
<1>4. row' \in [partner : Partners, age : Ages] /\ row'.partner = d.partner
  BY <1>1, <1>3, SetPartnerType
<1>5. at \in [Handlers -> Steps] /\ seen \in [Handlers -> Partners]
  BY DEF TypeOK
<1>6. TypeOK'
  BY <1>1, <1>4, <1>5 DEF TypeOK, Steps, Partners
<1>7. PartnerHasEngaged'
  BY <1>1, <1>3, <1>4, StandingKept DEF PartnerHasEngaged
<1>8. h[1] \in 1..Len(posts) /\ Of(h).author # Bot
  BY <1>1 DEF HandlersHaveAMessage
<1>9. \A g \in Handlers \ {h} : at'[g] = at[g] /\ seen'[g] = seen[g]
  BY <1>1, <1>5
<1>10. at'[h] # "write" /\ (HasTurn(h)' => d.handle)
  BY <1>1, <1>5 DEF HasTurn
<1> QED
  BY <1>1, <1>3, <1>6, <1>7, <1>8, <1>9, <1>10, StepInv

\* From the acknowledgement on the turn is granted, and nothing looks at the partner.
LEMMA AckInv ==
  ASSUME ConstantsAssumption, IInv, NEW h \in Handlers, Ack(h) \/ Turn(h) PROVE IInv'
<1> USE DEF IInv
<1>1. /\ at[h] \in {"ack", "turn"}
      /\ at' \in {[at EXCEPT ![h] = "turn"], [at EXCEPT ![h] = "answered"]}
      /\ UNCHANGED row \/ Touch
      /\ faults' \in 0..MaxFaults
      /\ UNCHANGED <<place, posts, seen, since, order>>
  BY DEF Ack, Turn, AfterAck, At, AsPlanned, Fault, TypeOK, ConstantsAssumption
<1>2. row' \in [partner : Partners, age : Ages] /\ row'.partner = row.partner
  BY <1>1, TouchType DEF TypeOK
<1>3. at \in [Handlers -> Steps] /\ seen \in [Handlers -> Partners]
  BY DEF TypeOK
<1>4. TypeOK'
  BY <1>1, <1>2, <1>3 DEF TypeOK, Steps
<1>5. PartnerHasEngaged'
  BY <1>1, <1>2, StandingKept DEF PartnerHasEngaged
<1>6. h[1] \in 1..Len(posts) /\ Of(h).author # Bot
  BY <1>1 DEF HandlersHaveAMessage
<1>7. \A g \in Handlers \ {h} : at'[g] = at[g] /\ seen'[g] = seen[g]
  BY <1>1, <1>3
<1>8. /\ Admitted(Of(h))
      /\ place = "dm" \/ Jean \in Of(h).to \/ Of(h).author \in Engaged
  BY <1>1 DEF TurnsAreEarned, HasTurn
<1>9. at'[h] # "write"
  BY <1>1, <1>3
<1> QED
  BY <1>1, <1>4, <1>5, <1>6, <1>7, <1>8, <1>9, StepInv

LEMMA FailsInv ==
  ASSUME ConstantsAssumption, IInv, NEW h \in Handlers, Fails(h) PROVE IInv'
<1> USE DEF IInv
<1>1. /\ at[h] \in Working \cup {"sent"}
      /\ at' = [at EXCEPT ![h] = "failed"] /\ seen' = [seen EXCEPT ![h] = NoOne]
      /\ \/ UNCHANGED row
         \/ at[h] = "write" /\ SetPartner(Decision(h).partner)
         \/ Touch
      /\ order' = "disorderly" /\ faults' \in 0..MaxFaults
      /\ UNCHANGED <<place, posts, since>>
  BY DEF Fails, At, Forget, Fault, TypeOK, ConstantsAssumption
<1>2. at[h] = "write" => /\ Decision(h).partner \in Engaged \cup {NoOne}
                        /\ Decision(h).partner \in Partners
  BY DecisionOf DEF Decision, WritersHaveRead
<1>3. row' \in [partner : Partners, age : Ages] /\ row'.partner \in Engaged \cup {NoOne}
  BY <1>1, <1>2, SetPartnerType, TouchType DEF TypeOK, PartnerHasEngaged
<1>4. at \in [Handlers -> Steps] /\ seen \in [Handlers -> Partners]
  BY DEF TypeOK
<1>5. TypeOK'
  BY <1>1, <1>3, <1>4 DEF TypeOK, Steps, Partners, Orders
<1>6. PartnerHasEngaged'
  BY <1>1, <1>3, StandingKept DEF PartnerHasEngaged
<1>7. h[1] \in 1..Len(posts) /\ Of(h).author # Bot
  BY <1>1 DEF HandlersHaveAMessage, Working
<1>8. \A g \in Handlers \ {h} : at'[g] = at[g] /\ seen'[g] = seen[g]
  BY <1>1, <1>4
<1>9. at'[h] # "write" /\ ~ HasTurn(h)'
  BY <1>1, <1>4 DEF HasTurn
<1> QED
  BY <1>1, <1>5, <1>6, <1>7, <1>8, <1>9, StepInv

LEMMA RedeliverInv ==
  ASSUME ConstantsAssumption, IInv, NEW h \in Handlers, Redeliver(h) PROVE IInv'
<1> USE DEF IInv
<1> DEFINE g == <<h[1], h[2], 1>>
<1>1. /\ at[g] # "unsent" /\ at' = [at EXCEPT ![h] = "sent"]
      /\ order' = "disorderly" /\ faults' \in 0..MaxFaults
      /\ UNCHANGED <<place, posts, row, seen, since>>
  BY DEF Redeliver, At, Fault, TypeOK, ConstantsAssumption
<1>2. g \in Handlers /\ g[1] = h[1]
  BY DEF Handlers, Copies
<1>3. h[1] \in 1..Len(posts) /\ Of(h).author # Bot
  BY <1>1, <1>2 DEF HandlersHaveAMessage, Of
<1> HIDE DEF g
<1>4. at \in [Handlers -> Steps]
  BY DEF TypeOK
<1>5. TypeOK'
  BY <1>1, <1>4 DEF TypeOK, Steps, Orders
<1>6. PartnerHasEngaged'
  BY <1>1, StandingKept DEF PartnerHasEngaged
<1>7. at'[h] = "sent" /\ \A k \in Handlers \ {h} : at'[k] = at[k] /\ seen'[k] = seen[k]
  BY <1>1, <1>4
<1> QED
  BY <1>1, <1>3, <1>5, <1>6, <1>7, StepInv DEF HasTurn

\* /mode, the passing of time and the cleanup know no more than the row.
LEMMA RowInv ==
  ASSUME ConstantsAssumption, IInv, Mode \/ Expire \/ Prune PROVE IInv'
<1> USE DEF IInv
<1>1. UNCHANGED <<place, posts, at, seen, faults>>
  BY DEF Mode, Expire, Prune, AsPlanned
<1>2. /\ row' \in [partner : Partners, age : Ages]
      /\ row'.partner \in {row.partner, NoOne}
      /\ since' \in 0..MaxPosts /\ order' \in Orders
  BY DEF Mode, Expire, Prune, TypeOK, NoRow, Partners, Ages, Orders
<1>3. TypeOK'
  BY <1>1, <1>2 DEF TypeOK
<1>4. PartnerHasEngaged'
  BY <1>1, <1>2, StandingKept DEF PartnerHasEngaged
<1>5. \A h : Decision(h)' = Decision(h)
  BY <1>1 DEF Decision, Decide, Of, BlockedUser, ChannelNotAllowed, IsManager, Handoff,
              FromPartner, Speaker, Answer, Ignore, StepBack
<1> QED
  BY <1>1, <1>3, <1>4, <1>5, StandingKept
     DEF HandlersHaveAMessage, WritersHaveRead, TurnsAreEarned, HasTurn
-----------------------------------------------------------------------------
\* IInv is inductive.
LEMMA NextInv == ConstantsAssumption /\ IInv /\ [Next]_vars => IInv'
<1> SUFFICES ASSUME ConstantsAssumption, IInv, [Next]_vars PROVE IInv'
  OBVIOUS
<1>1. CASE \E m \in Messages : Post(m)
  BY <1>1, PostInv
<1>2. CASE \E h \in Handlers : Read(h)
  BY <1>2, ReadInv
<1>3. CASE \E h \in Handlers : Write(h)
  BY <1>3, WriteInv
<1>4. CASE \E h \in Handlers : Ack(h) \/ Turn(h)
  BY <1>4, AckInv
<1>5. CASE \E h \in Handlers : Redeliver(h)
  BY <1>5, RedeliverInv
<1>6. CASE \E h \in Handlers : Fails(h)
  BY <1>6, FailsInv
<1>7. CASE Mode \/ Expire \/ Prune
  BY <1>7, RowInv
<1>8. CASE UNCHANGED vars
  <2>1. \A h : Decision(h)' = Decision(h)
    BY <1>8 DEF vars, Decision, Decide, Of, BlockedUser, ChannelNotAllowed, IsManager,
                Handoff, FromPartner, Speaker, Answer, Ignore, StepBack
  <2> QED
    BY <1>8, <2>1, StandingKept DEF vars, IInv, TypeOK, HandlersHaveAMessage, WritersHaveRead,
                              PartnerHasEngaged, TurnsAreEarned, HasTurn
<1> QED
  BY <1>1, <1>2, <1>3, <1>4, <1>5, <1>6, <1>7, <1>8 DEF Next, Handle

LEMMA Inductive == Spec => []IInv
BY InitInv, NextInv, ConstantsAssumption, PTL DEF Spec

\* Every variable keeps its type.
THEOREM TypeCorrect == Spec => []TypeOK
BY Inductive, PTL DEF IInv

\* The partner is always somebody who engaged jean in this thread (engagement.py:93-98),
\* for any number of people, messages, handlers and failures.
THEOREM OnlyTheEngaged == Spec => []PartnerHasEngaged
BY Inductive, PTL DEF IInv

\* No turn is ever spent on a bystander (engagement.py:104-111).
THEOREM NoTurnForBystanders == Spec => []TurnsAreEarned
BY Inductive, PTL DEF IInv

\* Whoever changes the partner, however stale what it read: it is somebody who engaged
\* jean, or the row that goes (design doc 2026-07-14).
THEOREM BystandersInert == Spec => BystandersAreInert
<1> DEFINE ByTheEngaged ==
      row'.partner # row.partner =>
       \/ row' = NoRow
       \/ \E h \in Handlers :
            /\ at[h] = "write" /\ at'[h] # "write"
            /\ Of(h).author \in Engaged
            /\ \/ Engages(Of(h)) /\ row'.partner = Of(h).author
               \/ Of(h).to = {Else} /\ row'.partner = NoOne
<1>1. ASSUME ConstantsAssumption, IInv, [Next]_vars PROVE [ByTheEngaged]_vars
  <2> SUFFICES ASSUME row'.partner # row.partner, row' # NoRow
               PROVE  \E h \in Handlers :
                        /\ at[h] = "write" /\ at'[h] # "write"
                        /\ Of(h).author \in Engaged
                        /\ \/ Engages(Of(h)) /\ row'.partner = Of(h).author
                           \/ Of(h).to = {Else} /\ row'.partner = NoOne
    OBVIOUS
  <2>1. TypeOK /\ at \in [Handlers -> Steps]
    BY <1>1 DEF IInv, TypeOK
  <2>2. PICK h \in Handlers : /\ at[h] = "write" /\ SetPartner(Decision(h).partner)
                              /\ Write(h) \/ Fails(h)
    <3>1. ~ Touch
      BY <2>1, TouchType
    <3>2. row' # row
      OBVIOUS
    <3>3. ~ Mode /\ ~ Expire /\ ~ Prune
      BY <2>1 DEF Mode, Expire, Prune, TypeOK
    <3>4. \A m \in Messages : ~ Post(m)
      BY <3>2 DEF Post
    <3>5. ASSUME NEW h \in Handlers
          PROVE  ~ Read(h) /\ ~ Ack(h) /\ ~ Turn(h) /\ ~ Redeliver(h)
      BY <3>1, <3>2 DEF Read, Ack, Turn, Redeliver
    <3>6. PICK h \in Handlers : Write(h) \/ Fails(h)
      BY <1>1, <3>2, <3>3, <3>4, <3>5 DEF Next, Handle, vars
    <3>7. at[h] = "write" /\ SetPartner(Decision(h).partner)
      BY <3>1, <3>2, <3>6 DEF Write, Fails
    <3> QED
      BY <3>6, <3>7
  <2>3. at'[h] # "write"
    BY <2>1, <2>2 DEF Write, Fails, At
  <2>4. seen[h] \in Engaged \cup {NoOne} /\ Decision(h).partner # seen[h]
    BY <1>1, <2>2 DEF IInv, WritersHaveRead
  <2>5. /\ Decision(h).partner \in Partners
        /\ Of(h).author \in Engaged
        /\ \/ Engages(Of(h)) /\ Decision(h).partner = Of(h).author
           \/ Of(h).to = {Else} /\ Decision(h).partner = NoOne
    BY <1>1, <2>2, <2>4, DecisionOf DEF Decision
  <2>6. row'.partner = Decision(h).partner
    BY <2>1, <2>2, <2>5, SetPartnerType
  <2> QED
    BY <2>2, <2>3, <2>5, <2>6
<1> QED
  BY <1>1, Inductive, ConstantsAssumption, PTL DEF Spec, BystandersAreInert
-----------------------------------------------------------------------------
(* Each message is handled, and once.                                       *)

\* A handler runs only for an event that is listened to.
OnlyTheHeard ==
  \A h \in Handlers : at[h] # "unsent" => h[2] \in Heard(Of(h))

\* The first delivery of such an event is never lost sight of: a message that engages jean
\* is not ignored.
HeardAreHandled ==
  \A i \in 1..Len(posts) : \A k \in Heard(posts[i]) :
    /\ at[<<i, k, 1>>] # "unsent"
    /\ Engages(posts[i]) => at[<<i, k, 1>>] # "ignored"

HandledInv == OnlyTheHeard /\ HeardAreHandled

\* A message that engages jean is answered whoever the partner is.
LEMMA EngagingIsHandled ==
  ASSUME NEW m, Engages(m), NEW p
  PROVE  Decide(m, p).handle
BY DEF Engages, Admitted, Decide, BlockedUser, ChannelNotAllowed, Answer

\* The handler of the first delivery of an event.
LEMMA FirstCopy ==
  ASSUME ConstantsAssumption, TypeOK,
         NEW i \in 1..Len(posts), NEW k \in Heard(posts[i])
  PROVE  <<i, k, 1>> \in Handlers
BY DEF ConstantsAssumption, TypeOK, Handlers, Heard, Events, Kinds, Copies

LEMMA InitHandled == ConstantsAssumption /\ Init => HandledInv
BY DEF Init, HandledInv, OnlyTheHeard, HeardAreHandled

LEMMA PostHandled ==
  ASSUME ConstantsAssumption, IInv, HandledInv, NEW m \in Messages, Post(m)
  PROVE  HandledInv'
<1> USE DEF IInv
<1>1. /\ Len(posts') = Len(posts) + 1
      /\ \A i \in 1..Len(posts) : posts'[i] = posts[i]
      /\ posts'[Len(posts) + 1] = m
  BY PostKeeps
<1>2. /\ at \in [Handlers -> Steps] /\ Len(posts) \in Nat /\ Len(posts) < MaxPosts
      /\ MaxPosts \in Nat /\ UNCHANGED place
  BY DEF TypeOK, Post, ConstantsAssumption
<1>3. \A h \in Handlers :
        at'[h] = IF h[1] = Len(posts) + 1 /\ h[2] \in Heard(m) /\ h[3] = 1
                   THEN "sent" ELSE at[h]
  BY <1>1, <1>2 DEF Post
<1>5. ASSUME NEW h \in Handlers, at'[h] # "unsent" PROVE (h[2] \in Heard(Of(h)))'
  <2>1. CASE h[1] = Len(posts) + 1 /\ h[2] \in Heard(m) /\ h[3] = 1
    <3>1. Of(h)' = m
      BY <1>1, <2>1 DEF Of
    <3> QED
      BY <1>2, <2>1, <3>1 DEF Heard, Events, Listens
  <2>2. CASE at'[h] = at[h]
    <3>1. h[1] \in 1..Len(posts) /\ h[2] \in Heard(Of(h))
      BY <1>5, <2>2 DEF HandlersHaveAMessage, HandledInv, OnlyTheHeard
    <3>2. Of(h)' = Of(h)
      BY <1>1, <3>1 DEF Of
    <3> QED
      BY <1>2, <3>1, <3>2 DEF Heard, Events, Listens
  <2> QED
    BY <1>3, <2>1, <2>2
<1>6. ASSUME NEW i \in 1..Len(posts'), NEW k \in Heard(posts[i])'
      PROVE  /\ at'[<<i, k, 1>>] # "unsent"
             /\ Engages(posts[i])' => at'[<<i, k, 1>>] # "ignored"
  <2>1. k \in Heard(posts'[i]) /\ (Engages(posts[i])' => Engages(posts'[i]))
    BY <1>2 DEF Heard, Events, Listens, Engages, Admitted, IsManager
  <2>2. CASE i \in 1..Len(posts)
    <3>1. k \in Heard(posts[i]) /\ posts'[i] = posts[i]
      BY <1>1, <2>1, <2>2
    <3>2. <<i, k, 1>> \in Handlers
      BY <2>2, <3>1, FirstCopy
    <3>3. at'[<<i, k, 1>>] = at[<<i, k, 1>>]
      BY <1>2, <1>3, <2>2, <3>2
    <3> QED
      BY <2>1, <2>2, <3>1, <3>3 DEF HandledInv, HeardAreHandled
  <2>3. CASE i = Len(posts) + 1
    <3>1. <<i, k, 1>> \in Handlers
      BY <1>1, <1>2, <2>1, <2>3 DEF Handlers, Heard, Events, Kinds, Copies
    <3>2. at'[<<i, k, 1>>] = "sent"
      BY <1>1, <1>3, <2>1, <2>3, <3>1
    <3> QED
      BY <3>2
  <2> QED
    BY <1>1, <1>2, <2>2, <2>3
<1> QED
  BY <1>5, <1>6 DEF HandledInv, OnlyTheHeard, HeardAreHandled

\* A step of one handler, that of an event listened to, which does not drop a message that
\* engages jean.
LEMMA StepHandled ==
  ASSUME ConstantsAssumption, IInv, HandledInv, UNCHANGED <<place, posts>>,
         NEW h \in Handlers,
         \A g \in Handlers \ {h} : at'[g] = at[g],
         at'[h] # "unsent", h[2] \in Heard(Of(h)),
         at'[h] = "ignored" => ~ Engages(Of(h))
  PROVE  HandledInv'
<1> USE DEF IInv
<1>1. ASSUME NEW g \in Handlers, at'[g] # "unsent" PROVE (g[2] \in Heard(Of(g)))'
  <2>1. g[2] \in Heard(Of(g))
    BY <1>1 DEF HandledInv, OnlyTheHeard
  <2> QED
    BY <2>1 DEF Heard, Events, Listens, Of
<1>2. ASSUME NEW i \in 1..Len(posts), NEW k \in Heard(posts[i])
      PROVE  /\ at'[<<i, k, 1>>] # "unsent"
             /\ Engages(posts[i]) => at'[<<i, k, 1>>] # "ignored"
  <2>1. <<i, k, 1>> \in Handlers
    BY FirstCopy
  <2>2. CASE <<i, k, 1>> = h
    <3>1. Of(h) = posts[i]
      BY <2>2 DEF Of
    <3> QED
      BY <2>2, <3>1
  <2>3. CASE <<i, k, 1>> # h
    BY <2>1, <2>3 DEF HandledInv, HeardAreHandled
  <2> QED
    BY <2>2, <2>3
<1>3. ASSUME NEW i \in 1..Len(posts'), NEW k \in Heard(posts[i])'
      PROVE  /\ at'[<<i, k, 1>>] # "unsent"
             /\ Engages(posts[i])' => at'[<<i, k, 1>>] # "ignored"
  <2>1. k \in Heard(posts[i]) /\ (Engages(posts[i])' => Engages(posts[i]))
    BY DEF Heard, Events, Listens, Engages, Admitted, IsManager
  <2> QED
    BY <1>2, <2>1
<1> QED
  BY <1>1, <1>3 DEF HandledInv, OnlyTheHeard, HeardAreHandled

LEMMA NextHandled ==
  ASSUME ConstantsAssumption, IInv, HandledInv, [Next]_vars PROVE HandledInv'
<1> USE DEF IInv
<1>1. at \in [Handlers -> Steps]
  BY DEF TypeOK
<1>2. ASSUME NEW h \in Handlers, Read(h) PROVE HandledInv'
  <2> DEFINE d == Decide(Of(h), row.partner)
  <2> DEFINE next == AfterRead(d, row.partner)
  <2>1. at[h] = "sent" /\ at' = [at EXCEPT ![h] = next] /\ UNCHANGED <<place, posts>>
    BY <1>2 DEF Read, At
  <2>2. next # "unsent" /\ (next = "ignored" => ~ d.handle)
    BY DEF AfterRead
  <2>3. next = "ignored" => ~ Engages(Of(h))
    BY <2>2, EngagingIsHandled
  <2>4. h[2] \in Heard(Of(h))
    BY <2>1 DEF HandledInv, OnlyTheHeard
  <2> HIDE DEF next
  <2> QED
    BY <1>1, <2>1, <2>2, <2>3, <2>4, StepHandled
<1>3. ASSUME NEW h \in Handlers, Write(h) PROVE HandledInv'
  <2>1. /\ at[h] = "write" /\ UNCHANGED <<place, posts>>
        /\ at' = [at EXCEPT ![h] = IF Decision(h).handle THEN "ack" ELSE "ignored"]
    BY <1>3 DEF Write, At
  <2>2. Engages(Of(h)) => Decision(h).handle
    BY EngagingIsHandled DEF Decision
  <2>3. h[2] \in Heard(Of(h))
    BY <2>1 DEF HandledInv, OnlyTheHeard
  <2> QED
    BY <1>1, <2>1, <2>2, <2>3, StepHandled
<1>4. ASSUME NEW h \in Handlers, Ack(h) \/ Turn(h) \/ Fails(h) PROVE HandledInv'
  <2>1. /\ at[h] # "unsent" /\ UNCHANGED <<place, posts>>
        /\ \/ at' = [at EXCEPT ![h] = "turn"]
           \/ at' = [at EXCEPT ![h] = "answered"]
           \/ at' = [at EXCEPT ![h] = "failed"]
    BY <1>4 DEF Ack, Turn, Fails, At, AfterAck, Working
  <2>2. h[2] \in Heard(Of(h))
    BY <2>1 DEF HandledInv, OnlyTheHeard
  <2> QED
    BY <1>1, <2>1, <2>2, StepHandled
<1>5. ASSUME NEW h \in Handlers, Redeliver(h) PROVE HandledInv'
  <2> DEFINE g == <<h[1], h[2], 1>>
  <2>1. at[g] # "unsent" /\ at' = [at EXCEPT ![h] = "sent"] /\ UNCHANGED <<place, posts>>
    BY <1>5 DEF Redeliver, At
  <2>2. g \in Handlers /\ g[1] = h[1] /\ g[2] = h[2]
    BY DEF Handlers, Copies
  <2>3. h[2] \in Heard(Of(h))
    BY <2>1, <2>2 DEF HandledInv, OnlyTheHeard, Of
  <2> QED
    BY <1>1, <2>1, <2>3, StepHandled
<1>6. CASE UNCHANGED <<place, posts, at>>
  BY <1>6 DEF HandledInv, OnlyTheHeard, HeardAreHandled, Heard, Events, Listens, Engages,
              Admitted, IsManager, Of
<1>7. CASE Mode \/ Expire \/ Prune \/ UNCHANGED vars
  BY <1>6, <1>7 DEF Mode, Expire, Prune, vars
<1>8. CASE \E m \in Messages : Post(m)
  BY <1>8, PostHandled
<1> QED
  BY <1>2, <1>3, <1>4, <1>5, <1>7, <1>8 DEF Next, Handle

LEMMA HandledIsInductive == Spec => [](IInv /\ HandledInv)
<1>1. ConstantsAssumption /\ IInv /\ HandledInv /\ [Next]_vars => HandledInv'
  BY NextHandled
<1> QED
  BY <1>1, InitHandled, Inductive, ConstantsAssumption, PTL DEF Spec

\* Of a message at most one event is listened to: a mention is an app_mention, and all
\* else a message.
LEMMA OneEventHeard ==
  ASSUME NEW m, NEW j \in Heard(m), NEW k \in Heard(m)
  PROVE  j = k
BY DEF Heard, Events, Listens, Kinds

\* Of what engages jean exactly the DMs that on_message drops are heard by nobody.
LEMMA UnheardAreTheDms ==
  ASSUME ConstantsAssumption, NEW m, Engages(m)
  PROVE  Heard(m) = {} <=> LeftUnheard(m)
<1>1. m.author # Bot
  BY DEF Engages, ConstantsAssumption
<1>2. CASE place = "dm"
  BY <1>1, <1>2 DEF Heard, Events, Listens, LeftUnheard
<1>3. CASE place # "dm"
  <2>1. "app_mention" \in Heard(m)
    BY <1>1, <1>3 DEF Engages, Heard, Events, Listens, Kinds
  <2> QED
    BY <1>3, <2>1 DEF LeftUnheard
<1> QED
  BY <1>2, <1>3

\* When everything has come to rest, each message that engages jean has had its turn or
\* failed (app.py:178-194), however many there are and whatever happened in between, except
\* the DMs that mention her or have a subtype, which on_message drops (app.py:115): of those
\* none ever has.
THEOREM AddressedAnswered == Spec => []AddressedAreAnswered
<1>1. ASSUME IInv, HandledInv PROVE AddressedAreAnswered
  <2> SUFFICES ASSUME ~ Busy, NEW i \in 1..Len(posts), Engages(posts[i])
               PROVE  ~ LeftUnheard(posts[i]) <=>
                        \E h \in Handlers : h[1] = i /\ at[h] \in {"answered", "failed"}
    BY DEF AddressedAreAnswered
  <2>1. ASSUME NEW k \in Heard(posts[i])
        PROVE  \E h \in Handlers : h[1] = i /\ at[h] \in {"answered", "failed"}
    <3> DEFINE h == <<i, k, 1>>
    <3>1. h \in Handlers /\ h[1] = i
      BY <1>1, FirstCopy, ConstantsAssumption DEF IInv
    <3>2. at[h] \in Steps \ {"unsent", "ignored"}
      BY <1>1, <3>1 DEF IInv, TypeOK, HandledInv, HeardAreHandled
    <3>3. at[h] \notin Working \cup {"sent"}
      BY <3>1 DEF Busy
    <3> QED
      BY <3>1, <3>2, <3>3 DEF Steps, Working
  <2>2. ASSUME NEW h \in Handlers, h[1] = i, at[h] \in {"answered", "failed"}
        PROVE  Heard(posts[i]) # {}
    BY <1>1, <2>2 DEF HandledInv, OnlyTheHeard, Of
  <2> QED
    BY <2>1, <2>2, UnheardAreTheDms, ConstantsAssumption
<1> QED
  BY <1>1, HandledIsInductive, PTL

\* Each message has at most one turn, and one more for each event of it that Slack sent
\* again (app.py:85-88, 113-117).
THEOREM OneTurn == Spec => []OneTurnEach
<1>1. ASSUME IInv, HandledInv PROVE OneTurnEach
  <2> SUFFICES ASSUME NEW i \in 1..MaxPosts
               PROVE  LET handlers == {h \in Handlers : h[1] = i}
                      IN Cardinality({h \in handlers : HasTurn(h)})
                           <= 1 + Cardinality({h \in handlers : h[3] = 2 /\ at[h] # "unsent"})
    BY DEF OneTurnEach
  <2> DEFINE handlers == {h \in Handlers : h[1] = i}
             turns    == {h \in handlers : HasTurn(h)}
             again    == {h \in handlers : h[3] = 2 /\ at[h] # "unsent"}
             first    == {h \in turns : h[3] = 1}
  <2>1. IsFiniteSet(again)
    <3> DEFINE both == {<<i, "app_mention", 2>>} \cup {<<i, "message", 2>>}
    <3>1. again \subseteq both
      BY DEF Handlers, Kinds
    <3>2. IsFiniteSet(both)
      BY FS_Singleton, FS_Union
    <3> QED
      BY <3>1, <3>2, FS_Subset
  <2>2. \A g, h \in first : g = h
    <3> SUFFICES ASSUME NEW g \in first, NEW h \in first PROVE g = h
      OBVIOUS
    <3>1. at[g] # "unsent" /\ at[h] # "unsent" /\ Of(g) = Of(h)
      BY DEF HasTurn, Of
    <3>2. g[2] = h[2]
      BY <1>1, <3>1, OneEventHeard DEF HandledInv, OnlyTheHeard, HeardAreHandled
    <3> QED
      BY <3>2 DEF Handlers
  <2>3. turns \subseteq again \cup first
    BY DEF HasTurn, Handlers, Copies
  <2>4. PICK g : turns \subseteq again \cup {g}
    BY <2>2, <2>3
  <2>5. IsFiniteSet(again \cup {g}) /\ Cardinality(again \cup {g}) <= Cardinality(again) + 1
    <3>1. Cardinality(again) \in Nat
      BY <2>1, FS_CardinalityType
    <3> QED
      BY <2>1, <3>1, FS_AddElement
  <2>6. Cardinality(turns) <= Cardinality(again \cup {g}) /\ IsFiniteSet(turns)
    BY <2>4, <2>5, FS_Subset
  <2>7. /\ Cardinality(turns) \in Nat /\ Cardinality(again) \in Nat
        /\ Cardinality(again \cup {g}) \in Nat
    BY <2>1, <2>5, <2>6, FS_CardinalityType
  <2> QED
    BY <2>5, <2>6, <2>7
<1> QED
  BY <1>1, HandledIsInductive, PTL
-----------------------------------------------------------------------------
(* What the rules of README.md:219-227 come to, message by message.         *)

\* The rules leave p the partner after n messages.
LeavesPartner(n, p) == PartnerByTheRules(n) = {p} \ {NoOne}

\* Of the first n messages: those that engage jean, ...
Engaging(n) == {i \in since + 1..n : Heard(posts[i]) # {} /\ Engages(posts[i])}

\* ... and whether the author of the i-th has since addressed somebody else.
HandedOff(n, i) ==
  \E j \in since + 1..n : /\ Heard(posts[j]) # {} /\ j > i
                          /\ posts[j].author = posts[i].author /\ posts[j].to = {Else}

\* The one that made its author the partner.
Decisive(n) == {j \in Engaging(n) : (\A k \in Engaging(n) : k <= j) /\ ~ HandedOff(n, j)}

LEMMA RulesAre ==
  ASSUME NEW n
  PROVE  PartnerByTheRules(n) = {posts[i].author : i \in Decisive(n)}
BY DEF PartnerByTheRules, Decisive, Engaging, HandedOff

\* Whom the rules leave the partner is a person jean listens to.
LEMMA RulesLeaveTheAdmitted ==
  ASSUME NEW n, NEW x \in PartnerByTheRules(n)
  PROVE  /\ x \in People /\ x \notin Blocked
         /\ place = "closed" => x # NoOne /\ x = Manager
<1>1. PICK i \in Decisive(n) : x = posts[i].author
  BY RulesAre
<1>2. Engages(posts[i])
  BY DEF Decisive, Engaging
<1> QED
  BY <1>1, <1>2 DEF Engages, Admitted, IsManager

\* Messages nobody listens to leave the partner alone.
LEMMA RulesSkip ==
  ASSUME since \in Nat, NEW n \in Nat, NEW q \in Nat, n <= q,
         \A i \in n + 1..q : i > since => Heard(posts[i]) = {}
  PROVE  PartnerByTheRules(q) = PartnerByTheRules(n)
<1>1. \A i \in since + 1..q : Heard(posts[i]) # {} => i \in since + 1..n
  OBVIOUS
<1>2. since + 1..n \subseteq since + 1..q
  OBVIOUS
<1>3. Engaging(q) = Engaging(n)
  BY <1>1, <1>2 DEF Engaging
<1>4. \A i : HandedOff(q, i) <=> HandedOff(n, i)
  BY <1>1, <1>2 DEF HandedOff
<1>5. Decisive(q) = Decisive(n)
  BY <1>3, <1>4 DEF Decisive
<1> QED
  BY <1>5, RulesAre

\* What one more message comes to: it engages jean with its author, hands off, or neither.
LEMMA RulesNext ==
  ASSUME since \in Nat, NEW n \in Nat, since <= n, Heard(posts[n + 1]) # {}
  PROVE  LET m == posts[n + 1]
         IN PartnerByTheRules(n + 1) =
              IF Engages(m) THEN {m.author}
              ELSE IF m.to = {Else} THEN PartnerByTheRules(n) \ {m.author}
              ELSE PartnerByTheRules(n)
<1> DEFINE m == posts[n + 1]
<1>1. since + 1..n + 1 = (since + 1..n) \cup {n + 1}
  OBVIOUS
<1>2. CASE Engages(m)
  <2>1. n + 1 \in Engaging(n + 1) /\ \A k \in Engaging(n + 1) : k \in Int /\ k <= n + 1
    BY <1>2 DEF Engaging
  <2>2. ~ HandedOff(n + 1, n + 1)
    BY DEF HandedOff
  <2>3. \A j \in Decisive(n + 1) : j = n + 1
    BY <2>1 DEF Decisive
  <2>4. Decisive(n + 1) = {n + 1}
    BY <2>1, <2>2, <2>3 DEF Decisive
  <2> QED
    BY <1>2, <2>4, RulesAre
<1>3. CASE ~ Engages(m)
  <2>1. Engaging(n + 1) = Engaging(n)
    BY <1>1, <1>3 DEF Engaging
  <2>2. ASSUME NEW i \in Engaging(n)
        PROVE  HandedOff(n + 1, i) <=>
                 HandedOff(n, i) \/ (m.author = posts[i].author /\ m.to = {Else})
    <3>1. n + 1 > i
      BY DEF Engaging
    <3> QED
      BY <1>1, <3>1 DEF HandedOff
  <2>3. Decisive(n + 1) =
          {i \in Decisive(n) : ~ (m.author = posts[i].author /\ m.to = {Else})}
    BY <2>1, <2>2 DEF Decisive
  <2> QED
    BY <1>3, <2>3, RulesAre
<1> QED
  BY <1>2, <1>3

\* decide() follows the rules: from the partner they leave after n messages to the one they
\* leave after the next, and it answers that message if they do.
LEMMA DecideFollows ==
  ASSUME ConstantsAssumption, since \in Nat, NEW n \in Nat, since <= n,
         posts[n + 1] \in Message, Heard(posts[n + 1]) # {},
         NEW p \in Partners, LeavesPartner(n, p)
  PROVE  LET d == Decide(posts[n + 1], p)
         IN /\ LeavesPartner(n + 1, d.partner)
            /\ d.handle <=> AnsweredByTheRules(n + 1)
<1> DEFINE m == posts[n + 1]
<1>1. PartnerByTheRules(n + 1) =
        IF Engages(m) THEN {m.author}
        ELSE IF m.to = {Else} THEN PartnerByTheRules(n) \ {m.author}
        ELSE PartnerByTheRules(n)
  BY RulesNext
<1>2. PartnerByTheRules(n) = {p} \ {NoOne}
  BY DEF LeavesPartner
<1>3. p # NoOne => /\ p \in People /\ p \notin Blocked
                   /\ place = "closed" => p = Manager
  BY <1>2, RulesLeaveTheAdmitted
<1>4. /\ m.author \in People \cup {NoOne} /\ m.to \subseteq {Jean, Else}
      /\ NoOne \notin People /\ Blocked \subseteq People
  <2>1. m.author # Bot
    BY DEF Heard, Listens
  <2> QED
    BY <2>1 DEF Message, ConstantsAssumption
<1>5. AnsweredByTheRules(n + 1) <=>
        /\ Admitted(m)
        /\ \/ place = "dm" \/ Jean \in m.to
           \/ m.to = {} /\ m.author = p /\ p # NoOne
  BY <1>2 DEF AnsweredByTheRules
<1>6. Speaker(m, p) = IF m.author \in People THEN m.author ELSE p
  BY <1>4 DEF Speaker
<1> HIDE DEF m
<1>7. CASE BlockedUser(m)
  <2>1. Decide(m, p) = Ignore(p) /\ ~ Admitted(m)
    BY <1>7 DEF Decide, BlockedUser, Admitted
  <2>2. ~ Engages(m) /\ (p # NoOne => p # m.author)
    BY <1>3, <1>7, <2>1 DEF Engages, BlockedUser
  <2>3. PartnerByTheRules(n + 1) = {p} \ {NoOne}
    BY <1>1, <1>2, <2>2 DEF m
  <2> QED
    BY <1>5, <2>1, <2>3 DEF LeavesPartner, Ignore, m
<1>8. CASE ~ BlockedUser(m) /\ place = "dm"
  <2>1. Decide(m, p) = Answer(Speaker(m, p)) /\ Admitted(m)
    BY <1>8 DEF Decide, BlockedUser, Admitted
  <2>2. Engages(m) <=> m.author \in People
    BY <1>8, <2>1 DEF Engages
  <2>3. PartnerByTheRules(n + 1) = {Speaker(m, p)} \ {NoOne}
    BY <1>1, <1>2, <1>3, <1>4, <1>6, <2>2 DEF m
  <2> QED
    BY <1>5, <1>8, <2>1, <2>3 DEF LeavesPartner, Answer, m
<1>9. CASE ~ BlockedUser(m) /\ place # "dm" /\ ChannelNotAllowed(m)
  <2>1. Decide(m, p) = Ignore(p) /\ ~ Admitted(m)
    BY <1>9 DEF Decide, ChannelNotAllowed, Admitted
  <2>2. ~ Engages(m) /\ (p # NoOne => p # m.author)
    BY <1>3, <1>9, <2>1 DEF Engages, ChannelNotAllowed, IsManager
  <2>3. PartnerByTheRules(n + 1) = {p} \ {NoOne}
    BY <1>1, <1>2, <2>2 DEF m
  <2> QED
    BY <1>5, <2>1, <2>3 DEF LeavesPartner, Ignore, m
<1>10. CASE ~ BlockedUser(m) /\ place # "dm" /\ ~ ChannelNotAllowed(m)
  <2>1. Admitted(m)
    BY <1>10 DEF BlockedUser, Admitted, ChannelNotAllowed
  <2>2. CASE Jean \in m.to
    <3>1. Decide(m, p) = Answer(Speaker(m, p))
      BY <1>10, <2>2 DEF Decide
    <3>2. (Engages(m) <=> m.author \in People) /\ m.to # {Else}
      BY <2>1, <2>2 DEF Engages, ConstantsAssumption
    <3>3. PartnerByTheRules(n + 1) = {Speaker(m, p)} \ {NoOne}
      BY <1>1, <1>2, <1>4, <1>6, <3>2 DEF m
    <3> QED
      BY <1>5, <2>1, <2>2, <3>1, <3>3 DEF LeavesPartner, Answer, m
  <2>3. CASE Jean \notin m.to /\ m.to # {}
    <3>1. m.to = {Else} /\ ~ Engages(m)
      BY <1>4, <1>10, <2>3 DEF Engages
    <3>2. Decide(m, p) = Handoff(m, p)
      BY <1>10, <2>3 DEF Decide
    <3>3. PartnerByTheRules(n + 1) = ({p} \ {NoOne}) \ {m.author}
      BY <1>1, <1>2, <3>1 DEF m
    <3>4. CASE FromPartner(m, p)
      BY <1>5, <1>10, <2>3, <3>2, <3>3, <3>4
         DEF LeavesPartner, Handoff, FromPartner, StepBack, m
    <3>5. CASE ~ FromPartner(m, p)
      <4>1. PartnerByTheRules(n + 1) = {p} \ {NoOne}
        BY <3>3, <3>5 DEF FromPartner
      <4> QED
        BY <1>5, <1>10, <2>3, <3>2, <3>5, <4>1 DEF LeavesPartner, Handoff, Ignore, m
    <3> QED
      BY <3>4, <3>5
  <2>4. CASE Jean \notin m.to /\ m.to = {}
    <3>1. Decide(m, p) = IF FromPartner(m, p) THEN Answer(p) ELSE Ignore(p)
      BY <1>10, <2>4 DEF Decide
    <3>2. ~ Engages(m) /\ m.to # {Else}
      BY <1>10, <2>4 DEF Engages
    <3>3. PartnerByTheRules(n + 1) = {p} \ {NoOne}
      BY <1>1, <1>2, <3>2 DEF m
    <3>4. Decide(m, p).partner = p /\ (Decide(m, p).handle <=> FromPartner(m, p))
      BY <3>1 DEF Answer, Ignore
    <3> QED
      BY <1>5, <1>10, <2>1, <2>4, <3>3, <3>4 DEF LeavesPartner, FromPartner, m
  <2> QED
    BY <2>2, <2>3, <2>4
<1> QED
  BY <1>7, <1>8, <1>9, <1>10 DEF m
-----------------------------------------------------------------------------
(* Messages read in order follow the rules.                                 *)

WasRead(h) == at[h] \notin {"unsent", "sent"}

\* Nothing has been sent again, and nothing has failed.
NothingWentWrong ==
  \A h \in Handlers : at[h] # "unsent" => h[3] = 1 /\ at[h] # "failed"

\* What was read was posted before what was not.
ReadInOrder ==
  \A g, h \in Handlers : at[g] = "sent" /\ WasRead(h) => h[1] < g[1]

\* No two handlers are between the read of the partner and the write of the next.
OneWriter ==
  \A g, h \in Handlers : at[g] = "write" /\ at[h] = "write" => g = h

\* A row that expired did so before the messages in hand were posted.
InHandAreRecent ==
  /\ since <= Len(posts)
  /\ \A h \in Handlers : at[h] \in Working \cup {"sent"} => h[1] > since

\* Every message read so far is answered, or is about to be, as the rules say.
AnsweredSoFar ==
  \A h \in Handlers : h[1] > since =>
    /\ HasTurn(h) => AnsweredByTheRules(h[1])
    /\ at[h] = "ignored" => ~ AnsweredByTheRules(h[1])
    /\ at[h] = "write" => (Decision(h).handle <=> AnsweredByTheRules(h[1]))

\* The messages up to the n-th are those read so far, but for what nobody listens to.
ReadUpTo(n) ==
  /\ \A h \in Handlers : at[h] = "sent" => n < h[1]
  /\ \A h \in Handlers : WasRead(h) => h[1] <= n

\* The partner of the row, or the one somebody is about to write, is the one the rules
\* leave after the messages read so far.
PartnerSoFar ==
  \A n \in since..Len(posts) : ReadUpTo(n) =>
    /\ (\A h \in Handlers : at[h] # "write") => LeavesPartner(n, row.partner)
    /\ \A h \in Handlers : at[h] = "write" => LeavesPartner(n, Decision(h).partner)

OrderlyInv ==
  /\ NothingWentWrong
  /\ ReadInOrder
  /\ OneWriter
  /\ InHandAreRecent
  /\ AnsweredSoFar
  /\ PartnerSoFar

RulesInv == order = "orderly" => OrderlyInv

\* What the rules say of the first n messages stays so whatever happens to later ones,
\* and extends to later ones nobody listens to.
LEMMA RulesKept ==
  ASSUME since \in Nat, NEW n \in Nat, NEW q \in Nat, n <= q, UNCHANGED <<place, since>>,
         \A i \in since + 1..n : posts'[i] = posts[i],
         \A i \in n + 1..q : i > since => Heard(posts[i])' = {}
  PROVE  /\ PartnerByTheRules(q)' = PartnerByTheRules(n)
         /\ \A p : LeavesPartner(q, p)' <=> LeavesPartner(n, p)
<1>1. ASSUME NEW i \in since + 1..n
      PROVE  Heard(posts[i])' = Heard(posts[i]) /\ (Engages(posts[i])' <=> Engages(posts[i]))
  BY DEF Heard, Events, Listens, Engages, Admitted, IsManager
<1>2. \A i \in since + 1..q : Heard(posts[i])' # {} => i \in since + 1..n
  OBVIOUS
<1>3. since + 1..n \subseteq since + 1..q
  OBVIOUS
<1>4. Engaging(q)' = Engaging(n)
  BY <1>1, <1>2, <1>3 DEF Engaging
<1>5. ASSUME NEW i \in since + 1..n PROVE HandedOff(q, i)' <=> HandedOff(n, i)
  BY <1>1, <1>2, <1>3 DEF HandedOff
<1>6. Engaging(n) \subseteq since + 1..n
  BY DEF Engaging
<1>7. Decisive(q)' = Decisive(n)
  BY <1>4, <1>5, <1>6 DEF Decisive
<1>8. Decisive(n) \subseteq since + 1..n
  BY <1>6 DEF Decisive
<1>9. PartnerByTheRules(q)' = {posts'[i].author : i \in Decisive(q)'}
  BY DEF PartnerByTheRules, Decisive, Engaging, HandedOff
<1>10. PartnerByTheRules(q)' = PartnerByTheRules(n)
  BY <1>7, <1>8, <1>9, RulesAre
<1> QED
  BY <1>10 DEF LeavesPartner

\* So whether they answer a message does not depend on later ones.
LEMMA AnswerKept ==
  ASSUME since \in Nat, UNCHANGED <<place, since>>, NEW n \in Nat, n > since,
         \A i \in since + 1..n : posts'[i] = posts[i]
  PROVE  AnsweredByTheRules(n)' <=> AnsweredByTheRules(n)
<1>1. n - 1 \in Nat /\ \A i \in since + 1..n - 1 : posts'[i] = posts[i]
  OBVIOUS
<1>2. PartnerByTheRules(n - 1)' = PartnerByTheRules(n - 1)
  BY <1>1, RulesKept
<1>3. posts'[n] = posts[n]
  OBVIOUS
<1> QED
  BY <1>2, <1>3 DEF AnsweredByTheRules, Heard, Events, Listens, Admitted, IsManager

\* As long as nothing is sent again a message has one handler.
LEMMA OneHandler ==
  ASSUME HandledInv, NothingWentWrong, NEW g \in Handlers, NEW h \in Handlers,
         at[g] # "unsent", at[h] # "unsent", g[1] = h[1]
  PROVE  g = h
<1>1. Of(g) = Of(h)
  BY DEF Of
<1>2. g[2] = h[2]
  BY <1>1, OneEventHeard DEF HandledInv, OnlyTheHeard
<1>3. g[3] = h[3]
  BY DEF NothingWentWrong
<1> QED
  BY <1>2, <1>3 DEF Handlers

LEMMA InitRules == ConstantsAssumption /\ Init => RulesInv
<1> SUFFICES ASSUME Init PROVE OrderlyInv
  BY DEF RulesInv
<1>1. PartnerByTheRules(0) = {}
  BY RulesAre DEF Init, Decisive, Engaging
<1> QED
  BY <1>1 DEF Init, NoRow, OrderlyInv, NothingWentWrong, ReadInOrder, WasRead, OneWriter,
              InHandAreRecent, Working, AnsweredSoFar, HasTurn, PartnerSoFar, LeavesPartner

LEMMA PostRules ==
  ASSUME ConstantsAssumption, IInv, HandledInv, OrderlyInv, NEW m \in Messages, Post(m)
  PROVE  OrderlyInv'
<1> USE DEF IInv, OrderlyInv
<1>1. /\ Len(posts') = Len(posts) + 1
      /\ \A i \in 1..Len(posts) : posts'[i] = posts[i]
      /\ posts'[Len(posts) + 1] = m
  BY PostKeeps
<1>2. /\ at \in [Handlers -> Steps] /\ Len(posts) \in Nat /\ Len(posts) < MaxPosts
      /\ MaxPosts \in Nat /\ since \in Nat /\ since <= Len(posts)
      /\ UNCHANGED <<place, row, seen, since>>
  BY DEF TypeOK, Post, ConstantsAssumption, InHandAreRecent
<1>3. \A h \in Handlers :
        /\ at[h] # "unsent" => at'[h] = at[h] /\ h[1] \in 1..Len(posts)
        /\ at'[h] # at[h] => at'[h] = "sent" /\ h[1] = Len(posts) + 1 /\ h[3] = 1
  BY <1>1, <1>2 DEF Post, HandlersHaveAMessage
<1>4. \A h \in Handlers : h[1] \in Nat
  BY DEF Handlers
<1>5. \A h \in Handlers : /\ WasRead(h)' <=> WasRead(h)
                          /\ HasTurn(h)' <=> HasTurn(h)
                          /\ at'[h] = "write" <=> at[h] = "write"
                          /\ at'[h] = "ignored" <=> at[h] = "ignored"
                          /\ at[h] = "sent" => at'[h] = "sent"
  BY <1>3 DEF WasRead, HasTurn
<1>6. ASSUME NEW h \in Handlers, at[h] # "unsent" PROVE Decision(h)' = Decision(h)
  <2>1. Of(h)' = Of(h)
    BY <1>1, <1>3, <1>6 DEF Of
  <2> QED
    BY <1>2, <2>1, DecisionAfter DEF Decision
<1>7. NothingWentWrong'
  BY <1>3 DEF NothingWentWrong
<1>8. ReadInOrder'
  BY <1>2, <1>3, <1>4, <1>5 DEF ReadInOrder, WasRead
<1>9. OneWriter'
  BY <1>5 DEF OneWriter
<1>10. InHandAreRecent'
  BY <1>1, <1>2, <1>3 DEF InHandAreRecent, Working
<1>11. AnsweredSoFar'
  <2> SUFFICES ASSUME NEW h \in Handlers, h[1] > since, WasRead(h)
               PROVE  /\ HasTurn(h) => AnsweredByTheRules(h[1])'
                      /\ at[h] = "ignored" => ~ AnsweredByTheRules(h[1])'
                      /\ at[h] = "write" =>
                           (Decision(h)'.handle <=> AnsweredByTheRules(h[1])')
    BY <1>2, <1>5 DEF AnsweredSoFar, WasRead, HasTurn
  <2>1. h[1] \in 1..Len(posts) /\ at[h] # "unsent"
    BY <1>3 DEF WasRead
  <2>2. AnsweredByTheRules(h[1])' <=> AnsweredByTheRules(h[1])
    BY <1>1, <1>2, <2>1, AnswerKept
  <2> QED
    BY <1>6, <2>1, <2>2 DEF AnsweredSoFar
<1>12. PartnerSoFar'
  <2> SUFFICES ASSUME NEW n \in since..Len(posts) + 1, ReadUpTo(n)'
               PROVE  /\ (\A h \in Handlers : at[h] # "write") => LeavesPartner(n, row.partner)'
                      /\ \A h \in Handlers : at[h] = "write" =>
                           LeavesPartner(n, Decision(h).partner)'
    BY <1>1, <1>2, <1>5 DEF PartnerSoFar
  <2>1. PICK l \in since..Len(posts) :
          /\ l <= n /\ ReadUpTo(l)
          /\ \A i \in l + 1..n : i > since => Heard(posts[i])' = {}
    <3>1. CASE n \in since..Len(posts)
      <4>1. ReadUpTo(n)
        BY <1>5 DEF ReadUpTo
      <4> QED
        BY <1>2, <3>1, <4>1
    <3>2. CASE n = Len(posts) + 1
      <4>1. Heard(posts[n])' = {}
        <5> SUFFICES ASSUME NEW k \in Heard(posts[n])' PROVE FALSE
          OBVIOUS
        <5>1. k \in Heard(m) /\ k \in Kinds
          BY <1>1, <1>2, <3>2 DEF Heard, Events, Listens, Kinds
        <5>2. <<n, k, 1>> \in Handlers
          BY <1>2, <3>2, <5>1 DEF Handlers, Copies
        <5>3. at'[<<n, k, 1>>] = "sent"
          BY <1>1, <3>2, <5>1, <5>2 DEF Post
        <5> QED
          BY <1>2, <3>2, <5>2, <5>3 DEF ReadUpTo
      <4>2. \A h \in Handlers : at[h] # "sent"
        BY <1>2, <1>3, <1>4, <1>5, <3>2 DEF ReadUpTo
      <4>3. ReadUpTo(Len(posts))
        BY <1>2, <1>3, <4>2 DEF ReadUpTo, WasRead
      <4> QED
        BY <1>2, <3>2, <4>1, <4>3
    <3>3. n \in since..Len(posts) \/ n = Len(posts) + 1
      BY <1>2
    <3> QED
      BY <3>1, <3>2, <3>3
  <2>2. \A p : LeavesPartner(n, p)' <=> LeavesPartner(l, p)
    <3>1. l \in Nat /\ n \in Nat /\ \A i \in since + 1..l : posts'[i] = posts[i]
      BY <1>1, <1>2
    <3> QED
      BY <1>2, <2>1, <3>1, RulesKept
  <2>3. \A h \in Handlers : at[h] = "write" => LeavesPartner(l, Decision(h).partner)
    BY <2>1 DEF PartnerSoFar
  <2>4. (\A h \in Handlers : at[h] # "write") => LeavesPartner(l, row.partner)
    BY <2>1 DEF PartnerSoFar
  <2>5. \A h \in Handlers : at[h] = "write" => Decision(h)' = Decision(h)
    BY <1>6
  <2> QED
    BY <1>2, <2>2, <2>3, <2>4, <2>5 DEF LeavesPartner
<1> QED
  BY <1>7, <1>8, <1>9, <1>10, <1>11, <1>12

LEMMA ReadRules ==
  ASSUME ConstantsAssumption, IInv, HandledInv, OrderlyInv, NEW h \in Handlers, Read(h),
         ~ Overlapping(h), ~ Overtaking(h)
  PROVE  OrderlyInv'
<1> USE DEF IInv, OrderlyInv
<1> DEFINE n0 == h[1] - 1
           d == Decide(Of(h), row.partner)
           next == AfterRead(d, row.partner)
<1>1. /\ at[h] = "sent" /\ at' = [at EXCEPT ![h] = next]
      /\ seen' = IF next = "write" THEN [seen EXCEPT ![h] = row.partner] ELSE seen
      /\ UNCHANGED <<place, posts, row, since>>
  BY DEF Read, At
<1>2. /\ at \in [Handlers -> Steps] /\ seen \in [Handlers -> Partners] /\ since \in Nat
      /\ Len(posts) \in Nat /\ row.partner \in Partners /\ since <= Len(posts)
  BY DEF TypeOK, ConstantsAssumption, InHandAreRecent
<1>3. h[1] \in 1..Len(posts) /\ h[1] > since /\ posts[h[1]] \in Message /\ Of(h) = posts[h[1]]
  BY <1>1 DEF HandlersHaveAMessage, InHandAreRecent, TypeOK, ConstantsAssumption, Of
<1>4. \A g \in Handlers : g[1] \in Nat
  BY DEF Handlers
<1>5. \A g \in Handlers \ {h} : /\ at[g] # "write"
                                /\ at[g] = "sent" => h[1] < g[1]
                                /\ WasRead(g) => g[1] < h[1]
  <2> SUFFICES ASSUME NEW g \in Handlers \ {h}
               PROVE  /\ at[g] # "write"
                      /\ at[g] = "sent" => h[1] < g[1]
                      /\ WasRead(g) => g[1] < h[1]
    OBVIOUS
  <2>1. at[g] # "write"
    BY DEF Overlapping
  <2>2. at[g] = "sent" => h[1] < g[1]
    BY <1>1, <1>4, OneHandler DEF Overtaking
  <2>3. WasRead(g) => g[1] < h[1]
    BY <1>1 DEF ReadInOrder
  <2> QED
    BY <2>1, <2>2, <2>3
<1>6. LeavesPartner(n0, row.partner) /\ n0 \in Nat /\ since <= n0
  <2>1. n0 \in since..Len(posts) /\ n0 < h[1]
    BY <1>2, <1>3
  <2>2. \A g \in Handlers : at[g] = "sent" => n0 < g[1]
    BY <1>2, <1>3, <1>4, <1>5
  <2>3. \A g \in Handlers : WasRead(g) => g # h /\ g[1] < h[1]
    BY <1>1, <1>5 DEF WasRead
  <2>4. ReadUpTo(n0)
    BY <1>3, <1>4, <2>2, <2>3 DEF ReadUpTo
  <2>5. \A g \in Handlers : at[g] # "write"
    BY <1>1, <1>5
  <2> QED
    BY <1>2, <2>1, <2>4, <2>5 DEF PartnerSoFar
<1>7. h[2] \in Heard(posts[h[1]]) /\ n0 + 1 = h[1]
  BY <1>1, <1>3 DEF HandledInv, OnlyTheHeard
<1>8. LeavesPartner(h[1], d.partner) /\ (d.handle <=> AnsweredByTheRules(h[1]))
  <2> HIDE DEF n0
  <2>1. posts[n0 + 1] \in Message /\ Heard(posts[n0 + 1]) # {}
    BY <1>3, <1>7
  <2> QED
    BY <1>2, <1>3, <1>6, <1>7, <2>1, DecideFollows
<1>9. /\ next \in {"write", "ack", "ignored"}
      /\ next = "write" <=> d.partner # row.partner
      /\ next = "ack" => d.handle
      /\ next = "ignored" => ~ d.handle
  BY DEF AfterRead
<1> HIDE DEF next, d, n0
<1>10. /\ at'[h] = next /\ (next = "write" => seen'[h] = row.partner)
       /\ \A g \in Handlers \ {h} : at'[g] = at[g] /\ seen'[g] = seen[g]
  BY <1>1, <1>2
<1>11. next = "write" => Decision(h)' = d
  BY <1>1, <1>10, DecisionAfter DEF d, Of
<1>12. \A g \in Handlers \ {h} : Decision(g)' = Decision(g)
  BY <1>1, <1>10, DecisionAfter DEF Decision, Of
<1>13. \A n \in since + 1..Len(posts) : AnsweredByTheRules(n)' <=> AnsweredByTheRules(n)
  BY <1>1, <1>2, AnswerKept
<1>14. NothingWentWrong'
  BY <1>1, <1>9, <1>10 DEF NothingWentWrong
<1>15. ReadInOrder'
  BY <1>5, <1>9, <1>10 DEF ReadInOrder, WasRead
<1>16. OneWriter'
  BY <1>5, <1>10 DEF OneWriter
<1>17. InHandAreRecent'
  BY <1>1, <1>3, <1>10 DEF InHandAreRecent
<1>18. AnsweredSoFar'
  <2> SUFFICES ASSUME NEW g \in Handlers, g[1] > since, WasRead(g)'
               PROVE  /\ HasTurn(g)' => AnsweredByTheRules(g[1])'
                      /\ at'[g] = "ignored" => ~ AnsweredByTheRules(g[1])'
                      /\ at'[g] = "write" =>
                           (Decision(g)'.handle <=> AnsweredByTheRules(g[1])')
    BY <1>1 DEF AnsweredSoFar, WasRead, HasTurn
  <2>1. CASE g = h
    <3>1. AnsweredByTheRules(h[1])' <=> d.handle
      BY <1>2, <1>3, <1>8, <1>13
    <3> QED
      BY <1>9, <1>10, <1>11, <2>1, <3>1 DEF HasTurn
  <2>2. CASE g # h
    <3>1. at'[g] = at[g] /\ WasRead(g) /\ g[1] \in 1..Len(posts)
      BY <1>10, <2>2 DEF WasRead, HandlersHaveAMessage
    <3>2. AnsweredByTheRules(g[1])' <=> AnsweredByTheRules(g[1])
      BY <1>2, <1>13, <3>1
    <3> QED
      BY <1>12, <2>2, <3>1, <3>2 DEF AnsweredSoFar, HasTurn
  <2> QED
    BY <2>1, <2>2
<1>19. PartnerSoFar'
  <2> SUFFICES ASSUME NEW n \in since..Len(posts), ReadUpTo(n)'
               PROVE  /\ (\A g \in Handlers : at'[g] # "write") =>
                           LeavesPartner(n, row.partner)'
                      /\ \A g \in Handlers : at'[g] = "write" =>
                           LeavesPartner(n, Decision(g).partner)'
    BY <1>1 DEF PartnerSoFar
  <2>1. h[1] <= n
    BY <1>9, <1>10 DEF ReadUpTo, WasRead
  <2>2. ASSUME NEW i \in h[1] + 1..n PROVE Heard(posts[i]) = {}
    <3> SUFFICES ASSUME NEW k \in Heard(posts[i]) PROVE FALSE
      OBVIOUS
    <3>1. i \in 1..Len(posts)
      BY <1>2, <1>3
    <3>2. <<i, k, 1>> \in Handlers /\ <<i, k, 1>> # h
      BY <1>2, <1>3, <3>1, FirstCopy
    <3>3. at[<<i, k, 1>>] # "unsent"
      BY <3>1 DEF HandledInv, HeardAreHandled
    <3>4. at[<<i, k, 1>>] = "sent" => n < i
      BY <1>10, <3>2 DEF ReadUpTo
    <3>5. WasRead(<<i, k, 1>>) => i < h[1]
      BY <1>5, <3>2
    <3> QED
      BY <1>3, <3>3, <3>4, <3>5 DEF WasRead
  <2>3. n \in Nat /\ h[1] \in Nat
    BY <1>2, <1>3
  <2>4. \A i \in h[1] + 1..n : Heard(posts[i])' = {}
    BY <1>1, <2>2 DEF Heard, Events, Listens
  <2>5. \A p : LeavesPartner(n, p)' <=> LeavesPartner(h[1], p)
    BY <1>1, <1>2, <2>1, <2>3, <2>4, RulesKept
  <2>6. ASSUME \A g \in Handlers : at'[g] # "write" PROVE LeavesPartner(n, row.partner)'
    <3>1. d.partner = row.partner /\ row' = row
      BY <1>1, <1>9, <1>10, <2>6
    <3> QED
      BY <1>8, <2>5, <3>1 DEF LeavesPartner
  <2>7. ASSUME NEW g \in Handlers, at'[g] = "write" PROVE LeavesPartner(n, Decision(g).partner)'
    <3>1. g = h /\ next = "write"
      BY <1>5, <1>10, <2>7
    <3>2. Decision(g)' = d
      BY <1>11, <3>1
    <3> QED
      BY <1>8, <2>5, <3>2 DEF LeavesPartner
  <2> QED
    BY <2>6, <2>7
<1> QED
  BY <1>14, <1>15, <1>16, <1>17, <1>18, <1>19

\* A step that takes no new message in keeps the rules if a turn, or its refusal, is what
\* was decided, and the partner is left alone or set to what was decided.
LEMMA StepRules ==
  ASSUME ConstantsAssumption, IInv, HandledInv, OrderlyInv,
         UNCHANGED <<place, posts, since>>,
         \A g \in Handlers :
           /\ at'[g] = "unsent" <=> at[g] = "unsent"
           /\ at'[g] = "sent" <=> at[g] = "sent"
           /\ at'[g] # "failed"
           /\ at'[g] = "write" => at[g] = "write" /\ seen'[g] = seen[g]
           /\ at'[g] \in Working => at[g] \in Working
           /\ HasTurn(g)' => HasTurn(g) \/ (at[g] = "write" /\ Decision(g).handle)
           /\ at'[g] = "ignored" =>
                at[g] = "ignored" \/ (at[g] = "write" /\ ~ Decision(g).handle),
         \/ /\ \A g \in Handlers : at'[g] = "write" <=> at[g] = "write"
            /\ row'.partner = row.partner
         \/ \E g \in Handlers : at[g] = "write" /\ row'.partner = Decision(g).partner
  PROVE  OrderlyInv'
<1> USE DEF IInv, OrderlyInv
<1>1. since \in Nat /\ Len(posts) \in Nat /\ since <= Len(posts)
  BY DEF TypeOK, ConstantsAssumption, InHandAreRecent
<1>2. \A g \in Handlers : WasRead(g)' <=> WasRead(g)
  BY DEF WasRead
<1>3. \A g \in Handlers : at'[g] = "write" => Decision(g)' = Decision(g)
  BY DecisionAfter DEF Decision, Of
<1>4. NothingWentWrong'
  BY DEF NothingWentWrong
<1>5. ReadInOrder'
  BY <1>2 DEF ReadInOrder
<1>6. OneWriter'
  BY DEF OneWriter
<1>7. InHandAreRecent'
  BY DEF InHandAreRecent
<1>8. AnsweredSoFar'
  <2> SUFFICES ASSUME NEW g \in Handlers, g[1] > since, WasRead(g)
               PROVE  /\ HasTurn(g)' => AnsweredByTheRules(g[1])'
                      /\ at'[g] = "ignored" => ~ AnsweredByTheRules(g[1])'
                      /\ at'[g] = "write" =>
                           (Decision(g)'.handle <=> AnsweredByTheRules(g[1])')
    BY <1>2 DEF AnsweredSoFar, WasRead, HasTurn
  <2>1. g[1] \in 1..Len(posts)
    BY DEF WasRead, HandlersHaveAMessage
  <2>2. AnsweredByTheRules(g[1])' <=> AnsweredByTheRules(g[1])
    BY <1>1, <2>1, AnswerKept
  <2> QED
    BY <1>3, <2>2 DEF AnsweredSoFar
<1>9. PartnerSoFar'
  <2> SUFFICES ASSUME NEW n \in since..Len(posts), ReadUpTo(n)'
               PROVE  /\ (\A g \in Handlers : at'[g] # "write") =>
                           LeavesPartner(n, row.partner)'
                      /\ \A g \in Handlers : at'[g] = "write" =>
                           LeavesPartner(n, Decision(g).partner)'
    BY DEF PartnerSoFar
  <2>1. ReadUpTo(n)
    BY <1>2 DEF ReadUpTo
  <2>2. \A p : LeavesPartner(n, p)' <=> LeavesPartner(n, p)
    <3>1. n \in Nat /\ \A i \in n + 1..n : i > since => Heard(posts[i])' = {}
      BY <1>1
    <3> QED
      BY <1>1, <3>1, RulesKept
  <2>3. \A g \in Handlers : at[g] = "write" => LeavesPartner(n, Decision(g).partner)
    BY <2>1 DEF PartnerSoFar
  <2>4. (\A g \in Handlers : at[g] # "write") => LeavesPartner(n, row.partner)
    BY <2>1 DEF PartnerSoFar
  <2> QED
    BY <1>3, <2>2, <2>3, <2>4 DEF LeavesPartner
<1> QED
  BY <1>4, <1>5, <1>6, <1>7, <1>8, <1>9

\* A row that expired, all its messages done with, takes the past along.
LEMMA ExpiryRules ==
  ASSUME ConstantsAssumption, IInv, OrderlyInv, ~ Busy,
         UNCHANGED <<posts, at>>, row'.partner = NoOne, since' = Len(posts)
  PROVE  OrderlyInv'
<1> USE DEF IInv, OrderlyInv
<1>1. /\ Len(posts) \in Nat
      /\ \A h \in Handlers : at[h] # "unsent" => h[1] <= Len(posts) /\ h[1] \in Nat
  BY DEF TypeOK, HandlersHaveAMessage
<1>2. \A h \in Handlers : at[h] \notin Working \cup {"sent"}
  BY DEF Busy
<1>3. NothingWentWrong' /\ ReadInOrder' /\ OneWriter'
  BY DEF NothingWentWrong, ReadInOrder, WasRead, OneWriter
<1>4. InHandAreRecent'
  BY <1>1, <1>2 DEF InHandAreRecent
<1>5. AnsweredSoFar'
  <2>1. \A h \in Handlers : h[1] > since' => at'[h] = "unsent"
    BY <1>1 DEF Handlers
  <2> QED
    BY <2>1 DEF AnsweredSoFar, HasTurn
<1>6. PartnerSoFar'
  <2>1. \A h \in Handlers : at'[h] # "write"
    BY <1>2 DEF Working
  <2>2. \A n \in since'..Len(posts') : Engaging(n)' = {}
    BY <1>1 DEF Engaging
  <2>3. \A n \in since'..Len(posts') : PartnerByTheRules(n)' = {}
    BY <2>2 DEF PartnerByTheRules, Engaging
  <2> QED
    BY <2>1, <2>3 DEF PartnerSoFar, LeavesPartner
<1> QED
  BY <1>3, <1>4, <1>5, <1>6

LEMMA HandlerRules ==
  ASSUME ConstantsAssumption, IInv, HandledInv, OrderlyInv,
         NEW h \in Handlers, Write(h) \/ Ack(h) \/ Turn(h)
  PROVE  OrderlyInv'
<1> USE DEF IInv
<1>1. at \in [Handlers -> Steps] /\ seen \in [Handlers -> Partners]
  BY DEF TypeOK
<1>2. \A g \in Handlers : at[g] # "failed"
  BY DEF OrderlyInv, NothingWentWrong
<1>3. CASE Write(h)
  <2>1. /\ at[h] = "write" /\ UNCHANGED <<place, posts, since>>
        /\ at' = [at EXCEPT ![h] = IF Decision(h).handle THEN "ack" ELSE "ignored"]
        /\ seen' = [seen EXCEPT ![h] = NoOne]
        /\ SetPartner(Decision(h).partner)
    BY <1>3 DEF Write, At, Forget
  <2>2. row'.partner = Decision(h).partner
    BY <2>1 DEF SetPartner
  <2>3. /\ at'[h] = IF Decision(h).handle THEN "ack" ELSE "ignored"
        /\ \A g \in Handlers \ {h} : at'[g] = at[g] /\ seen'[g] = seen[g]
    BY <1>1, <2>1
  <2>4. ASSUME NEW g \in Handlers
        PROVE  /\ at'[g] = "unsent" <=> at[g] = "unsent"
               /\ at'[g] = "sent" <=> at[g] = "sent"
               /\ at'[g] # "failed"
               /\ at'[g] = "write" => at[g] = "write" /\ seen'[g] = seen[g]
               /\ at'[g] \in Working => at[g] \in Working
               /\ HasTurn(g)' => HasTurn(g) \/ (at[g] = "write" /\ Decision(g).handle)
               /\ at'[g] = "ignored" =>
                    at[g] = "ignored" \/ (at[g] = "write" /\ ~ Decision(g).handle)
    <3>1. CASE g = h
      BY <2>1, <2>3, <3>1 DEF Working, HasTurn
    <3>2. CASE g # h
      BY <1>2, <2>3, <3>2 DEF HasTurn
    <3> QED
      BY <3>1, <3>2
  <2> QED
    BY <2>1, <2>2, <2>4, StepRules
<1>4. CASE Ack(h) \/ Turn(h)
  <2>1. /\ at[h] \in {"ack", "turn"} /\ UNCHANGED <<place, posts, since, seen>>
        /\ at' \in {[at EXCEPT ![h] = "turn"], [at EXCEPT ![h] = "answered"]}
        /\ row'.partner = row.partner
    <3>1. Touch => row'.partner = row.partner
      BY TouchType
    <3> QED
      BY <1>4, <3>1 DEF Ack, Turn, AfterAck, At
  <2>2. /\ at'[h] \in {"turn", "answered"} /\ HasTurn(h)
        /\ \A g \in Handlers \ {h} : at'[g] = at[g]
    BY <1>1, <2>1 DEF HasTurn
  <2>3. \A g \in Handlers : HasTurn(g)' => HasTurn(g)
    BY <2>2 DEF HasTurn
  <2> QED
    BY <1>2, <2>1, <2>2, <2>3, StepRules DEF Working
<1> QED
  BY <1>3, <1>4

\* A row step other than expiry leaves the partner alone, or takes none away.
LEMMA RowRules ==
  ASSUME ConstantsAssumption, IInv, HandledInv, OrderlyInv, order' = "orderly",
         Mode \/ Expire \/ Prune \/ UNCHANGED vars
  PROVE  OrderlyInv'
<1>1. UNCHANGED <<place, posts, at, seen>>
  BY DEF Mode, Expire, Prune, vars
<1>2. CASE since' = since /\ row'.partner = row.partner
  <2>1. \A g \in Handlers : at[g] # "failed"
    BY DEF OrderlyInv, NothingWentWrong
  <2>2. \A g \in Handlers : HasTurn(g)' <=> HasTurn(g)
    BY <1>1 DEF HasTurn
  <2> QED
    BY <1>1, <1>2, <2>1, <2>2, StepRules
<1>3. CASE Prune
  <2>1. CASE row.age = "old" /\ ~ Busy
    <3>1. row'.partner = NoOne /\ since' = Len(posts)
      BY <1>3, <2>1 DEF Prune, NoRow
    <3> QED
      BY <1>1, <2>1, <3>1, ExpiryRules
  <2>2. CASE ~ (row.age = "old" /\ ~ Busy)
    <3>1. since' = since /\ row' = NoRow /\ row.partner = NoOne
      BY <1>3, <2>2 DEF Prune, IInv, TypeOK, Orders
    <3> QED
      BY <1>2, <3>1 DEF NoRow
  <2> QED
    BY <2>1, <2>2
<1>4. CASE Mode \/ Expire \/ UNCHANGED vars
  <2>1. row \in [partner : Partners, age : Ages]
    BY DEF IInv, TypeOK
  <2> QED
    BY <1>2, <1>4, <2>1 DEF Mode, Expire, vars
<1> QED
  BY <1>3, <1>4

LEMMA NextRules ==
  ASSUME ConstantsAssumption, IInv, HandledInv, RulesInv, [Next]_vars PROVE RulesInv'
<1> SUFFICES ASSUME order' = "orderly" PROVE OrderlyInv'
  BY DEF RulesInv
<1>1. order = "orderly"
  <2>1. CASE \E m \in Messages : Post(m)
    BY <2>1 DEF Post
  <2>2. CASE \E h \in Handlers : Handle(h) \/ Redeliver(h) \/ Fails(h)
    BY <2>2 DEF Handle, Read, Write, Ack, Turn, Redeliver, Fails
  <2>3. CASE Mode \/ Expire \/ Prune \/ UNCHANGED vars
    BY <2>3 DEF Mode, Expire, Prune, vars
  <2> QED
    BY <2>1, <2>2, <2>3 DEF Next
<1>2. OrderlyInv
  BY <1>1 DEF RulesInv
<1>3. CASE \E m \in Messages : Post(m)
  BY <1>2, <1>3, PostRules
<1>4. CASE \E h \in Handlers : Read(h)
  <2>1. PICK h \in Handlers : Read(h)
    BY <1>4
  <2>2. ~ Overlapping(h) /\ ~ Overtaking(h)
    BY <2>1 DEF Read
  <2> QED
    BY <1>2, <2>1, <2>2, ReadRules
<1>5. CASE \E h \in Handlers : Write(h) \/ Ack(h) \/ Turn(h)
  BY <1>2, <1>5, HandlerRules
<1>6. CASE Mode \/ Expire \/ Prune \/ UNCHANGED vars
  BY <1>2, <1>6, RowRules
<1>7. \A h \in Handlers : ~ Redeliver(h) /\ ~ Fails(h)
  BY DEF Redeliver, Fails
<1> QED
  BY <1>3, <1>4, <1>5, <1>6, <1>7 DEF Next, Handle

LEMMA RulesAreInductive == Spec => [](IInv /\ HandledInv /\ RulesInv)
<1>1. ConstantsAssumption /\ IInv /\ HandledInv /\ RulesInv /\ [Next]_vars => RulesInv'
  BY NextRules
<1> QED
  BY <1>1, InitRules, HandledIsInductive, ConstantsAssumption, PTL DEF Spec

\* Messages read one after the other, in the order they were posted, are answered exactly
\* as README.md:219-227 says, and leave the partner it says, for any people, any messages
\* and any number of them: decide() and the row it keeps carry enough to follow rules
\* stated over the whole history of the thread.
THEOREM RulesFollowed == Spec => []OrderlyMessagesFollowTheRules
<1>1. ASSUME IInv, HandledInv, RulesInv PROVE OrderlyMessagesFollowTheRules
  <2> SUFFICES ASSUME order = "orderly", ~ Busy PROVE AnswersByTheRules /\ PartnerIsByTheRules
    BY DEF OrderlyMessagesFollowTheRules
  <2> USE <1>1 DEF IInv
  <2>1. OrderlyInv
    BY DEF RulesInv
  <2>2. Len(posts) \in Nat /\ since \in Nat /\ since <= Len(posts)
    BY <2>1, ConstantsAssumption DEF TypeOK, OrderlyInv, InHandAreRecent, ConstantsAssumption
  <2>3. \A h \in Handlers : at[h] \in {"unsent", "ignored", "answered"}
    BY <2>1 DEF Busy, Working, TypeOK, Steps, OrderlyInv, NothingWentWrong
  <2>4. AnswersByTheRules
    <3> SUFFICES ASSUME NEW i \in since + 1..Len(posts)
                 PROVE  AnsweredByTheRules(i) <=> \E h \in Handlers : h[1] = i /\ HasTurn(h)
      BY DEF AnswersByTheRules
    <3>1. i > since /\ i \in 1..Len(posts)
      BY <2>2
    <3>2. ASSUME NEW h \in Handlers, h[1] = i, HasTurn(h) PROVE AnsweredByTheRules(i)
      BY <2>1, <3>1, <3>2 DEF OrderlyInv, AnsweredSoFar
    <3>3. ASSUME AnsweredByTheRules(i) PROVE \E h \in Handlers : h[1] = i /\ HasTurn(h)
      <4>1. PICK k \in Heard(posts[i]) : TRUE
        BY <3>3 DEF AnsweredByTheRules
      <4>2. <<i, k, 1>> \in Handlers /\ at[<<i, k, 1>>] # "unsent"
        BY <3>1, <4>1, FirstCopy, ConstantsAssumption DEF HandledInv, HeardAreHandled
      <4>3. at[<<i, k, 1>>] # "ignored"
        BY <2>1, <3>1, <3>3, <4>2 DEF OrderlyInv, AnsweredSoFar
      <4>4. HasTurn(<<i, k, 1>>)
        BY <2>3, <4>2, <4>3 DEF HasTurn
      <4> QED
        BY <4>2, <4>4
    <3> QED
      BY <3>2, <3>3
  <2>5. PartnerIsByTheRules
    <3>1. ReadUpTo(Len(posts))
      BY <2>2, <2>3 DEF ReadUpTo, WasRead, HandlersHaveAMessage
    <3>2. LeavesPartner(Len(posts), row.partner)
      BY <2>1, <2>2, <2>3, <3>1 DEF OrderlyInv, PartnerSoFar
    <3> QED
      BY <3>2 DEF LeavesPartner, PartnerIsByTheRules
  <2> QED
    BY <2>4, <2>5
<1> QED
  BY <1>1, RulesAreInductive, PTL
=============================================================================
