---------------------------- MODULE MCEngagement ----------------------------
(* Instances of Engagement for TLC. *)
EXTENDS Engagement

CONSTANTS ana, budi, mal, bot, noOne, jean, else

MCPeople  == {ana, budi, mal}
MCBlocked == {mal}

Says(who, whom) == [author |-> who, to |-> whom, subtyped |-> FALSE]

\* Ana, the manager, and budi mention jean, follow up and hand off, and ana uploads a file;
\* the others are not let near her, and one message has no author.
MCMessages == {Says(ana, {}), Says(ana, {jean}), Says(ana, {else}),
               Says(budi, {}), Says(budi, {jean}),
               Says(mal, {jean}), Says(bot, {jean}), Says(noOne, {jean}),
               [Says(ana, {}) EXCEPT !.subtyped = TRUE]}

\* And one of every other sort.
MCAllMessages ==
  MCMessages \cup {[Says(ana, {jean}) EXCEPT !.subtyped = TRUE], Says(budi, {jean, else}),
                   Says(budi, {else}), Says(mal, {}), Says(mal, {else}), Says(noOne, {}),
                   Says(noOne, {else})}
=============================================================================
