---------------------------- MODULE ThreadMemory ----------------------------
(***************************************************************************)
(* What any number of workers with caches, disks and a store promise       *)
(* together: the thread has one memory.  A turn starts from a history that *)
(* has everything the memory has of its conversation, or starts a later    *)
(* conversation; it ends by putting a longer history in the memory or by   *)
(* leaving the memory alone.  Retention may empty the memory at any time.  *)
(***************************************************************************)
EXTENDS Integers

CONSTANTS Sids,    \* conversations, numbered in the order they begin
          Records  \* what a history is made of

VARIABLES memory,  \* the durable history: [sid, recs]
          turn     \* the turn being answered: [sid, base], or NoTurn

NoTurn  == [sid |-> 0, base |-> {}]
Nothing == [sid |-> 0, recs |-> {}]

Init == memory = Nothing /\ turn = NoTurn

Begin ==
  /\ turn = NoTurn
  /\ turn' \in [sid: Sids \ {0}, base: SUBSET Records]
  /\ \/ turn'.sid > memory.sid
     \/ turn'.sid = memory.sid /\ memory.recs \subseteq turn'.base
  /\ UNCHANGED memory

Commit ==
  /\ turn # NoTurn
  /\ memory' \in [sid: {turn.sid}, recs: SUBSET Records]
  /\ turn.base \subseteq memory'.recs
  /\ turn' = NoTurn

Abandon == turn # NoTurn /\ turn' = NoTurn /\ UNCHANGED memory

Forget == memory' = Nothing /\ UNCHANGED turn

Next == Begin \/ Commit \/ Abandon \/ Forget

Spec == Init /\ [][Next]_<<memory, turn>>
=============================================================================
