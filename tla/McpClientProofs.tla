---------------------------- MODULE McpClientProofs ----------------------------
(***************************************************************************)
(* Proofs about McpClient, for any number of calls and failures.             *)
(***************************************************************************)
EXTENDS McpClient, FiniteSetTheorems, TLAPS

\* The frames of a restart.
Handshake == {"initialize", "initialized", "tools/list"}

\* A child is a record of these fields; what they hold matters only in part.
IsChild(x) ==
  x = [up |-> x.up, phase |-> x.phase, inbox |-> x.inbox, out |-> x.out,
       noisy |-> x.noisy, hungup |-> x.hungup, reaped |-> x.reaped]

Shape ==
  /\ pc \in [Callers -> Steps]
  /\ doing \in [Callers -> Methods]
  /\ try \in [Callers -> {"first", "between", "second"}]
  /\ got \in [Callers -> {"nothing", "result", "error", "gone"}]
  /\ lock \in Callers \cup {Nobody}
  /\ child = [k \in Children |-> child[k]]
  /\ \A k \in Children : IsChild(child[k])

\* Who restarts holds the lock, and the handshake is part of the restart.
Holder(c) ==
  /\ pc[c] \in {"close", "reap", "spawn"} => lock = c
  /\ pc[c] \in {"request", "write", "await"} /\ doing[c] \in Handshake => lock = c

\* It has found the client gone, and leaves nothing of it before it spawns another.
Closing(c) ==
  /\ pc[c] = "close" => ~Alive
  /\ pc[c] \in {"reap", "spawn"} => reader = "none"
  /\ pc[c] = "spawn" => proc = None

\* An unanswered request is known to a reader that runs.
Heard(c) ==
  pc[c] \in {"write", "await"} /\ doing[c] # "initialized" /\ got[c] = "nothing" =>
    Alive /\ Waits(c)

Inv == Shape /\ NoStray /\ \A c \in Callers : Holder(c) /\ Closing(c) /\ Heard(c)
-----------------------------------------------------------------------------
\* Reading, answering and getting ready leave a child as up and as reaped as it was.
Keeps(x, y) == IsChild(y) /\ y.up = x.up /\ y.reaped = x.reaped

LEMMA Fields ==
  ASSUME NEW x, IsChild(x), NEW v
  PROVE  /\ Keeps(x, [x EXCEPT !.inbox = v])
         /\ Keeps(x, [x EXCEPT !.out = v])
         /\ Keeps(x, [x EXCEPT !.phase = v])
  BY DEF Keeps, IsChild

LEMMA HandleKeeps ==
  ASSUME Inv, NEW k \in Children, Handle(k)
  PROVE  \E y : child' = [child EXCEPT ![k] = y] /\ Keeps(child[k], y)
<1> DEFINE left == [child[k] EXCEPT !.inbox = Tail(@)]
           Said(m) == [left EXCEPT !.out = @ \cup {m}]
           ready == [left EXCEPT !.phase = "ready"]
<1>1. \/ child' = [child EXCEPT ![k] = left]
      \/ \E m : child' = [child EXCEPT ![k] = Said(m)]
      \/ child' = [child EXCEPT ![k] = ready]
  BY DEF Handle
<1>2. IsChild(child[k])
  BY DEF Inv, Shape
<1>3. Keeps(child[k], left)
  BY <1>2, Fields
<1> HIDE DEF left
<1>4. Keeps(left, ready) /\ \A m : Keeps(left, Said(m))
  BY <1>3, Fields DEF Keeps
<1> HIDE DEF Said, ready
<1>5. QED
  BY <1>1, <1>3, <1>4 DEF Keeps

\* A table of children with one of them changed that way is one.
LEMMA Kept ==
  ASSUME NEW f, f = [j \in Children |-> f[j]], \A j \in Children : IsChild(f[j]),
         NEW k, NEW y, k \in Children => Keeps(f[k], y),
         NEW g, g = [f EXCEPT ![k] = y]
  PROVE  g = [j \in Children |-> g[j]] /\ \A j \in Children : Keeps(f[j], g[j])
<1>1. g = [j \in Children |-> IF j = k THEN y ELSE f[j]]
  OBVIOUS
<1>2. ASSUME NEW j \in Children PROVE Keeps(f[j], g[j])
  <2>1. CASE j = k
    BY <1>1, <2>1
  <2>2. CASE j # k
    BY <1>1, <2>2 DEF Keeps
  <2>3. QED
    BY <2>1, <2>2
<1>3. QED
  BY <1>1, <1>2

LEMMA WriteKeeps ==
  ASSUME Inv, NEW c \in Callers, Write(c)
  PROVE  /\ child' = [k \in Children |-> child'[k]]
         /\ \A k \in Children : Keeps(child[k], child'[k])
<1> DEFINE fed == [child[proc] EXCEPT !.inbox = Append(@, FrameOf(c))]
<1>1. child' = child \/ child' = [child EXCEPT ![proc] = fed]
  BY DEF Write, Sent
<1>2. proc \in Children => Keeps(child[proc], fed)
  BY Fields DEF Inv, Shape
<1> HIDE DEF fed
<1>3. child = [k \in Children |-> child[k]] /\ \A k \in Children : IsChild(child[k])
  BY DEF Inv, Shape
<1>4. CASE child' = child
  BY <1>3, <1>4 DEF Keeps
<1>5. CASE child' = [child EXCEPT ![proc] = fed]
  BY <1>2, <1>3, <1>5, Kept, Zenon
<1>6. QED
  BY <1>1, <1>4, <1>5

\* Every step keeps the invariant: whoever closes, reaps or spawns holds the lock,
\* so nobody's request is registered with a reader that is being closed.
LEMMA Invariance == ASSUME Inv, [Next]_vars PROVE Inv'
<1> USE ConstantsAssumption DEF Alive, Waits, Steps, Methods, Handshake, future,
      None, Goto, Leave, Unlocked, Unregistered, Suffers
<1>1. ASSUME NEW c \in Callers, Call(c) PROVE Inv'
  <2>1. Shape'
    BY <1>1 DEF Inv, Shape, Call
  <2>2. NoStray'
    BY <1>1 DEF Inv, NoStray, Call
  <2>3. ASSUME NEW e \in Callers PROVE Holder(e)' /\ Closing(e)'
    BY <1>1 DEF Inv, Shape, Holder, Closing, Call
  <2>4. ASSUME NEW e \in Callers PROVE Heard(e)'
    BY <1>1 DEF Inv, Shape, Holder, Closing, Heard, Call
  <2>5. QED
    BY <2>1, <2>2, <2>3, <2>4 DEF Inv
<1>2. ASSUME NEW c \in Callers, Attempt(c) PROVE Inv'
  <2>1. Shape'
    BY <1>2 DEF Inv, Shape, Attempt
  <2>2. NoStray'
    BY <1>2 DEF Inv, NoStray, Attempt
  <2>3. ASSUME NEW e \in Callers PROVE Holder(e)' /\ Closing(e)'
    BY <1>2 DEF Inv, Shape, Holder, Closing, Attempt
  <2>4. ASSUME NEW e \in Callers PROVE Heard(e)'
    BY <1>2 DEF Inv, Shape, Holder, Closing, Heard, Attempt
  <2>5. QED
    BY <2>1, <2>2, <2>3, <2>4 DEF Inv
<1>3. ASSUME NEW c \in Callers, Restart(c) PROVE Inv'
  <2>1. Shape'
    BY <1>3 DEF Inv, Shape, Restart, Restarted
  <2>2. NoStray'
    BY <1>3 DEF Inv, NoStray, Restart, Restarted
  <2>3. ASSUME NEW e \in Callers PROVE Holder(e)' /\ Closing(e)'
    BY <1>3 DEF Inv, Shape, Holder, Closing, Restart, Restarted
  <2>4. ASSUME NEW e \in Callers PROVE Heard(e)'
    BY <1>3 DEF Inv, Shape, Holder, Closing, Heard, Restart, Restarted
  <2>5. QED
    BY <2>1, <2>2, <2>3, <2>4 DEF Inv
<1>4. ASSUME NEW c \in Callers, Close(c) PROVE Inv'
  <2>1. Shape'
    BY <1>4 DEF Inv, Shape, Close
  <2>2. NoStray'
    BY <1>4 DEF Inv, NoStray, Close
  <2>3. ASSUME NEW e \in Callers PROVE Holder(e)' /\ Closing(e)'
    BY <1>4 DEF Inv, Shape, Holder, Closing, Close
  <2>4. ASSUME NEW e \in Callers PROVE Heard(e)'
    BY <1>4 DEF Inv, Shape, Holder, Closing, Heard, Close
  <2>5. QED
    BY <2>1, <2>2, <2>3, <2>4 DEF Inv
<1>5. ASSUME NEW c \in Callers, Reap(c) PROVE Inv'
  <2>1. Shape'
    BY <1>5 DEF Inv, Shape, IsChild, Unborn, Reap
  <2>2. NoStray'
    BY <1>5 DEF Inv, Shape, IsChild, Unborn, NoStray, Reap
  <2>3. ASSUME NEW e \in Callers PROVE Holder(e)' /\ Closing(e)'
    BY <1>5 DEF Inv, Shape, Holder, Closing, Reap
  <2>4. ASSUME NEW e \in Callers PROVE Heard(e)'
    BY <1>5 DEF Inv, Shape, Holder, Closing, Heard, Reap
  <2>5. QED
    BY <2>1, <2>2, <2>3, <2>4 DEF Inv
<1>6. ASSUME NEW c \in Callers, Spawn(c) PROVE Inv'
  <2>1. Shape'
    BY <1>6 DEF Inv, Shape, IsChild, Unborn, Spawn, Born
  <2>2. NoStray'
    <3>1. ASSUME NEW k \in Children, child'[k].up, k # proc'
          PROVE  child'[k] = child[k]
      BY <1>6, <3>1 DEF Inv, Shape, Closing, Spawn
    <3>2. proc = None
      BY <1>6 DEF Inv, Closing, Spawn
    <3>3. QED
      BY <3>1, <3>2 DEF Inv, NoStray, Children
  <2>3. ASSUME NEW e \in Callers PROVE Holder(e)' /\ Closing(e)'
    BY <1>6 DEF Inv, Shape, Holder, Closing, Spawn, Born
  <2>4. ASSUME NEW e \in Callers PROVE Heard(e)'
    BY <1>6 DEF Inv, Shape, Holder, Closing, Heard, Spawn, Born
  <2>5. QED
    BY <2>1, <2>2, <2>3, <2>4 DEF Inv
<1>7. ASSUME NEW c \in Callers, Request(c) PROVE Inv'
  <2>1. Shape'
    BY <1>7 DEF Inv, Shape, Request, Register, Disconnected
  <2>2. NoStray'
    BY <1>7 DEF Inv, NoStray, Request, Register, Disconnected
  <2>3. ASSUME NEW e \in Callers PROVE Holder(e)' /\ Closing(e)'
    BY <1>7 DEF Inv, Shape, Holder, Closing, Request, Register, Disconnected
  <2>4. ASSUME NEW e \in Callers PROVE Heard(e)'
    <3>1. CASE Alive /\ Register(c) /\ UNCHANGED <<proc, reader, doing>>
      <4>1. \E r \in pending' : r.by = c
        <5>1. [id |-> nextId', by |-> c] \in pending'
          BY <3>1 DEF Register
        <5>2. QED
          BY <5>1
      <4>2. e # c => (Waits(e) => Waits(e)') /\ pc'[e] = pc[e] /\ got'[e] = got[e]
        BY <1>7, <3>1 DEF Inv, Shape, Request, Register
      <4>3. QED
        BY <3>1, <4>1, <4>2 DEF Inv, Heard
    <3>2. CASE ~Alive
      BY <1>7, <3>2 DEF Inv, Shape, Heard, Request, Disconnected
    <3>3. QED
      BY <1>7, <3>1, <3>2 DEF Request
  <2>5. QED
    BY <2>1, <2>2, <2>3, <2>4 DEF Inv
<1>8. ASSUME NEW c \in Callers, Write(c) PROVE Inv'
  <2>1. Shape'
    BY <1>8, WriteKeeps DEF Inv, Shape, Keeps, Write, Disconnected
  <2>2. NoStray'
    BY <1>8, WriteKeeps DEF Inv, NoStray, Keeps, Write
  <2>3. ASSUME NEW e \in Callers PROVE Holder(e)' /\ Closing(e)'
    BY <1>8 DEF Inv, Shape, Holder, Closing, Write, Sent, Disconnected
  <2>4. ASSUME NEW e \in Callers PROVE Heard(e)'
    BY <1>8 DEF Inv, Shape, Holder, Closing, Heard, Write, Sent, Disconnected
  <2>5. QED
    BY <2>1, <2>2, <2>3, <2>4 DEF Inv
<1>9. ASSUME NEW c \in Callers, Proceed(c) PROVE Inv'
  <2>1. Shape'
    BY <1>9 DEF Inv, Shape, Proceed, Asks
  <2>2. NoStray'
    BY <1>9 DEF Inv, NoStray, Proceed, Asks
  <2>3. ASSUME NEW e \in Callers PROVE Holder(e)' /\ Closing(e)'
    BY <1>9 DEF Inv, Shape, Holder, Closing, Proceed, Asks
  <2>4. ASSUME NEW e \in Callers PROVE Heard(e)'
    BY <1>9 DEF Inv, Shape, Holder, Closing, Heard, Proceed, Asks
  <2>5. QED
    BY <2>1, <2>2, <2>3, <2>4 DEF Inv
<1>10. ASSUME NEW c \in Callers, Rebuilt(c) PROVE Inv'
  <2>1. Shape'
    BY <1>10 DEF Inv, Shape, Rebuilt, Restarted
  <2>2. NoStray'
    BY <1>10 DEF Inv, NoStray, Rebuilt, Restarted
  <2>3. ASSUME NEW e \in Callers PROVE Holder(e)' /\ Closing(e)'
    BY <1>10 DEF Inv, Shape, Holder, Closing, Rebuilt, Restarted
  <2>4. ASSUME NEW e \in Callers PROVE Heard(e)'
    BY <1>10 DEF Inv, Shape, Holder, Closing, Heard, Rebuilt, Restarted
  <2>5. QED
    BY <2>1, <2>2, <2>3, <2>4 DEF Inv
<1>11. ASSUME NEW c \in Callers, Answered(c) PROVE Inv'
  <2>1. Shape'
    BY <1>11 DEF Inv, Shape, Answered
  <2>2. NoStray'
    BY <1>11 DEF Inv, NoStray, Answered
  <2>3. ASSUME NEW e \in Callers PROVE Holder(e)' /\ Closing(e)'
    BY <1>11 DEF Inv, Shape, Holder, Closing, Answered
  <2>4. ASSUME NEW e \in Callers PROVE Heard(e)'
    BY <1>11 DEF Inv, Shape, Holder, Closing, Heard, Answered
  <2>5. QED
    BY <2>1, <2>2, <2>3, <2>4 DEF Inv
<1>12. ASSUME NEW c \in Callers, Refused(c) PROVE Inv'
  <2>1. Shape'
    BY <1>12 DEF Inv, Shape, Refused
  <2>2. NoStray'
    BY <1>12 DEF Inv, NoStray, Refused
  <2>3. ASSUME NEW e \in Callers PROVE Holder(e)' /\ Closing(e)'
    BY <1>12 DEF Inv, Shape, Holder, Closing, Refused
  <2>4. ASSUME NEW e \in Callers PROVE Heard(e)'
    BY <1>12 DEF Inv, Shape, Holder, Closing, Heard, Refused
  <2>5. QED
    BY <2>1, <2>2, <2>3, <2>4 DEF Inv
<1>13. ASSUME NEW c \in Callers, LostTheServer(c) PROVE Inv'
  <2>1. Shape'
    BY <1>13 DEF Inv, Shape, LostTheServer, Disconnected
  <2>2. NoStray'
    BY <1>13 DEF Inv, NoStray, LostTheServer, Disconnected
  <2>3. ASSUME NEW e \in Callers PROVE Holder(e)' /\ Closing(e)'
    BY <1>13 DEF Inv, Shape, Holder, Closing, LostTheServer, Disconnected
  <2>4. ASSUME NEW e \in Callers PROVE Heard(e)'
    BY <1>13 DEF Inv, Shape, Holder, Closing, Heard, LostTheServer, Disconnected
  <2>5. QED
    BY <2>1, <2>2, <2>3, <2>4 DEF Inv
<1>14. ASSUME NEW c \in Callers, TimeOut(c) PROVE Inv'
  <2>1. Shape'
    BY <1>14 DEF Inv, Shape, TimeOut
  <2>2. NoStray'
    BY <1>14 DEF Inv, NoStray, TimeOut
  <2>3. ASSUME NEW e \in Callers PROVE Holder(e)' /\ Closing(e)'
    BY <1>14 DEF Inv, Shape, Holder, Closing, TimeOut
  <2>4. ASSUME NEW e \in Callers PROVE Heard(e)'
    BY <1>14 DEF Inv, Shape, Holder, Closing, Heard, TimeOut
  <2>5. QED
    BY <2>1, <2>2, <2>3, <2>4 DEF Inv
<1>15. ASSUME NEW k \in Children, Handle(k) PROVE Inv'
  <2>1. PICK y : child' = [child EXCEPT ![k] = y] /\ Keeps(child[k], y)
    BY <1>15, HandleKeeps
  <2>2. Shape' /\ NoStray'
    BY <1>15, <2>1 DEF Inv, Shape, NoStray, Keeps, Handle
  <2>3. QED
    BY <1>15, <2>1, <2>2 DEF Inv, Shape, Holder, Closing, Heard, Handle
<1>16. ASSUME NEW k \in Children, Dies(k) PROVE Inv'
  <2>1. Shape'
    BY <1>16 DEF Inv, Shape, IsChild, Dies
  <2>2. NoStray'
    BY <1>16 DEF Inv, Shape, IsChild, NoStray, Dies
  <2>3. QED
    BY <1>16, <2>1, <2>2 DEF Inv, Shape, Holder, Closing, Heard, Dies
<1>17. ASSUME NEW k \in Children, HangsUp(k) PROVE Inv'
  <2>1. Shape'
    BY <1>17 DEF Inv, Shape, IsChild, HangsUp
  <2>2. NoStray'
    BY <1>17 DEF Inv, Shape, IsChild, NoStray, HangsUp
  <2>3. QED
    BY <1>17, <2>1, <2>2 DEF Inv, Shape, Holder, Closing, Heard, HangsUp
<1>18. ASSUME NEW k \in Children, Noise(k) PROVE Inv'
  <2>1. Shape'
    BY <1>18 DEF Inv, Shape, IsChild, Noise
  <2>2. NoStray'
    BY <1>18 DEF Inv, Shape, IsChild, NoStray, Noise
  <2>3. QED
    BY <1>18, <2>1, <2>2 DEF Inv, Shape, Holder, Closing, Heard, Noise
<1>19. CASE Read
  <2>1. Shape'
    <3>1. got' \in [Callers -> {"nothing", "result", "error", "gone"}]
      BY <1>19 DEF Inv, Shape, Read
    <3>2. PICK f : child' = [child EXCEPT ![proc].out = @ \ {f}]
      BY <1>19 DEF Read
    <3>3. /\ child' = [j \in Children |-> child'[j]]
          /\ \A j \in Children : IsChild(child'[j])
      <4>1. child' = [j \in Children |-> child'[j]]
        BY <3>2 DEF Inv, Shape
      <4>2. ASSUME NEW j \in Children PROVE IsChild(child'[j])
        BY <3>2, Fields DEF Inv, Shape, Keeps
      <4>3. QED
        BY <4>1, <4>2
    <3>4. QED
      BY <1>19, <3>1, <3>3 DEF Inv, Shape, Read
  <2>2. NoStray'
    BY <1>19 DEF Inv, Shape, IsChild, NoStray, Read
  <2>3. ASSUME NEW e \in Callers PROVE Holder(e)' /\ Closing(e)'
    BY <1>19 DEF Inv, Holder, Closing, Read, Addressee
  <2>4. ASSUME NEW e \in Callers PROVE Heard(e)'
    BY <1>19 DEF Inv, Shape, Holder, Closing, Heard, Read, Addressee
  <2>5. QED
    BY <2>1, <2>2, <2>3, <2>4 DEF Inv
<1>20. CASE EndOfFile
  <2>1. Shape'
    BY <1>20 DEF Inv, Shape, EndOfFile, ReaderEnds
  <2>2. NoStray'
    BY <1>20 DEF Inv, Shape, IsChild, NoStray, EndOfFile
  <2>3. ASSUME NEW e \in Callers PROVE Holder(e)' /\ Closing(e)'
    BY <1>20 DEF Inv, Holder, Closing, EndOfFile, ReaderEnds
  <2>4. ASSUME NEW e \in Callers PROVE Heard(e)'
    BY <1>20 DEF Inv, Shape, Holder, Closing, Heard, EndOfFile, ReaderEnds
  <2>5. QED
    BY <2>1, <2>2, <2>3, <2>4 DEF Inv
<1>21. CASE Chokes
  <2>1. Shape'
    BY <1>21 DEF Inv, Shape, Chokes, ReaderEnds
  <2>2. NoStray'
    BY <1>21 DEF Inv, Shape, IsChild, NoStray, Chokes
  <2>3. ASSUME NEW e \in Callers PROVE Holder(e)' /\ Closing(e)'
    BY <1>21 DEF Inv, Holder, Closing, Chokes, ReaderEnds
  <2>4. ASSUME NEW e \in Callers PROVE Heard(e)'
    BY <1>21 DEF Inv, Shape, Holder, Closing, Heard, Chokes, ReaderEnds
  <2>5. QED
    BY <2>1, <2>2, <2>3, <2>4 DEF Inv
<1>22. CASE UNCHANGED vars
  BY <1>22 DEF Inv, Shape, NoStray, Holder, Closing, Heard, IsChild, vars
<1>23. QED
  BY <1>1, <1>2, <1>3, <1>4, <1>5, <1>6, <1>7, <1>8, <1>9, <1>10, <1>11,
     <1>12, <1>13, <1>14, <1>15, <1>16, <1>17, <1>18, <1>19, <1>20, <1>21,
       <1>22 DEF Next, CallStep, ReaderStep

\* Inv is an invariant of the client, from a child that is up and ready.
LEMMA Invariant == Spec => []Inv
<1>1. ASSUME Init PROVE Inv
  <2>1. Children = 1..(MaxFaults + 1) /\ 1 \in Children
    BY ConstantsAssumption DEF Children
  <2>2. child = [k \in Children |-> child[k]] /\ \A k \in Children : IsChild(child[k])
    BY <1>1, <2>1 DEF Init, IsChild, Born, Unborn
  <2>3. NoStray
    BY <1>1, <2>1 DEF Init, NoStray, Unborn
  <2>4. Shape
    BY <1>1, <2>2 DEF Init, Shape, Steps, Methods
  <2>5. QED
    BY <1>1, <2>3, <2>4 DEF Init, Inv, Holder, Closing, Heard
<1>2. QED
  BY <1>1, Invariance, PTL DEF Spec

\* However restarts race and fail, a child that is up is the client's own or has been
\* told to terminate (_restart and _close: reap before the next spawn).
THEOREM LeavesNoStray == Spec => []NoStray
<1>1. Inv => NoStray
  BY DEF Inv
<1>2. QED
  BY <1>1, Invariant, PTL

\* An unanswered request is registered with a reader that runs, so that its end is
\* heard (_request registers before it checks; _read_loop fails what is registered).
THEOREM HearsOfTheEnd == Spec => []NobodyAwaitsTheGone
<1>1. Inv => NobodyAwaitsTheGone
  BY DEF Inv, Heard, NobodyAwaitsTheGone
<1>2. QED
  BY <1>1, Invariant, PTL

\* Nobody closes a child whose reader runs: only the one that found it gone, under
\* the lock, closes it (_restart asks _alive() again once it has the lock).
THEOREM OneRebuilds == Spec => RebuiltOnce
<1>1. ASSUME Inv, [Next]_vars PROVE [Alive => reader' # "none"]_vars
  <2>1. ASSUME NEW c \in Callers, Close(c) PROVE ~Alive
    BY <1>1, <2>1 DEF Inv, Closing, Close
  <2>2. ASSUME NEW c \in Callers, Call(c) \/ CallStep(c) \/ TimeOut(c), Alive
        PROVE  reader' # "none"
    BY <2>1, <2>2 DEF Alive, Call, CallStep, TimeOut, Attempt, Restart, Reap,
      Spawn, Request,
      Write, Proceed, Rebuilt, Answered, Refused, LostTheServer
  <2>3. ASSUME NEW k \in Children, Handle(k) \/ Dies(k) \/ HangsUp(k) \/ Noise(k)
        PROVE  UNCHANGED reader
    BY <2>3 DEF Handle, Dies, HangsUp, Noise
  <2>4. CASE ReaderStep
    BY <2>4 DEF Alive, ReaderStep, Read, EndOfFile, Chokes, ReaderEnds
  <2>5. QED
    BY <1>1, <2>2, <2>3, <2>4 DEF Alive, Next
<1>2. QED
  BY <1>1, Invariant, PTL DEF Spec, RebuiltOnce
-----------------------------------------------------------------------------
(* Every variable keeps its type.                                           *)

\* What is on its way to the child and back.
Frames(x) == x.out \cup {x.inbox[i] : i \in 1..Len(x.inbox)}

ChildType(x) ==
  /\ x.phase \in {"new", "ready"}
  /\ x.inbox \in Seq(Frame)
  /\ x.out \subseteq Reply
  /\ \A f \in Frames(x) : f.method # "initialized" => f.id \in Ids

\* Whoever has made its request, and not heard of it.
Requesting(c) == pc[c] \in {"write", "await"} /\ doing[c] # "initialized"

\* The children that cannot be spawned: one that was reaped in vain stays behind.
LeftBehind == {k \in Children : child[k] # Unborn /\ k # proc}

Typed ==
  /\ TypeOK
  /\ \A k \in Children : ChildType(child[k])
  /\ \A c \in Callers : Requesting(c) => req[c] \in Ids
  /\ IsFiniteSet(LeftBehind) /\ Cardinality(LeftBehind) <= faults

\* What a step other than a caller's write does to a child x: it takes a frame or all of
\* them away, and what it adds to the output answers the first frame.
Moves(x, y) ==
  /\ \/ y.inbox \in {x.inbox, <<>>}
     \/ x.inbox # <<>> /\ y.inbox = Tail(x.inbox)
  /\ y.phase \in {x.phase, "new", "ready"}
  /\ \A g \in y.out :
       \/ g \in x.out
       \/ LET f == Head(x.inbox)
          IN /\ x.inbox # <<>> /\ f.method \in Requests
             /\ \E ok \in BOOLEAN :
                  g = [id |-> f.id, from |-> f.from, method |-> f.method, ok |-> ok]

\* Each field is changed by itself.
LEMMA FieldsOf ==
  ASSUME NEW x, IsChild(x), NEW v
  PROVE  /\ LET y == [x EXCEPT !.inbox = v]
            IN IsChild(y) /\ y.inbox = v /\ y.out = x.out /\ y.phase = x.phase
         /\ LET y == [x EXCEPT !.out = v]
            IN IsChild(y) /\ y.inbox = x.inbox /\ y.out = v /\ y.phase = x.phase
         /\ LET y == [x EXCEPT !.phase = v]
            IN IsChild(y) /\ y.inbox = x.inbox /\ y.out = x.out /\ y.phase = v
BY DEF IsChild

LEMMA HandleMoves ==
  ASSUME Inv, NEW k \in Children, Handle(k)
  PROVE  \E y : child' = [child EXCEPT ![k] = y] /\ Moves(child[k], y)
<1> DEFINE f == Head(child[k].inbox)
           left == [child[k] EXCEPT !.inbox = Tail(@)]
           reply(ok) == [id |-> f.id, from |-> f.from, method |-> f.method, ok |-> ok]
           Said(ok) == [left EXCEPT !.out = @ \cup {reply(ok)}]
           ready == [left EXCEPT !.phase = "ready"]
<1>1. child[k].inbox # <<>>
  BY DEF Handle
<1>2. \/ child' = [child EXCEPT ![k] = left]
      \/ f.method \in Requests /\ \E ok \in BOOLEAN : child' = [child EXCEPT ![k] = Said(ok)]
      \/ child' = [child EXCEPT ![k] = ready]
  BY DEF Handle, Requests, Methods
<1>3. IsChild(child[k])
  BY DEF Inv, Shape
<1>4. /\ IsChild(left) /\ left.inbox = Tail(child[k].inbox)
      /\ left.out = child[k].out /\ left.phase = child[k].phase
  BY <1>3, FieldsOf
<1> HIDE DEF left, reply
<1>5. /\ ready.inbox = left.inbox /\ ready.out = left.out /\ ready.phase = "ready"
      /\ \A ok : /\ Said(ok).inbox = left.inbox /\ Said(ok).phase = left.phase
                 /\ Said(ok).out = left.out \cup {reply(ok)}
  BY <1>4, FieldsOf
<1> HIDE DEF Said, ready
<1>6. Moves(child[k], left) /\ Moves(child[k], ready)
  BY <1>1, <1>4, <1>5 DEF Moves
<1>7. f.method \in Requests => \A ok \in BOOLEAN : Moves(child[k], Said(ok))
  BY <1>1, <1>4, <1>5 DEF Moves, reply
<1> QED
  BY <1>2, <1>6, <1>7

LEMMA NextMoves ==
  ASSUME Inv, Typed, [Next]_vars, \A c \in Callers : ~ Write(c), NEW k \in Children
  PROVE  Moves(child[k], child'[k])
<1> USE DEF Moves
<1>1. IsChild(child[k]) /\ child = [j \in Children |-> child[j]]
  BY DEF Inv, Shape
<1>2. CASE child' = child
  BY <1>2
<1>3. ASSUME NEW c \in Callers, Reap(c) \/ Spawn(c) PROVE Moves(child[k], child'[k])
  <2>1. /\ Unborn.inbox = <<>> /\ Unborn.out = {} /\ Unborn.phase = "new"
        /\ Born.inbox = <<>> /\ Born.out = {} /\ Born.phase = "new"
    BY DEF Unborn, Born
  <2>2. \/ child'[k] \in {child[k], Unborn, Born}
        \/ child'[k] = [child[k] EXCEPT !.reaped = TRUE]
    BY <1>1, <1>3 DEF Reap, Spawn
  <2>3. LET y == [child[k] EXCEPT !.reaped = TRUE]
        IN y.inbox = child[k].inbox /\ y.out = child[k].out /\ y.phase = child[k].phase
    BY <1>1 DEF IsChild
  <2> HIDE DEF Moves
  <2>4. Moves(child[k], child[k]) /\ Moves(child[k], Unborn) /\ Moves(child[k], Born)
    BY <2>1 DEF Moves
  <2>5. Moves(child[k], [child[k] EXCEPT !.reaped = TRUE])
    BY <2>3 DEF Moves
  <2> QED
    BY <2>2, <2>4, <2>5
<1>4. ASSUME NEW j \in Children, Handle(j) PROVE Moves(child[k], child'[k])
  <2>1. PICK y : child' = [child EXCEPT ![j] = y] /\ Moves(child[j], y)
    BY <1>4, HandleMoves
  <2>2. CASE k = j
    BY <1>1, <2>1, <2>2
  <2>3. CASE k # j
    BY <1>1, <2>1, <2>3
  <2> QED
    BY <2>2, <2>3
<1>5. ASSUME NEW j \in Children, Dies(j) PROVE Moves(child[k], child'[k])
  <2>1. PICK said \in SUBSET child[j].out :
          child' = [child EXCEPT ![j] = [@ EXCEPT !.up = FALSE, !.inbox = <<>>, !.out = said]]
    BY <1>5 DEF Dies
  <2>2. LET y == [child[k] EXCEPT !.up = FALSE, !.inbox = <<>>, !.out = said]
        IN y.inbox = <<>> /\ y.out = said /\ y.phase = child[k].phase
    BY <1>1 DEF IsChild
  <2>3. \/ child'[k] = child[k]
        \/ k = j /\ child'[k] = [child[k] EXCEPT !.up = FALSE, !.inbox = <<>>, !.out = said]
    BY <1>1, <2>1
  <2> QED
    BY <2>1, <2>2, <2>3
<1>6. ASSUME NEW j \in Children, HangsUp(j) \/ Noise(j) PROVE Moves(child[k], child'[k])
  <2>1. \/ child'[k] = child[k]
        \/ child'[k] = [child[k] EXCEPT !.hungup = TRUE]
        \/ child'[k] = [child[k] EXCEPT !.noisy = TRUE]
    BY <1>1, <1>6 DEF HangsUp, Noise
  <2>2. /\ LET y == [child[k] EXCEPT !.hungup = TRUE]
           IN y.inbox = child[k].inbox /\ y.out = child[k].out /\ y.phase = child[k].phase
        /\ LET y == [child[k] EXCEPT !.noisy = TRUE]
           IN y.inbox = child[k].inbox /\ y.out = child[k].out /\ y.phase = child[k].phase
    BY <1>1 DEF IsChild
  <2> QED
    BY <2>1, <2>2
<1>7. CASE Read
  <2>1. PICK f : child' = [child EXCEPT ![proc].out = @ \ {f}]
    BY <1>7 DEF Read
  <2>2. LET y == [child[k] EXCEPT !.out = child[k].out \ {f}]
        IN y.inbox = child[k].inbox /\ y.out = child[k].out \ {f} /\ y.phase = child[k].phase
    BY <1>1, FieldsOf
  <2>3. child'[k] = child[k] \/ child'[k] = [child[k] EXCEPT !.out = child[k].out \ {f}]
    BY <1>1, <2>1
  <2> QED
    BY <2>2, <2>3
<1> QED
  <2>1. ASSUME NEW c \in Callers, Call(c) \/ TimeOut(c) PROVE child' = child
    BY <2>1 DEF Call, TimeOut
  <2>2. ASSUME NEW c \in Callers, CallStep(c), ~ Reap(c), ~ Spawn(c) PROVE child' = child
    BY <2>2 DEF CallStep, Attempt, Restart, Close, Request, Proceed, Rebuilt, Answered,
                Refused, LostTheServer
  <2>3. EndOfFile \/ Chokes \/ UNCHANGED vars => child' = child
    BY DEF EndOfFile, Chokes, vars
  <2> QED
    BY <1>2, <1>3, <1>4, <1>5, <1>6, <1>7, <2>1, <2>2, <2>3 DEF Next, ReaderStep

\* A move keeps the type, and brings nothing into the pipes that is about another request.
LEMMA MovesKeep ==
  ASSUME NEW x, NEW y, ChildType(x), Moves(x, y)
  PROVE  /\ ChildType(y)
         /\ \A g \in Frames(y) : \E f \in Frames(x) :
              f.id = g.id /\ f.from = g.from /\ f.method = g.method
<1>1. x.inbox \in Seq(Frame) /\ x.out \subseteq Reply
  BY DEF ChildType
<1>2. /\ y.inbox \in Seq(Frame)
      /\ \A i \in 1..Len(y.inbox) : \E j \in 1..Len(x.inbox) : y.inbox[i] = x.inbox[j]
  <2>1. CASE y.inbox = x.inbox
    BY <1>1, <2>1
  <2>2. CASE y.inbox = <<>>
    BY <2>2
  <2>3. CASE x.inbox # <<>> /\ y.inbox = Tail(x.inbox)
    <3>1. y.inbox \in Seq(Frame) /\ Len(y.inbox) = Len(x.inbox) - 1
      BY <1>1, <2>3
    <3>2. \A i \in 1..Len(y.inbox) : y.inbox[i] = x.inbox[i + 1] /\ i + 1 \in 1..Len(x.inbox)
      BY <1>1, <2>3, <3>1
    <3> QED
      BY <3>1, <3>2
  <2> QED
    BY <2>1, <2>2, <2>3 DEF Moves
<1>3. ASSUME x.inbox # <<>>
      PROVE  Head(x.inbox) \in Frame /\ Head(x.inbox) \in Frames(x)
  <2>1. 1 \in 1..Len(x.inbox) /\ Head(x.inbox) = x.inbox[1] /\ x.inbox[1] \in Frame
    BY <1>1, <1>3
  <2> QED
    BY <2>1 DEF Frames
<1>4. ASSUME NEW g \in y.out, g \notin x.out
      PROVE  /\ x.inbox # <<>> /\ g \in Reply
             /\ LET f == Head(x.inbox)
                IN g.id = f.id /\ g.from = f.from /\ g.method = f.method
  <2> DEFINE f == Head(x.inbox)
  <2>1. PICK ok \in BOOLEAN :
          g = [id |-> f.id, from |-> f.from, method |-> f.method, ok |-> ok]
    BY <1>4 DEF Moves
  <2>2. x.inbox # <<>> /\ f.method \in Requests
    BY <1>4 DEF Moves
  <2>3. f \in Frame /\ f.id \in Ids
    BY <1>3, <2>2 DEF ChildType, Requests
  <2> HIDE DEF f
  <2>4. f.from \in Callers
    BY <2>3 DEF Frame
  <2>5. g \in Reply
    BY <2>1, <2>2, <2>3, <2>4 DEF Reply
  <2> QED
    BY <2>1, <2>2, <2>5 DEF f
<1>5. ASSUME NEW g \in Frames(y)
      PROVE  \E f \in Frames(x) : f.id = g.id /\ f.from = g.from /\ f.method = g.method
  <2>1. CASE g \in x.out \/ \E i \in 1..Len(y.inbox) : g = y.inbox[i]
    <3>1. g \in Frames(x)
      BY <1>2, <2>1 DEF Frames
    <3> QED
      BY <3>1
  <2>2. CASE g \in y.out /\ g \notin x.out
    BY <1>3, <1>4, <2>2
  <2> QED
    BY <2>1, <2>2 DEF Frames
<1>6. \A f \in Frames(y) : f.method # "initialized" => f.id \in Ids
  BY <1>5 DEF ChildType
<1>7. y.phase \in {"new", "ready"} /\ y.out \subseteq Reply
  BY <1>1, <1>4 DEF ChildType, Moves
<1> QED
  BY <1>2, <1>5, <1>6, <1>7 DEF ChildType

\* A write puts its frame at the end of the inbox of the client's child.
LEMMA WriteAdds ==
  ASSUME Inv, Typed, NEW c \in Callers, Write(c), NEW k \in Children
  PROVE  /\ ChildType(child'[k])
         /\ \A g \in Frames(child'[k]) : g \in Frames(child[k]) \/ g = FrameOf(c)
<1> DEFINE fed == [child[k] EXCEPT !.inbox = Append(child[k].inbox, FrameOf(c))]
<1>1. /\ child = [j \in Children |-> child[j]] /\ IsChild(child[k])
      /\ ChildType(child[k]) /\ child[k].inbox \in Seq(Frame)
  BY DEF Inv, Shape, Typed, ChildType
<1>2. FrameOf(c) \in Frame /\ (FrameOf(c).method # "initialized" => FrameOf(c).id \in Ids)
  <2>1. /\ doing[c] \in Methods /\ req[c] \in Ids \cup {0}
        /\ doing[c] # "initialized" => req[c] \in Ids
    BY DEF Typed, TypeOK, Requesting, Write
  <2> QED
    BY <2>1 DEF FrameOf, Frame
<1>3. child'[k] = child[k] \/ child'[k] = fed
  BY <1>1 DEF Write, Sent
<1>4. /\ fed.inbox = Append(child[k].inbox, FrameOf(c))
      /\ fed.out = child[k].out /\ fed.phase = child[k].phase
  BY <1>1, FieldsOf
<1> HIDE DEF fed
<1>5. /\ fed.inbox \in Seq(Frame)
      /\ \A i \in 1..Len(fed.inbox) :
           fed.inbox[i] = FrameOf(c) \/ \E j \in 1..Len(child[k].inbox) :
                                          fed.inbox[i] = child[k].inbox[j]
  BY <1>1, <1>2, <1>4
<1>6. \A g \in Frames(fed) : g \in Frames(child[k]) \/ g = FrameOf(c)
  BY <1>4, <1>5 DEF Frames
<1>7. ChildType(fed)
  BY <1>1, <1>2, <1>4, <1>5, <1>6 DEF ChildType
<1> QED
  BY <1>1, <1>3, <1>6, <1>7

LEMMA ChildrenTyped ==
  ASSUME Inv, Typed, [Next]_vars
  PROVE  \A k \in Children : ChildType(child'[k])
<1>1. CASE \E c \in Callers : Write(c)
  BY <1>1, WriteAdds
<1>2. CASE \A c \in Callers : ~ Write(c)
  BY <1>2, NextMoves, MovesKeep DEF Typed
<1> QED
  BY <1>1, <1>2

\* As many children stay behind as have failed to end, so one can always be spawned.
LEMMA SpawnedIs ==
  ASSUME Inv, Typed, NEW c \in Callers, Spawn(c)
  PROVE  /\ Spawned \in Children /\ child[Spawned] = Unborn
         /\ \A k \in Children : k # proc
<1>1. proc = None /\ \A k \in Children : k # None
  BY DEF Inv, Closing, Spawn, None, Children
<1>2. \E k \in Children : child[k] = Unborn
  <2> SUFFICES ASSUME \A k \in Children : child[k] # Unborn PROVE FALSE
    OBVIOUS
  <2>1. LeftBehind = 1..(MaxFaults + 1)
    BY <1>1 DEF LeftBehind, Children
  <2>2. MaxFaults \in Nat /\ faults \in 0..MaxFaults
    BY ConstantsAssumption DEF ConstantsAssumption, Typed, TypeOK
  <2>3. Cardinality(1..(MaxFaults + 1)) = MaxFaults + 1
    BY <2>2, FS_Interval
  <2> QED
    BY <2>1, <2>2, <2>3 DEF Typed
<1> QED
  BY <1>1, <1>2 DEF Spawned

LEMMA LeftBehindTyped ==
  ASSUME Inv, Typed, [Next]_vars
  PROVE  IsFiniteSet(LeftBehind)' /\ (Cardinality(LeftBehind) <= faults)'
<1>1. /\ child = [j \in Children |-> child[j]] /\ IsFiniteSet(LeftBehind)
      /\ Cardinality(LeftBehind) <= faults /\ Cardinality(LeftBehind) \in Nat
      /\ faults \in Nat
  BY FS_CardinalityType, ConstantsAssumption
     DEF Inv, Shape, Typed, TypeOK, ConstantsAssumption
<1>2. Unborn.up = FALSE
  BY DEF Unborn
<1>3. ASSUME LeftBehind' \subseteq LeftBehind, faults' \in {faults, faults + 1}
      PROVE  IsFiniteSet(LeftBehind)' /\ (Cardinality(LeftBehind) <= faults)'
  <2>1. /\ IsFiniteSet(LeftBehind') /\ Cardinality(LeftBehind') <= Cardinality(LeftBehind)
        /\ Cardinality(LeftBehind') \in Nat
    BY <1>1, <1>3, FS_Subset, FS_CardinalityType
  <2> QED
    BY <1>1, <1>3, <2>1
<1>4. ASSUME NEW c \in Callers, Reap(c)
      PROVE  IsFiniteSet(LeftBehind)' /\ (Cardinality(LeftBehind) <= faults)'
  <2>1. CASE child' = [child EXCEPT ![proc] = Unborn] /\ UNCHANGED faults
    <3>1. LeftBehind' \subseteq LeftBehind
      BY <1>1, <2>1 DEF LeftBehind
    <3> QED
      BY <1>3, <2>1, <3>1
  <2>2. CASE Suffers("stubborn") /\ child' = [child EXCEPT ![proc].reaped = TRUE]
    <3>1. LeftBehind' \subseteq LeftBehind \cup {proc} /\ faults' = faults + 1
      BY <1>1, <2>2 DEF LeftBehind, Suffers
    <3>2. /\ IsFiniteSet(LeftBehind \cup {proc})
          /\ Cardinality(LeftBehind \cup {proc}) <= Cardinality(LeftBehind) + 1
          /\ Cardinality(LeftBehind \cup {proc}) \in Nat
      <4>1. /\ IsFiniteSet(LeftBehind \cup {proc})
            /\ Cardinality(LeftBehind \cup {proc}) =
                 IF proc \in LeftBehind THEN Cardinality(LeftBehind)
                 ELSE Cardinality(LeftBehind) + 1
        BY <1>1, FS_AddElement
      <4> QED
        BY <1>1, <4>1
    <3>3. /\ IsFiniteSet(LeftBehind')
          /\ Cardinality(LeftBehind') <= Cardinality(LeftBehind \cup {proc})
          /\ Cardinality(LeftBehind') \in Nat
      BY <3>1, <3>2, FS_Subset, FS_CardinalityType
    <3> QED
      BY <1>1, <3>1, <3>2, <3>3
  <2> QED
    BY <1>4, <2>1, <2>2 DEF Reap
<1>5. ASSUME NEW c \in Callers, Spawn(c) PROVE LeftBehind' \subseteq LeftBehind
  BY <1>1, <1>5, SpawnedIs DEF LeftBehind, Spawn
<1>6. ASSUME NEW c \in Callers, Write(c) PROVE LeftBehind' \subseteq LeftBehind
  BY <1>1, <1>6 DEF LeftBehind, Write, Sent
<1>7. ASSUME NEW k \in Children, Handle(k) \/ Dies(k) \/ HangsUp(k) \/ Noise(k)
      PROVE  LeftBehind' \subseteq LeftBehind
  <2>1. child[k].up /\ UNCHANGED proc
    BY <1>7 DEF Handle, Dies, HangsUp, Noise
  <2>2. \A j \in Children \ {k} : child'[j] = child[j]
    BY <1>1, <1>7 DEF Handle, Dies, HangsUp, Noise
  <2> QED
    BY <1>2, <2>1, <2>2 DEF LeftBehind
<1>8. ASSUME Read PROVE LeftBehind' \subseteq LeftBehind
  BY <1>1, <1>8 DEF LeftBehind, Read
<1>9. ASSUME UNCHANGED <<child, proc>> PROVE LeftBehind' \subseteq LeftBehind
  BY <1>9 DEF LeftBehind
<1>10. faults' \in {faults, faults + 1}
  BY DEF Next, CallStep, ReaderStep, vars, Call, Attempt, Restart, Close, Reap, Spawn, Request,
     Write, Proceed, Rebuilt, Answered, Refused, LostTheServer, TimeOut, Handle, Dies, HangsUp,
     Noise, Read, EndOfFile, Chokes, Suffers
<1> QED
  <2>1. ASSUME NEW c \in Callers, Call(c) \/ TimeOut(c) PROVE UNCHANGED <<child, proc>>
    BY <2>1 DEF Call, TimeOut
  <2>2. ASSUME NEW c \in Callers, CallStep(c), ~ Reap(c), ~ Spawn(c), ~ Write(c)
        PROVE  UNCHANGED <<child, proc>>
    BY <2>2 DEF CallStep, Attempt, Restart, Close, Request, Proceed, Rebuilt, Answered,
                Refused, LostTheServer
  <2>3. EndOfFile \/ Chokes \/ UNCHANGED vars => UNCHANGED <<child, proc>>
    BY DEF EndOfFile, Chokes, vars
  <2> QED
    BY <1>3, <1>4, <1>5, <1>6, <1>7, <1>8, <1>9, <1>10, <2>1, <2>2, <2>3 DEF Next, ReaderStep

\* A request is typed when it is registered, and asked for only then.
LEMMA RequestsTyped ==
  ASSUME Inv, Typed, [Next]_vars
  PROVE  /\ nextId' \in Nat
         /\ pending' \in SUBSET [id: Ids, by: Callers]
         /\ req' \in [Callers -> Ids \cup {0}]
         /\ mine' \in [Callers -> BOOLEAN]
         /\ \A c \in Callers : Requesting(c)' => req'[c] \in Ids
<1> USE DEF Typed, TypeOK
<1>1. pc \in [Callers -> Steps] /\ doing \in [Callers -> Methods]
  OBVIOUS
<1>2. ASSUME NEW c \in Callers, Request(c), Alive
      PROVE  /\ nextId' \in Nat
             /\ pending' \in SUBSET [id: Ids, by: Callers]
             /\ req' \in [Callers -> Ids \cup {0}]
             /\ mine' \in [Callers -> BOOLEAN]
             /\ \A e \in Callers : Requesting(e)' => req'[e] \in Ids
  <2>1. nextId' \in Nat /\ nextId' \in Ids
    BY <1>2 DEF Request, Ids
  <2>2. [id |-> nextId', by |-> c] \in [id: Ids, by: Callers]
    BY <2>1
  <2>3. pending' = pending \cup {[id |-> nextId', by |-> c]}
    BY <1>2 DEF Request, Register
  <2>4. /\ req' = [req EXCEPT ![c] = nextId'] /\ mine' = [mine EXCEPT ![c] = TRUE]
        /\ \A e \in Callers \ {c} : Requesting(e)' <=> Requesting(e)
    <3>1. /\ req' = [req EXCEPT ![c] = nextId'] /\ mine' = [mine EXCEPT ![c] = TRUE]
      BY <1>2 DEF Request, Register
    <3>2. doing' = doing /\ \A e \in Callers \ {c} : pc'[e] = pc[e]
      BY <1>1, <1>2 DEF Request, Goto, Disconnected, Leave
    <3> QED
      BY <3>1, <3>2 DEF Requesting
  <2> QED
    BY <2>1, <2>2, <2>3, <2>4
<1>3. ASSUME nextId' \in {nextId, nextId + 1}, req' = req, pending' \subseteq pending,
             mine' \in [Callers -> BOOLEAN],
             \A c \in Callers : Requesting(c)' => Requesting(c)
      PROVE  /\ nextId' \in Nat
             /\ pending' \in SUBSET [id: Ids, by: Callers]
             /\ req' \in [Callers -> Ids \cup {0}]
             /\ mine' \in [Callers -> BOOLEAN]
             /\ \A c \in Callers : Requesting(c)' => req'[c] \in Ids
  BY <1>3
<1>4. ASSUME NEW c \in Callers, Call(c) \/ CallStep(c) \/ TimeOut(c),
             ~ (Request(c) /\ Alive)
      PROVE  /\ UNCHANGED <<req, mine>> /\ nextId' \in {nextId, nextId + 1}
             /\ pending' \subseteq pending
             /\ \A e \in Callers : Requesting(e)' => Requesting(e)
  <2>1. /\ UNCHANGED <<req, mine>> /\ nextId' \in {nextId, nextId + 1}
        /\ pending' \subseteq pending
    BY <1>4 DEF Call, CallStep, TimeOut, Attempt, Restart, Close, Reap, Spawn, Request,
       Write, Proceed, Rebuilt, Answered, Refused, LostTheServer, future, Leave, Disconnected,
       Unregistered
  <2>2. \A e \in Callers \ {c} : pc'[e] = pc[e] /\ doing'[e] = doing[e]
    BY <1>1, <1>4 DEF Call, CallStep, TimeOut, Attempt, Restart, Close, Reap, Spawn, Request,
       Write, Proceed, Rebuilt, Answered, Refused, LostTheServer, Leave, Disconnected,
       Restarted, Asks, Goto
  <2>3. Requesting(c)' => Requesting(c)
    BY <1>1, <1>4 DEF Call, CallStep, TimeOut, Attempt, Restart, Close, Reap, Spawn, Request,
       Write, Proceed, Rebuilt, Answered, Refused, LostTheServer, Leave, Disconnected,
       Restarted, Asks, Goto, Requesting
  <2> QED
    BY <2>1, <2>2, <2>3 DEF Requesting
<1>5. ASSUME \/ \E k \in Children : Handle(k) \/ Dies(k) \/ HangsUp(k) \/ Noise(k)
             \/ ReaderStep \/ UNCHANGED vars
      PROVE  /\ UNCHANGED <<nextId, req, pc, doing>> /\ pending' \subseteq pending
             /\ mine' \in [Callers -> BOOLEAN]
  <2>1. CASE \E k \in Children : Handle(k) \/ Dies(k) \/ HangsUp(k) \/ Noise(k)
    BY <2>1 DEF Handle, Dies, HangsUp, Noise, future
  <2>2. CASE EndOfFile \/ Chokes \/ UNCHANGED vars
    BY <2>2 DEF EndOfFile, Chokes, ReaderEnds, vars
  <2>3. CASE Read
    <3>1. PICK f : mine' = [c \in Callers |-> IF c \in Addressee(f)
                              THEN f.from = c /\ f.method = doing[c] ELSE mine[c]]
      BY <2>3 DEF Read
    <3>2. mine' \in [Callers -> BOOLEAN]
      <4>1. \A c \in Callers : mine'[c] \in BOOLEAN
        BY <3>1, Zenon
      <4> QED
        BY <3>1, <4>1
    <3> QED
      BY <2>3, <3>2 DEF Read
  <2> QED
    BY <1>5, <2>1, <2>2, <2>3 DEF ReaderStep
<1> QED
  <2>1. CASE \E c \in Callers : Request(c) /\ Alive
    BY <1>2, <2>1
  <2>2. CASE \E c \in Callers : /\ Call(c) \/ CallStep(c) \/ TimeOut(c)
                                /\ ~ (Request(c) /\ Alive)
    BY <1>3, <1>4, <2>2
  <2>3. CASE \/ \E k \in Children : Handle(k) \/ Dies(k) \/ HangsUp(k) \/ Noise(k)
             \/ ReaderStep \/ UNCHANGED vars
    BY <1>3, <1>5, <2>3 DEF Requesting
  <2> QED
    BY <2>1, <2>2, <2>3 DEF Next, CallStep

\* The rest is a matter of what each step assigns.
LEMMA OthersTyped ==
  ASSUME Inv, Typed, [Next]_vars
  PROVE  /\ proc' \in Children \cup {None}
         /\ reader' \in {"none", "running", "done", "failed"}
         /\ ret' \in [Callers -> {"none", "answer", "is_error", "timeout", "raised"}]
         /\ ran' \in [Callers -> Nat]
         /\ faults' \in 0..MaxFaults
<1>1. /\ proc \in Children \cup {None}
      /\ reader \in {"none", "running", "done", "failed"}
      /\ ret \in [Callers -> {"none", "answer", "is_error", "timeout", "raised"}]
      /\ ran \in [Callers -> Nat]
      /\ faults \in 0..MaxFaults /\ MaxFaults \in Nat
  BY ConstantsAssumption DEF ConstantsAssumption, Typed, TypeOK
<1>2. ASSUME NEW kind, Suffers(kind) PROVE faults' \in 0..MaxFaults
  BY <1>1, <1>2 DEF Suffers
<1>3. ASSUME NEW c \in Callers, Call(c) \/ CallStep(c) \/ TimeOut(c)
      PROVE  /\ proc' \in Children \cup {None}
             /\ reader' \in {"none", "running", "done", "failed"}
             /\ ret' \in [Callers -> {"none", "answer", "is_error", "timeout", "raised"}]
             /\ ran' = ran /\ faults' \in 0..MaxFaults
  <2>1. CASE Spawn(c)
    <3>1. Spawned \in Children
      BY <2>1, SpawnedIs
    <3> QED
      BY <1>1, <1>2, <2>1, <3>1 DEF Spawn, Leave
  <2>2. CASE Reap(c)
    BY <1>1, <1>2, <2>2 DEF Reap
  <2>3. CASE ~ Spawn(c) /\ ~ Reap(c)
    <3>1. UNCHANGED <<proc, ran, faults>> /\ reader' \in {reader, "none"}
      BY <1>3, <2>3 DEF Call, CallStep, TimeOut, Attempt, Restart, Close, Request, Write,
         Proceed, Rebuilt, Answered, Refused, LostTheServer
    <3>2. \/ ret' = ret
          \/ \E how \in {"answer", "is_error", "timeout", "raised"} :
               ret' = [ret EXCEPT ![c] = how]
      BY <1>3, <2>3 DEF Call, CallStep, TimeOut, Attempt, Restart, Close, Request, Write,
         Proceed, Rebuilt, Answered, Refused, LostTheServer, Leave, Disconnected
    <3> QED
      BY <1>1, <3>1, <3>2
  <2> QED
    BY <2>1, <2>2, <2>3
<1>4. ASSUME NEW k \in Children, Handle(k)
      PROVE  /\ UNCHANGED <<proc, reader, ret>> /\ ran' \in [Callers -> Nat]
             /\ faults' \in 0..MaxFaults
  <2> DEFINE f == Head(child[k].inbox)
  <2>1. child[k].inbox \in Seq(Frame) /\ child[k].inbox # <<>>
    BY <1>4 DEF Handle, Typed, ChildType
  <2>2. f \in Frame
    BY <2>1
  <2>3. f.from \in Callers
    BY <2>2 DEF Frame
  <2>4. ran' = ran \/ ran' = [ran EXCEPT ![f.from] = @ + 1]
    BY <1>4 DEF Handle
  <2>5. UNCHANGED <<proc, reader, ret>> /\ (faults' = faults \/ Suffers("refuse"))
    BY <1>4 DEF Handle
  <2> HIDE DEF f
  <2> QED
    BY <1>1, <1>2, <2>3, <2>4, <2>5
<1>5. ASSUME NEW k \in Children, Dies(k) \/ HangsUp(k) \/ Noise(k)
      PROVE  UNCHANGED <<proc, reader, ret, ran>> /\ faults' \in 0..MaxFaults
  BY <1>2, <1>5 DEF Dies, HangsUp, Noise
<1>6. ASSUME ReaderStep \/ UNCHANGED vars
      PROVE  UNCHANGED <<proc, ret, ran, faults>> /\ reader' \in {reader, "done", "failed"}
  BY <1>6 DEF ReaderStep, Read, EndOfFile, Chokes, ReaderEnds, vars
<1>7. CASE \E c \in Callers : Call(c) \/ CallStep(c) \/ TimeOut(c)
  BY <1>1, <1>3, <1>7
<1>8. CASE \E k \in Children : Handle(k) \/ Dies(k) \/ HangsUp(k) \/ Noise(k)
  BY <1>1, <1>4, <1>5, <1>8
<1>9. CASE ReaderStep \/ UNCHANGED vars
  BY <1>1, <1>6, <1>9
<1> QED
  BY <1>7, <1>8, <1>9 DEF Next

LEMMA NextTyped ==
  ASSUME Inv, Typed, [Next]_vars PROVE Typed'
<1>1. Shape'
  BY Invariance DEF Inv
<1>2. /\ \A k \in Children : ChildType(child'[k])
      /\ IsFiniteSet(LeftBehind)' /\ (Cardinality(LeftBehind) <= faults)'
  BY ChildrenTyped, LeftBehindTyped
<1>3. \A k \in Children : ChildType(child[k])'
  BY <1>2 DEF ChildType, Frames
<1>4. TypeOK'
  BY <1>1, <1>2, RequestsTyped, OthersTyped DEF TypeOK, Shape, ChildType
<1>5. \A c \in Callers : Requesting(c)' => (req[c] \in Ids)'
  BY RequestsTyped
<1> QED
  BY <1>2, <1>3, <1>4, <1>5 DEF Typed

LEMMA InitTyped ==
  ASSUME ConstantsAssumption, Init PROVE Typed
<1>1. Children = 1..(MaxFaults + 1) /\ 1 \in Children /\ MaxFaults \in Nat
  BY DEF ConstantsAssumption, Children
<1>2. \A k \in Children : /\ child[k].inbox = <<>> /\ child[k].out = {}
                          /\ child[k].phase \in {"new", "ready"}
                          /\ k # 1 => child[k] = Unborn
  BY <1>1 DEF Init, Born, Unborn
<1>3. ASSUME NEW k \in Children PROVE ChildType(child[k])
  <2>1. child[k].inbox \in Seq(Frame) /\ 1..Len(child[k].inbox) = {}
    <3>1. child[k].inbox = <<>>
      BY <1>2
    <3>2. Len(child[k].inbox) = 0
      BY <3>1
    <3> QED
      BY <3>1, <3>2
  <2>2. Frames(child[k]) = {}
    BY <1>2, <2>1 DEF Frames
  <2> QED
    BY <1>2, <2>1, <2>2 DEF ChildType
<1>4. LeftBehind = {}
  BY <1>2 DEF LeftBehind, Init
<1>5. IsFiniteSet(LeftBehind) /\ Cardinality(LeftBehind) = 0
  BY <1>4, FS_EmptySet
<1>6. TypeOK
  <2>1. \A k \in Children : /\ child[k].phase \in {"new", "ready"}
                            /\ child[k].inbox \in Seq(Frame)
                            /\ child[k].out \subseteq Reply
    BY <1>3 DEF ChildType
  <2> QED
    BY <1>1, <2>1 DEF Init, TypeOK, Steps, Methods
<1> QED
  BY <1>3, <1>5, <1>6 DEF Typed, Init, Requesting

LEMMA TypedInvariant == Spec => [](Inv /\ Typed)
<1>1. Inv /\ Typed /\ [Next]_vars => Typed'
  BY NextTyped
<1> QED
  BY <1>1, InitTyped, Invariant, ConstantsAssumption, PTL DEF Spec

\* Every variable keeps its type, and there is always a child left to spawn.
THEOREM TypeCorrect == Spec => []TypeOK
BY TypedInvariant, PTL DEF Typed
-----------------------------------------------------------------------------
(* Each reply reaches its own request.                                      *)

\* What is registered is the request its caller is waiting for.
Registered ==
  \A r \in pending : Requesting(r.by) /\ got[r.by] = "nothing" /\ req[r.by] = r.id

\* Whoever is about to make a request knows which.
Asking == \A c \in Callers : pc[c] = "request" => doing[c] # "initialized"

\* Nobody else's request has its id.
Unshared ==
  \A c \in Callers : \A r \in pending : Requesting(c) /\ req[c] = r.id => r.by = c

\* Nor does anything in a pipe, however old, that is not about it.
Traffic ==
  \A k \in Children : \A f \in Frames(child[k]) : \A r \in pending :
    r.id = f.id => r.by = f.from /\ doing[r.by] = f.method

\* No id has been used that is yet to be given out.
Numbered ==
  /\ \A c \in Callers : req[c] <= nextId
  /\ \A k \in Children : \A f \in Frames(child[k]) : f.id <= nextId

Matched ==
  /\ Asking
  /\ Registered
  /\ Unshared
  /\ Traffic
  /\ Numbered
  /\ \A c \in Callers : mine[c]

\* A step that registers nothing keeps replies and requests together if whoever is still
\* registered goes on waiting for the same, and what is new in a pipe is the frame of who
\* was to write.
LEMMA QuietMatched ==
  ASSUME Inv, Typed, Typed', Matched, UNCHANGED req, nextId' \in {nextId, nextId + 1},
         pending' \subseteq pending,
         \A c \in Callers : Requesting(c)' => Requesting(c),
         \A c \in Callers : pc'[c] = "request" => doing'[c] # "initialized",
         \A r \in pending' : /\ Requesting(r.by)'
                             /\ doing'[r.by] = doing[r.by] /\ got'[r.by] = got[r.by],
         \A k \in Children : \A g \in Frames(child'[k]) :
            \/ \E f \in Frames(child[k]) :
                 f.id = g.id /\ f.from = g.from /\ f.method = g.method
            \/ \E c \in Callers : pc[c] = "write" /\ g = FrameOf(c),
         \A c \in Callers : mine'[c]
  PROVE  Matched'
<1>1. /\ pending \subseteq [id: Ids, by: Callers] /\ nextId \in Nat
      /\ req \in [Callers -> Ids \cup {0}] /\ doing \in [Callers -> Methods]
  BY DEF Typed, TypeOK
<1>2. Asking' /\ Registered'
  BY DEF Matched, Asking, Registered
<1>3. Unshared'
  BY DEF Matched, Unshared
<1>4. ASSUME NEW c \in Callers, pc[c] = "write"
      PROVE  /\ FrameOf(c).id <= nextId
             /\ \A r \in pending : r.id = FrameOf(c).id =>
                  r.by = FrameOf(c).from /\ doing[r.by] = FrameOf(c).method
  <2>1. /\ FrameOf(c).id = IF doing[c] = "initialized" THEN 0 ELSE req[c]
        /\ FrameOf(c).from = c /\ FrameOf(c).method = doing[c]
    BY DEF FrameOf
  <2>2. req[c] <= nextId /\ 0 <= nextId
    BY <1>1 DEF Matched, Numbered
  <2>3. \A r \in pending : r.id # 0
    BY <1>1 DEF Ids
  <2>4. doing[c] # "initialized" => Requesting(c)
    BY <1>4 DEF Requesting
  <2> QED
    BY <2>1, <2>2, <2>3, <2>4 DEF Matched, Unshared
<1>5. \A k \in Children : \A g \in Frames(child'[k]) :
        /\ g.id <= nextId
        /\ \A r \in pending : r.id = g.id => r.by = g.from /\ doing[r.by] = g.method
  BY <1>4 DEF Matched, Numbered, Traffic
<1>6. Traffic'
  BY <1>5 DEF Traffic, Frames
<1>7. Numbered'
  <2>1. \A k \in Children : \A g \in Frames(child'[k]) : g.id \in Nat
    <3> SUFFICES ASSUME NEW k \in Children, NEW g \in Frames(child'[k]) PROVE g.id \in Nat
      OBVIOUS
    <3>1. child'[k].inbox \in Seq(Frame) /\ child'[k].out \subseteq Reply
      BY DEF Typed, ChildType
    <3>2. g \in Frame \/ g \in Reply
      BY <3>1 DEF Frames
    <3> QED
      BY <3>2 DEF Frame, Reply, Ids
  <2>2. \A c \in Callers : req[c] \in Nat
    BY <1>1 DEF Ids
  <2> QED
    BY <1>1, <1>5, <2>1, <2>2 DEF Matched, Numbered, Frames
<1> QED
  BY <1>2, <1>3, <1>6, <1>7 DEF Matched

\* The id of a new request is nobody else's, and of nothing in a pipe.
LEMMA RegisterMatched ==
  ASSUME Inv, Typed, Typed', Matched, NEW c \in Callers, Request(c), Alive
  PROVE  Matched'
<1> DEFINE new == [id |-> nextId', by |-> c]
<1>1. /\ pending \subseteq [id: Ids, by: Callers] /\ nextId \in Nat
      /\ req \in [Callers -> Ids \cup {0}] /\ pc \in [Callers -> Steps]
      /\ got \in [Callers -> {"nothing", "result", "error", "gone"}]
      /\ mine \in [Callers -> BOOLEAN]
  BY DEF Typed, TypeOK
<1>2. /\ nextId' = nextId + 1 /\ pending' = pending \cup {new}
      /\ req' = [req EXCEPT ![c] = nextId'] /\ got' = [got EXCEPT ![c] = "nothing"]
      /\ mine' = [mine EXCEPT ![c] = TRUE]
  BY DEF Request, Register
<1>3. pc[c] = "request" /\ UNCHANGED <<doing, child>>
  BY DEF Request
<1>4. new.id = nextId + 1 /\ new.by = c
  BY <1>2
<1> HIDE DEF new
<1>5. pc' = [pc EXCEPT ![c] = "write"]
  BY DEF Request, Goto
<1>6. doing[c] # "initialized"
  BY <1>3 DEF Matched, Asking
<1>7. ASSUME NEW r \in pending
      PROVE  /\ r.by \in Callers \ {c} /\ r.id \in Nat /\ r.id <= nextId
             /\ Requesting(r.by) /\ got[r.by] = "nothing" /\ req[r.by] = r.id
  <2>1. r.by \in Callers /\ r.id \in Nat
    BY <1>1 DEF Ids
  <2>2. Requesting(r.by) /\ got[r.by] = "nothing" /\ req[r.by] = r.id
    BY DEF Matched, Registered
  <2>3. r.by # c
    BY <1>3, <2>2 DEF Requesting
  <2> QED
    BY <2>1, <2>2, <2>3 DEF Matched, Numbered
<1>8. /\ Requesting(c)' /\ got'[c] = "nothing" /\ req'[c] = nextId + 1
       /\ \A e \in Callers \ {c} : /\ Requesting(e)' <=> Requesting(e)
                                   /\ got'[e] = got[e] /\ req'[e] = req[e]
  <2>1. pc'[c] = "write" /\ \A e \in Callers \ {c} : pc'[e] = pc[e]
    BY <1>1, <1>5
  <2> QED
    BY <1>1, <1>2, <1>3, <1>6, <2>1 DEF Requesting
<1>9. Asking'
  BY <1>1, <1>3, <1>5 DEF Matched, Asking
<1>10. Registered'
  BY <1>2, <1>4, <1>7, <1>8 DEF Registered
<1>11. Unshared'
  <2> SUFFICES ASSUME NEW e \in Callers, NEW r \in pending', Requesting(e)', req'[e] = r.id
               PROVE  r.by = e
    BY DEF Unshared
  <2>1. req[e] \in Nat /\ req[e] <= nextId
    BY <1>1 DEF Matched, Numbered, Ids
  <2>2. CASE r \in pending
    BY <1>1, <1>7, <1>8, <2>1, <2>2 DEF Matched, Unshared
  <2>3. CASE r = new
    BY <1>1, <1>4, <1>8, <2>1, <2>3
  <2> QED
    BY <1>2, <2>2, <2>3
<1>12. \A k \in Children : \A f \in Frames(child[k]) : f.id \in Nat /\ f.id <= nextId
  <2> SUFFICES ASSUME NEW k \in Children, NEW f \in Frames(child[k]) PROVE f.id \in Nat
    BY DEF Matched, Numbered
  <2>1. child[k].inbox \in Seq(Frame) /\ child[k].out \subseteq Reply
    BY DEF Typed, ChildType
  <2>2. f \in Frame \/ f \in Reply
    BY <2>1 DEF Frames
  <2> QED
    BY <2>2 DEF Frame, Reply, Ids
<1>13. Traffic'
  <2>1. \A k \in Children : \A f \in Frames(child[k]) : \A r \in pending' :
          r.id = f.id => r.by = f.from /\ doing[r.by] = f.method
    BY <1>1, <1>2, <1>4, <1>12 DEF Matched, Traffic
  <2> QED
    BY <1>3, <2>1 DEF Traffic, Frames
<1>14. Numbered'
  <2>1. \A e \in Callers : req'[e] <= nextId'
    BY <1>1, <1>2 DEF Matched, Numbered, Ids
  <2>2. \A k \in Children : \A f \in Frames(child[k]) : f.id <= nextId'
    BY <1>1, <1>2, <1>12
  <2> QED
    BY <1>3, <2>1, <2>2 DEF Numbered, Frames
<1>15. \A e \in Callers : mine'[e]
  BY <1>1, <1>2 DEF Matched
<1> QED
  BY <1>9, <1>10, <1>11, <1>13, <1>14, <1>15 DEF Matched

\* What is new in a pipe after a step is the frame of who was to write.
LEMMA NewFrames ==
  ASSUME Inv, Typed, [Next]_vars, NEW k \in Children, NEW g \in Frames(child'[k])
  PROVE  \/ \E f \in Frames(child[k]) :
              f.id = g.id /\ f.from = g.from /\ f.method = g.method
         \/ \E c \in Callers : pc[c] = "write" /\ g = FrameOf(c)
<1>1. CASE \A c \in Callers : ~ Write(c)
  <2>1. Moves(child[k], child'[k]) /\ ChildType(child[k])
    BY <1>1, NextMoves DEF Typed
  <2> QED
    BY <2>1, MovesKeep
<1>2. CASE \E c \in Callers : Write(c)
  <2>1. PICK c \in Callers : Write(c)
    BY <1>2
  <2>2. g \in Frames(child[k]) \/ g = FrameOf(c)
    BY <2>1, WriteAdds
  <2> QED
    BY <2>1, <2>2 DEF Write
<1> QED
  BY <1>1, <1>2

\* A caller that goes on to something else is not registered any more.
LEMMA CallerMatched ==
  ASSUME Inv, Typed, Typed', Matched, NEW c \in Callers,
         Call(c) \/ CallStep(c) \/ TimeOut(c), ~ (Request(c) /\ Alive)
  PROVE  Matched'
<1>1. /\ pc \in [Callers -> Steps] /\ doing \in [Callers -> Methods]
      /\ pending \subseteq [id: Ids, by: Callers]
  BY DEF Typed, TypeOK
<1>2. /\ UNCHANGED <<req, mine, got>> /\ nextId' \in {nextId, nextId + 1}
      /\ pending' \subseteq pending
  BY DEF Call, CallStep, TimeOut, Attempt, Restart, Close, Reap, Spawn, Request,
     Write, Proceed, Rebuilt, Answered, Refused, LostTheServer, future, Leave, Disconnected,
     Unregistered
<1>3. \A e \in Callers \ {c} : pc'[e] = pc[e] /\ doing'[e] = doing[e]
  BY <1>1 DEF Call, CallStep, TimeOut, Attempt, Restart, Close, Reap, Spawn, Request,
     Write, Proceed, Rebuilt, Answered, Refused, LostTheServer, Leave, Disconnected,
     Restarted, Asks, Goto
<1>4. pc'[c] = "request" => doing'[c] # "initialized"
  BY <1>1 DEF Matched, Asking, Call, CallStep, TimeOut, Attempt, Restart, Close, Reap, Spawn,
     Request, Write, Proceed, Rebuilt, Answered, Refused, LostTheServer, Leave, Disconnected,
     Restarted, Asks, Goto
<1>5. Requesting(c)' => Requesting(c)
  BY <1>1 DEF Call, CallStep, TimeOut, Attempt, Restart, Close, Reap, Spawn, Request,
     Write, Proceed, Rebuilt, Answered, Refused, LostTheServer, Leave, Disconnected,
     Restarted, Asks, Goto, Requesting
<1>6. (\E r \in pending' : r.by = c) => Requesting(c)' /\ doing'[c] = doing[c]
  <2> SUFFICES ASSUME NEW r \in pending', r.by = c
               PROVE  Requesting(c)' /\ doing'[c] = doing[c]
    OBVIOUS
  <2>1. Requesting(c) /\ got[c] = "nothing"
    BY <1>2 DEF Matched, Registered
  <2>2. \A how : ~ Leave(c, how)
    BY DEF Leave, Unregistered
  <2>3. ~ Disconnected(c)
    BY <2>2 DEF Disconnected, Unregistered
  <2>4. Write(c)
    BY <2>1, <2>2, <2>3 DEF Call, CallStep, TimeOut, Attempt, Restart, Close, Reap, Spawn,
       Request, Proceed, Rebuilt, Answered, Refused, LostTheServer, Requesting
  <2>5. pc'[c] = "await" /\ doing' = doing
    BY <1>1, <2>2, <2>3, <2>4 DEF Write, Goto
  <2> QED
    BY <2>1, <2>5 DEF Requesting
<1>7. [Next]_vars
  BY DEF Next
<1>8. \A e \in Callers : Requesting(e)' => Requesting(e)
  BY <1>3, <1>5 DEF Requesting
<1>9. \A e \in Callers : pc'[e] = "request" => doing'[e] # "initialized"
  BY <1>3, <1>4 DEF Matched, Asking
<1>10. \A r \in pending' : /\ Requesting(r.by)'
                           /\ doing'[r.by] = doing[r.by] /\ got'[r.by] = got[r.by]
  <2> SUFFICES ASSUME NEW r \in pending'
               PROVE  Requesting(r.by)' /\ doing'[r.by] = doing[r.by]
    BY <1>2
  <2>1. r \in pending /\ r.by \in Callers /\ Requesting(r.by)
    BY <1>1, <1>2 DEF Matched, Registered
  <2> QED
    BY <1>3, <1>6, <2>1 DEF Requesting
<1>11. \A e \in Callers : mine'[e]
  BY <1>2 DEF Matched
<1> QED
  BY <1>2, <1>7, <1>8, <1>9, <1>10, <1>11, NewFrames, QuietMatched

\* The child and the reader change no request; the reader completes those a reply is for.
LEMMA OutsideMatched ==
  ASSUME Inv, Typed, Typed', Matched,
         \/ \E k \in Children : Handle(k) \/ Dies(k) \/ HangsUp(k) \/ Noise(k)
         \/ ReaderStep \/ UNCHANGED vars
  PROVE  Matched'
<1>1. /\ UNCHANGED <<nextId, req, pc, doing>> /\ pending' \subseteq pending
      /\ \/ UNCHANGED <<got, mine>>
         \/ Read
         \/ pending' = {} /\ UNCHANGED mine
  <2>1. CASE \E k \in Children : Handle(k) \/ Dies(k) \/ HangsUp(k) \/ Noise(k)
    BY <2>1 DEF Handle, Dies, HangsUp, Noise, future
  <2>2. CASE ReaderStep \/ UNCHANGED vars
    BY <2>2 DEF ReaderStep, Read, EndOfFile, Chokes, ReaderEnds, vars, future
  <2> QED
    BY <2>1, <2>2
<1>2. [Next]_vars
  BY DEF Next
<1>3. \A c \in Callers : Requesting(c)' => Requesting(c)
  BY <1>1 DEF Requesting
<1>4. \A c \in Callers : pc'[c] = "request" => doing'[c] # "initialized"
  BY <1>1 DEF Matched, Asking
<1>5. \A r \in pending' : Requesting(r.by)' /\ doing'[r.by] = doing[r.by]
  BY <1>1 DEF Matched, Registered, Requesting
<1>6. /\ \A r \in pending' : got'[r.by] = got[r.by]
      /\ \A c \in Callers : mine'[c]
  <2>1. CASE UNCHANGED <<got, mine>>
    BY <2>1 DEF Matched
  <2>2. CASE pending' = {} /\ UNCHANGED mine
    BY <2>2 DEF Matched
  <2>3. CASE Read
    <3>1. PICK f \in child[proc].out :
            /\ got' = [c \in Callers |-> IF c \in Addressee(f)
                         THEN IF f.ok THEN "result" ELSE "error" ELSE got[c]]
            /\ mine' = [c \in Callers |-> IF c \in Addressee(f)
                          THEN f.from = c /\ f.method = doing[c] ELSE mine[c]]
            /\ pending' = {r \in pending : r.by \notin Addressee(f)}
      BY <2>3 DEF Read
    <3>2. \A r \in pending : r.by \in Callers
      BY DEF Typed, TypeOK
    <3>3. \A r \in pending' : got'[r.by] = got[r.by]
      BY <3>1, <3>2
    <3>4. proc \in Children /\ f \in Frames(child[proc])
      BY <2>3, <3>1 DEF Read, Alive, Typed, TypeOK, Frames
    <3>5. ASSUME NEW c \in Addressee(f) PROVE f.from = c /\ f.method = doing[c]
      <4>1. PICK r \in pending : r.id = f.id /\ r.by = c
        BY <3>5 DEF Addressee
      <4> QED
        BY <3>4, <4>1 DEF Matched, Traffic
    <3>6. ASSUME NEW c \in Callers PROVE mine'[c]
      <4>1. CASE c \in Addressee(f)
        <5>1. f.from = c /\ f.method = doing[c]
          BY <3>5, <4>1
        <5>2. mine'[c] = (f.from = c /\ f.method = doing[c])
          BY <3>1, <4>1, Zenon
        <5> QED
          BY <5>1, <5>2, Zenon
      <4>2. CASE c \notin Addressee(f)
        <5>1. mine'[c] = mine[c]
          BY <3>1, <4>2, Zenon
        <5> QED
          BY <5>1 DEF Matched
      <4> QED
        BY <4>1, <4>2
    <3> QED
      BY <3>3, <3>6
  <2> QED
    BY <1>1, <2>1, <2>2, <2>3
<1> QED
  BY <1>1, <1>2, <1>3, <1>4, <1>5, <1>6, NewFrames, QuietMatched

LEMMA NextMatched ==
  ASSUME Inv, Typed, Matched, [Next]_vars PROVE Matched'
<1>1. Typed'
  BY NextTyped
<1>2. CASE \E c \in Callers : Request(c) /\ Alive
  BY <1>1, <1>2, RegisterMatched
<1>3. CASE \E c \in Callers : /\ Call(c) \/ CallStep(c) \/ TimeOut(c)
                              /\ ~ (Request(c) /\ Alive)
  BY <1>1, <1>3, CallerMatched
<1>4. CASE \/ \E k \in Children : Handle(k) \/ Dies(k) \/ HangsUp(k) \/ Noise(k)
           \/ ReaderStep \/ UNCHANGED vars
  BY <1>1, <1>4, OutsideMatched
<1> QED
  BY <1>2, <1>3, <1>4 DEF Next

LEMMA InitMatched ==
  ASSUME ConstantsAssumption, Init PROVE Matched
<1>1. Children = 1..(MaxFaults + 1) /\ 1 \in Children
  BY DEF ConstantsAssumption, Children
<1>2. \A k \in Children : child[k].inbox = <<>> /\ child[k].out = {}
  BY <1>1 DEF Init, Born, Unborn
<1>3. ASSUME NEW k \in Children PROVE Frames(child[k]) = {}
  <2>1. Len(child[k].inbox) = 0
    BY <1>2
  <2> QED
    BY <1>2, <2>1 DEF Frames
<1> QED
  BY <1>3 DEF Init, Matched, Asking, Registered, Unshared, Traffic, Numbered

\* A caller is handed the reply to its own request, for any number of calls, restarts and
\* late replies: ids only grow, so that nothing in a pipe is about a request made since
\* (mcp_client.py:165-184).
THEOREM RepliesMatchTheirRequests == Spec => []RepliesMatch
<1>1. Inv /\ Typed /\ Matched /\ [Next]_vars => Matched'
  BY NextMatched
<1>2. Matched => RepliesMatch
  BY DEF Matched, RepliesMatch
<1> QED
  BY <1>1, <1>2, InitMatched, TypedInvariant, ConstantsAssumption, PTL DEF Spec
=============================================================================
