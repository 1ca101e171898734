----------------------------- MODULE WorkerProofs ------------------------------
(***************************************************************************)
(* Proofs about Worker, for any texts, plugins, servers and failures.        *)
(***************************************************************************)
EXTENDS Worker, TLAPS

Up        == {"gather", "takeover", "serve", "stop"}
Cloning   == {"clone", "again", "strip", "checkout"}
Resolving == Cloning \cup {"plugin", "wipe", "copy"}

\* An entry this life has resolved.
Resolved(p) == pc \in Up \/ (pc \in Resolving /\ p < now)

\* What is remembered was grounded when it was written.
SoulInv ==
  /\ \A t \in Texts : cache[t] \in {"none", "torn", "grounded"}
  /\ pc \notin Off \cup {"soul"} =>
       soul.of = text /\ soul.how \in {"blank", "grounded", "regex"}
  /\ pc \in {"save", "write"} => soul.how = "grounded"

\* A clone that is not at its ref was left so, or is being made.
CloneInv ==
  /\ pc \in Off \cup {"soul", "save", "write"} => now = 1
  /\ pc \in Resolving \ {"plugin"} => now \in Entries
  /\ pc \in {"clone", "again"} => clone[RepoOf[now]] = "absent"
  /\ pc \in {"strip", "checkout"} => clone[RepoOf[now]] = "head"
  /\ pc \in {"wipe", "copy"} => clone[RepoOf[now]] # "absent"
  /\ pc \in Cloning => \A p \in Entries : p < now => RepoOf[p] # RepoOf[now]
  /\ \A p \in Entries : Resolved(p) => clone[RepoOf[p]] # "absent"
  /\ \A r \in Repos : clone[r] \in {"head", "cut"} =>
       r \in botched \/ (pc \in {"strip", "checkout"} /\ RepoOf[now] = r)

\* What was resolved has the overlay that was asked for.
OverlayInv ==
  /\ pc \in {"wipe", "copy"} => Overlaid(now)
  /\ pc = "copy" => overlay[now] \subseteq Wanted(now)
  /\ \A p \in Entries : Resolved(p) /\ Overlaid(p) => overlay[p] = Wanted(p)

\* What is cloned whole can be read, under either name; so all that is there is.
OwnerInv ==
  /\ \A p \in Entries : clone[RepoOf[p]] \in Trees => Readable(DirOf[p])
  /\ pc \in {"gather", "takeover", "serve"} =>
       \A k \in Keys : k[1] # 0 /\ k[2] \in DeclaredBy(k[1]) => server[k] # "unread"
  /\ pc \in {"takeover", "serve"} =>
       \A p \in Entries : DeclaredBy(p) \ Stdio \subseteq remote
  /\ pc = "takeover" =>
       \A p \in Entries : p < now /\ ~Overlaid(p) => mcp[DirOf[p]] # "open"
  /\ pc = "serve" => \A p \in Entries : ~Overlaid(p) => mcp[DirOf[p]] # "open"

\* A server's client and child go together, except in an attempt that is over.
ClientInv(k) ==
  /\ kids[k] \in 0..1
  /\ server[k] = "unread" => tries[k] = 0
  /\ server[k] = "new" => tries[k] < Attempts
  /\ pc \notin Off /\ server[k] \in {"shake", "kept", "choked"} => kids[k] = 1
  /\ pc \notin Off /\ server[k] \in {"unread", "new", "skipped", "closed"} => kids[k] = 0
  /\ pc \notin Up => server[k] = "unread"
  /\ pc \in {"takeover", "serve"} => server[k] \in {"unread", "skipped", "kept", "choked"}
  /\ pc = "stop" => server[k] \in {"unread", "skipped", "kept", "choked", "closed"}
  /\ pc = "stopped" => kids[k] = 0

ClientsInv == \A k \in Keys : ClientInv(k)

Inv == TypeOK /\ SoulInv /\ CloneInv /\ OverlayInv /\ OwnerInv /\ ClientsInv
-----------------------------------------------------------------------------
(* The steps of the worker in the groups they are looked at in *)

Serving == Connect \/ Register \/ TakeOver \/ TaskFails \/ Stop \/ \E k \in Keys : Chokes(k)

Ending == Stopped \/ Raises \/ Fails \/ Crash

\* A step is one of these.
LEMMA Steps ==
  ASSUME [Next]_vars
  PROVE  \/ Edit \/ Restart \/ LoadSoul \/ SaveSoul \/ Resolve \/ Clone \/ CloneAgain
         \/ Checkout \/ BuildOverlay \/ Start \/ Serving \/ Ending \/ UNCHANGED vars
  BY DEF Next, Step, Failure, Serving, Ending

\* A worker that is past the files it reads leaves them alone, but for renames.
LEMMA ServingFrame ==
  ASSUME Serving
  PROVE  /\ pc \in Up /\ pc' \in Up
         /\ UNCHANGED <<personaVars, asks, mounted, clone, part, overlay, botched>>
<1>1. CASE Connect   BY <1>1 DEF Connect, Up, pluginVars
<1>2. CASE Register  BY <1>2 DEF Register, Up, pluginVars
<1>3. CASE TakeOver  BY <1>3 DEF TakeOver, TakenOver, OnDisk, Up, pluginVars
<1>4. CASE TaskFails BY <1>4 DEF TaskFails, Up, pluginVars
<1>5. CASE Stop      BY <1>5 DEF Stop, Up, pluginVars
<1>6. CASE \E k \in Keys : Chokes(k) BY <1>6 DEF Chokes, Up, pluginVars
<1> QED BY <1>1, <1>2, <1>3, <1>4, <1>5, <1>6 DEF Serving

\* A life ends with its files as they are, or with a clone that was cut short.
LEMMA EndingFrame ==
  ASSUME Ending
  PROVE  /\ \E how \in Off : Ends(how)
         /\ UNCHANGED cache /\ (faults' = faults \/ (faults < MaxFaults /\ faults' = faults + 1))
         /\ UNCHANGED pluginVars \/ (pc \in {"clone", "again", "checkout"} /\ CutShort(Repo))
         /\ pc' = "stopped" => /\ pc = "stop"
                               /\ \A k \in Keys : server[k] \notin {"kept", "choked"}
<1>1. CASE Stopped BY <1>1 DEF Stopped, Ends, Off
<1>2. CASE Raises  BY <1>2 DEF Raises, Ends, Off
<1>3. CASE Fails   BY <1>3 DEF Fails, Suffers, GitFailed, Ends, Off
<1>4. CASE Crash   BY <1>4 DEF Crash, Suffers, GitFailed, Ends, Off
<1> QED BY <1>1, <1>2, <1>3, <1>4 DEF Ending
-----------------------------------------------------------------------------
(* The soul *)

LEMMA SoulStep ==
  ASSUME PersonaTypeOK, SoulInv, [Next]_vars
  PROVE  PersonaTypeOK' /\ SoulInv'
<1> USE DEF PersonaTypeOK, SoulInv
<1>1. CASE Edit BY <1>1 DEF Edit, Off
<1>2. CASE Restart BY <1>2 DEF Restart, personaVars, Off
<1>3. CASE LoadSoul
  <2>1. CASE Remembered
    BY <1>3, <2>1 DEF LoadSoul, Remembered, Soul, Replies, Unknown, Off
  <2>2. ASSUME NEW reply \in Replies, Extracted(reply),
               pc' = IF Validated(reply) THEN "save" ELSE "plugin"
        PROVE  PersonaTypeOK' /\ SoulInv'
    BY <2>2 DEF Extracted, Validated, Soul, Replies, Off
  <2> QED BY <1>3, <2>1, <2>2 DEF LoadSoul, Remembered, Soul
<1>4. CASE SaveSoul
  BY <1>4 DEF SaveSoul, Opened, Written, Replies, Off
<1>5. CASE Resolve \/ Clone \/ CloneAgain \/ Checkout
  BY <1>5 DEF Resolve, NextEntry, Clone, CloneAgain, Checkout, OnDisk, personaVars, Off
<1>6. CASE BuildOverlay
  BY <1>6 DEF BuildOverlay, NextEntry, OnDisk, personaVars, Off
<1>7. CASE Start BY <1>7 DEF Start, personaVars, Off
<1>8. CASE Serving BY <1>8, ServingFrame DEF personaVars, Up, Off
<1>9. CASE Ending
  BY <1>9, EndingFrame, TextsAssumption DEF Ends, NoSoul, Off
<1>10. CASE UNCHANGED vars BY <1>10 DEF vars, personaVars
<1> QED BY <1>1, <1>2, <1>3, <1>4, <1>5, <1>6, <1>7, <1>8, <1>9, <1>10, Steps
-----------------------------------------------------------------------------
(* The disk *)

\* Where run() is keeps its type, as long as the entry at hand is one when it matters.
RunTypeOK ==
  /\ pc \in Off \cup Booting \cup {"serve", "stop"}
  /\ now \in 1..N + 1
  /\ remote \subseteq Servers
  /\ botched \subseteq Repos
  /\ faults \in 0..MaxFaults

LEMMA RunTyped ==
  ASSUME PluginsTypeOK, RunTypeOK, CloneInv, [Next]_vars
  PROVE  RunTypeOK'
<1> USE PluginsAssumption, WorkerAssumption DEF RunTypeOK, Entries
<1>1. CASE Edit \/ Restart
  BY <1>1 DEF Edit, Restart, Booting
<1>2. CASE LoadSoul \/ SaveSoul
  BY <1>2 DEF LoadSoul, SaveSoul, Booting
<1>3. CASE Resolve
  BY <1>3 DEF Resolve, NextEntry, OnDisk, Booting
<1>4. CASE Clone \/ CloneAgain \/ Checkout
  BY <1>4 DEF Clone, CloneAgain, Checkout, Suffers, OnDisk, Booting
<1>5. CASE BuildOverlay
  BY <1>5 DEF BuildOverlay, NextEntry, OnDisk, Booting, CloneInv, Resolving
<1>6. CASE Start BY <1>6 DEF Start, Booting
<1>7. CASE Serving
  <2>1. CASE Connect \/ TaskFails \/ Stop \/ \E k \in Keys : Chokes(k)
    BY <2>1 DEF Connect, TaskFails, Stop, Chokes, Suffers
  <2>2. CASE Register
    <3>1. ASSUME NEW p \in Entries PROVE ReadFrom(p) \subseteq Servers
      BY DEF ReadFrom, DeclaredBy, Ships
    <3>2. mounted \subseteq Servers
      BY DEF PluginsTypeOK
    <3>3. RemoteRead \subseteq Servers
      BY <3>1, <3>2 DEF RemoteRead
    <3> QED BY <2>2, <3>3 DEF Register, Booting
  <2>3. CASE TakeOver
    BY <2>3 DEF TakeOver, OnDisk, Booting
  <2> QED BY <1>7, <2>1, <2>2, <2>3 DEF Serving
<1>8. CASE Ending
  <2>1. pc \in Cloning => RepoOf[now] \in Repos
    BY DEF CloneInv, Resolving, Cloning
  <2> QED BY <1>8, <2>1, EndingFrame DEF Ends, Cloning
<1>9. CASE UNCHANGED vars BY <1>9 DEF vars
<1> QED BY <1>1, <1>2, <1>3, <1>4, <1>5, <1>6, <1>7, <1>8, <1>9, Steps

\* The boot's steps on the files keep their types.
LEMMA PluginsTyped ==
  ASSUME PluginsTypeOK, CloneInv, [Next]_vars
  PROVE  PluginsTypeOK'
<1> USE PluginsAssumption DEF PluginsTypeOK, Trees
<1>1. CASE Edit BY <1>1 DEF Edit
<1>2. CASE Restart \/ LoadSoul \/ SaveSoul \/ Resolve \/ Start
  BY <1>2 DEF Restart, LoadSoul, SaveSoul, Resolve, Start, pluginVars
<1>3. CASE Clone
  BY <1>3 DEF Clone, ClonedHead
<1>4. CASE CloneAgain
  BY <1>4 DEF CloneAgain, CloneDropped
<1>5. CASE Checkout
  BY <1>5 DEF Checkout, CheckedOut, pluginVars
<1>6. CASE BuildOverlay
  <2>1. CASE OverlayWiped(now) BY <2>1 DEF OverlayWiped
  <2>2. ASSUME NEW s \in Wanted(now), SkillCopied(now, s), now \in Entries
        PROVE  PluginsTypeOK'
    <3>1. s \in Skills BY <2>2 DEF Wanted
    <3> QED BY <2>2, <3>1 DEF SkillCopied
  <2>3. CASE UNCHANGED pluginVars BY <2>3 DEF pluginVars
  <2>4. pc = "copy" => now \in Entries BY DEF CloneInv, Resolving
  <2> QED BY <1>6, <2>1, <2>2, <2>3, <2>4 DEF BuildOverlay
<1>7. CASE Serving
  <2>1. CASE TakeOver
    BY <2>1 DEF TakeOver, TakenOver, pluginVars
  <2>2. CASE ~TakeOver
    BY <1>7, <2>2 DEF Serving, Connect, Register, TaskFails, Stop, Chokes, pluginVars
  <2> QED BY <2>1, <2>2
<1>8. CASE Ending
  BY <1>8, EndingFrame DEF CutShort, EntriesOf, pluginVars
<1>9. CASE UNCHANGED vars BY <1>9 DEF vars, pluginVars
<1> QED BY <1>1, <1>2, <1>3, <1>4, <1>5, <1>6, <1>7, <1>8, <1>9, Steps

\* An entry is resolved when its clone holds it, so there is one.
LEMMA ListedIsThere ==
  ASSUME NEW p \in Entries, ~Unlisted(p)
  PROVE  clone[RepoOf[p]] # "absent"
  BY PluginsAssumption DEF Unlisted, Trees

LEMMA CloneStep ==
  ASSUME PluginsTypeOK, RunTypeOK, CloneInv, [Next]_vars
  PROVE  CloneInv'
<1> USE PluginsAssumption DEF PluginsTypeOK, RunTypeOK, CloneInv, Resolved, Resolving,
        Cloning, Up, Off, Entries
<1>1. CASE Edit \/ Restart
  BY <1>1 DEF Edit, Restart, pluginVars
<1>2. CASE LoadSoul \/ SaveSoul
  BY <1>2 DEF LoadSoul, SaveSoul, pluginVars
<1>3. CASE Resolve
  <2>1. CASE pc' = "clone"
    <3>1. /\ pc = "plugin" /\ now \in Entries /\ now' = now
          /\ clone[RepoOf[now]] = "absent" /\ UNCHANGED <<clone, botched>>
      BY <1>3, <2>1 DEF Resolve, NextEntry, Cached, Repo, OnDisk, pluginVars
    <3>2. ASSUME NEW p \in Entries, p < now
          PROVE  RepoOf[p] # RepoOf[now]
      BY <3>1, <3>2 DEF Trees
    <3> QED BY <2>1, <3>1, <3>2
  <2>2. CASE pc' # "clone"
    <3>1. now \in Entries /\ clone[RepoOf[now]] # "absent"
      BY <1>3, <2>2, ListedIsThere DEF Resolve
    <3>2. (pc' = "wipe" /\ now' = now) \/ (pc' = "plugin" /\ now' = now + 1)
      BY <1>3, <2>2 DEF Resolve, NextEntry
    <3>3. UNCHANGED <<clone, botched>> /\ pc = "plugin"
      BY <1>3 DEF Resolve, OnDisk, pluginVars
    <3> QED BY <3>1, <3>2, <3>3
  <2> QED BY <2>1, <2>2
<1>4. CASE Clone
  BY <1>4 DEF Clone, ClonedHead, Repo, OnDisk, Trees
<1>5. CASE CloneAgain
  BY <1>5 DEF CloneAgain, CloneDropped, Repo, OnDisk, Trees
<1>6. CASE Checkout
  BY <1>6 DEF Checkout, CheckedOut, Repo, OnDisk, pluginVars, Trees
<1>7. CASE BuildOverlay
  BY <1>7 DEF BuildOverlay, OverlayWiped, SkillCopied, NextEntry, OnDisk, pluginVars
<1>8. CASE Start
  BY <1>8 DEF Start, pluginVars
<1>9. CASE Serving
  BY <1>9, ServingFrame
<1>10. CASE Ending
  BY <1>10, EndingFrame DEF Ends, CutShort, Repo, pluginVars
<1>11. CASE UNCHANGED vars BY <1>11 DEF vars, pluginVars
<1> QED BY <1>1, <1>2, <1>3, <1>4, <1>5, <1>6, <1>7, <1>8, <1>9, <1>10, <1>11, Steps

\* The entry at hand is not among those resolved, so building its overlay is no
\* business of theirs.
LEMMA OverlayStep ==
  ASSUME PluginsTypeOK, RunTypeOK, CloneInv, OverlayInv, [Next]_vars
  PROVE  OverlayInv'
<1> USE PluginsAssumption DEF OverlayInv, Resolved, Resolving, Cloning, Up, Off, Entries
<1>1. CASE Edit \/ Restart
  BY <1>1 DEF Edit, Restart, pluginVars
<1>2. CASE LoadSoul \/ SaveSoul
  BY <1>2 DEF LoadSoul, SaveSoul, pluginVars, Wanted, RunTypeOK, CloneInv
<1>3. CASE Resolve
  <2>1. /\ pc = "plugin" /\ UNCHANGED <<asks, overlay>>
        /\ \/ pc' = "clone" /\ now' = now
           \/ pc' = "wipe" /\ now' = now /\ Overlaid(now)
           \/ pc' = "plugin" /\ now' = now + 1 /\ ~Overlaid(now)
    BY <1>3 DEF Resolve, NextEntry, pluginVars
  <2>2. ASSUME NEW p \in Entries, Resolved(p)', Overlaid(p)
        PROVE  Resolved(p)
    BY <2>1, <2>2 DEF RunTypeOK
  <2> QED BY <2>1, <2>2 DEF Wanted
<1>4. CASE Clone \/ CloneAgain \/ Checkout
  BY <1>4 DEF Clone, ClonedHead, CloneAgain, CloneDropped, Checkout, CheckedOut,
              pluginVars, Wanted
<1>5. CASE BuildOverlay
  <2> now \in Entries
    BY <1>5 DEF BuildOverlay, CloneInv
  <2>1. CASE OverlayWiped(now) /\ pc = "wipe" /\ pc' = "copy" /\ now' = now
    BY <2>1 DEF OverlayWiped, Wanted, PluginsTypeOK
  <2>2. ASSUME NEW s \in Wanted(now), SkillCopied(now, s), pc = "copy",
               pc' = "copy", now' = now
        PROVE  OverlayInv'
    BY <2>2 DEF SkillCopied, Wanted, PluginsTypeOK
  <2>3. CASE /\ pc = "copy" /\ Wanted(now) \subseteq overlay[now] /\ NextEntry
             /\ UNCHANGED pluginVars
    <3>1. ASSUME NEW p \in Entries, Resolved(p)', Overlaid(p)
          PROVE  overlay[p] = Wanted(p)
      <4>1. overlay[now] = Wanted(now)
        BY <2>3
      <4>2. p < now \/ p = now
        BY <2>3, <3>1 DEF NextEntry, RunTypeOK
      <4> QED BY <2>3, <3>1, <4>1, <4>2
    <3> QED BY <2>3, <3>1 DEF NextEntry, pluginVars, Wanted
  <2> QED BY <1>5, <2>1, <2>2, <2>3 DEF BuildOverlay
<1>6. CASE Start
  BY <1>6 DEF Start, pluginVars, Wanted
<1>7. CASE Serving
  BY <1>7, ServingFrame DEF Wanted
<1>8. CASE Ending
  BY <1>8, EndingFrame DEF Ends
<1>9. CASE UNCHANGED vars BY <1>9 DEF vars, pluginVars, Wanted
<1> QED BY <1>1, <1>2, <1>3, <1>4, <1>5, <1>6, <1>7, <1>8, <1>9, Steps
-----------------------------------------------------------------------------
(* The servers *)

LEMMA ClientsStep ==
  ASSUME PreflightTypeOK, ClientsInv, [Next]_vars
  PROVE  PreflightTypeOK' /\ ClientsInv'
<1> USE AttemptsAssumption DEF PreflightTypeOK, ClientStates, ClientsInv, ClientInv, Up, Off
<1>1. CASE Edit
  BY <1>1 DEF Edit, serverVars
<1>2. CASE Restart
  BY <1>2 DEF Restart
<1>3. CASE LoadSoul \/ SaveSoul
  BY <1>3 DEF LoadSoul, SaveSoul, serverVars
<1>4. CASE Resolve \/ Clone \/ CloneAgain \/ Checkout \/ BuildOverlay
  BY <1>4 DEF Resolve, Clone, CloneAgain, Checkout, BuildOverlay, NextEntry, OnDisk, serverVars
<1>5. CASE Start
  BY <1>5 DEF Start, StartClients
<1>6. CASE Serving
  <2>1. ASSUME NEW k \in Keys, pc = "gather", pc' = "gather", Spawn(k)
        PROVE  PreflightTypeOK' /\ ClientsInv'
    BY <2>1 DEF Spawn, Becomes
  <2>2. ASSUME NEW k \in Keys, pc = "gather", pc' = "gather", Shake(k)
        PROVE  PreflightTypeOK' /\ ClientsInv'
    BY <2>2 DEF Shake, Becomes
  <2>3. ASSUME NEW k \in Keys, pc = "gather", pc' = "gather", CloseFailed(k)
        PROVE  PreflightTypeOK' /\ ClientsInv'
    BY <2>3 DEF CloseFailed, Becomes
  <2>4. CASE Register
    BY <2>4 DEF Register, Settled, serverVars
  <2>5. CASE TakeOver
    BY <2>5 DEF TakeOver, OnDisk, serverVars
  <2>6. CASE TaskFails
    BY <2>6 DEF TaskFails, serverVars
  <2>7. CASE Stop
    BY <2>7 DEF Stop, Closed, Becomes
  <2>8. CASE \E k \in Keys : Chokes(k)
    BY <2>8 DEF Chokes, Becomes
  <2> QED BY <1>6, <2>1, <2>2, <2>3, <2>4, <2>5, <2>6, <2>7, <2>8 DEF Serving, Connect
<1>7. CASE Ending
  BY <1>7, EndingFrame DEF Ends, NoClients
<1>8. CASE UNCHANGED vars BY <1>8 DEF vars, serverVars
<1> QED BY <1>1, <1>2, <1>3, <1>4, <1>5, <1>6, <1>7, <1>8, Steps

\* What a directory's .mcp.json is called changes only from one readable name to
\* another.
LEMMA ReadableStays ==
  ASSUME PluginsTypeOK, CloneInv, OwnerInv, [Next]_vars,
         NEW p \in Entries, (clone[RepoOf[p]] \in Trees)'
  PROVE  Readable(DirOf[p])'
<1> USE PluginsAssumption DEF PluginsTypeOK, Readable, Trees
<1> DirOf[p] \in Dirs /\ RepoOf[p] \in Repos
  OBVIOUS
<1> clone[RepoOf[p]] \in Trees => mcp[DirOf[p]] # "none"
  BY DEF OwnerInv
<1>1. CASE UNCHANGED <<clone, mcp>> BY <1>1
<1>2. CASE Clone
  <2>1. Repo \in Repos BY <1>2 DEF Clone, CloneInv, Resolving, Cloning, Repo
  <2>2. CASE RepoOf[p] = Repo
    BY <1>2, <2>2 DEF Clone, ClonedHead, DirsOf, EntriesOf
  <2>3. CASE RepoOf[p] # Repo
    BY <1>2, <2>1, <2>3 DEF Clone, ClonedHead, DirsOf, EntriesOf
  <2> QED BY <2>2, <2>3
<1>3. CASE CloneAgain
  BY <1>3 DEF CloneAgain, CloneDropped
<1>4. CASE Checkout
  BY <1>4 DEF Checkout, CheckedOut, CloneInv, Repo, pluginVars
<1>5. CASE TakeOver
  BY <1>5 DEF TakeOver, TakenOver, pluginVars
<1>6. CASE Ending
  BY <1>6, EndingFrame DEF CutShort, DirsOf, EntriesOf, pluginVars
<1>7. CASE Edit \/ Restart \/ LoadSoul \/ SaveSoul \/ Resolve \/ BuildOverlay \/ Start
  <2>1. UNCHANGED <<clone, mcp>>
    BY <1>7 DEF Edit, Restart, LoadSoul, SaveSoul, Resolve, BuildOverlay, OverlayWiped,
                SkillCopied, Start, pluginVars
  <2> QED BY <1>1, <2>1
<1>8. CASE Serving /\ ~TakeOver
  <2>1. UNCHANGED <<clone, mcp>>
    BY <1>8 DEF Serving, Connect, Register, TaskFails, Stop, Chokes, pluginVars
  <2> QED BY <1>1, <2>1
<1>9. CASE UNCHANGED vars BY <1>1, <1>9 DEF vars, pluginVars
<1> QED BY <1>2, <1>3, <1>4, <1>5, <1>6, <1>7, <1>8, <1>9, Steps

\* So what an entry that is resolved declares is read.
LEMMA AllIsRead ==
  ASSUME PluginsTypeOK, CloneInv, OwnerInv, NEW p \in Entries, Resolved(p)
  PROVE  ReadFrom(p) = DeclaredBy(p)
<1>1. CASE clone[RepoOf[p]] \in Trees
  BY <1>1 DEF OwnerInv, ReadFrom
<1>2. CASE clone[RepoOf[p]] = "cut"
  BY <1>2 DEF ReadFrom, DeclaredBy, Readable
<1> QED BY <1>1, <1>2, PluginsAssumption DEF CloneInv, PluginsTypeOK

\* The ways to be past resolving and not yet stopping.
LEMMA OnTheWayUp ==
  ASSUME [Next]_vars, pc' \in {"gather", "takeover", "serve"}
  PROVE  Start \/ Connect \/ Register \/ TakeOver \/ (\E k \in Keys : Chokes(k)) \/ UNCHANGED vars
<1>1. CASE Edit \/ Restart \/ LoadSoul \/ SaveSoul \/ Resolve \/ Clone \/ CloneAgain
           \/ Checkout \/ BuildOverlay
  BY <1>1 DEF Edit, Restart, LoadSoul, SaveSoul, Resolve, Clone, CloneAgain, Checkout,
              BuildOverlay, NextEntry, Off
<1>2. CASE TaskFails \/ Stop BY <1>2 DEF TaskFails, Stop
<1>3. CASE Ending BY <1>3, EndingFrame DEF Ends, Off
<1> QED BY <1>1, <1>2, <1>3, Steps DEF Serving

\* Nothing is read again on that way, and what there is to read stays.
LEMMA DeclarationsStand ==
  ASSUME PluginsTypeOK, [Next]_vars, pc' \in {"gather", "takeover", "serve"},
         NEW p \in Entries
  PROVE  DeclaredBy(p)' = DeclaredBy(p)
<1> USE PluginsAssumption DEF DeclaredBy, Ships, PluginsTypeOK
<1>1. CASE UNCHANGED <<clone, mcp>> BY <1>1
<1>2. CASE TakeOver
  BY <1>2 DEF TakeOver, TakenOver, pluginVars
<1> QED BY <1>1, <1>2, OnTheWayUp
        DEF Start, Connect, Register, Chokes, vars, pluginVars

LEMMA OwnerStep ==
  ASSUME PluginsTypeOK, RunTypeOK, CloneInv, OwnerInv, PreflightTypeOK, [Next]_vars
  PROVE  OwnerInv'
<1>1. \A p \in Entries : (clone[RepoOf[p]] \in Trees)' => Readable(DirOf[p])'
  BY ReadableStays
<1>2. ASSUME NEW k \in Keys, k[1] # 0, (k[2] \in DeclaredBy(k[1]))',
             pc' \in {"gather", "takeover", "serve"}
      PROVE  server'[k] # "unread"
  <2> k[1] \in Entries /\ k[2] \in DeclaredBy(k[1])
    BY <1>2, DeclarationsStand, PluginsAssumption DEF Keys, Entries
  <2> server[k] # "unread" \/ pc \notin {"gather", "takeover", "serve"}
    BY <1>2 DEF OwnerInv
  <2>1. CASE Start
    <3>1. ReadFrom(k[1]) = DeclaredBy(k[1])
      BY <2>1, AllIsRead, PluginsAssumption DEF Start, Resolved, Resolving, Entries
    <3>2. StdioRead(k)
      BY <1>2, <3>1 DEF StdioRead
    <3> QED BY <2>1, <3>2 DEF Start, StartClients
  <2>2. CASE Connect
    BY <2>2 DEF Connect, Spawn, Shake, CloseFailed, Becomes, PreflightTypeOK
  <2>3. CASE Register \/ TakeOver
    BY <2>3 DEF Register, TakeOver, OnDisk, serverVars
  <2>4. CASE \E c \in Keys : Chokes(c)
    BY <2>4 DEF Chokes, Becomes, PreflightTypeOK
  <2>5. CASE UNCHANGED vars BY <1>2, <2>5 DEF vars, serverVars
  <2> QED BY <1>2, <2>1, <2>2, <2>3, <2>4, <2>5, OnTheWayUp
<1>3. ASSUME NEW p \in Entries, pc' \in {"takeover", "serve"}
      PROVE  (DeclaredBy(p) \ Stdio \subseteq remote)'
  <2> DeclaredBy(p)' = DeclaredBy(p)
    BY <1>3, DeclarationsStand
  <2>1. CASE Register
    <3>1. ReadFrom(p) = DeclaredBy(p)
      BY <2>1, AllIsRead DEF Register, Resolved, Up
    <3> QED BY <2>1, <3>1 DEF Register, RemoteRead
  <2>2. CASE ~Register
    <3>1. pc \in {"takeover", "serve"} /\ remote' = remote
      BY <1>3, <2>2, OnTheWayUp DEF Start, Connect, TakeOver, OnDisk, Chokes, vars
    <3> QED BY <3>1 DEF OwnerInv
  <2> QED BY <2>1, <2>2
<1>4. ASSUME NEW p \in Entries, ~Overlaid(p),
             (pc' = "takeover" /\ p < now') \/ pc' = "serve"
      PROVE  mcp'[DirOf[p]] # "open"
  <2> USE PluginsAssumption DEF RunTypeOK, PluginsTypeOK, Entries
  <2>1. CASE TakeOver
    <3>1. CASE p < now
      <4>1. mcp[DirOf[p]] # "open"
        BY <2>1, <1>4, <3>1 DEF TakeOver, OwnerInv
      <4> QED BY <2>1, <4>1 DEF TakeOver, TakenOver, pluginVars
    <3>2. CASE ~(p < now)
      <4>1. p = now /\ TakenOver(now)
        BY <2>1, <1>4, <3>2 DEF TakeOver
      <4> QED BY <1>4, <4>1 DEF TakenOver
    <3> QED BY <3>1, <3>2
  <2>2. CASE ~TakeOver
    <3>1. /\ pc' = pc /\ now' = now /\ mcp' = mcp
      BY <1>4, <2>2, OnTheWayUp DEF Start, Connect, Register, Chokes, vars, pluginVars
    <3> QED BY <1>4, <3>1 DEF OwnerInv
  <2> QED BY <2>1, <2>2
<1> QED BY <1>1, <1>2, <1>3, <1>4 DEF OwnerInv
-----------------------------------------------------------------------------
(* The theorems *)

LEMMA Invariant == Spec => []Inv
<1>1. Init => Inv
  <2> SUFFICES ASSUME Init PROVE Inv
    OBVIOUS
  <2> USE PluginsAssumption, TextsAssumption, AttemptsAssumption, WorkerAssumption
      DEF Init, PersonaInit, PluginsInit, PreflightInit, Off
  <2>1. TypeOK
    BY DEF TypeOK, PersonaTypeOK, NoSoul, Replies, PluginsTypeOK, PreflightTypeOK, ClientStates
  <2>2. SoulInv
    BY DEF SoulInv
  <2>3. CloneInv /\ OverlayInv /\ OwnerInv
    BY DEF CloneInv, OverlayInv, OwnerInv, Resolved, Resolving, Cloning, Up, Trees
  <2>4. ClientsInv
    BY DEF ClientsInv, ClientInv
  <2> QED BY <2>1, <2>2, <2>3, <2>4 DEF Inv
<1>2. Inv /\ [Next]_vars => Inv'
  <2> SUFFICES ASSUME Inv, [Next]_vars PROVE Inv'
    OBVIOUS
  <2>1. PersonaTypeOK /\ PluginsTypeOK /\ PreflightTypeOK /\ RunTypeOK
    BY DEF Inv, TypeOK, RunTypeOK
  <2>2. PersonaTypeOK' /\ SoulInv'
    BY <2>1, SoulStep DEF Inv
  <2>3. PluginsTypeOK' /\ RunTypeOK' /\ CloneInv'
    BY <2>1, PluginsTyped, RunTyped, CloneStep DEF Inv
  <2>4. OverlayInv' /\ OwnerInv'
    BY <2>1, OverlayStep, OwnerStep DEF Inv
  <2>5. PreflightTypeOK' /\ ClientsInv'
    BY <2>1, ClientsStep DEF Inv
  <2> QED BY <2>2, <2>3, <2>4, <2>5 DEF Inv, TypeOK, RunTypeOK
<1> QED BY <1>1, <1>2, PTL DEF Spec

\* Every variable keeps its type.
THEOREM TypeCorrect == Spec => []TypeOK
<1>1. Inv => TypeOK BY DEF Inv
<1> QED BY <1>1, Invariant, PTL

\* However many boots were cut short, a worker that serves owns every server that the
\* files of its plugins name (take_over_plugin_mcp, remote_servers).
THEOREM OwnsEveryServer == Spec => []OneOwner
<1>1. Inv => OneOwner
  <2> SUFFICES ASSUME Inv, pc = "serve", NEW p \in Entries, ~Overlaid(p)
               PROVE  /\ mcp[DirOf[p]] # "open"
                      /\ \A s \in DeclaredBy(p) :
                           IF s \in Stdio THEN server[<<p, s>>] # "unread" ELSE s \in remote
    BY DEF OneOwner
  <2>1. mcp[DirOf[p]] # "open"
    BY DEF Inv, OwnerInv
  <2>2. ASSUME NEW s \in DeclaredBy(p), s \in Stdio
        PROVE  server[<<p, s>>] # "unread"
    <3>1. <<p, s>> \in Keys
      BY <2>2, PluginsAssumption DEF Keys, Entries, DeclaredBy
    <3>2. p # 0
      BY PluginsAssumption DEF Entries
    <3> QED BY <3>1, <3>2 DEF Inv, OwnerInv
  <2>3. ASSUME NEW s \in DeclaredBy(p), s \notin Stdio
        PROVE  s \in remote
    BY <2>3 DEF Inv, OwnerInv
  <2> QED BY <2>1, <2>2, <2>3
<1> QED BY <1>1, Invariant, PTL

\* No server has two children, and none is left by a worker that stops
\* (_start_with_retry, the `finally` of run).
THEOREM LeavesNoChild == Spec => []NoStrayChild
<1>1. Inv => NoStrayChild
  <2> SUFFICES ASSUME Inv, NEW k \in Keys
               PROVE  /\ kids[k] <= 1
                      /\ pc = "serve" => (kids[k] = 1 <=> server[k] \in {"kept", "choked"})
                      /\ pc = "stopped" => kids[k] = 0
    BY DEF NoStrayChild
  <2> QED BY DEF Inv, ClientsInv, ClientInv, Off
<1> QED BY <1>1, Invariant, PTL

\* No soul is served that names what its text does not (load_soul_data).
THEOREM ServesAGroundedSoul == Spec => []SoulIsGrounded
<1>1. Inv => SoulIsGrounded BY DEF Inv, SoulInv, SoulIsGrounded, Off
<1> QED BY <1>1, Invariant, PTL

\* A session sees the skills that were asked for (build_overlay).
THEOREM ServesTheSkills == Spec => []ExactlyTheSkills
<1>1. Inv => ExactlyTheSkills
  BY DEF Inv, OverlayInv, Resolved, Up, ExactlyTheSkills
<1> QED BY <1>1, Invariant, PTL

\* A repo is served at its ref, unless a boot ended after it began to clone it and before
\* the ref was checked out, and left a .git: a whole tree or any part of one (_clone).
THEOREM ServesTheRef == Spec => []PinnedUnlessBotched
<1>1. Inv => PinnedUnlessBotched
  <2> SUFFICES ASSUME Inv, pc = "serve", NEW p \in Entries
               PROVE  clone[RepoOf[p]] = "ref" \/ RepoOf[p] \in botched
    BY DEF PinnedUnlessBotched
  <2>1. clone[RepoOf[p]] # "absent"
    BY DEF Inv, CloneInv, Resolved, Up
  <2>2. RepoOf[p] \in Repos
    BY PluginsAssumption
  <2>3. clone[RepoOf[p]] \in {"cut", "head", "ref"}
    BY <2>1, <2>2 DEF Inv, TypeOK, PluginsTypeOK, Trees
  <2> QED BY <2>2, <2>3 DEF Inv, CloneInv
<1> QED BY <1>1, Invariant, PTL
=============================================================================
