-------------------------------- MODULE Worker --------------------------------
(***************************************************************************)
(* A worker process over its home directory (run, server.py): it boots,      *)
(* serves Slack, stops or is killed, and is started again on what the last    *)
(* life left on disk.                                                        *)
(*                                                                         *)
(* What a boot does in memory alone is left out.  The home belongs to one    *)
(* worker, and the operator edits its files between two lives: a boot reads   *)
(* each once.                                                                *)
(***************************************************************************)
EXTENDS Persona, Preflight

CONSTANTS
  Faults,    \* the kinds of failure that may happen, out of FaultKinds
  MaxFaults  \* bound on how many failures happen in a behaviour

FaultKinds ==
  {"crash",  \* the process is killed
   "infra",  \* a service, a credential or a port is not to be had
   "git",    \* a git command fails
   "io",     \* writing a file fails
   "task"}   \* a task of the gather raises, or the worker is interrupted

ASSUME WorkerAssumption == Faults \subseteq FaultKinds /\ MaxFaults \in Nat

VARIABLES
  pc,      \* where run() is, or how the last life ended
  now,     \* the entry of jean.json at hand
  remote,  \* the http servers registered with the CLI
  botched, \* the repos a boot ended on, after clone began and before the ref was
           \* checked out, and left a .git of (history)
  faults   \* failures so far

vars == <<personaVars, pluginVars, serverVars, pc, now, remote, botched, faults>>
-----------------------------------------------------------------------------
Off     == {"off", "killed", "raised", "stopped"}
Booting == {"soul", "save", "write", "plugin", "clone", "again", "strip",
            "checkout", "wipe", "copy", "gather", "takeover"}

TypeOK ==
  /\ PersonaTypeOK /\ PluginsTypeOK /\ PreflightTypeOK
  /\ pc \in Off \cup Booting \cup {"serve", "stop"}
  /\ now \in 1..N + 1
  /\ remote \subseteq Servers
  /\ botched \subseteq Repos
  /\ faults \in 0..MaxFaults

Init ==
  /\ PersonaInit /\ PluginsInit /\ PreflightInit
  /\ pc = "off" /\ now = 1 /\ remote = {} /\ botched = {} /\ faults = 0

Suffers(kind) == /\ kind \in Faults
                 /\ faults < MaxFaults
                 /\ faults' = faults + 1

\* The process is gone, and with it all but its files and its children.
Ends(how) ==
  /\ pc' = how
  /\ botched' = IF pc \in {"clone", "again", "strip", "checkout"}
                    /\ clone'[RepoOf[now]] # "absent"
                  THEN botched \cup {RepoOf[now]} ELSE botched
  /\ now' = 1 /\ remote' = {} /\ soul' = NoSoul /\ NoClients
  /\ UNCHANGED <<text, kids>>

Edit ==
  /\ pc \in Off
  /\ text' \in Texts /\ asks' \in [Entries -> Filters] /\ mounted' \in Mounts
  /\ UNCHANGED <<cache, soul, clone, part, mcp, overlay, serverVars, pc, now, remote,
                 botched, faults>>

Restart ==
  /\ pc \in Off
  /\ pc' = "soul"
  /\ kids' = [k \in Keys |-> 0]
  /\ UNCHANGED <<personaVars, pluginVars, server, tries, now, remote, botched, faults>>
-----------------------------------------------------------------------------
(* load_soul_data *)

LoadSoul ==
  /\ pc = "soul"
  /\ \/ Remembered /\ pc' = "plugin"
     \/ /\ Unknown
        /\ \E reply \in Replies :
             /\ Extracted(reply)
             /\ pc' = IF Validated(reply) THEN "save" ELSE "plugin"
  /\ UNCHANGED <<pluginVars, serverVars, now, remote, botched, faults>>

SaveSoul ==
  /\ \/ pc = "save" /\ Opened /\ pc' = "write"
     \/ pc = "write" /\ Written /\ pc' = "plugin"
  /\ UNCHANGED <<pluginVars, serverVars, now, remote, botched, faults>>
-----------------------------------------------------------------------------
(* GitMarketplaceResolver.resolve, entry by entry *)

Repo == RepoOf[now]

NextEntry == pc' = "plugin" /\ now' = now + 1

OnDisk == UNCHANGED <<personaVars, serverVars, remote, botched>>

\* _clone, then _plugin_dir.
Resolve ==
  /\ pc = "plugin" /\ now <= N
  /\ \/ ~Cached(Repo) /\ pc' = "clone" /\ UNCHANGED now
     \/ /\ Cached(Repo) /\ ~Unlisted(now) /\ ~Misfiltered(now)
        /\ IF Overlaid(now) THEN pc' = "wipe" /\ UNCHANGED now ELSE NextEntry
  /\ OnDisk /\ UNCHANGED <<pluginVars, faults>>

Clone ==
  /\ pc \in {"clone", "again"} /\ ClonedHead(Repo)
  /\ pc' = "strip"
  /\ OnDisk /\ UNCHANGED <<now, faults>>

\* Refused with the token, it is tried once without.
CloneAgain ==
  /\ pc = "clone" /\ Repo \in Tokened /\ Suffers("git")
  /\ CloneDropped(Repo)
  /\ pc' = "again"
  /\ OnDisk /\ UNCHANGED now

\* `remote set-url`, then `checkout`.
Checkout ==
  /\ \/ pc = "strip" /\ pc' = "checkout" /\ UNCHANGED pluginVars
     \/ pc = "checkout" /\ CheckedOut(Repo) /\ pc' = "plugin"
  /\ OnDisk /\ UNCHANGED <<now, faults>>

BuildOverlay ==
  /\ \/ pc = "wipe" /\ OverlayWiped(now) /\ pc' = "copy" /\ UNCHANGED now
     \/ /\ pc = "copy"
        /\ \E s \in Wanted(now) \ overlay[now] : SkillCopied(now, s)
        /\ UNCHANGED <<pc, now>>
     \/ /\ pc = "copy" /\ Wanted(now) \subseteq overlay[now]
        /\ NextEntry /\ UNCHANGED pluginVars
  /\ OnDisk /\ UNCHANGED faults
-----------------------------------------------------------------------------
(* start_clients, remote_servers, take_over_plugin_mcp, and Slack *)

Start ==
  /\ pc = "plugin" /\ now = N + 1
  /\ StartClients
  /\ pc' = "gather"
  /\ UNCHANGED <<personaVars, pluginVars, now, remote, botched, faults>>

Connect ==
  /\ pc = "gather"
  /\ \E k \in Keys : Spawn(k) \/ Shake(k) \/ CloseFailed(k)
  /\ UNCHANGED <<personaVars, pluginVars, pc, now, remote, botched, faults>>

Register ==
  /\ pc = "gather" /\ Settled /\ ~Collide
  /\ remote' = RemoteRead
  /\ pc' = "takeover" /\ now' = 1
  /\ UNCHANGED <<personaVars, pluginVars, serverVars, botched, faults>>

TakeOver ==
  /\ pc = "takeover"
  /\ \/ now <= N /\ TakenOver(now) /\ now' = now + 1 /\ UNCHANGED pc
     \/ now = N + 1 /\ pc' = "serve" /\ UNCHANGED <<pluginVars, now>>
  /\ OnDisk /\ UNCHANGED faults
-----------------------------------------------------------------------------
(* The `finally` of run, and failures *)

\* The sweeper catches nothing, and gather() passes on what it raises.
TaskFails ==
  /\ pc = "serve" /\ Suffers("task")
  /\ pc' = "stop"
  /\ UNCHANGED <<personaVars, pluginVars, serverVars, now, remote, botched>>

Stop ==
  /\ pc = "stop"
  /\ \E k \in Keys : Closed(k)
  /\ UNCHANGED <<personaVars, pluginVars, pc, now, remote, botched, faults>>

Stopped ==
  /\ pc = "stop"
  /\ \A k \in Keys : server[k] \notin {"kept", "choked"}
  /\ Ends("stopped")
  /\ UNCHANGED <<cache, pluginVars, faults>>

\* A server prints a line of JSON that is not an object, as it may on every start: the
\* reader of its client dies, and close() raises what killed it.
Chokes(k) ==
  /\ \/ pc = "gather" /\ server[k] = "shake"
     \/ pc = "serve" /\ server[k] = "kept"
  /\ Becomes(k, "choked")
  /\ UNCHANGED <<personaVars, pluginVars, tries, kids, pc, now, remote, botched, faults>>

\* The boot raises over what is in its files, or a close() does.
Raises ==
  /\ \/ pc = "soul" /\ Garbled
     \/ /\ pc = "plugin" /\ now <= N /\ Cached(Repo)
        /\ Unlisted(now) \/ Misfiltered(now)
     \/ pc = "gather" /\ Settled /\ Collide
     \/ pc \in {"gather", "stop"} /\ \E k \in Keys : server[k] = "choked"
  /\ Ends("raised")
  /\ UNCHANGED <<cache, pluginVars, faults>>

\* PostgreSQL or the model's key; Slack or the health port; a ${VAR} that a
\* server names.
Unavailable ==
  \/ pc = "soul"
  \/ pc = "plugin" /\ now \in {1, N + 1}
  \/ pc = "gather" /\ Settled

\* An exception nothing in run() catches.
Fails ==
  /\ \/ Unavailable /\ Suffers("infra") /\ UNCHANGED pluginVars
     \/ /\ pc \in {"save", "write", "wipe", "copy", "takeover"} /\ Suffers("io")
        /\ UNCHANGED pluginVars
     \/ pc = "strip" /\ Suffers("git") /\ UNCHANGED pluginVars
     \/ /\ pc \in {"again", "checkout"} \/ (pc = "clone" /\ Repo \notin Tokened)
        /\ Suffers("git") /\ GitFailed(Repo)
  /\ Ends("raised")
  /\ UNCHANGED cache

Crash ==
  /\ pc \notin Off /\ Suffers("crash")
  /\ IF pc \in {"clone", "again", "checkout"} THEN GitFailed(Repo) ELSE UNCHANGED pluginVars
  /\ Ends("killed")
  /\ UNCHANGED cache
-----------------------------------------------------------------------------
Step ==
  \/ LoadSoul \/ SaveSoul \/ Resolve \/ Clone \/ Checkout \/ BuildOverlay
  \/ Start \/ Connect \/ Register \/ TakeOver \/ Stop \/ Stopped \/ Raises

Failure ==
  CloneAgain \/ TaskFails \/ (\E k \in Keys : Chokes(k)) \/ Fails \/ Crash

Next == Edit \/ Restart \/ Step \/ Failure

Spec == Init /\ [][Next]_vars

\* The event loop runs what is ready, timeouts pass, and the orchestrator starts
\* a worker that ended again.
FairSpec == Spec /\ WF_vars(Step) /\ WF_vars(Restart)
-----------------------------------------------------------------------------
(* What must hold *)

\* However often a boot is cut short between two renames, a worker that serves
\* owns every MCP server of its plugins: the CLI finds no .mcp.json to run a
\* second copy from, and each server is run by jean, given up by it, or
\* registered ("Do not reinstate the rename without the registration").
OneOwner ==
  pc = "serve" =>
    \A p \in Entries : ~Overlaid(p) =>
      /\ mcp[DirOf[p]] # "open"
      /\ \A s \in DeclaredBy(p) :
           IF s \in Stdio THEN server[<<p, s>>] # "unread"
                          ELSE s \in remote

\* "jean must never leave a stray process behind": a server has one child at a
\* time however often it is tried, a worker serves with the children of the
\* clients it kept, and one that stops through its `finally` leaves none.
NoStrayChild ==
  /\ \A k \in Keys : kids[k] <= 1
  /\ pc = "serve" => \A k \in Keys : kids[k] = 1 <=> server[k] \in {"kept", "choked"}
  /\ pc = "stopped" => \A k \in Keys : kids[k] = 0

\* A soul with ids the text does not name is never served, whether it is fresh
\* or comes from the cache of an earlier boot, where nothing grounds it again
\* (the trust boundary of assert_ids_grounded).
SoulIsGrounded ==
  pc = "serve" => soul.of = text /\ soul.how \in {"blank", "grounded", "regex"}

\* A session sees the skills jean.json asks for and no other, though the overlay
\* they are in outlives the boot that built it, whole or in part, and the filter
\* it was built for ("a stale skill left behind ... would keep being served").
ExactlyTheSkills ==
  pc = "serve" => \A p \in Entries : Overlaid(p) => overlay[p] = Wanted(p)

\* A worker serves every plugin at the ref jean.json pins, unless an earlier boot
\* ended after it began to clone that marketplace and before the ref was checked
\* out, and left a .git: whatever tree is beside it, whole or in part, counts as
\* the clone from then on (_clone, git_resolver.py:122).
PinnedUnlessBotched ==
  pc = "serve" => \A p \in Entries : clone[RepoOf[p]] = "ref" \/ RepoOf[p] \in botched

\* What no boot gets past: a cached reply or a clone cut short, a default branch
\* without the plugin, a filter or a server name that cannot be.
Doomed ==
  \/ Garbled
  \/ \E p \in Entries :
       \/ Cached(RepoOf[p]) /\ Unlisted(p)
       \/ Misfiltered(p)
       \/ \E s \in DeclaredBy(p) \ Stdio :
            s \in mounted \/ \E q \in Entries \ {p} : s \in DeclaredBy(q)

\* A line of JSON that is not an object (mcp_client.py:165) ends the boot out of
\* close() (136), although "jean must still come up for the servers that work" (243).
Choking == \E k \in Keys : server[k] = "choked"

\* However its boots fail and its servers do, a worker that is started again
\* comes to serve, as long as its files are not such that none can and no server
\* chokes one boot after the other.
ComesUp == []<>(pc = "serve" \/ Doomed \/ Choking)
=============================================================================
