------------------------------- MODULE Plugins --------------------------------
(***************************************************************************)
(* The plugins of a worker on its disk: the marketplace clones and overlays  *)
(* (plugins/git_resolver.py, plugins/overlay.py), jean.json's skill filters, *)
(* and the .mcp.json files jean takes over (plugins/mcp_config.py).          *)
(*                                                                         *)
(* A repo is a marketplace at a ref, which is what a clone is keyed by.  Of  *)
(* its trees two matter: the ref, and the default branch a clone starts on;  *)
(* git may be cut short on its way to either, and leave any part of it.      *)
(* Worker says when each step is taken.                                      *)
(***************************************************************************)
EXTENDS Naturals

CONSTANTS
  N,         \* how many entries jean.json has
  Repos,     \* the marketplaces at a ref
  Tokened,   \* those cloned over HTTPS with a token first
  Dirs,      \* the plugin directories in them
  RepoOf,    \* an entry's repo
  DirOf,     \* an entry's directory (its `source`)
  Listed,    \* the trees that list the entry and have its directory
  Manifest,  \* the directories that ship their own plugin.json
  Skills,
  Offers,    \* the skills declared inline for an entry
  Filters,   \* the `skills` an operator may write in jean.json
  Servers,   \* names of MCP servers
  Stdio,     \* those with a command: jean runs them
  Declares,  \* the servers of a directory's .mcp.json
  Mounts     \* what jean's own mcp.json may name

Entries == 1..N
Trees   == {"head", "ref"}

ASSUME PluginsAssumption ==
  /\ N \in Nat
  /\ Tokened \subseteq Repos
  /\ RepoOf \in [Entries -> Repos] /\ DirOf \in [Entries -> Dirs]
  /\ \A p, q \in Entries : DirOf[p] = DirOf[q] => RepoOf[p] = RepoOf[q]
  /\ Listed \in [Entries -> SUBSET Trees]
  /\ Manifest \subseteq Dirs
  /\ Offers \in [Entries -> SUBSET Skills] /\ Filters \subseteq SUBSET Skills
  /\ Stdio \subseteq Servers /\ Mounts \subseteq SUBSET Servers
  /\ Declares \in [Dirs -> SUBSET Servers]

VARIABLES
  asks,     \* jean.json's filter of an entry; empty for none
  mounted,  \* the servers of mcp.json
  clone,    \* a repo's clone: absent, cut short, at its head or at the ref
  part,     \* the entries that a clone which was cut short has
  mcp,      \* a directory's .mcp.json: none, open (to the CLI) or parked
  overlay   \* the skills in an entry's overlay

pluginVars == <<asks, mounted, clone, part, mcp, overlay>>
-----------------------------------------------------------------------------
PluginsTypeOK ==
  /\ asks \in [Entries -> Filters] /\ mounted \in Mounts
  /\ clone \in [Repos -> {"absent", "cut"} \cup Trees]
  /\ part \subseteq Entries
  /\ mcp \in [Dirs -> {"none", "open", "parked"}]
  /\ overlay \in [Entries -> SUBSET Skills]

PluginsInit ==
  /\ asks \in [Entries -> Filters] /\ mounted \in Mounts
  /\ clone = [r \in Repos |-> "absent"] /\ part = {}
  /\ mcp = [d \in Dirs |-> "none"]
  /\ overlay = [p \in Entries |-> {}]
-----------------------------------------------------------------------------
(* GitMarketplaceResolver *)

\* `(dest / ".git").exists()`, whatever became of the clone after that.
Cached(r) == clone[r] # "absent"

EntriesOf(r) == {p \in Entries : RepoOf[p] = r}
DirsOf(r)    == {DirOf[p] : p \in EntriesOf(r)}

ClonedHead(r) ==
  /\ clone' = [clone EXCEPT ![r] = "head"]
  /\ mcp' = [d \in Dirs |-> IF d \in DirsOf(r) THEN "open" ELSE mcp[d]]
  /\ UNCHANGED <<asks, mounted, part, overlay>>

\* What there is when git ends while it writes the working tree: a .git, some of the
\* entries that one of the trees has, and some of their .mcp.json files.
CutShort(r) ==
  /\ clone' = [clone EXCEPT ![r] = "cut"]
  /\ \E held \in SUBSET {p \in EntriesOf(r) : Listed[p] # {}} :
       part' = (part \ EntriesOf(r)) \cup held
  /\ \E files \in SUBSET DirsOf(r) :
       mcp' = [d \in Dirs |-> IF d \notin DirsOf(r) THEN mcp[d]
                              ELSE IF d \in files THEN "open" ELSE "none"]
  /\ UNCHANGED <<asks, mounted, overlay>>

\* git leaves things as they were, or is killed or fails too late to.
GitFailed(r) == CutShort(r) \/ UNCHANGED pluginVars

\* shutil.rmtree(dest), before the retry without the token.
CloneDropped(r) ==
  /\ clone' = [clone EXCEPT ![r] = "absent"]
  /\ UNCHANGED <<asks, mounted, part, mcp, overlay>>

\* A variant of CheckedOut: the ref is taken for the default branch.
KeptHead(r) == UNCHANGED pluginVars

CheckedOut(r) ==
  /\ clone' = [clone EXCEPT ![r] = "ref"]
  /\ UNCHANGED <<asks, mounted, part, mcp, overlay>>

\* No plugin.json, and skills to build one from.
Overlaid(p) == DirOf[p] \notin Manifest /\ Offers[p] # {}

\* _select
Wanted(p) == IF asks[p] = {} THEN Offers[p] ELSE asks[p]

\* jean.json asks of the entry what cannot be given: _plugin_dir raises, on every
\* boot.
Misfiltered(p) ==
  \/ DirOf[p] \in Manifest /\ asks[p] # {}
  \/ Overlaid(p) /\ ~(asks[p] \subseteq Offers[p])

\* The clone does not hold the entry: _entry or _plugin_dir raises.
Unlisted(p) ==
  IF clone[RepoOf[p]] = "cut" THEN p \notin part ELSE clone[RepoOf[p]] \notin Listed[p]

\* A variant of OverlayWiped.
OverlayKept(p) == UNCHANGED pluginVars

\* build_overlay: rebuilt from scratch, then one skill after the other.
OverlayWiped(p) ==
  /\ overlay' = [overlay EXCEPT ![p] = {}]
  /\ UNCHANGED <<asks, mounted, clone, part, mcp>>

SkillCopied(p, s) ==
  /\ overlay' = [overlay EXCEPT ![p] = @ \cup {s}]
  /\ UNCHANGED <<asks, mounted, clone, part, mcp>>
-----------------------------------------------------------------------------
(* The servers of the entries and of mcp.json (entry 0) *)

Ships(p) == IF Overlaid(p) THEN {} ELSE Declares[DirOf[p]]

\* A clone that was cut short may lack the file.
DeclaredBy(p) ==
  IF clone[RepoOf[p]] = "cut" /\ mcp[DirOf[p]] = "none" THEN {} ELSE Ships(p)

\* A variant of Readable: the name the marketplace gave it.
StillOpen(d) == mcp[d] = "open"

\* _mcp_json finds the file under either name.
Readable(d) == mcp[d] # "none"

ReadFrom(p) == IF Readable(DirOf[p]) THEN DeclaredBy(p) ELSE {}

\* stdio_servers: keyed by the entry and the name it gives the server.
Keys == {k \in (0..N) \X Stdio :
           k[2] \in IF k[1] = 0 THEN UNION Mounts ELSE Ships(k[1])}

StdioRead(k) == k[2] \in IF k[1] = 0 THEN mounted ELSE ReadFrom(k[1])

\* remote_servers: keyed by the server's name alone, which two may claim.
RemoteRead == (mounted \cup UNION {ReadFrom(p) : p \in Entries}) \ Stdio

Collide ==
  \E p \in Entries : \E s \in ReadFrom(p) \ Stdio :
     s \in mounted \/ \E q \in Entries \ {p} : s \in ReadFrom(q)

\* One rename of take_over_plugin_mcp; an overlay holds no such file.
TakenOver(p) ==
  /\ mcp' = [mcp EXCEPT ![DirOf[p]] =
               IF @ = "open" /\ ~Overlaid(p) THEN "parked" ELSE @]
  /\ UNCHANGED <<asks, mounted, clone, part, overlay>>
=============================================================================
