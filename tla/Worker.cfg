SPECIFICATION FairSpec
CONSTANTS
  noText = noText
  text1 = text1
  org = org
  public = public
  kubectl = kubectl
  doc = doc
  docx = docx
  pdf = pdf
  typo = typo
  k8s = k8s
  portico = portico
  Texts <- MCTexts
  NoText = noText
  N = 2
  Repos <- MCRepos
  Tokened <- MCTokened
  Dirs <- MCDirs
  RepoOf <- MCRepoOf
  DirOf <- MCDirOf
  Listed <- MCListed
  Manifest <- MCManifest
  Skills <- MCSkills
  Offers <- MCOffers
  Filters <- MCFilters
  Servers <- MCServers
  Stdio <- MCStdio
  Declares <- MCDeclares
  Mounts <- MCMounts
  Attempts = 2
  Faults = {"crash", "infra", "git", "io", "task"}
  MaxFaults = 3
\* Once no more failure is to come, a worker that serves goes on serving.
CHECK_DEADLOCK FALSE
INVARIANTS
  OneOwner
  NoStrayChild
  SoulIsGrounded
  ExactlyTheSkills
  PinnedUnlessBotched
PROPERTIES
  ComesUp
