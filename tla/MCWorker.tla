------------------------------- MODULE MCWorker -------------------------------
(* Instances of Worker for TLC. *)
EXTENDS Worker, TLC

CONSTANTS noText, text1, org, public, kubectl, doc, docx, pdf, typo, k8s, portico

\* Two plugins of two marketplaces: one ships its manifest, a command and an
\* http server; the other is declared inline.
MCTexts    == {noText, text1}
MCRepos    == {org, public}
MCTokened  == {org}
MCDirs     == {kubectl, doc}
MCRepoOf   == <<org, public>>
MCDirOf    == <<kubectl, doc>>
MCListed   == <<{"head", "ref"}, {"head", "ref"}>>
MCManifest == {kubectl}
MCSkills   == {docx, pdf, typo}
MCOffers   == <<{}, {docx, pdf}>>
MCFilters  == {{}, {docx}, {typo}}
MCServers  == {k8s, portico}
MCStdio    == {k8s}
MCDeclares == kubectl :> {k8s, portico} @@ doc :> {}
MCMounts   == {{}, {k8s}, {portico}}
=============================================================================
