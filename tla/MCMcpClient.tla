----------------------------- MODULE MCMcpClient -----------------------------
(* Instances of McpClient for TLC. *)
EXTENDS McpClient, TLC

CONSTANTS a1, a2, a3, nobody

MCCallers2 == {a1, a2}
MCCallers3 == {a1, a2, a3}

\* Callers are interchangeable: no action or safety property tells them apart.
MCSymmetry == Permutations(MCCallers3)
=============================================================================
