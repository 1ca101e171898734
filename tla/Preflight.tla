------------------------------ MODULE Preflight -------------------------------
(***************************************************************************)
(* start_clients (plugins/mcp_client.py): the stdio MCP servers of a worker   *)
(* are started concurrently at boot, each tried a few times, and the ones    *)
(* that answer are kept.  What a kept client does is McpClient's subject.    *)
(*                                                                         *)
(* Any attempt may fail or time out, however often: a server may be broken.  *)
(***************************************************************************)
EXTENDS Plugins

CONSTANT Attempts  \* how often a server is tried

ASSUME AttemptsAssumption == Attempts \in Nat \ {0}

VARIABLES
  server,   \* where each server's client is
  tries,    \* attempts made at it
  kids      \* its children that were not told to terminate

serverVars == <<server, tries, kids>>
-----------------------------------------------------------------------------
ClientStates ==
  {"unread",   \* in no config that was read (yet)
   "new",      \* about to be spawned
   "shake",    \* in the handshake
   "failed",   \* the attempt is over; to be closed
   "kept",     \* connected
   "choked",   \* its reader died on a line of JSON that is not an object
   "skipped",  \* given up
   "closed"}   \* closed as the worker stops

PreflightTypeOK ==
  /\ server \in [Keys -> ClientStates]
  /\ tries \in [Keys -> 0..Attempts]
  /\ kids \in [Keys -> Nat]

NoClients ==
  /\ server' = [k \in Keys |-> "unread"]
  /\ tries' = [k \in Keys |-> 0]

PreflightInit ==
  /\ server = [k \in Keys |-> "unread"]
  /\ tries = [k \in Keys |-> 0]
  /\ kids = [k \in Keys |-> 0]

Becomes(k, state) == server' = [server EXCEPT ![k] = state]

\* One _start_with_retry for each server that was read.
StartClients ==
  /\ server' = [k \in Keys |-> IF StdioRead(k) THEN "new" ELSE "unread"]
  /\ UNCHANGED <<tries, kids>>

Spawn(k) ==
  /\ server[k] = "new"
  /\ tries' = [tries EXCEPT ![k] = @ + 1]
  /\ \/ Becomes(k, "shake") /\ kids' = [kids EXCEPT ![k] = @ + 1]
     \/ Becomes(k, "failed") /\ UNCHANGED kids
     \* no such command: not worth a retry
     \/ Becomes(k, "skipped") /\ UNCHANGED kids

\* The handshake succeeds, or it is refused, cut short or out of time.
Shake(k) ==
  /\ server[k] = "shake"
  /\ \E state \in {"kept", "failed"} : Becomes(k, state)
  /\ UNCHANGED <<tries, kids>>

\* Variants of CloseFailed: the child is forgotten; the attempts are not counted.
LeftRunning(k) ==
  /\ server[k] = "failed"
  /\ Becomes(k, IF tries[k] < Attempts THEN "new" ELSE "skipped")
  /\ UNCHANGED <<tries, kids>>

TriedForever(k) ==
  /\ server[k] = "failed"
  /\ kids' = [kids EXCEPT ![k] = 0]
  /\ Becomes(k, "new")
  /\ tries' = [tries EXCEPT ![k] = 0]

\* close() reaps the child, then the attempts are counted.
CloseFailed(k) ==
  /\ server[k] = "failed"
  /\ kids' = [kids EXCEPT ![k] = 0]
  /\ Becomes(k, IF tries[k] < Attempts THEN "new" ELSE "skipped")
  /\ UNCHANGED tries

\* gather() is over.
Settled == \A k \in Keys : server[k] \in {"unread", "kept", "skipped"}

\* A kept client is closed as the worker stops.
Closed(k) ==
  /\ server[k] = "kept"
  /\ Becomes(k, "closed")
  /\ kids' = [kids EXCEPT ![k] = 0]
  /\ UNCHANGED tries
=============================================================================
