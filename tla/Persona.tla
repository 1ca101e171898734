------------------------------- MODULE Persona --------------------------------
(***************************************************************************)
(* The soul a worker boots with (load_soul_data, persona/extract.py): who    *)
(* manages, who approves, which channels.  It is extracted from IDENTITY.md  *)
(* by a model, and what the model said is cached under the text's digest.    *)
(*                                                                         *)
(* A text stands for its digest.  Of a reply only this matters: it parses    *)
(* and names ids of the text only ("grounded"), it names others              *)
(* ("ungrounded"), or it is no use ("junk").  Worker says when each step is  *)
(* taken.                                                                    *)
(***************************************************************************)
CONSTANTS
  Texts,   \* the versions of IDENTITY.md
  NoText   \* the one that is missing or empty

ASSUME TextsAssumption == NoText \in Texts

VARIABLES
  text,    \* IDENTITY.md, on disk
  cache,   \* home/cache/<digest>.json, on disk
  soul     \* the soul this worker runs with

personaVars == <<text, cache, soul>>
-----------------------------------------------------------------------------
Replies == {"grounded", "ungrounded", "junk"}

Soul(how) == [of |-> text, how |-> how]

NoSoul == [of |-> NoText, how |-> "none"]

PersonaTypeOK ==
  /\ text \in Texts
  /\ cache \in [Texts -> {"none", "torn"} \cup Replies]
  /\ soul \in [of: Texts, how: {"none", "blank", "regex"} \cup Replies]

PersonaInit ==
  /\ text \in Texts
  /\ cache = [t \in Texts |-> "none"]
  /\ soul = NoSoul

\* A variant of Validated: what parses is trusted.
Parsed(reply) == reply # "junk"

\* _soul_from_json, then assert_ids_grounded.
Validated(reply) == reply = "grounded"

\* A missing persona is a blank soul; a cached reply is parsed, and not
\* grounded again.
Remembered ==
  \/ text = NoText /\ soul' = Soul("blank") /\ UNCHANGED <<text, cache>>
  \/ /\ text # NoText /\ cache[text] \in Replies
     /\ soul' = Soul(cache[text])
     /\ UNCHANGED <<text, cache>>

\* A cached file cut short has no JSON object: parsing it raises, outside the try.
Garbled == text # NoText /\ cache[text] = "torn"

Unknown == text # NoText /\ cache[text] = "none"

Extracted(reply) ==
  /\ soul' = Soul(IF Validated(reply) THEN reply ELSE "regex")
  /\ UNCHANGED <<text, cache>>

\* write_text: the file is opened, and empty, before it is written.
Opened  == cache' = [cache EXCEPT ![text] = "torn"] /\ UNCHANGED <<text, soul>>
Written == cache' = [cache EXCEPT ![text] = soul.how] /\ UNCHANGED <<text, soul>>
=============================================================================
