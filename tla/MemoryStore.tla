---------------------------- MODULE MemoryStore -----------------------------
(***************************************************************************)
(* The incident collection (memory_store.py) as its writers and the        *)
(* Curator see it: one document per incident, upserted by record, resolved *)
(* by update_resolution, read by list_resolved_since.  What match makes of *)
(* it, and how its calls fail, is in Orchestrator.                         *)
(*                                                                         *)
(* The upsert's key is the signature's and the brief's hash.  A brief      *)
(* carries the time it was generated at and every record of an             *)
(* investigation a new UUID, so key and incident id go together: both are  *)
(* the incident here.  The seeded incidents (scripts/seed_memory.py) have  *)
(* fixed ids and fixed briefs and can be recorded any number of times.     *)
(* Every action is one command to MongoDB; one that fails changes nothing  *)
(* or has been carried out, and so is no action of its own.                *)
(***************************************************************************)
EXTENDS Naturals, FiniteSets

CONSTANTS
  Incidents,
  SeedCause,   \* the seeded incidents and the root cause each is seeded with
  Causes,      \* keys a root cause can be confirmed as
  MaxTime,     \* bound of the model: how far the clock goes
  MaxVerdicts  \* bound of the model: verdicts of the on-call

Seeds == DOMAIN SeedCause
Open  == "open"

ASSUME MemoryAssumption ==
  /\ Seeds \subseteq Incidents
  /\ SeedCause \in [Seeds -> Causes]
  /\ Open \notin Causes
  /\ MaxTime \in Nat
  /\ MaxVerdicts \in Nat

VARIABLES
  now,       \* the clock
  recorded,  \* the incidents that have a document
  cause,     \* confirmed_root_cause_key, Open while there is none
  resolved,  \* resolved_at
  verdicts   \* history: how many verdicts the on-call gave

memory == <<now, recorded, cause, resolved, verdicts>>

\* The seeds are in the collection "on day 1".
MemoryInit ==
  /\ now = 0
  /\ recorded = Seeds
  /\ cause = [i \in Incidents |-> IF i \in Seeds THEN SeedCause[i] ELSE Open]
  /\ resolved = [i \in Incidents |-> 0]
  /\ verdicts = 0

\* $set writes the whole document, whatever the collection had under the key.
Upsert(i, c, time) ==
  /\ recorded' = recorded \cup {i}
  /\ cause' = [cause EXCEPT ![i] = c]
  /\ resolved' = [resolved EXCEPT ![i] = time]

\* FAULT: the key of a record does not tell its brief from an earlier one.
FaultyRecord(i) ==
  /\ i \notin Seeds
  /\ Upsert(i, Open, 0)
  /\ UNCHANGED <<now, verdicts>>

\* An investigation is recorded: a new brief, nothing confirmed.
Record(i) ==
  /\ i \notin Seeds
  /\ i \notin recorded
  /\ Upsert(i, Open, 0)
  /\ UNCHANGED <<now, verdicts>>

\* The seeding script runs again: what it was seeded with is back.
Seed(i) ==
  /\ i \in Seeds
  /\ Upsert(i, SeedCause[i], 0)
  /\ UNCHANGED <<now, verdicts>>

\* The on-call's verdict, or a change of it.  An id without a document matches
\* nothing.
UpdateResolution(i, c) ==
  /\ verdicts < MaxVerdicts
  /\ i \in recorded
  /\ verdicts' = verdicts + 1
  /\ cause' = [cause EXCEPT ![i] = c]
  /\ resolved' = [resolved EXCEPT ![i] = now]
  /\ UNCHANGED <<now, recorded>>

Tick ==
  /\ now < MaxTime
  /\ now' = now + 1
  /\ UNCHANGED <<recorded, cause, resolved, verdicts>>

MemoryNext ==
  \/ \E i \in Incidents : Record(i) \/ Seed(i)
  \/ \E i \in Incidents, c \in Causes : UpdateResolution(i, c)
  \/ Tick

\* list_resolved_since.
ResolvedSince(since) ==
  {i \in recorded : cause[i] # Open /\ resolved[i] >= since}

-----------------------------------------------------------------------------
\* A verdict stands: no later write of an investigation opens a resolved
\* incident again or changes what it was resolved to.  Only another verdict
\* does, and the seeding script, which puts its own cause back over the
\* on-call's.
VerdictsStand ==
  [][\A i \in recorded : cause[i] # Open =>
       /\ i \in recorded'
       /\ \/ cause'[i] = cause[i]
          \/ verdicts' > verdicts
          \/ i \in Seeds /\ cause'[i] = SeedCause[i]]_memory
=============================================================================
