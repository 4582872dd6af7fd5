-------------------------- MODULE MCConfigTrust ---------------------------
(* Instances of ConfigTrust for TLC. *)
EXTENDS ConfigTrust, TLC

CONSTANTS
  outer, inner,
  MaxRaceFaults     \* bound on the faults once commands have raced

VARIABLE raced      \* have two commands been under way at once?

\* A vault, and one that may be nested in it.
Nested == [r \in {outer, inner} |-> IF r = inner THEN outer ELSE NoRoot]

AllVars == <<vars, raced>>

Busy == {p \in Proc : pc[p] # "idle"}

\* The vault is not there and left nothing in the stores.
Without(r) ==
  /\ r \notin dir /\ hash[r] = NoHash /\ \A s \in STORES : r \notin entries[s]
  /\ granted[r] = {} /\ r \notin rootOnly

\* Commands race over one vault; over two they come one after the other.
RaceNext ==
  /\ Next
  /\ raced' = (raced \/ Cardinality(Busy') > 1)
  /\ raced' => Without(inner)' /\ faults' <= MaxRaceFaults

RaceInit == Init /\ raced = FALSE
RaceSpec == RaceInit /\ [][RaceNext]_AllVars

\* Until two commands race, and however they fail or are killed, no root is
\* trusted without a baseline unless it had no config when it was trusted
\* (store.rs writes the companion before the entry).
BaselineUntilRace == ~raced => BaselineBeforeEntry

Interchangeable == Permutations(Proc) \cup Permutations(Content)
=============================================================================
