------------------------------ MODULE MCLoader ------------------------------
(* Acquisitions beside loaders; and, apart from them, migrators; and loads *)
(* of a new database beside a verification.                                *)
EXTENDS LoadVerifier, Migrations

MCDatasets == <<"d1", "d2">>
\* No migrator is told from another.  (The loaders are: one of them may be chosen.)
Alike == Permutations(Migrators)

\* Bounds.  A load and an acquisition start from nothing, or from what an earlier pair has left.
\* A request is repeated only before the first load.  Beside a verification there is one
\* acquisition or one kill; and what begins after it has begun is the second event at most.
FreshOrLoaded == raw = core
EarlyRetry    == acq.attempt > 1 => runs = <<>>
Events        == Len(runs) + acquired + loaderKills
FewEvents     == /\ acquired' + loaderKills' <= 1
                 /\ verifier.at = "start" \/ Events' = Events \/ Events' <= 2

VARIABLE part
mcVars == <<part, vars, migVars, verVars>>

MCInit == /\ part \in {"loading", "migrating", "verifying"} /\ Init /\ MigInit /\ VerInit
          /\ IF part = "migrating" THEN crew = Loaders /\ {raw, core} = {Blank}
             ELSE \A v \in Versions : disk[v] = 1
          /\ part = "loading" => FreshOrLoaded
          /\ IF part = "verifying" THEN crew = Loaders /\ core = Blank /\ (sound \/ raw = Blank)
             ELSE sound
MCNext == \/ part = "loading" /\ Next /\ EarlyRetry' /\ UNCHANGED <<part, migVars, verVars>>
          \/ part = "migrating" /\ MigNext /\ UNCHANGED <<part, vars, verVars>>
          \/ part = "verifying" /\ VerNext /\ FewEvents /\ UNCHANGED <<part, migVars>>
MCSpec == MCInit /\ [][MCNext]_mcVars
=============================================================================
