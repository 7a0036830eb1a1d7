---------------------------- MODULE LoadVerifier ----------------------------
(***************************************************************************)
(* tools/verify_load.py beside the loader: it recounts the CSVs, compares  *)
(* them with the database statement by statement, files the checks under a *)
(* load run and writes its report.  PostgreSQL runs it at read committed,  *)
(* so that each statement sees what is committed by then.  A table is the  *)
(* revision of each year's rows, and a correction need not change how many *)
(* rows a year has.                                                        *)
(***************************************************************************)
EXTENDS Loader

VARIABLES verifier,   \* the process: where it is and what it has read
          evidence,   \* meta.reconciliation: the verdicts on record
          sound       \* grants, views and constraints are as the migrations left them
verVars == <<verifier, evidence, sound>>

Unread == [at |-> "start", index |-> 1, facts |-> Nothing, target |-> 0, original |-> 0,
           failed |-> FALSE, last |-> 0, sampled |-> [d \in DatasetSet |-> {}],
           still |-> TRUE, report |-> {}]

Checked     == Datasets[verifier.index]
Probed      == Datasets[1]       \* daily_treasury_yield_curve: the one that has placeholders
Present(t)  == {y \in Years : t[y] # 0}
Earliest    == CHOOSE y \in Years : \A z \in Years : y <= z
Tally(t)    == [observations |-> Cardinality(Present(t)),
                first |-> {y \in Present(t) : \A z \in Present(t) : y <= z},
                last  |-> {y \in Present(t) : \A z \in Present(t) : z <= y}]
Reads(at)   == verifier.at = at /\ UNCHANGED <<vars, evidence, sound>>
Goes(at)    == verifier' = [verifier EXCEPT !.at = at]
\* Verifier.record: one check more; a failure is never taken back.
Records(ok, at) == verifier' = [verifier EXCEPT !.at = at, !.failed = @ \/ ~ok]

VerInit == verifier = Unread /\ evidence = {} /\ sound \in BOOLEAN

\* self_test: the earliest row of a dataset is corrupted, compared and rolled back.  Nobody else
\* sees that; but a load may commit before the row is locked or before it is read again.
Corrupted(revision) == IF revision = 0 THEN 0 ELSE revision + MaxRevision
SelfTest == /\ Reads("start")
            /\ LET row == core[Probed] IN
               IF row = Nothing THEN Goes("stopped")
               ELSE LET y == CHOOSE z \in Present(row) : \A x \in Present(row) : z <= x
                    IN verifier' = [verifier EXCEPT !.at = "probe", !.facts = csv[Probed],
                                                    !.target = y, !.original = row[y]]
Probe == /\ Reads("probe")
         /\ LET stored == core[Probed][verifier.target]
                printed == verifier.facts[verifier.target]
            IN verifier' = [Unread EXCEPT !.still = verifier.still, !.at =
                  IF printed # 0 /\ Corrupted(stored) # printed /\ stored = verifier.original
                  THEN "files" ELSE "stopped"]
NoSelfTest == Reads("start") /\ Goes("files")

\* meta.source_file: every file that a load has registered, each revision a row of its own
Sources == {s \in DatasetSet \X Years \X (1..MaxRevision) :
               \E i \in DOMAIN runs : s[1] \in runs[i].asked /\ runs[i].registered[s[1]][s[2]] = s[3]}
Vouched == {f \in DatasetSet \X Years : manifest[f[1]][f[2]] # 0}

\* check_lineage: the files (all are verified, Verify sees to that), then the status of the last
\* run.  No step is ever recorded as failed.
CheckFiles  == Reads("files") /\ Records(Cardinality(Vouched) = Cardinality(Sources), "status")
CheckStatus == /\ Reads("status")
               /\ verifier' = [verifier EXCEPT !.at = "facts", !.last = Len(runs),
                     !.failed = @ \/ runs = <<>> \/ runs[Len(runs)].status # "succeeded"]

\* read_csv_facts; a file that is not there ends the program.
ReadFacts == /\ Reads("facts")
             /\ \/ verifier' = [verifier EXCEPT !.at = "staging", !.facts = csv[Checked]]
                \/ Checked \in headless /\ Goes("stopped")
\* check_dataset: the staging rows, then the observations
CheckStaging == /\ Reads("staging")
                /\ Records(Tally(staging[Checked]).observations = Tally(verifier.facts).observations,
                           "counts")
CheckCounts  == /\ Reads("counts")
                /\ Records(Tally(core[Checked]) = Tally(verifier.facts), "values")

\* check_values: a sample of the cells; one without a rate must hold what the source printed.
AsPrinted(y) == core[Checked][y] = verifier.facts[y]
CheckValues == /\ Reads("values")
               /\ \E sample \in SUBSET Present(verifier.facts) :
                     /\ Present(verifier.facts) # {} => sample # {}
                     /\ verifier' = [verifier EXCEPT !.failed = @ \/ \E y \in sample : ~AsPrinted(y),
                           !.sampled[Checked] = sample, !.facts = Nothing,
                           !.index = IF @ < Len(Datasets) THEN @ + 1 ELSE @,
                           !.at = IF verifier.index < Len(Datasets) THEN "facts" ELSE "placeholders"]

\* check_placeholders: those of staging and those of core, which are among the earliest rows
CheckPlaceholders == /\ Reads("placeholders")
                     /\ Records((staging[Probed][Earliest] # 0) = (core[Probed][Earliest] # 0),
                                "integrity")
\* check_integrity: no series without observations, no view without rows
CheckIntegrity == Reads("integrity") /\ Records(\A d \in DatasetSet : core[d] # Nothing, "schema")
\* check_mcp_boundary, each probe rolled back, and check_constraints
CheckSchema == Reads("schema") /\ Records(sound, "persist")

FiledUnderLast(runIds) == IF DOMAIN runs = {} THEN {} ELSE {Len(runs)}

\* persist: under the last run that succeeded, which meta.reconciliation requires; without one the
\* program ends and nothing is on record.
Latest(runIds) == {i \in runIds : \A j \in runIds : j <= i}
Persist == /\ verifier.at = "persist" /\ UNCHANGED <<vars, sound>>
           /\ LET filed == Latest({i \in DOMAIN runs : runs[i].status = "succeeded"}) IN
              /\ evidence' = evidence \cup {[run |-> i, passed |-> ~verifier.failed] : i \in filed}
              /\ Goes(IF filed = {} THEN "stopped" ELSE "report")
\* write_reports and the exit status
WriteReports == Reads("report") /\ verifier' = [verifier EXCEPT !.at = "stopped", !.report = evidence]

VerStep == \/ SelfTest \/ Probe \/ NoSelfTest \/ CheckFiles \/ CheckStatus \/ ReadFacts
           \/ CheckStaging \/ CheckCounts \/ CheckValues \/ CheckPlaceholders \/ CheckIntegrity
           \/ CheckSchema \/ Persist \/ WriteReports

\* An acquisition from its beginning to its end, which fetches what is not there, and the current
\* year or all of them anew (its own steps are those of Acquisition).
Refreshed(selected, years) ==
    /\ acq.at = "idle" /\ acquired < MaxAcquisitions /\ acquired' = acquired + 1
    /\ feed < MaxRevision /\ feed' = feed + 1
    /\ raw' = [d \in DatasetSet |-> [y \in Years |->
                  IF d \in selected /\ (y \in years \/ raw[d][y] = 0) THEN feed' ELSE raw[d][y]]]
    /\ csv' = raw' /\ manifest' = raw' /\ headless' = headless \ selected
    /\ UNCHANGED <<acq, outcomes, failed, entries, intact, kills>>

\* Full loads by one loader, one after another; each may fail or be killed.
Beside == /\ \/ /\ LET l == CHOOSE k \in Loaders : TRUE
                   IN LoadStep(l) \/ KillLoader(l) \/ Open(l, DatasetSet)
                /\ UNCHANGED acqVars
             \/ /\ \E selected \in (SUBSET DatasetSet) \ {{}}, years \in {{CurrentYear}, Years} :
                      Refreshed(selected, years)
                /\ runs' = Disturbed /\ UNCHANGED <<tables, loader, crew, loaderKills>>
          /\ verifier' = [verifier EXCEPT !.still = verifier.at = "start"]
          /\ UNCHANGED <<evidence, sound>>

VerNext == VerStep \/ Beside
VerSpec == Init /\ VerInit /\ [][VerNext]_<<vars, verVars>>
-----------------------------------------------------------------------------
(* What is checked.                                                        *)

VerTypeOK == /\ verifier.index \in 1..Len(Datasets) /\ verifier.target \in Years \cup {0}
             /\ verifier.failed \in BOOLEAN /\ verifier.last \in 0..Len(runs)
             /\ evidence \subseteq [run : DOMAIN runs, passed : BOOLEAN]

\* A verification under which nothing moved, and that has found nothing, vouches for what is
\* there now: the last load succeeded, and each table has the CSV's years and the sampled values.
PassIsEarned == verifier.at = "persist" /\ verifier.still /\ ~verifier.failed =>
    /\ Len(runs) > 0 /\ runs[Len(runs)].status = "succeeded" /\ sound
    /\ \A d \in DatasetSet : /\ Tally(core[d]) = Tally(csv[d]) /\ core[d] # Nothing
                             /\ \A y \in verifier.sampled[d] : core[d][y] = csv[d][y]

\* And the other way round: nothing is found against a full load that succeeded by itself, of
\* files that are as they were then, if no revision of a file was registered besides.
GoodLoadPasses == verifier.at = "persist" /\ verifier.still /\ verifier.failed =>
    ~ /\ runs # <<>> /\ LastTrusted(Len(runs)) /\ runs[Len(runs)].asked = DatasetSet /\ csv = staging
      /\ manifest = runs[Len(runs)].registered /\ manifest = csv
      /\ \A s \in Sources : s[3] = manifest[s[1]][s[2]]
      /\ \A d \in DatasetSet : csv[d] # Nothing
      /\ sound

\* Whatever moved meanwhile, a verdict is filed under a run that succeeded, and a pass never under
\* an older one than the success it read.
FiledWell == \A e \in evidence : /\ runs[e.run].status = "succeeded"
                                 /\ e.passed => e.run >= verifier.last /\ verifier.last > 0

\* A verdict on a load is earned, is not withheld from a good load, and is filed under a success
\* (verify_load.py:191-371, 572-588).
VerdictHolds == VerTypeOK /\ PassIsEarned /\ GoodLoadPasses /\ FiledWell
=============================================================================
