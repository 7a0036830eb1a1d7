------------------------------- MODULE Loader -------------------------------
(***************************************************************************)
(* postgres/src/treasury_db/load.py: verify the raw files against the      *)
(* manifest, stage each dataset's CSV, rewrite its core rows from staging, *)
(* and keep a diary of the run.  One action per transaction, except the    *)
(* core transform: its DELETE sees what was committed when it began, and   *)
(* its INSERT reads staging when it runs.  A diary line is committed with  *)
(* the next commit.  Several loaders may run, beside an acquisition.  The  *)
(* locks are those of a wide dataset at PostgreSQL's read committed.       *)
(***************************************************************************)
EXTENDS Acquisition

CONSTANTS Loaders, WithExtras, MaxLoaderKills

ASSUME LoaderAssumption == /\ Loaders # {} /\ IsFiniteSet(Loaders) /\ WithExtras \subseteq DatasetSet
                           /\ MaxLoaderKills \in Nat

VARIABLES staging, core, extra,   \* the tables: per dataset the revision of each year's rows
          runs,                   \* meta.load_run and meta.load_step
          loader,                 \* the processes
          crew, loaderKills       \* the loaders of this behaviour; bound
tables   == <<staging, core, extra>>
loadVars == <<tables, runs, loader, crew, loaderKills>>
vars     == <<acqVars, loadVars>>

Asleep == [at |-> "idle", run |-> 0, todo |-> {}, manifest |-> Blank, seen |-> {},
           late |-> FALSE, diary |-> {}]
\* The datasets are loaded in the order of LOAD_SPECS.
First(set)   == Datasets[CHOOSE i \in DOMAIN Datasets : /\ Datasets[i] \in set
                            /\ \A j \in DOMAIN Datasets : Datasets[j] \in set => i <= j]
Doing(l)     == First(loader[l].todo)
Run(l)       == loader[l].run
Asked(l)     == runs[Run(l)].asked
FullAlways(l) == TRUE
Full(l)      == Asked(l) = DatasetSet
InCore(l, d) == loader[l].at = "insert" /\ Doing(l) = d

\* conn.commit() after the work `done`, then Run.step of the line `line`: it waits for the next
\* commit.
Commit(l, done) ==
    runs' = [runs EXCEPT ![Run(l)].steps = @ \cup loader[l].diary, ![Run(l)].did = @ \cup done]
Then(l, at, line) == loader' = [loader EXCEPT ![l].at = at, ![l].diary = line]

\* Tables that an earlier load has filled, or none has.
LoadInit == /\ staging = Blank
            /\ \E years \in {{}, Years} : core = [d \in DatasetSet |-> Only(Published, years)]
            /\ extra = [d \in DatasetSet |-> IF d \in WithExtras THEN core[d] ELSE Nothing]
            /\ runs = <<>> /\ loader = [l \in Loaders |-> Asleep]
            /\ loaderKills = 0

\* run_load reads the manifest and open_run commits the run as running.  (Bound: as many runs as
\* loaders.)
Open(l, asked) ==
    /\ loader[l].at = "idle" /\ l \in crew /\ Len(runs) < Cardinality(crew) /\ asked # {}
    /\ loader' = [loader EXCEPT ![l] = [Asleep EXCEPT !.at = "verify", !.run = Len(runs) + 1,
                                           !.todo = asked, !.manifest = manifest]]
    /\ LET others == {loader[k].run : k \in Loaders \ {l}}
       IN runs' = Append([i \in DOMAIN runs |-> IF i \in others THEN [runs[i] EXCEPT !.alone = FALSE]
                                                ELSE runs[i]],
                         [status |-> "running", asked |-> asked, registered |-> Blank,
                          steps |-> {}, did |-> {}, alone |-> others \subseteq {0},
                          files |-> IF intact THEN "intact"
                                    ELSE IF acq.at = "idle" THEN "broken" ELSE "moving"])
    /\ UNCHANGED <<tables, crew, loaderKills>>

VerifiedPresent(l) == \A d \in Asked(l), y \in Years : loader[l].manifest[d][y] # 0 => raw[d][y] # 0

\* register_source_files: every file the manifest calls a success is there with that checksum.
Verified(l) == \A d \in Asked(l), y \in Years :
                  loader[l].manifest[d][y] # 0 => raw[d][y] = loader[l].manifest[d][y]
Verify(l) ==
    /\ loader[l].at = "verify" /\ Verified(l)
    /\ runs' = [runs EXCEPT ![Run(l)].registered = loader[l].manifest,
                            ![Run(l)].did = @ \cup {<<"source_files", "all">>}]
    /\ Then(l, IF Full(l) THEN "truncate" ELSE "stage", {<<"source_files", "all">>})
    /\ UNCHANGED <<tables, crew, loaderKills>>

\* A full load empties the core tables first, and commits.  TRUNCATE waits for whoever writes.
Truncate(l) == /\ loader[l].at = "truncate"
               /\ \A k \in Loaders : loader[k].at # "insert"
               /\ core' = Blank /\ extra' = Blank
               /\ Commit(l, {}) /\ Then(l, "stage", {})
               /\ UNCHANGED <<staging, crew, loaderKills>>

\* stage_csv: TRUNCATE and COPY in one transaction
Stage(l) == /\ loader[l].at = "stage" /\ loader[l].todo # {} /\ Doing(l) \notin headless
            /\ staging' = [staging EXCEPT ![Doing(l)] = csv[Doing(l)]]
            /\ Commit(l, {<<"stage", Doing(l)>>}) /\ Then(l, "map", {<<"stage", Doing(l)>>})
            /\ UNCHANGED <<core, extra, crew, loaderKills>>

\* assert_every_column_maps lets it pass; the DELETE of the core transform sees the rows that were
\* committed when it began.  It waits for a loader that is rewriting the same rows; when that one
\* commits, the rows it saw are gone and it does not see the new ones.
Delete(l) == /\ loader[l].at = "map"
             /\ \A k \in Loaders : InCore(k, Doing(l)) => loader[k].seen = {}
             /\ \E seen \in {{y \in Years : core[Doing(l)][y] # 0}} \cup
                            (IF loader[l].late THEN {{}} ELSE {}) :
                   loader' = [loader EXCEPT ![l].at = "insert", ![l].seen = seen]
             /\ UNCHANGED <<tables, runs, crew, loaderKills>>

RewrittenUpsert(old, new, seen) == [y \in Years |-> IF new[y] # 0 THEN new[y] ELSE old[y]]

\* load_core_wide, load_core_long: INSERT from staging, ON CONFLICT DO UPDATE, and the commit
Rewritten(old, new, seen) == [y \in Years |-> IF new[y] # 0 THEN new[y]
                                              ELSE IF y \in seen THEN 0 ELSE old[y]]
Behind(d) == {k \in Loaders : loader[k].at = "map" /\ Doing(k) = d}
Insert(l) == LET d == Doing(l) IN
    /\ loader[l].at = "insert"
    /\ core' = [core EXCEPT ![d] = Rewritten(@, staging[d], loader[l].seen)]
    /\ Commit(l, {<<"core", d>>})
    /\ loader' = [k \in Loaders |->
          IF k = l THEN [loader[l] EXCEPT !.at = "extras", !.late = FALSE,
                                          !.diary = {<<"core", d>>}]
          ELSE [loader[k] EXCEPT !.late = @ \/ k \in Behind(d)]]
    /\ UNCHANGED <<staging, extra, crew, loaderKills>>

\* load_bill_security, load_market_note, load_long_term_extrapolation; then the next dataset
Extras(l) == LET d == Doing(l) IN
    /\ loader[l].at = "extras" /\ d \in WithExtras
    /\ extra' = [extra EXCEPT ![d] = staging[d]]
    /\ Commit(l, {<<"extra", d>>})
    /\ loader' = [loader EXCEPT ![l].at = "stage", ![l].todo = @ \ {Doing(l)},
                                ![l].diary = {<<"extra", d>>}]
    /\ UNCHANGED <<staging, core, crew, loaderKills>>
NoExtras(l) == /\ loader[l].at = "extras" /\ Doing(l) \notin WithExtras
               /\ loader' = [loader EXCEPT ![l].at = "stage", ![l].todo = @ \ {Doing(l)}]
               /\ UNCHANGED <<tables, runs, crew, loaderKills>>

Closed(l, status, diary) == runs' = [runs EXCEPT ![Run(l)].status = status,
                                                 ![Run(l)].steps = @ \cup diary]
CloseWrong(l) == /\ loader[l].at = "stage" /\ loader[l].todo = {}
                 /\ Closed(l, "succeeded", loader[l].diary)
                 /\ loader' = [loader EXCEPT ![l].at = "idle"]
                 /\ UNCHANGED <<tables, crew, loaderKills>>
CloseForgetful(l) == /\ loader[l].at = "stage" /\ loader[l].todo = {}
                     /\ Closed(l, "succeeded", {})
                     /\ loader' = [loader EXCEPT ![l] = Asleep]
                     /\ UNCHANGED <<tables, crew, loaderKills>>
Close(l) == /\ loader[l].at = "stage" /\ loader[l].todo = {}
            /\ Closed(l, "succeeded", loader[l].diary)
            /\ loader' = [loader EXCEPT ![l] = Asleep]
            /\ UNCHANGED <<tables, crew, loaderKills>>

BreakQuietly(l) == /\ loader[l].at \in {"truncate", "stage", "map", "insert", "extras"}
                   /\ loader[l].todo # {}
                   /\ Closed(l, "succeeded", {})
                   /\ loader' = [loader EXCEPT ![l] = Asleep]
                   /\ UNCHANGED <<tables, crew, loaderKills>>

\* A file that is missing or changed, a column without a home or a series, conflicting factors,
\* an error of the database: what was not committed is rolled back, the diary's last line too.
Break(l) == /\ \/ loader[l].at \in {"truncate", "stage", "map", "insert", "extras"}
               \/ loader[l].at = "verify" /\ ~Verified(l)
            /\ loader[l].todo # {}
            /\ Closed(l, "failed", {})
            /\ loader' = [loader EXCEPT ![l] = Asleep]
            /\ UNCHANGED <<tables, crew, loaderKills>>

\* The process is killed or interrupted: its run stays as running for ever.
KillLoader(l) == /\ loader[l].at # "idle" /\ loaderKills < MaxLoaderKills
                 /\ loaderKills' = loaderKills + 1
                 /\ loader' = [loader EXCEPT ![l] = Asleep]
                 /\ UNCHANGED <<tables, runs, crew>>

LoadStep(l) == \/ Verify(l) \/ Truncate(l) \/ Stage(l) \/ Delete(l) \/ Insert(l) \/ Extras(l)
               \/ NoExtras(l) \/ Close(l) \/ Break(l)
LoadNext == \E l \in Loaders : \/ LoadStep(l) \/ KillLoader(l)
                               \/ \E asked \in SUBSET DatasetSet : Open(l, asked)

\* An acquisition under way disturbs the runs that are open (history only).
Disturbed == [i \in DOMAIN runs |-> IF runs[i].status = "running"
                                    THEN [runs[i] EXCEPT !.files = "moving"] ELSE runs[i]]

\* One loader beside acquisitions, or several loaders and no acquisition.
Init == /\ AcqInit /\ LoadInit
        /\ crew \in {Loaders, {CHOOSE l \in Loaders : TRUE}}
Next == \/ LoadNext /\ UNCHANGED acqVars
        \/ /\ Cardinality(crew) = 1 /\ AcqNext
           /\ runs' = Disturbed /\ UNCHANGED <<tables, loader, crew, loaderKills>>

Spec == Init /\ [][Next]_vars

-----------------------------------------------------------------------------
(* What is checked.                                                        *)

Table  == [DatasetSet -> [Years -> 0..MaxRevision]]
Lines  == {"source_files", "stage", "core", "extra"} \X (DatasetSet \cup {"all"})
TypeOK == /\ AcqTypeOK
          /\ {staging, core, extra} \subseteq Table
          /\ \A i \in DOMAIN runs :
                /\ runs[i].status \in {"running", "succeeded", "failed"}
                /\ runs[i].files \in {"intact", "broken", "moving"}
                /\ runs[i].asked \subseteq DatasetSet /\ runs[i].registered \in Table
                /\ runs[i].steps \cup runs[i].did \subseteq Lines
          /\ \A l \in Loaders : /\ loader[l].run \in 0..Len(runs) /\ loader[l].diary \subseteq Lines
                                 /\ loader[l].at = "idle" <=> loader[l].run = 0

\* The last run succeeded and no other ran beside it: each dataset it was asked for has exactly
\* the staged rows in core, and in its extra tables if it has any.
Trusted(i) == runs[i].status = "succeeded" /\ runs[i].alone
SuccessIsWhole == \A i \in DOMAIN runs : i = Len(runs) /\ Trusted(i) =>
    \A d \in runs[i].asked : core[d] = staging[d] /\ (d \in WithExtras => extra[d] = staging[d])

\* If moreover the last acquisition reached its end and none moved meanwhile, the database holds
\* what the manifest said and was verified, year by year: nothing else, nothing less.
LastTrusted(i) == i = Len(runs) /\ Trusted(i)
SuccessIsVerified == \A i \in DOMAIN runs : LastTrusted(i) /\ runs[i].files = "intact" =>
    \A d \in runs[i].asked : core[d] = runs[i].registered[d]

\* After an acquisition that was killed anywhere, a load still does not mix revisions: a year the
\* manifest vouches for is loaded as vouched for, or is missing.
VouchedOrAbsent == \A i \in DOMAIN runs : LastTrusted(i) /\ runs[i].files # "moving" =>
    \A d \in runs[i].asked, y \in Years :
        runs[i].registered[d][y] # 0 => core[d][y] \in {0, runs[i].registered[d][y]}

\* The diary says only what was done, whatever failed and whoever was killed; the diary of a
\* success says all of it.
DiaryIsTrue == \A i \in DOMAIN runs : /\ runs[i].steps \subseteq runs[i].did
                                      /\ runs[i].status = "succeeded" => runs[i].steps = runs[i].did

\* When several loaders have all succeeded and nobody changed the files, every dataset one of
\* them was asked for is whole, in whatever order they staged, truncated and wrote.
AllSucceeded == /\ runs # <<>> /\ \A i \in DOMAIN runs : runs[i].status = "succeeded"
                /\ Cardinality(crew) > 1 /\ acquired = 0
WholeTogether == AllSucceeded =>
    \A d \in DatasetSet : (\E i \in DOMAIN runs : d \in runs[i].asked) => core[d] = csv[d]

\* A dataset that was loaded and is gone, although there is something to load, traces to a full
\* load on record that did not succeed: an emptied table is never behind a history of successes.
LossIsRecorded == \A d \in DatasetSet :
    /\ \E i \in DOMAIN runs : <<"core", d>> \in runs[i].did
    /\ core[d] = Nothing /\ staging[d] # Nothing
    => \E i \in DOMAIN runs : /\ runs[i].asked = DatasetSet /\ runs[i].status # "succeeded"
                             /\ <<"core", d>> \notin runs[i].did

\* A load that is called a success is one of everything, of verified bytes, and is not mixed with
\* another (load.py:240-360, 690-835).
LoadIsWhole == TypeOK /\ SuccessIsWhole /\ SuccessIsVerified /\ VouchedOrAbsent /\ WholeTogether

\* What failed or was killed is on record as that (load.py:735-835).
DiaryTells == DiaryIsTrue /\ LossIsRecorded
=============================================================================
