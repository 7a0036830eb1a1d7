---------------------------- MODULE Acquisition ----------------------------
(***************************************************************************)
(* One run of data/acquisition/download_us_treasury.py at a time: for      *)
(* every dataset it fetches the requested years, carries the years on disk *)
(* that were not requested, rewrites the processed CSV, and after the last *)
(* dataset writes the manifest.  The contents of a year are the revision   *)
(* of the source they were taken from; 0 is absence.  A run may be killed  *)
(* between any two steps.                                                  *)
(***************************************************************************)
EXTENDS Naturals, FiniteSets, Sequences, SequencesExt

CONSTANTS Datasets,      \* in the order of DATASETS: a sequence
          Years,         \* the years that exist; the largest is the current one
          MaxRevision,   \* bound: the revisions of the source
          MaxAttempts,   \* attempts of one request
          MaxAcquisitions, MaxKills     \* bounds

ASSUME AcquisitionAssumption ==
    /\ Datasets \in Seq(STRING) /\ Datasets # <<>>
    /\ \A i, j \in DOMAIN Datasets : Datasets[i] = Datasets[j] => i = j
    /\ Years \subseteq Nat /\ Years # {} /\ IsFiniteSet(Years)
    /\ MaxRevision \in Nat \ {0} /\ MaxAttempts \in Nat \ {0}

VARIABLES feed,       \* the revision the Treasury publishes
          raw,        \* data/raw: the file of each dataset and year
          csv,        \* data/processed: the years in each dataset's CSV
          headless,   \* the datasets whose CSV is missing or has not even its header
          manifest,   \* download_manifest.json: the entries that say success
          acq,        \* the run: where it is, what it was asked for
          outcomes,   \* the current dataset's years that are there: their revisions
          failed,     \* ... and those that were asked for and failed
          entries,    \* all_entries: both, for each dataset
          intact,     \* no run is under way, and none was killed since the last that ended
          acquired, kills    \* runs begun and runs killed

files   == <<raw, csv, headless, manifest>>
acqVars == <<feed, files, acq, outcomes, failed, entries, intact, acquired, kills>>

DatasetSet  == Range(Datasets)
CurrentYear == CHOOSE y \in Years : \A z \in Years : z <= y
Nothing     == [y \in Years |-> 0]
Published   == [y \in Years |-> feed]
Only(revisions, years) == [y \in Years |-> IF y \in years THEN revisions[y] ELSE 0]
Blank       == [d \in DatasetSet |-> Nothing]
NoEntries   == [d \in DatasetSet |-> [there |-> Nothing, failed |-> {}]]
NoRun       == [at |-> "idle", refresh |-> "none", years |-> {}, selected |-> {},
                dataset |-> 1, attempt |-> 1, year |-> 0]

Spec_  == Datasets[acq.dataset]
\* resolve_years, for a dataset that was selected
Requested == IF Spec_ \in acq.selected THEN acq.years ELSE {}
MustRefresh(y) == acq.refresh = "all" \/ (acq.refresh = "current" /\ y >= CurrentYear)
Pending   == {y \in Requested : outcomes[y] = 0} \ failed

AcqInit == /\ feed = 1
           /\ \E years \in {{}, Years} : raw = [d \in DatasetSet |-> Only(Published, years)]
           /\ csv = raw /\ manifest = raw
           /\ headless = {d \in DatasetSet : raw[d] = Nothing}
           /\ acq = NoRun /\ outcomes = Nothing /\ failed = {} /\ entries = NoEntries
           /\ intact = TRUE /\ acquired = 0 /\ kills = 0

\* The source appends to a year or corrects it.
Publish == /\ feed < MaxRevision
           /\ feed' = feed + 1
           /\ UNCHANGED <<files, acq, outcomes, failed, entries, intact, acquired, kills>>

\* --start-year and --end-year make an interval, --dataset a selection.
Begin(years, selected, refresh) ==
    /\ acq.at = "idle" /\ acquired < MaxAcquisitions
    /\ acq' = [NoRun EXCEPT !.at = "years", !.refresh = refresh, !.years = years,
                            !.selected = selected]
    /\ outcomes' = Nothing /\ failed' = {} /\ entries' = NoEntries
    /\ intact' = FALSE /\ acquired' = acquired + 1
    /\ UNCHANGED <<feed, files, kills>>

\* download_year with the file on disk: not fetched again unless it must be
Reuse(y) == /\ acq.at = "years" /\ y \in Pending
            /\ raw[Spec_][y] # 0 /\ ~MustRefresh(y)
            /\ outcomes' = [outcomes EXCEPT ![y] = raw[Spec_][y]]
            /\ UNCHANGED <<feed, files, acq, failed, entries, intact, acquired, kills>>

\* ... otherwise a request, with the attempts that TreasuryFeedClient._fetch allows itself
Ask(y) == /\ acq.at = "years" /\ y \in Pending
          /\ raw[Spec_][y] = 0 \/ MustRefresh(y)
          /\ acq' = [acq EXCEPT !.at = "fetch", !.year = y, !.attempt = 1]
          /\ UNCHANGED <<feed, files, outcomes, failed, entries, intact, acquired, kills>>

FetchedUnwritten == /\ acq.at = "fetch"
                    /\ outcomes' = [outcomes EXCEPT ![acq.year] = feed]
                    /\ acq' = [acq EXCEPT !.at = "years"]
                    /\ UNCHANGED <<feed, files, failed, entries, intact, acquired, kills>>

\* a feed that parses: the raw file is replaced as a whole, by os.replace
Fetched == /\ acq.at = "fetch"
           /\ raw' = [raw EXCEPT ![Spec_][acq.year] = feed]
           /\ outcomes' = [outcomes EXCEPT ![acq.year] = feed]
           /\ acq' = [acq EXCEPT !.at = "years"]
           /\ UNCHANGED <<feed, csv, headless, manifest, failed, entries, intact, acquired, kills>>

\* a transport error, a status that may pass, or something that is not XML
FetchRetry == /\ acq.at = "fetch" /\ acq.attempt < MaxAttempts
              /\ acq' = [acq EXCEPT !.attempt = @ + 1]
              /\ UNCHANGED <<feed, files, outcomes, failed, entries, intact, acquired, kills>>

\* the last attempt, another status, or XML that is not a feed: the year has failed, and its
\* outcome carries neither data nor path
FetchFailed == /\ acq.at = "fetch"
               /\ failed' = failed \cup {acq.year}
               /\ acq' = [acq EXCEPT !.at = "years"]
               /\ UNCHANGED <<feed, files, outcomes, entries, intact, acquired, kills>>

CarriedNothing == outcomes

\* collect_existing: every year on disk that was not requested
Carried == [y \in Years |-> IF y \in Requested THEN outcomes[y] ELSE raw[Spec_][y]]
Collect == /\ acq.at = "years" /\ Pending = {}
           /\ outcomes' = Carried
           /\ acq' = [acq EXCEPT !.at = IF Carried = Nothing /\ failed = {} THEN "next"
                                        ELSE "open"]
           /\ UNCHANGED <<feed, files, failed, entries, intact, acquired, kills>>

\* write_processed_csv opens the file for writing, which empties it, and writes the rows in the
\* order of their dates: for a while the CSV ends somewhere.
CsvOpen == /\ acq.at = "open"
           /\ \E end \in Years \cup {0} :
                 /\ csv' = [csv EXCEPT ![Spec_] = Only(outcomes, {y \in Years : y <= end})]
                 /\ headless' = IF end = 0 THEN headless \cup {Spec_} ELSE headless \ {Spec_}
           /\ entries' = [entries EXCEPT ![Spec_] = [there |-> outcomes, failed |-> failed]]
           /\ acq' = [acq EXCEPT !.at = "write"]
           /\ UNCHANGED <<feed, raw, manifest, outcomes, failed, intact, acquired, kills>>
CsvWrite == /\ acq.at = "write"
            /\ csv' = [csv EXCEPT ![Spec_] = outcomes]
            /\ headless' = headless \ {Spec_}
            /\ acq' = [acq EXCEPT !.at = "next"]
            /\ UNCHANGED <<feed, raw, manifest, outcomes, failed, entries, intact, acquired, kills>>

NextDataset == /\ acq.at = "next"
               /\ acq' = IF acq.dataset < Len(Datasets)
                         THEN [acq EXCEPT !.at = "years", !.dataset = @ + 1]
                         ELSE [acq EXCEPT !.at = "manifest"]
               /\ outcomes' = Nothing /\ failed' = {}
               /\ UNCHANGED <<feed, files, entries, intact, acquired, kills>>

WriteManifestMerged ==
    /\ acq.at = "manifest"
    /\ manifest' = [d \in DatasetSet |-> [y \in Years |->
          IF entries[d].there[y] # 0 THEN entries[d].there[y] ELSE manifest[d][y]]]
    /\ intact' = TRUE /\ acq' = NoRun
    /\ UNCHANGED <<feed, raw, csv, headless, outcomes, failed, entries, acquired, kills>>

\* The manifest replaces the old one; the reports and the exit status follow.
WriteManifest ==
    /\ acq.at = "manifest"
    /\ manifest' = [d \in DatasetSet |-> entries[d].there]
    /\ intact' = TRUE /\ acq' = NoRun
    /\ UNCHANGED <<feed, raw, csv, headless, outcomes, failed, entries, acquired, kills>>

Kill == /\ acq.at # "idle" /\ kills < MaxKills
        /\ kills' = kills + 1 /\ acq' = NoRun
        /\ UNCHANGED <<feed, files, outcomes, failed, entries, intact, acquired>>

AcqStep == \/ \E y \in Years : Reuse(y) \/ Ask(y)
           \/ Fetched \/ FetchRetry \/ FetchFailed \/ Collect \/ CsvOpen \/ CsvWrite
           \/ NextDataset \/ WriteManifest
AcqBegin == \E first, last \in Years, selected \in (SUBSET DatasetSet) \ {{}},
               refresh \in {"all", "current", "none"} :
                  Begin({y \in Years : first <= y /\ y <= last}, selected, refresh)
AcqNext == AcqStep \/ AcqBegin \/ Kill \/ Publish

-----------------------------------------------------------------------------
(* What is checked.                                                        *)

AcqTypeOK == /\ feed \in 1..MaxRevision /\ {raw, csv, manifest} \subseteq [DatasetSet -> [Years -> Nat]]
             /\ headless \subseteq DatasetSet
             /\ acq.dataset \in 1..Len(Datasets) /\ acq.attempt \in 1..MaxAttempts
             /\ outcomes \in [Years -> Nat] /\ failed \subseteq Years
             /\ entries \in [DatasetSet -> [there : [Years -> Nat], failed : SUBSET Years]]
             /\ intact \in BOOLEAN /\ acquired \in Nat /\ kills \in Nat

\* At rest, after a run that reached its end, whatever was killed before it, the three places tell
\* the same story: a year the manifest calls a success is in the CSV, and all three hold the
\* revision on disk.
FilesAgree == intact => \A d \in DatasetSet, y \in Years :
                 manifest[d][y] # 0 => csv[d][y] = manifest[d][y] /\ raw[d][y] = manifest[d][y]
\* What a run does not lose: a year that is on disk is in the CSV, unless this run asked for it
\* and failed; and the other way round, the CSV has no year that is not on disk.
NothingElseLost == intact => \A d \in DatasetSet, y \in Years :
                      /\ raw[d][y] # 0 /\ y \notin entries[d].failed => csv[d][y] = raw[d][y]
                      /\ csv[d][y] \in {0, raw[d][y]}

\* Manifest, raw files and CSV tell one story after every run that ends, and a run loses nothing
\* it was not asked for (download_us_treasury.py:690-860, 1740-1900).
FilesStand == FilesAgree /\ NothingElseLost
=============================================================================
