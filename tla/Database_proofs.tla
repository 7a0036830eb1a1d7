-------------------------- MODULE Database_proofs --------------------------
(***************************************************************************)
(* Proofs about the way from the Treasury to the tables: Acquisition,      *)
(* Loader, LoadVerifier and Migrations, for any number of datasets, years, *)
(* revisions, loaders, migrators, failures and kills; and, at the end, for *)
(* any years, about the calendar of FeedTable: arithmetic modulo the week, *)
(* the cycle of nineteen years and the four hundred of the leap years.     *)
(***************************************************************************)
EXTENDS LoadVerifier, Migrations, FeedTable, FunctionTheorems, FiniteSetTheorems, WellFoundedInduction, TLAPS

-----------------------------------------------------------------------------
(* Datasets and their order.                                               *)

Row  == [Years -> 0..MaxRevision]
Grid == [DatasetSet -> Row]

LEMMA DatasetFacts ==
  /\ Len(Datasets) \in Nat \ {0}
  /\ \A i \in 1..Len(Datasets) : Datasets[i] \in DatasetSet
  /\ \A d \in DatasetSet : \E i \in 1..Len(Datasets) : Datasets[i] = d
  /\ \A i, j \in 1..Len(Datasets) : Datasets[i] = Datasets[j] => i = j
  BY AcquisitionAssumption DEF DatasetSet, Range

LEMMA NothingTyped == Nothing \in Row /\ Blank \in Grid
  BY AcquisitionAssumption DEF Nothing, Blank, Row, Grid

-----------------------------------------------------------------------------
(* Acquisition: its types.                                                 *)

Stops == {"idle", "years", "fetch", "open", "write", "next", "manifest"}
Acquirer == [at : Stops, refresh : {"none", "all", "current"}, years : SUBSET Years,
             selected : SUBSET DatasetSet, dataset : 1..Len(Datasets),
             attempt : 1..MaxAttempts, year : Years \cup {0}]

AcqShape == /\ feed \in 1..MaxRevision
            /\ raw \in Grid /\ csv \in Grid /\ manifest \in Grid
            /\ headless \in SUBSET DatasetSet
            /\ acq \in Acquirer /\ (acq.at = "fetch" => acq.year \in Years)
            /\ outcomes \in Row /\ failed \in SUBSET Years
            /\ entries \in [DatasetSet -> [there : Row, failed : SUBSET Years]]
            /\ intact \in BOOLEAN /\ acquired \in Nat /\ kills \in Nat

\* The manifest and the CSV are no newer than the raw files, nor those than the source; and a CSV
\* that has a year has it no older than the manifest does.
Ordered == \A d \in DatasetSet, y \in Years :
              /\ manifest[d][y] <= raw[d][y] /\ csv[d][y] <= raw[d][y] /\ raw[d][y] <= feed
              /\ csv[d][y] # 0 => manifest[d][y] <= csv[d][y]

\* A dataset's CSV has what is on disk and nothing else, but for what its last run failed to get.
Kept(d)    == \A y \in Years : /\ csv[d][y] \in {0, raw[d][y]}
                               /\ raw[d][y] # 0 /\ y \notin entries[d].failed => csv[d][y] = raw[d][y]
Settled(d) == entries[d].there = csv[d] /\ Kept(d)
Unentered(d) == entries[d].there = Nothing /\ entries[d].failed = {}

\* Where a run is, it has settled the datasets behind it and not entered those ahead of it.
SettledBehind == \A i \in 1..Len(Datasets) :
    \/ acq.at # "idle" /\ i < acq.dataset
    \/ acq.at \in {"next", "manifest"} /\ i = acq.dataset
    => Settled(Datasets[i])
BlankAhead == \A i \in 1..Len(Datasets) :
    \/ acq.at # "idle" /\ acq.dataset < i
    \/ acq.at \in {"years", "fetch", "open"} /\ i = acq.dataset
    => Unentered(Datasets[i])

\* What the run has of its dataset: revisions that are on disk, nothing for the years that failed,
\* and when it writes, everything else.
Gathered == acq.at \in {"years", "fetch", "open", "write"} =>
    /\ failed \subseteq Requested
    /\ \A y \in Years : /\ outcomes[y] \in {0, raw[Spec_][y]}
                        /\ y \in failed => outcomes[y] = 0
Asking   == acq.at = "fetch" => acq.year \in Pending
Complete == acq.at \in {"open", "write"} =>
    \A y \in Years : raw[Spec_][y] # 0 /\ y \notin failed => outcomes[y] = raw[Spec_][y]
Entered  == acq.at = "write" => entries[Spec_].there = outcomes /\ entries[Spec_].failed = failed

AtTheEnd == acq.at = "manifest" => acq.dataset = Len(Datasets)
Resting  == intact => acq.at = "idle" /\ \A d \in DatasetSet : manifest[d] = csv[d] /\ Kept(d)

Underway == SettledBehind /\ BlankAhead /\ Gathered /\ Asking /\ Complete /\ Entered /\ AtTheEnd
AcqInv   == AcqShape /\ Ordered /\ Underway /\ Resting

LEMMA NoRunTyped == NoRun \in Acquirer
  BY AcquisitionAssumption, DatasetFacts DEF NoRun, Acquirer, Stops

LEMMA AcqInitShape == AcqInit => AcqShape
  <1> SUFFICES ASSUME AcqInit PROVE AcqShape
    OBVIOUS
  <1>1. Published \in Row
    BY AcquisitionAssumption DEF AcqInit, Published, Row
  <1>2. raw \in Grid
    <2>1. PICK years \in {{}, Years} : raw = [d \in DatasetSet |-> Only(Published, years)]
      BY DEF AcqInit
    <2>2. Only(Published, years) \in Row
      BY <1>1, AcquisitionAssumption DEF Only, Row
    <2> QED BY <2>1, <2>2 DEF Grid
  <1>3. entries \in [DatasetSet -> [there : Row, failed : SUBSET Years]]
    BY NothingTyped DEF AcqInit, NoEntries
  <1>4. acq.at # "fetch"
    BY DEF AcqInit, NoRun
  <1> QED BY <1>2, <1>3, <1>4, NoRunTyped, NothingTyped, AcquisitionAssumption DEF AcqInit, AcqShape

LEMMA AcqStepShape == AcqShape /\ AcqNext => AcqShape'
  <1> SUFFICES ASSUME AcqShape, AcqNext PROVE AcqShape'
    OBVIOUS
  <1> USE AcquisitionAssumption, DatasetFacts
  <1>0. Spec_ \in DatasetSet
    BY DEF Spec_, AcqShape, Acquirer
  <1>1. CASE Publish
    BY <1>1 DEF Publish, AcqShape, files
  <1>2. CASE AcqBegin
    <2>1. PICK years \in SUBSET Years, selected \in SUBSET DatasetSet,
               refresh \in {"all", "current", "none"} : Begin(years, selected, refresh)
      BY <1>2 DEF AcqBegin
    <2>2. acq' \in Acquirer
      BY <2>1, NoRunTyped DEF Begin, Acquirer, Stops
    <2>3. entries' \in [DatasetSet -> [there : Row, failed : SUBSET Years]]
      BY <2>1, NothingTyped DEF Begin, NoEntries
    <2>4. acq'.at # "fetch"
      BY <2>1 DEF Begin, NoRun
    <2>5. intact' \in BOOLEAN
      BY <2>1 DEF Begin
    <2>6. acquired' \in Nat
      BY <2>1 DEF Begin, AcqShape
    <2> QED BY <2>1, <2>2, <2>3, <2>4, <2>5, <2>6, NothingTyped DEF Begin, AcqShape, files
  <1>3. ASSUME NEW y \in Years, Reuse(y) PROVE AcqShape'
    <2>1. raw[Spec_][y] \in 0..MaxRevision
      BY <1>0 DEF AcqShape, Grid, Row
    <2>2. outcomes' \in Row
      BY <1>3, <2>1 DEF Reuse, AcqShape, Row
    <2> QED BY <1>3, <2>2 DEF Reuse, AcqShape, files
  <1>4. ASSUME NEW y \in Years, Ask(y) PROVE AcqShape'
    <2>1. /\ acq' \in Acquirer
          /\ acq'.year = y
      <3>1. 1 \in 1..MaxAttempts /\ "fetch" \in Stops
        BY DEF Stops
      <3>2. [acq EXCEPT !.at = "fetch"] \in Acquirer
        BY <3>1 DEF AcqShape, Acquirer
      <3>3. [acq EXCEPT !.at = "fetch", !.year = y] \in Acquirer
        BY <3>1 DEF AcqShape, Acquirer
      <3>4. acq' = [[acq EXCEPT !.at = "fetch", !.year = y] EXCEPT !.attempt = 1]
        BY <1>4 DEF Ask
      <3> QED BY <3>1, <3>3, <3>4 DEF Acquirer
    <2> QED BY <1>4, <2>1 DEF Ask, AcqShape, files
  <1>5. CASE Fetched
    <2> acq.year \in Years /\ feed \in 0..MaxRevision
      BY <1>5 DEF Fetched, AcqShape
    <2>1. acq' \in Acquirer /\ acq'.at = "years"
      BY <1>5 DEF Fetched, AcqShape, Acquirer, Stops
    <2>2. outcomes' \in Row
      BY <1>5 DEF Fetched, AcqShape, Row
    <2>3. [raw[Spec_] EXCEPT ![acq.year] = feed] \in Row
      <3>1. raw[Spec_] \in Row
        BY <1>0 DEF AcqShape, Grid
      <3> QED BY <3>1 DEF Row
    <2>4. raw' \in Grid
      BY <1>5, <1>0, <2>3 DEF Fetched, AcqShape, Grid
    <2> QED BY <1>5, <2>1, <2>2, <2>4 DEF Fetched, AcqShape
  <1>6. CASE FetchRetry
    <2>1. acq.attempt + 1 \in 1..MaxAttempts
      BY <1>6 DEF FetchRetry, AcqShape, Acquirer
    <2>2. acq' \in Acquirer
      BY <1>6, <2>1 DEF FetchRetry, AcqShape, Acquirer
    <2> QED BY <1>6, <2>2 DEF FetchRetry, AcqShape, files
  <1>7. CASE FetchFailed
    <2>1. acq' \in Acquirer /\ acq'.at = "years"
      BY <1>7 DEF FetchFailed, AcqShape, Acquirer, Stops
    <2>2. failed' \in SUBSET Years
      BY <1>7 DEF FetchFailed, AcqShape
    <2> QED BY <1>7, <2>1, <2>2 DEF FetchFailed, AcqShape, files
  <1>8. CASE Collect
    <2>1. acq' \in Acquirer /\ acq'.at # "fetch"
      BY <1>8 DEF Collect, AcqShape, Acquirer, Stops
    <2>2. Carried \in Row
      BY <1>0 DEF Carried, AcqShape, Grid, Row
    <2> QED BY <1>8, <2>1, <2>2 DEF Collect, AcqShape, files
  <1>9. CASE CsvOpen
    <2>1. acq' \in Acquirer /\ acq'.at # "fetch"
      BY <1>9 DEF CsvOpen, AcqShape, Acquirer, Stops
    <2>2. entries' \in [DatasetSet -> [there : Row, failed : SUBSET Years]]
      BY <1>9, <1>0 DEF CsvOpen, AcqShape
    <2>3. \A years \in SUBSET Years : Only(outcomes, years) \in Row
      BY DEF Only, AcqShape, Row
    <2>4. csv' \in Grid
      BY <1>9, <1>0, <2>3 DEF CsvOpen, AcqShape, Grid
    <2>5. headless' \in SUBSET DatasetSet
      BY <1>9, <1>0 DEF CsvOpen, AcqShape
    <2> QED BY <1>9, <2>1, <2>2, <2>4, <2>5 DEF CsvOpen, AcqShape
  <1>10. CASE CsvWrite
    <2>1. acq' \in Acquirer /\ acq'.at # "fetch"
      BY <1>10 DEF CsvWrite, AcqShape, Acquirer, Stops
    <2>2. csv' \in Grid
      BY <1>10, <1>0 DEF CsvWrite, AcqShape, Grid
    <2> QED BY <1>10, <2>1, <2>2 DEF CsvWrite, AcqShape
  <1>11. CASE NextDataset
    <2>1. acq' \in Acquirer /\ acq'.at # "fetch"
      <3>1. CASE acq.dataset < Len(Datasets)
        <4>1. acq.dataset + 1 \in 1..Len(Datasets) /\ "years" \in Stops
          BY <3>1 DEF AcqShape, Acquirer, Stops
        <4>2. acq' = [acq EXCEPT !.at = "years", !.dataset = @ + 1]
          BY <3>1, <1>11 DEF NextDataset
        <4> QED BY <4>1, <4>2 DEF AcqShape, Acquirer
      <3>2. CASE ~(acq.dataset < Len(Datasets))
        <4>1. acq' = [acq EXCEPT !.at = "manifest"]
          BY <3>2, <1>11 DEF NextDataset
        <4> QED BY <4>1 DEF AcqShape, Acquirer, Stops
      <3> QED BY <3>1, <3>2
    <2> QED BY <1>11, <2>1, NothingTyped DEF NextDataset, AcqShape, files
  <1>12. CASE WriteManifest
    <2>1. manifest' \in Grid
      BY <1>12 DEF WriteManifest, AcqShape, Grid
    <2> QED BY <1>12, <2>1, NoRunTyped DEF WriteManifest, AcqShape, NoRun
  <1>13. CASE Kill
    BY <1>13, NoRunTyped DEF Kill, AcqShape, files, NoRun
  <1> QED BY <1>1, <1>2, <1>3, <1>4, <1>5, <1>6, <1>7, <1>8, <1>9, <1>10, <1>11, <1>12, <1>13
          DEF AcqNext, AcqStep

-----------------------------------------------------------------------------
(* Acquisition: manifest, CSV and raw files.                               *)

LEMMA AcqInitInv == AcqInit => AcqInv
  <1> SUFFICES ASSUME AcqInit PROVE AcqInv
    OBVIOUS
  <1>1. AcqShape
    BY AcqInitShape
  <1>2. /\ acq.at = "idle" /\ intact = TRUE /\ csv = raw /\ manifest = raw /\ feed = 1
    BY DEF AcqInit, NoRun
  <1>3. \A d \in DatasetSet, y \in Years : raw[d][y] \in {0, 1}
    BY DEF AcqInit, Only, Published
  <1>4. Ordered
    BY <1>2, <1>3 DEF Ordered
  <1>5. Resting
    BY <1>2 DEF Resting, Kept
  <1>6. Underway
    BY <1>2 DEF Underway, SettledBehind, BlankAhead, Gathered, Asking, Complete, Entered, AtTheEnd
  <1> QED BY <1>1, <1>4, <1>5, <1>6 DEF AcqInv

\* What the steps of a run share: the dataset it is at is one of the datasets.
LEMMA SpecIsOne == AcqShape => /\ Spec_ \in DatasetSet
                               /\ \A i \in 1..Len(Datasets) : i # acq.dataset => Datasets[i] # Spec_
  BY DatasetFacts DEF AcqShape, Acquirer, Spec_

LEMMA AcqStepInv == AcqInv /\ AcqNext => AcqInv'
  <1> SUFFICES ASSUME AcqInv, AcqNext PROVE AcqInv'
    OBVIOUS
  <1>0. AcqShape /\ AcqShape'
    BY AcqStepShape DEF AcqInv
  <1> DEFINE D == acq.dataset
  <1>s. /\ D \in 1..Len(Datasets) /\ Spec_ = Datasets[D] /\ Spec_ \in DatasetSet
        /\ \A i \in 1..Len(Datasets) : Datasets[i] \in DatasetSet /\ (i # D => Datasets[i] # Spec_)
        /\ \A d \in DatasetSet : \E i \in 1..Len(Datasets) : Datasets[i] = d
        /\ Len(Datasets) \in Nat
    BY <1>0, SpecIsOne, DatasetFacts DEF AcqShape, Acquirer, Spec_
  <1>t. /\ feed \in Nat
        /\ \A d \in DatasetSet, y \in Years : raw[d][y] \in Nat /\ csv[d][y] \in Nat /\ manifest[d][y] \in Nat
        /\ \A y \in Years : outcomes[y] \in Nat
    BY <1>0 DEF AcqShape, Grid, Row
  <1>u. /\ feed' \in Nat
        /\ \A d \in DatasetSet, y \in Years : raw'[d][y] \in Nat /\ csv'[d][y] \in Nat /\ manifest'[d][y] \in Nat
        /\ \A y \in Years : outcomes'[y] \in Nat
    BY <1>0 DEF AcqShape, Grid, Row
  \* A step that leaves a dataset's files and entry alone leaves it settled, or unentered.
  <1>k. ASSUME NEW d \in DatasetSet, raw'[d] = raw[d], csv'[d] = csv[d], entries'[d] = entries[d]
        PROVE  /\ Kept(d) => Kept(d)'
               /\ Settled(d) => Settled(d)'
               /\ Unentered(d) => Unentered(d)'
    BY <1>k DEF Kept, Settled, Unentered, Nothing
  <1>1. ASSUME Publish PROVE Ordered' /\ Underway' /\ Resting'
    <2>1. /\ UNCHANGED <<raw, csv, manifest, acq, outcomes, failed, entries, intact>>
          /\ feed' = feed + 1
      BY <1>1, <1>0, <1>s DEF Publish, files, AcqShape, Acquirer
    <2>2. Spec_' = Spec_ /\ Requested' = Requested
      BY <2>1, <1>s DEF Spec_, Requested
    <2>3. Ordered'
      BY <2>1, <2>2, <1>s, <1>t, <1>k DEF AcqInv, Underway, Ordered, Gathered, Complete, Asking, Pending
    <2>4. SettledBehind'
      BY <2>1, <2>2, <1>s, <1>t, <1>k DEF AcqInv, Underway, SettledBehind, Settled, Kept
    <2>5. BlankAhead'
      BY <2>1, <2>2, <1>s, <1>t, <1>k DEF AcqInv, Underway, BlankAhead
    <2>6. Gathered'
      BY <2>1, <2>2, <1>s, <1>t, <1>k DEF AcqInv, Underway, Gathered, Pending, Asking
    <2>7. Asking'
      BY <2>1, <2>2, <1>s, <1>t, <1>k DEF AcqInv, Underway, Asking, Pending
    <2>8. Complete'
      BY <2>1, <2>2, <1>s, <1>t, <1>k DEF AcqInv, Underway, Complete, Gathered, Pending
    <2>9. Entered'
      BY <2>1, <2>2, <1>s, <1>t, <1>k DEF AcqInv, Underway, Entered
    <2>10. AtTheEnd'
      BY <2>1, <2>2, <1>s, <1>t, <1>k DEF AcqInv, Underway, AtTheEnd
    <2>11. Resting'
      BY <2>1, <2>2, <1>s, <1>t, <1>k DEF AcqInv, Underway, Resting, Kept, Settled
    <2> QED BY <2>3, <2>4, <2>5, <2>6, <2>7, <2>8, <2>9, <2>10, <2>11 DEF Underway
  <1>2. ASSUME AcqBegin PROVE Ordered' /\ Underway' /\ Resting'
    <2>1. /\ UNCHANGED <<feed, raw, csv, manifest>>
          /\ acq'.at = "years" /\ acq'.dataset = 1 /\ intact' = FALSE
          /\ outcomes' = Nothing /\ failed' = {} /\ entries' = NoEntries
      BY <1>2 DEF AcqBegin, Begin, files, NoRun
    <2>2. Spec_' \in DatasetSet
      BY <2>1, <1>s DEF Spec_
    <2>3. Ordered'
      BY <2>1 DEF AcqInv, Ordered
    <2>4. SettledBehind'
      BY <2>1 DEF SettledBehind
    <2>5. BlankAhead'
      BY <2>1, <1>s DEF BlankAhead, Unentered, NoEntries, Nothing
    <2>6. Gathered'
      BY <2>1, <2>2 DEF Gathered, Nothing
    <2>7. Asking' /\ Complete' /\ Entered' /\ AtTheEnd' /\ Resting'
      BY <2>1 DEF Asking, Complete, Entered, AtTheEnd, Resting
    <2> QED BY <2>3, <2>4, <2>5, <2>6, <2>7 DEF Underway
  <1>3. ASSUME NEW y \in Years, Reuse(y) PROVE Ordered' /\ Underway' /\ Resting'
    <2>1. /\ UNCHANGED <<feed, raw, csv, manifest, acq, failed, entries, intact>>
          /\ acq.at = "years" /\ y \in Pending /\ raw[Spec_][y] # 0
          /\ outcomes' = [outcomes EXCEPT ![y] = raw[Spec_][y]]
      BY <1>3, <1>0, <1>s DEF Reuse, files, AcqShape, Acquirer
    <2>2. Spec_' = Spec_ /\ Requested' = Requested
      BY <2>1, <1>s DEF Spec_, Requested
    <2>3. Ordered'
      BY <2>1, <2>2, <1>s, <1>t, <1>k DEF AcqInv, Underway, Ordered, Gathered, Complete, Asking, Pending
    <2>4. SettledBehind'
      BY <2>1, <2>2, <1>s, <1>t, <1>k DEF AcqInv, Underway, SettledBehind, Settled, Kept
    <2>5. BlankAhead'
      BY <2>1, <2>2, <1>s, <1>t, <1>k DEF AcqInv, Underway, BlankAhead
    <2>6. Gathered'
      BY <2>1, <2>2, <1>s, <1>t, <1>k DEF AcqInv, Underway, Gathered, Pending, Asking
    <2>7. Asking'
      BY <2>1, <2>2, <1>s, <1>t, <1>k DEF AcqInv, Underway, Asking, Pending
    <2>8. Complete'
      BY <2>1, <2>2, <1>s, <1>t, <1>k DEF AcqInv, Underway, Complete, Gathered, Pending
    <2>9. Entered'
      BY <2>1, <2>2, <1>s, <1>t, <1>k DEF AcqInv, Underway, Entered
    <2>10. AtTheEnd'
      BY <2>1, <2>2, <1>s, <1>t, <1>k DEF AcqInv, Underway, AtTheEnd
    <2>11. Resting'
      BY <2>1, <2>2, <1>s, <1>t, <1>k DEF AcqInv, Underway, Resting, Kept, Settled
    <2> QED BY <2>3, <2>4, <2>5, <2>6, <2>7, <2>8, <2>9, <2>10, <2>11 DEF Underway
  <1>4. ASSUME NEW y \in Years, Ask(y) PROVE Ordered' /\ Underway' /\ Resting'
    <2>1. /\ UNCHANGED <<feed, raw, csv, manifest, outcomes, failed, entries, intact>>
          /\ acq.at = "years" /\ y \in Pending /\ acq'.at = "fetch" /\ acq'.year = y
          /\ acq'.dataset = D /\ acq'.years = acq.years /\ acq'.selected = acq.selected
      BY <1>4, <1>0, <1>s DEF Ask, files, AcqShape, Acquirer
    <2>2. Spec_' = Spec_ /\ Requested' = Requested
      BY <2>1, <1>s DEF Spec_, Requested
    <2>3. Ordered'
      BY <2>1, <2>2, <1>s, <1>t, <1>k DEF AcqInv, Underway, Ordered, Gathered, Complete, Asking, Pending
    <2>4. SettledBehind'
      BY <2>1, <2>2, <1>s, <1>t, <1>k DEF AcqInv, Underway, SettledBehind, Settled, Kept
    <2>5. BlankAhead'
      BY <2>1, <2>2, <1>s, <1>t, <1>k DEF AcqInv, Underway, BlankAhead
    <2>6. Gathered'
      BY <2>1, <2>2, <1>s, <1>t, <1>k DEF AcqInv, Underway, Gathered, Pending, Asking
    <2>7. Asking'
      BY <2>1, <2>2, <1>s, <1>t, <1>k DEF AcqInv, Underway, Asking, Pending
    <2>8. Complete'
      BY <2>1, <2>2, <1>s, <1>t, <1>k DEF AcqInv, Underway, Complete, Gathered, Pending
    <2>9. Entered'
      BY <2>1, <2>2, <1>s, <1>t, <1>k DEF AcqInv, Underway, Entered
    <2>10. AtTheEnd'
      BY <2>1, <2>2, <1>s, <1>t, <1>k DEF AcqInv, Underway, AtTheEnd
    <2>11. Resting'
      BY <2>1, <2>2, <1>s, <1>t, <1>k DEF AcqInv, Underway, Resting, Kept, Settled
    <2> QED BY <2>3, <2>4, <2>5, <2>6, <2>7, <2>8, <2>9, <2>10, <2>11 DEF Underway
  <1>5. ASSUME Fetched PROVE Ordered' /\ Underway' /\ Resting'
    <2>1. /\ UNCHANGED <<feed, csv, manifest, failed, entries, intact>>
          /\ acq.at = "fetch" /\ acq'.at = "years" /\ acq'.dataset = D /\ acq'.years = acq.years /\ acq'.selected = acq.selected
          /\ raw' = [raw EXCEPT ![Spec_][acq.year] = feed]
          /\ outcomes' = [outcomes EXCEPT ![acq.year] = feed]
      BY <1>5, <1>0, <1>s DEF Fetched, AcqShape, Acquirer
    <2>2. Spec_' = Spec_ /\ Requested' = Requested
      BY <2>1, <1>s DEF Spec_, Requested
    <2>r. /\ acq.year \in Pending /\ acq.year \in Years
          /\ \A y \in Years : /\ raw'[Spec_][y] = (IF y = acq.year THEN feed ELSE raw[Spec_][y])
                              /\ outcomes'[y] = (IF y = acq.year THEN feed ELSE outcomes[y])
          /\ \A d \in DatasetSet : d # Spec_ => raw'[d] = raw[d]
      BY <2>1, <1>0, <1>s DEF AcqShape, AcqInv, Underway, Asking, Grid, Row
    <2>3. Ordered'
      <3>1. Ordered /\ UNCHANGED <<feed, manifest, csv>>
        BY <2>1 DEF AcqInv
      <3>2. \A d \in DatasetSet, y \in Years : raw'[d][y] = raw[d][y] \/ raw'[d][y] = feed
        BY ONLY <2>r
      <3> QED BY ONLY <3>1, <3>2, <1>t, <1>u DEF Ordered
    <2>4. SettledBehind'
      <3>1. SettledBehind
        BY DEF AcqInv, Underway
      <3>2. ASSUME NEW j \in 1..Len(Datasets), j < D PROVE Settled(Datasets[j])'
        <4>1. Settled(Datasets[j])
          BY <3>1, <3>2, <2>1 DEF SettledBehind
        <4>2. /\ Datasets[j] \in DatasetSet /\ raw'[Datasets[j]] = raw[Datasets[j]]
              /\ csv'[Datasets[j]] = csv[Datasets[j]] /\ entries'[Datasets[j]] = entries[Datasets[j]]
          BY <3>2, <1>s, <2>1, <2>r
        <4> QED BY ONLY <4>1, <4>2, <1>k
      <3> QED BY <3>2, <2>1 DEF SettledBehind
    <2>5. BlankAhead'
      BY <2>1 DEF AcqInv, Underway, BlankAhead, Unentered, Nothing
    <2>6. Gathered'
      BY <2>1, <2>2, <2>r DEF AcqInv, Underway, Gathered, Pending
    <2>7. Asking'
      BY <2>1, <2>2, <1>s, <1>t, <1>k DEF AcqInv, Underway, Asking, Pending
    <2>8. Complete'
      BY <2>1, <2>2, <1>s, <1>t, <1>k DEF AcqInv, Underway, Complete, Gathered, Pending
    <2>9. Entered'
      BY <2>1, <2>2, <1>s, <1>t, <1>k DEF AcqInv, Underway, Entered
    <2>10. AtTheEnd'
      BY <2>1, <2>2, <1>s, <1>t, <1>k DEF AcqInv, Underway, AtTheEnd
    <2>11. Resting'
      BY <2>1, <2>2, <1>s, <1>t, <1>k DEF AcqInv, Underway, Resting, Kept, Settled
    <2> QED BY <2>3, <2>4, <2>5, <2>6, <2>7, <2>8, <2>9, <2>10, <2>11 DEF Underway
  <1>6. ASSUME FetchRetry PROVE Ordered' /\ Underway' /\ Resting'
    <2>1. /\ UNCHANGED <<feed, raw, csv, manifest, outcomes, failed, entries, intact>>
          /\ acq.at = "fetch" /\ acq'.at = "fetch" /\ acq'.year = acq.year /\ acq'.dataset = D /\ acq'.years = acq.years /\ acq'.selected = acq.selected
      BY <1>6, <1>0, <1>s DEF FetchRetry, files, AcqShape, Acquirer
    <2>2. Spec_' = Spec_ /\ Requested' = Requested
      BY <2>1, <1>s DEF Spec_, Requested
    <2>3. Ordered'
      BY <2>1, <2>2, <1>s, <1>t, <1>k DEF AcqInv, Underway, Ordered, Gathered, Complete, Asking, Pending
    <2>4. SettledBehind'
      BY <2>1, <2>2, <1>s, <1>t, <1>k DEF AcqInv, Underway, SettledBehind, Settled, Kept
    <2>5. BlankAhead'
      BY <2>1, <2>2, <1>s, <1>t, <1>k DEF AcqInv, Underway, BlankAhead
    <2>6. Gathered'
      BY <2>1, <2>2, <1>s, <1>t, <1>k DEF AcqInv, Underway, Gathered, Pending, Asking
    <2>7. Asking'
      BY <2>1, <2>2, <1>s, <1>t, <1>k DEF AcqInv, Underway, Asking, Pending
    <2>8. Complete'
      BY <2>1, <2>2, <1>s, <1>t, <1>k DEF AcqInv, Underway, Complete, Gathered, Pending
    <2>9. Entered'
      BY <2>1, <2>2, <1>s, <1>t, <1>k DEF AcqInv, Underway, Entered
    <2>10. AtTheEnd'
      BY <2>1, <2>2, <1>s, <1>t, <1>k DEF AcqInv, Underway, AtTheEnd
    <2>11. Resting'
      BY <2>1, <2>2, <1>s, <1>t, <1>k DEF AcqInv, Underway, Resting, Kept, Settled
    <2> QED BY <2>3, <2>4, <2>5, <2>6, <2>7, <2>8, <2>9, <2>10, <2>11 DEF Underway
  <1>7. ASSUME FetchFailed PROVE Ordered' /\ Underway' /\ Resting'
    <2>1. /\ UNCHANGED <<feed, raw, csv, manifest, outcomes, entries, intact>>
          /\ acq.at = "fetch" /\ acq'.at = "years" /\ acq'.dataset = D /\ acq'.years = acq.years /\ acq'.selected = acq.selected
          /\ failed' = failed \cup {acq.year}
      BY <1>7, <1>0, <1>s DEF FetchFailed, files, AcqShape, Acquirer
    <2>2. Spec_' = Spec_ /\ Requested' = Requested
      BY <2>1, <1>s DEF Spec_, Requested
    <2>3. Ordered'
      BY <2>1, <2>2, <1>s, <1>t, <1>k DEF AcqInv, Underway, Ordered, Gathered, Complete, Asking, Pending
    <2>4. SettledBehind'
      BY <2>1, <2>2, <1>s, <1>t, <1>k DEF AcqInv, Underway, SettledBehind, Settled, Kept
    <2>5. BlankAhead'
      BY <2>1, <2>2, <1>s, <1>t, <1>k DEF AcqInv, Underway, BlankAhead
    <2>6. Gathered'
      BY <2>1, <2>2, <1>s, <1>t, <1>k DEF AcqInv, Underway, Gathered, Pending, Asking
    <2>7. Asking'
      BY <2>1, <2>2, <1>s, <1>t, <1>k DEF AcqInv, Underway, Asking, Pending
    <2>8. Complete'
      BY <2>1, <2>2, <1>s, <1>t, <1>k DEF AcqInv, Underway, Complete, Gathered, Pending
    <2>9. Entered'
      BY <2>1, <2>2, <1>s, <1>t, <1>k DEF AcqInv, Underway, Entered
    <2>10. AtTheEnd'
      BY <2>1, <2>2, <1>s, <1>t, <1>k DEF AcqInv, Underway, AtTheEnd
    <2>11. Resting'
      BY <2>1, <2>2, <1>s, <1>t, <1>k DEF AcqInv, Underway, Resting, Kept, Settled
    <2> QED BY <2>3, <2>4, <2>5, <2>6, <2>7, <2>8, <2>9, <2>10, <2>11 DEF Underway
  <1>8. ASSUME Collect PROVE Ordered' /\ Underway' /\ Resting'
    <2>1. /\ UNCHANGED <<feed, raw, csv, manifest, failed, entries, intact>>
          /\ acq.at = "years" /\ Pending = {} /\ acq'.dataset = D /\ acq'.years = acq.years /\ acq'.selected = acq.selected /\ outcomes' = Carried
          /\ acq'.at = (IF Carried = Nothing /\ failed = {} THEN "next" ELSE "open")
      BY <1>8, <1>0, <1>s DEF Collect, files, AcqShape, Acquirer
    <2>2. Spec_' = Spec_ /\ Requested' = Requested
      BY <2>1, <1>s DEF Spec_, Requested
    <2>r. /\ acq'.at \in {"next", "open"} /\ failed \subseteq Requested
          /\ \A y \in Years : /\ outcomes'[y] \in {0, raw[Spec_][y]}
                              /\ y \in failed => outcomes'[y] = 0
                              /\ raw[Spec_][y] # 0 /\ y \notin failed => outcomes'[y] = raw[Spec_][y]
      BY <2>1 DEF AcqInv, Underway, Gathered, Carried, Pending
    <2>3. Ordered'
      BY <2>1, <2>2, <1>s, <1>t, <1>k DEF AcqInv, Underway, Ordered, Gathered, Complete, Asking, Pending
    <2>4. SettledBehind'
      <3>1. ASSUME acq'.at = "next" PROVE Settled(Spec_)
        <4>1. failed = {} /\ \A y \in Years : outcomes'[y] = 0
          BY <3>1, <2>1 DEF Nothing
        <4>2. \A y \in Years : raw[Spec_][y] = 0 /\ csv[Spec_][y] = 0
          <5>1. \A y \in Years : raw[Spec_][y] = 0
            BY <4>1, <2>r
          <5>2. \A y \in Years : csv[Spec_][y] <= raw[Spec_][y]
            BY <1>s DEF AcqInv, Ordered
          <5> QED BY <5>1, <5>2, <1>s, <1>t
        <4>3. csv[Spec_] = Nothing
          BY <4>2, <1>0, <1>s DEF AcqShape, Grid, Row, Nothing
        <4>4. Unentered(Spec_)
          BY <2>1, <1>s DEF AcqInv, Underway, BlankAhead
        <4> QED BY <4>2, <4>3, <4>4 DEF Settled, Kept, Unentered
      <3>2. \A i \in 1..Len(Datasets) : i < D => Settled(Datasets[i])
        BY <2>1 DEF AcqInv, Underway, SettledBehind
      <3>3. ASSUME NEW i \in 1..Len(Datasets), Settled(Datasets[i]) PROVE Settled(Datasets[i])'
        BY <3>3, <2>1, <1>s, <1>k
      <3> QED BY <3>1, <3>2, <3>3, <2>1, <2>r, <1>s DEF SettledBehind
    <2>5. BlankAhead'
      BY <2>1, <2>2, <1>s, <1>t, <1>k DEF AcqInv, Underway, BlankAhead
    <2>s. raw' = raw /\ failed' = failed
      BY <2>1
    <2>6. Gathered'
      BY <2>s, <2>2, <2>r DEF Gathered
    <2>7. Asking'
      BY <2>1, <2>2, <1>s, <1>t, <1>k DEF AcqInv, Underway, Asking, Pending
    <2>8. Complete'
      BY <2>s, <2>2, <2>r DEF Complete
    <2>9. Entered'
      BY <2>1, <2>2, <1>s, <1>t, <1>k DEF AcqInv, Underway, Entered
    <2>10. AtTheEnd'
      BY <2>1, <2>2, <1>s, <1>t, <1>k DEF AcqInv, Underway, AtTheEnd
    <2>11. Resting'
      BY <2>1, <2>2, <1>s, <1>t, <1>k DEF AcqInv, Underway, Resting, Kept, Settled
    <2> QED BY <2>3, <2>4, <2>5, <2>6, <2>7, <2>8, <2>9, <2>10, <2>11 DEF Underway
  <1>9. ASSUME CsvOpen PROVE Ordered' /\ Underway' /\ Resting'
    <2>1. /\ UNCHANGED <<feed, raw, manifest, outcomes, failed, intact>>
          /\ acq.at = "open" /\ acq'.at = "write"
          /\ acq'.dataset = D /\ acq'.years = acq.years /\ acq'.selected = acq.selected
          /\ entries'[Spec_] = [there |-> outcomes, failed |-> failed]
          /\ \A d \in DatasetSet : d # Spec_ => csv'[d] = csv[d] /\ entries'[d] = entries[d]
          /\ \A y \in Years : csv'[Spec_][y] \in {0, outcomes[y]}
      <3>1. PICK end \in Years \cup {0} :
               csv' = [csv EXCEPT ![Spec_] = Only(outcomes, {y \in Years : y <= end})]
        BY <1>9 DEF CsvOpen
      <3>2. csv'[Spec_] = Only(outcomes, {y \in Years : y <= end})
        BY <3>1, <1>0, <1>s DEF AcqShape, Grid
      <3>3. \A y \in Years : csv'[Spec_][y] \in {0, outcomes[y]}
        BY <3>2 DEF Only
      <3>4. \A d \in DatasetSet : d # Spec_ => csv'[d] = csv[d]
        BY <3>1, <1>0 DEF AcqShape, Grid
      <3>5. entries' = [entries EXCEPT ![Spec_] = [there |-> outcomes, failed |-> failed]]
        BY <1>9 DEF CsvOpen
      <3> QED BY <3>3, <3>4, <3>5, <1>9, <1>0, <1>s DEF CsvOpen, AcqShape, Acquirer
    <2>2. Spec_' = Spec_ /\ Requested' = Requested
      BY <2>1, <1>s DEF Spec_, Requested
    <2>3. Ordered'
      <3>1. Ordered /\ UNCHANGED <<feed, manifest, raw>>
        BY <2>1 DEF AcqInv
      <3>2. Gathered /\ Complete /\ acq.at = "open"
        BY <2>1 DEF AcqInv, Underway
      <3>3. \A y \in Years : csv'[Spec_][y] = 0 \/ csv'[Spec_][y] = raw[Spec_][y]
        BY ONLY <2>1, <3>2 DEF Gathered
      <3>4. ASSUME NEW d \in DatasetSet, NEW y \in Years
            PROVE  csv'[d][y] = csv[d][y] \/ csv'[d][y] = 0 \/ csv'[d][y] = raw[d][y]
        BY ONLY <2>1, <3>3, <3>4
      <3>5. \A d \in DatasetSet, y \in Years : manifest[d][y] <= raw[d][y]
        BY ONLY <3>1 DEF Ordered
      <3> QED BY ONLY <3>1, <3>4, <3>5, <1>t, <1>u DEF Ordered
    <2>4. SettledBehind'
      BY <2>1, <2>2, <1>s, <1>t, <1>k DEF AcqInv, Underway, SettledBehind, Settled, Kept
    <2>5. BlankAhead'
      BY <2>1, <2>2, <1>s, <1>t, <1>k DEF AcqInv, Underway, BlankAhead
    <2>6. Gathered'
      BY <2>1, <2>2, <1>s, <1>t, <1>k DEF AcqInv, Underway, Gathered, Pending, Asking
    <2>7. Asking'
      BY <2>1, <2>2, <1>s, <1>t, <1>k DEF AcqInv, Underway, Asking, Pending
    <2>8. Complete'
      BY <2>1, <2>2, <1>s, <1>t, <1>k DEF AcqInv, Underway, Complete, Gathered, Pending
    <2>9. Entered'
      BY <2>1, <2>2, <1>s, <1>t, <1>k DEF AcqInv, Underway, Entered
    <2>10. AtTheEnd'
      BY <2>1, <2>2, <1>s, <1>t, <1>k DEF AcqInv, Underway, AtTheEnd
    <2>11. Resting'
      BY <2>1, <2>2, <1>s, <1>t, <1>k DEF AcqInv, Underway, Resting, Kept, Settled
    <2> QED BY <2>3, <2>4, <2>5, <2>6, <2>7, <2>8, <2>9, <2>10, <2>11 DEF Underway
  <1>10. ASSUME CsvWrite PROVE Ordered' /\ Underway' /\ Resting'
    <2>1. /\ UNCHANGED <<feed, raw, manifest, outcomes, failed, entries, intact>>
          /\ acq.at = "write" /\ acq'.at = "next"
          /\ acq'.dataset = D /\ acq'.years = acq.years /\ acq'.selected = acq.selected
          /\ csv'[Spec_] = outcomes
          /\ \A d \in DatasetSet : d # Spec_ => csv'[d] = csv[d]
      BY <1>10, <1>0, <1>s DEF CsvWrite, AcqShape, Acquirer, Grid
    <2>2. Spec_' = Spec_ /\ Requested' = Requested
      BY <2>1, <1>s DEF Spec_, Requested
    <2>3. Ordered'
      BY <2>1, <2>2, <1>s, <1>t, <1>k DEF AcqInv, Underway, Ordered, Gathered, Complete, Asking, Pending
    <2>4. SettledBehind'
      <3>1. Settled(Spec_)'
        <4>1. \A y \in Years : /\ outcomes[y] \in {0, raw[Spec_][y]}
                               /\ raw[Spec_][y] # 0 /\ y \notin failed => outcomes[y] = raw[Spec_][y]
          BY <2>1 DEF AcqInv, Underway, Gathered, Complete
        <4>2. entries'[Spec_].there = outcomes /\ entries'[Spec_].failed = failed
          BY <2>1 DEF AcqInv, Underway, Entered
        <4>3. csv'[Spec_] = outcomes /\ raw' = raw
          BY <2>1
        <4> QED BY <2>2, <4>1, <4>2, <4>3 DEF Settled, Kept
      <3>2. \A i \in 1..Len(Datasets) : i < D => Settled(Datasets[i])
        BY <2>1 DEF AcqInv, Underway, SettledBehind
      <3>3. ASSUME NEW i \in 1..Len(Datasets), i # D, Settled(Datasets[i]) PROVE Settled(Datasets[i])'
        BY <3>3, <2>1, <1>s, <1>k
      <3> QED BY <3>1, <3>2, <3>3, <2>1, <2>2, <1>s DEF SettledBehind
    <2>5. BlankAhead'
      BY <2>1, <2>2, <1>s, <1>t, <1>k DEF AcqInv, Underway, BlankAhead
    <2>6. Gathered'
      BY <2>1, <2>2, <1>s, <1>t, <1>k DEF AcqInv, Underway, Gathered, Pending, Asking
    <2>7. Asking'
      BY <2>1, <2>2, <1>s, <1>t, <1>k DEF AcqInv, Underway, Asking, Pending
    <2>8. Complete'
      BY <2>1, <2>2, <1>s, <1>t, <1>k DEF AcqInv, Underway, Complete, Gathered, Pending
    <2>9. Entered'
      BY <2>1, <2>2, <1>s, <1>t, <1>k DEF AcqInv, Underway, Entered
    <2>10. AtTheEnd'
      BY <2>1, <2>2, <1>s, <1>t, <1>k DEF AcqInv, Underway, AtTheEnd
    <2>11. Resting'
      BY <2>1, <2>2, <1>s, <1>t, <1>k DEF AcqInv, Underway, Resting, Kept, Settled
    <2> QED BY <2>3, <2>4, <2>5, <2>6, <2>7, <2>8, <2>9, <2>10, <2>11 DEF Underway
  <1>11. ASSUME NextDataset PROVE Ordered' /\ Underway' /\ Resting'
    <2>1. /\ UNCHANGED <<feed, raw, csv, manifest, entries, intact>>
          /\ acq.at = "next" /\ outcomes' = Nothing /\ failed' = {}
      BY <1>11 DEF NextDataset, files
    <2>2. \/ D < Len(Datasets) /\ acq'.at = "years" /\ acq'.dataset = D + 1
          \/ D = Len(Datasets) /\ acq'.at = "manifest" /\ acq'.dataset = D
      <3>1. CASE D < Len(Datasets)
        BY <3>1, <1>11, <1>0 DEF NextDataset, AcqShape, Acquirer
      <3>2. CASE ~(D < Len(Datasets))
        <4>1. D = Len(Datasets)
          BY <3>2, <1>s
        <4>2. acq' = [acq EXCEPT !.at = "manifest"]
          BY <3>2, <1>11 DEF NextDataset
        <4> QED BY <4>1, <4>2, <1>0 DEF AcqShape, Acquirer
      <3> QED BY <3>1, <3>2
    <2>3. Ordered'
      BY <2>1 DEF AcqInv, Ordered
    <2>4. SettledBehind'
      BY <2>1, <2>2, <1>s, <1>k DEF AcqInv, Underway, SettledBehind
    <2>5. BlankAhead'
      BY <2>1, <2>2, <1>s, <1>k DEF AcqInv, Underway, BlankAhead
    <2>6. Gathered'
      BY <2>1, <2>2 DEF Gathered, Nothing
    <2>7. Asking' /\ Complete' /\ Entered' /\ AtTheEnd'
      BY <2>1, <2>2, <1>s DEF Asking, Complete, Entered, AtTheEnd
    <2>8. Resting'
      BY <2>1 DEF AcqInv, Resting, Kept
    <2> QED BY <2>3, <2>4, <2>5, <2>6, <2>7, <2>8 DEF Underway
  <1>12. ASSUME WriteManifest PROVE Ordered' /\ Underway' /\ Resting'
    <2>1. /\ UNCHANGED <<feed, raw, csv, entries>>
          /\ acq.at = "manifest" /\ acq'.at = "idle" /\ intact' = TRUE
          /\ manifest' = [d \in DatasetSet |-> entries[d].there]
      BY <1>12, <1>0, <1>s DEF WriteManifest, NoRun, AcqShape, Acquirer
    <2>r. \A d \in DatasetSet : Settled(d) /\ manifest'[d] = csv[d]
      <3>1. D = Len(Datasets)
        BY <2>1 DEF AcqInv, Underway, AtTheEnd
      <3>2. \A i \in 1..Len(Datasets) : Settled(Datasets[i])
        BY <3>1, <2>1, <1>s DEF AcqInv, Underway, SettledBehind
      <3>3. \A d \in DatasetSet : Settled(d)
        BY <3>2, <1>s
      <3> QED BY <3>3, <2>1 DEF Settled
    <2>3. Ordered'
      BY <2>1, <2>r, <1>t DEF AcqInv, Ordered
    <2>4. SettledBehind'
      BY <2>1, <1>s, <1>t, <1>k DEF AcqInv, Underway, SettledBehind, Settled, Kept
    <2>5. BlankAhead'
      BY <2>1, <1>s, <1>t, <1>k DEF AcqInv, Underway, BlankAhead
    <2>6. Gathered'
      BY <2>1, <1>s, <1>t, <1>k DEF AcqInv, Underway, Gathered, Pending, Asking
    <2>7. Asking'
      BY <2>1, <1>s, <1>t, <1>k DEF AcqInv, Underway, Asking, Pending
    <2>8. Complete'
      BY <2>1, <1>s, <1>t, <1>k DEF AcqInv, Underway, Complete, Gathered, Pending
    <2>9. Entered'
      BY <2>1, <1>s, <1>t, <1>k DEF AcqInv, Underway, Entered
    <2>10. AtTheEnd'
      BY <2>1, <1>s, <1>t, <1>k DEF AcqInv, Underway, AtTheEnd
    <2>11. Resting'
      BY <2>1, <2>r DEF Resting, Settled, Kept
    <2> QED BY <2>3, <2>4, <2>5, <2>6, <2>7, <2>8, <2>9, <2>10, <2>11 DEF Underway
  <1>13. ASSUME Kill PROVE Ordered' /\ Underway' /\ Resting'
    <2>1. /\ UNCHANGED <<feed, raw, csv, manifest, outcomes, failed, entries, intact>>
          /\ acq.at # "idle" /\ acq'.at = "idle"
      BY <1>13, <1>0, <1>s DEF Kill, files, NoRun, AcqShape, Acquirer
    <2>3. Ordered'
      BY <2>1, <1>s, <1>t, <1>k DEF AcqInv, Underway, Ordered, Gathered, Complete, Asking, Pending
    <2>4. SettledBehind'
      BY <2>1, <1>s, <1>t, <1>k DEF AcqInv, Underway, SettledBehind, Settled, Kept
    <2>5. BlankAhead'
      BY <2>1, <1>s, <1>t, <1>k DEF AcqInv, Underway, BlankAhead
    <2>6. Gathered'
      BY <2>1, <1>s, <1>t, <1>k DEF AcqInv, Underway, Gathered, Pending, Asking
    <2>7. Asking'
      BY <2>1, <1>s, <1>t, <1>k DEF AcqInv, Underway, Asking, Pending
    <2>8. Complete'
      BY <2>1, <1>s, <1>t, <1>k DEF AcqInv, Underway, Complete, Gathered, Pending
    <2>9. Entered'
      BY <2>1, <1>s, <1>t, <1>k DEF AcqInv, Underway, Entered
    <2>10. AtTheEnd'
      BY <2>1, <1>s, <1>t, <1>k DEF AcqInv, Underway, AtTheEnd
    <2>11. Resting'
      BY <2>1, <1>s, <1>t, <1>k DEF AcqInv, Underway, Resting, Kept, Settled
    <2> QED BY <2>3, <2>4, <2>5, <2>6, <2>7, <2>8, <2>9, <2>10, <2>11 DEF Underway
  <1>14. Ordered' /\ Underway' /\ Resting'
    BY <1>1, <1>2, <1>3, <1>4, <1>5, <1>6, <1>7, <1>8, <1>9, <1>10, <1>11, <1>12, <1>13 DEF AcqNext, AcqStep
  <1> QED BY <1>14, <1>0 DEF AcqInv

-----------------------------------------------------------------------------
(* The loader: its types and its invariant.                                *)

\* A run on record and a loader at work.
RunRecords == [status : {"running", "succeeded", "failed"}, asked : SUBSET DatasetSet, registered : Grid,
               steps : SUBSET Lines, did : SUBSET Lines, alone : BOOLEAN,
               files : {"intact", "broken", "moving"}]
Places     == {"idle", "verify", "truncate", "stage", "map", "insert", "extras"}
Rewriting  == {"map", "insert", "extras"}
LoaderRecords == [at : Places, run : Nat, todo : SUBSET DatasetSet, manifest : Grid,
                  seen : SUBSET Years, late : BOOLEAN, diary : SUBSET Lines]

LoadShape == /\ staging \in Grid /\ core \in Grid /\ extra \in Grid
             /\ runs \in Seq(RunRecords) /\ loader \in [Loaders -> LoaderRecords]
             /\ crew \in SUBSET Loaders /\ crew # {} /\ Len(runs) <= Cardinality(crew)

\* Who is at work has a run of its own, which says so, and works on what that was asked for.
Active(l) == loader[l].at # "idle"
OwnRun(l) == /\ runs[Run(l)].status = "running" /\ loader[l].todo \subseteq Asked(l)
             /\ loader[l].at \in {"verify", "truncate"} => loader[l].todo = Asked(l)
             /\ loader[l].at = "verify" => loader[l].diary = {}
             /\ loader[l].at = "truncate" => Asked(l) = DatasetSet
             /\ loader[l].at \in Rewriting => loader[l].todo # {}
OneRunEach == \A l \in Loaders :
    /\ Active(l) <=> loader[l].run # 0
    /\ loader[l].run \in 0..Len(runs)
    /\ Active(l) => OwnRun(l)
    /\ \A k \in Loaders : Active(l) /\ Active(k) /\ k # l => Run(k) # Run(l)

\* What a loader has done is what it has behind it, and the diary lags by its last line.
Past(l, d) == d \in Asked(l) /\ d \notin loader[l].todo
Lags(l) ==
    /\ runs[Run(l)].did = runs[Run(l)].steps \cup loader[l].diary
    /\ \A d \in DatasetSet :
         /\ <<"stage", d>> \in runs[Run(l)].did <=>
               Past(l, d) \/ (loader[l].at \in Rewriting /\ d = Doing(l))
         /\ <<"core", d>> \in runs[Run(l)].did <=>
               Past(l, d) \/ (loader[l].at = "extras" /\ d = Doing(l))
         /\ <<"extra", d>> \in runs[Run(l)].did <=> Past(l, d) /\ d \in WithExtras
DiaryLags == \A l \in Loaders : Active(l) => Lags(l)
DidAll == \A i \in 1..Len(runs) : runs[i].status = "succeeded" =>
    \A d \in runs[i].asked : /\ <<"core", d>> \in runs[i].did
                             /\ d \in WithExtras => <<"extra", d>> \in runs[i].did

\* While nobody else has opened a run, only the last run's loader is at work, it sees all of what
\* it replaces, and the tables are as it left them.
LastAlone(i) == i = Len(runs) /\ runs[i].alone
Sees(l) == /\ ~loader[l].late
           /\ loader[l].at = "insert" => loader[l].seen = {y \in Years : core[Doing(l)][y] # 0}
AsLeft(i) == \A d \in DatasetSet : /\ <<"core", d>> \in runs[i].did => core[d] = staging[d]
                                   /\ <<"extra", d>> \in runs[i].did => extra[d] = staging[d]
AloneIsAlone == \A i \in 1..Len(runs) : LastAlone(i) =>
    /\ \A l \in Loaders : Active(l) => Run(l) = i /\ Sees(l)
    /\ AsLeft(i)

\* As long as no acquisition moves, a loader works from the manifest and the CSVs as they are, and
\* the last run has loaded from them.
Still(l) ==
    /\ acq.at = "idle" /\ loader[l].manifest = manifest
    /\ runs[Run(l)].files = "intact" => intact = TRUE
    /\ loader[l].at # "verify" =>
          /\ runs[Run(l)].registered = manifest
          /\ \A d \in Asked(l), y \in Years : manifest[d][y] # 0 => raw[d][y] = manifest[d][y]
    /\ \A d \in DatasetSet : <<"stage", d>> \in runs[Run(l)].did => staging[d] = csv[d]
FilesStill == \A l \in Loaders : Active(l) /\ runs[Run(l)].files # "moving" => Still(l)
FromFiles(i) == \A d \in DatasetSet : <<"core", d>> \in runs[i].did =>
    /\ runs[i].files = "intact" => core[d] = runs[i].registered[d]
    /\ \A y \in Years : runs[i].registered[d][y] # 0 => core[d][y] \in {0, runs[i].registered[d][y]}
AsRegistered == \A i \in 1..Len(runs) : LastAlone(i) /\ runs[i].files # "moving" => FromFiles(i)

\* Several loaders and no acquisition: the files do not change, what was staged is a CSV with every year, and what
\* was loaded is there unless a full load emptied it and did not come to it.
Unfinished(d) == \E i \in 1..Len(runs) : /\ runs[i].asked = DatasetSet /\ runs[i].status # "succeeded"
                                         /\ <<"core", d>> \notin runs[i].did
Staged(d) == \E i \in 1..Len(runs) : <<"stage", d>> \in runs[i].did
Loaded(d) == \E i \in 1..Len(runs) : <<"core", d>> \in runs[i].did
Many == Cardinality(crew) # 1 /\ acquired = 0
FullFiles   == Many => \A d \in DatasetSet \ headless, y \in Years : csv[d][y] # 0
ManyLoaders == Many => \A d \in DatasetSet :
    /\ Staged(d) => d \notin headless /\ staging[d] = csv[d]
    /\ Loaded(d) => Staged(d) /\ (core[d] = csv[d] \/ Unfinished(d))

\* Until a second run is opened the first is alone.
FirstAlone == Len(runs) = 1 => runs[1].alone

DiaryInv == DiaryIsTrue /\ DiaryLags /\ DidAll
LoadInv  == /\ LoadShape /\ OneRunEach /\ DiaryInv /\ AloneIsAlone /\ FilesStill /\ AsRegistered
            /\ FullFiles /\ ManyLoaders /\ FirstAlone

-----------------------------------------------------------------------------
(* The loader: what its steps do to a run and to a loader.                 *)

LEMMA FirstIn ==
  ASSUME NEW S \in SUBSET DatasetSet, S # {}
  PROVE  First(S) \in S
<1> DEFINE P == {i \in DOMAIN Datasets : Datasets[i] \in S}
<1>1. P \subseteq Nat /\ P # {}
  BY DatasetFacts, AcquisitionAssumption
<1>2. PICK m \in P : \A i \in P : ~ (<<i, m>> \in OpToRel(<, Nat))
  <2> HIDE DEF P
  <2> QED BY <1>1, NatLessThanWellFounded, WFMin
<1>3. \A i \in P : m <= i
  <2>1. \A i \in P : ~ (i < m)
    <3> HIDE DEF P
    <3> QED BY <1>1, <1>2 DEF OpToRel
  <2> HIDE DEF P
  <2> QED BY <1>1, <2>1
<1>4. \E i \in DOMAIN Datasets : /\ Datasets[i] \in S
                                 /\ \A j \in DOMAIN Datasets : Datasets[j] \in S => i <= j
  BY <1>3
<1> QED BY <1>4 DEF First

\* What no commit and no closing of a run changes.
Alike(r, s) == r.asked = s.asked /\ r.alone = s.alone /\ r.files = s.files

\* What a loader has staged stays as it is, and so does what it stands on.
LEMMA StillKept ==
  ASSUME NEW l, NEW i, Still(l), UNCHANGED <<acq, manifest, raw, csv, intact>>,
         loader[l].run = i, loader[l].at # "verify",
         loader'[l].run = i, loader'[l].manifest = loader[l].manifest,
         runs'[i].asked = runs[i].asked, runs'[i].files = runs[i].files,
         runs'[i].registered = runs[i].registered,
         \A d \in DatasetSet : <<"stage", d>> \in runs'[i].did => staging'[d] = csv[d]
  PROVE  Still(l)'
<1>1. acq'.at = "idle" /\ loader'[l].manifest = manifest'
  BY DEF Still
<1>2. runs'[i].files = "intact" => intact' = TRUE
  BY DEF Still, Run
<1>3. runs'[i].registered = manifest'
  BY DEF Still, Run
<1>4. \A d \in runs'[i].asked, y \in Years : manifest'[d][y] # 0 => raw'[d][y] = manifest'[d][y]
  BY DEF Still, Run, Asked
<1>5. \A d \in DatasetSet : <<"stage", d>> \in runs'[i].did => staging'[d] = csv'[d]
  OBVIOUS
<1> QED BY <1>1, <1>2, <1>3, <1>4, <1>5 DEF Still, Run, Asked

LEMMA CommitFacts ==
  ASSUME LoadShape, NEW l \in Loaders, Run(l) \in 1..Len(runs),
         NEW done \in SUBSET Lines, Commit(l, done)
  PROVE  /\ runs' \in Seq(RunRecords) /\ Len(runs') = Len(runs)
         /\ \A j \in 1..Len(runs) : j # Run(l) => runs'[j] = runs[j]
         /\ Alike(runs'[Run(l)], runs[Run(l)])
         /\ runs'[Run(l)].status = runs[Run(l)].status
         /\ runs'[Run(l)].registered = runs[Run(l)].registered
         /\ runs'[Run(l)].steps = runs[Run(l)].steps \cup loader[l].diary
         /\ runs'[Run(l)].did = runs[Run(l)].did \cup done
<1> DEFINE i == Run(l)
           r == [[runs[i] EXCEPT !.steps = @ \cup loader[l].diary] EXCEPT !.did = @ \cup done]
<1>1. runs[i] \in RunRecords /\ loader[l].diary \in SUBSET Lines
  BY DEF LoadShape, LoaderRecords
<1>2. r \in RunRecords
  BY <1>1 DEF RunRecords
<1>3. runs' = [runs EXCEPT ![i] = r]
  BY DEF Commit, LoadShape
<1>4. runs' \in Seq(RunRecords) /\ Len(runs') = Len(runs) /\ runs'[i] = r
      /\ \A j \in 1..Len(runs) : j # i => runs'[j] = runs[j]
  <2> HIDE DEF r
  <2> QED BY <1>2, <1>3 DEF LoadShape
<1> QED BY <1>1, <1>4 DEF RunRecords, Alike

LEMMA ClosedFacts ==
  ASSUME LoadShape, NEW l \in Loaders, Run(l) \in 1..Len(runs),
         NEW status \in {"succeeded", "failed"}, NEW diary \in SUBSET Lines, Closed(l, status, diary)
  PROVE  /\ runs' \in Seq(RunRecords) /\ Len(runs') = Len(runs)
         /\ \A j \in 1..Len(runs) : j # Run(l) => runs'[j] = runs[j]
         /\ Alike(runs'[Run(l)], runs[Run(l)])
         /\ runs'[Run(l)].status = status
         /\ runs'[Run(l)].registered = runs[Run(l)].registered
         /\ runs'[Run(l)].steps = runs[Run(l)].steps \cup diary
         /\ runs'[Run(l)].did = runs[Run(l)].did
<1> DEFINE i == Run(l)
           r == [[runs[i] EXCEPT !.status = status] EXCEPT !.steps = @ \cup diary]
<1>1. runs[i] \in RunRecords
  BY DEF LoadShape
<1>2. r \in RunRecords
  BY <1>1 DEF RunRecords
<1>3. runs' = [runs EXCEPT ![i] = r]
  BY DEF Closed, LoadShape
<1>4. runs' \in Seq(RunRecords) /\ Len(runs') = Len(runs) /\ runs'[i] = r
      /\ \A j \in 1..Len(runs) : j # i => runs'[j] = runs[j]
  <2> HIDE DEF r
  <2> QED BY <1>2, <1>3 DEF LoadShape
<1> QED BY <1>1, <1>4 DEF RunRecords, Alike

LEMMA DisturbedFacts ==
  ASSUME LoadShape, runs' = Disturbed
  PROVE  /\ runs' \in Seq(RunRecords) /\ Len(runs') = Len(runs)
         /\ \A j \in 1..Len(runs) :
              /\ runs'[j].status = runs[j].status /\ runs'[j].asked = runs[j].asked
              /\ runs'[j].registered = runs[j].registered /\ runs'[j].steps = runs[j].steps
              /\ runs'[j].did = runs[j].did /\ runs'[j].alone = runs[j].alone
              /\ runs[j].status # "running" => runs'[j].files = runs[j].files
              /\ runs[j].status = "running" => runs'[j].files = "moving"
<1>1. runs' = [j \in 1..Len(runs) |-> IF runs[j].status = "running"
                                      THEN [runs[j] EXCEPT !.files = "moving"] ELSE runs[j]]
  BY DEF Disturbed, LoadShape
<1>2. Len(runs) \in Nat /\ \A j \in 1..Len(runs) : runs[j] \in RunRecords
  BY DEF LoadShape
<1>3. \A j \in 1..Len(runs) : [runs[j] EXCEPT !.files = "moving"] \in RunRecords
  BY <1>2 DEF RunRecords
<1>4. \A j \in 1..Len(runs) : runs'[j] \in RunRecords
  BY <1>1, <1>2, <1>3
<1>5. runs' \in Seq(RunRecords) /\ Len(runs') = Len(runs)
  BY <1>1, <1>2, <1>4
<1>6. ASSUME NEW j \in 1..Len(runs)
      PROVE  /\ runs'[j].status = runs[j].status /\ runs'[j].asked = runs[j].asked
             /\ runs'[j].registered = runs[j].registered /\ runs'[j].steps = runs[j].steps
             /\ runs'[j].did = runs[j].did /\ runs'[j].alone = runs[j].alone
             /\ runs[j].status # "running" => runs'[j].files = runs[j].files
             /\ runs[j].status = "running" => runs'[j].files = "moving"
  BY <1>1, <1>2 DEF RunRecords
<1> QED BY <1>5, <1>6

\* A loader's record when some of its fields are set.
LEMMA LoaderFacts ==
  ASSUME LoadShape, NEW l \in Loaders, NEW r \in LoaderRecords, loader' = [loader EXCEPT ![l] = r]
  PROVE  /\ loader' \in [Loaders -> LoaderRecords] /\ loader'[l] = r
         /\ \A k \in Loaders : k # l => loader'[k] = loader[k]
BY DEF LoadShape

-----------------------------------------------------------------------------
(* A step of a loader that stays at work.                                  *)

SameButLate(r, s) == /\ r.at = s.at /\ r.run = s.run /\ r.todo = s.todo
                     /\ r.manifest = s.manifest /\ r.seen = s.seen /\ r.diary = s.diary

\* The frame of such a step: nobody else's run or record changes but for being late; whatever is
\* staged is the CSV of the moment.
Working(l) ==
    /\ LoadShape' /\ UNCHANGED <<acqVars, crew>>
    /\ Active(l) /\ loader'[l].at # "idle"
    /\ loader'[l].run = Run(l) /\ loader'[l].manifest = loader[l].manifest
    /\ \A k \in Loaders : k # l => SameButLate(loader'[k], loader[k])
    /\ Len(runs') = Len(runs)
    /\ \A j \in 1..Len(runs) : j # Run(l) => runs'[j] = runs[j]
    /\ Alike(runs'[Run(l)], runs[Run(l)]) /\ runs'[Run(l)].status = runs[Run(l)].status
    /\ \A d \in DatasetSet : staging'[d] = staging[d] \/ staging'[d] = csv[d]

LEMMA AtWork ==
  ASSUME LoadInv, NEW l \in Loaders, Active(l)
  PROVE  /\ Len(runs) \in Nat /\ Run(l) \in 1..Len(runs) /\ runs[Run(l)] \in RunRecords
         /\ loader[l] \in LoaderRecords /\ Asked(l) \in SUBSET DatasetSet
         /\ OwnRun(l) /\ Lags(l)
         /\ \A k \in Loaders : Active(k) /\ k # l => Run(k) # Run(l)
<1>1. Len(runs) \in Nat /\ loader[l] \in LoaderRecords /\ loader[l].run \in Nat
  BY DEF LoadInv, LoadShape, LoaderRecords
<1>2. loader[l].run # 0 /\ loader[l].run \in 0..Len(runs)
  BY DEF LoadInv, OneRunEach
<1>3. Run(l) \in 1..Len(runs)
  BY <1>1, <1>2 DEF Run
<1>4. runs[Run(l)] \in RunRecords
  BY <1>3 DEF LoadInv, LoadShape
<1>5. Asked(l) \in SUBSET DatasetSet
  BY <1>4 DEF Asked, RunRecords
<1>6. OwnRun(l) /\ Lags(l) /\ \A k \in Loaders : Active(k) /\ k # l => Run(k) # Run(l)
  BY DEF LoadInv, OneRunEach, DiaryInv, DiaryLags
<1> QED BY <1>1, <1>3, <1>4, <1>5, <1>6

\* What the loader itself has to see to, and what it does to the tables.
LEMMA WorkingInv ==
  ASSUME LoadInv, NEW l \in Loaders, Working(l), NEW i, i = Run(l),
         OwnRun(l)', Lags(l)',
         runs[i].files # "moving" => Still(l)',
         LastAlone(i) => Sees(l)' /\ AsLeft(i)',
         LastAlone(i) /\ runs[i].files # "moving" => FromFiles(i)',
         ManyLoaders'
  PROVE  LoadInv'
<1>1. /\ i \in 1..Len(runs) /\ Len(runs) \in Nat /\ runs[i].status = "running"
      /\ \A k \in Loaders : Active(k) => Run(k) \in 1..Len(runs)
      /\ \A k \in Loaders : Active(k) /\ k # l => Run(k) # i
  <2>1. Active(l)
    BY DEF Working
  <2>2. Len(runs) \in Nat /\ i \in 1..Len(runs) /\ runs[i].status = "running"
    BY <2>1, AtWork DEF OwnRun
  <2>3. ASSUME NEW k \in Loaders, Active(k) PROVE Run(k) \in 1..Len(runs) /\ (k # l => Run(k) # i)
    BY <2>1, <2>3, AtWork
  <2> QED BY <2>2, <2>3
<1>2. /\ loader'[l].at # "idle" /\ loader'[l].run = i /\ Active(l)
      /\ \A k \in Loaders : k # l => /\ loader'[k].at = loader[k].at /\ loader'[k].run = loader[k].run
                                     /\ loader'[k].todo = loader[k].todo
                                     /\ loader'[k].manifest = loader[k].manifest
                                     /\ loader'[k].diary = loader[k].diary
  BY DEF Working, SameButLate
<1>3. /\ Len(runs') = Len(runs)
      /\ \A j \in 1..Len(runs) : j # i => runs'[j] = runs[j]
      /\ runs'[i].asked = runs[i].asked /\ runs'[i].alone = runs[i].alone /\ runs'[i].files = runs[i].files
      /\ runs'[i].status = "running"
  BY <1>1 DEF Working, Alike
<1>4. OneRunEach'
  <2>1. ASSUME NEW k \in Loaders
        PROVE  /\ loader'[k].at # "idle" <=> loader'[k].run # 0
               /\ loader'[k].run \in 0..Len(runs)
               /\ Active(k)' => OwnRun(k)'
    <3>1. CASE k = l
      BY <3>1, <1>1, <1>2
    <3>2. CASE k # l
      BY <3>2, <1>1, <1>2, <1>3 DEF LoadInv, OneRunEach, OwnRun, Active, Run, Asked
    <3> QED BY <3>1, <3>2
  <2>2. ASSUME NEW k \in Loaders, NEW m \in Loaders, Active(k)', Active(m)', k # m
        PROVE  loader'[k].run # loader'[m].run
    <3>1. loader'[k].run = loader[k].run /\ loader'[m].run = loader[m].run /\ Active(k) /\ Active(m)
      BY <2>2, <1>2 DEF Active, Run
    <3> QED BY <3>1, <2>2 DEF LoadInv, OneRunEach, Run
  <2> QED BY <2>1, <2>2, <1>3 DEF OneRunEach, Active, Run
<1>5. DiaryLags'
  <2>1. ASSUME NEW k \in Loaders, Active(k)', k # l PROVE Lags(k)'
    <3>1. Active(k) /\ Lags(k) /\ runs'[Run(k)] = runs[Run(k)]
      BY <2>1, <1>1, <1>2, <1>3 DEF LoadInv, DiaryInv, DiaryLags, Active, Run
    <3> QED BY <3>1, <2>1, <1>2 DEF Lags, Past, Asked, Run, Doing
  <2> QED BY <2>1 DEF DiaryLags
<1>6. DiaryIsTrue'
  <2>1. runs'[i].did = runs'[i].steps \cup loader'[l].diary
    BY <1>2 DEF Lags, Run
  <2>2. DOMAIN runs = 1..Len(runs) /\ DOMAIN runs' = 1..Len(runs)
    BY <1>3 DEF LoadInv, LoadShape, Working
  <2> QED BY <2>1, <2>2, <1>1, <1>3 DEF LoadInv, DiaryInv, DiaryIsTrue
<1>7. DidAll'
  BY <1>1, <1>3 DEF LoadInv, DiaryInv, DidAll
<1>8. AloneIsAlone'
  <2>1. ASSUME NEW j \in 1..Len(runs), LastAlone(j)'
        PROVE  j = i /\ LastAlone(i) /\ \A k \in Loaders : k # l => ~Active(k)
    <3>1. LastAlone(j)
      BY <2>1, <1>3 DEF LastAlone
    <3>2. \A k \in Loaders : Active(k) => Run(k) = j
      BY <3>1 DEF LoadInv, AloneIsAlone
    <3> QED BY <3>1, <3>2, <1>1, <1>2
  <2>2. ASSUME NEW j \in 1..Len(runs), LastAlone(j)'
        PROVE  AsLeft(j)' /\ \A k \in Loaders : Active(k)' => Run(k)' = j /\ Sees(k)'
    BY <2>1, <2>2, <1>2 DEF Active, Run
  <2> QED BY <2>2, <1>3 DEF AloneIsAlone
<1>9. FilesStill'
  <2>1. ASSUME NEW k \in Loaders, Active(k)', runs'[loader'[k].run].files # "moving" PROVE Still(k)'
    <3>1. CASE k = l
      BY <3>1, <2>1, <1>1, <1>2, <1>3
    <3>2. CASE k # l
      <4>1. Active(k) /\ runs'[Run(k)] = runs[Run(k)] /\ loader'[k].run = Run(k)
        BY <3>2, <2>1, <1>1, <1>2, <1>3 DEF Active, Run
      <4>2. Still(k)
        BY <4>1, <2>1 DEF LoadInv, FilesStill
      <4>3. /\ UNCHANGED <<acq, manifest, raw, csv, intact>>
            /\ \A d \in DatasetSet : staging'[d] = staging[d] \/ staging'[d] = csv[d]
        BY DEF Working, acqVars, files
      <4> QED BY <4>1, <4>2, <4>3, <3>2, <1>2 DEF Still, Asked, Run
    <3> QED BY <3>1, <3>2
  <2> QED BY <2>1 DEF FilesStill, Run
<1>10. AsRegistered'
  <2>1. ASSUME NEW j \in 1..Len(runs), LastAlone(j)', runs'[j].files # "moving"
        PROVE  FromFiles(j)'
    <3>1. LastAlone(j)
      BY <2>1, <1>3 DEF LastAlone
    <3>2. j = i
      BY <3>1, <1>2 DEF LoadInv, AloneIsAlone
    <3> QED BY <2>1, <3>1, <3>2, <1>3
  <2> QED BY <2>1, <1>3 DEF AsRegistered
<1>11. FullFiles'
  BY DEF LoadInv, FullFiles, Working, acqVars, files, Many
<1>12. LoadShape'
  BY DEF Working
<1>13. FirstAlone'
  BY <1>3 DEF LoadInv, FirstAlone
<1> QED BY <1>4, <1>5, <1>6, <1>7, <1>8, <1>9, <1>10, <1>11, <1>12, <1>13 DEF LoadInv, DiaryInv

\* With several loaders, when no table changes and nothing more is called staged or loaded.
LEMMA ManyQuiet ==
  ASSUME ManyLoaders, UNCHANGED <<csv, headless, crew, acquired, staging, core>>, Len(runs') = Len(runs),
         \A j \in 1..Len(runs) : /\ runs'[j].asked = runs[j].asked
                                 /\ runs'[j].status = "succeeded" =>
                                       \/ runs[j].status = "succeeded"
                                       \/ \A d \in runs[j].asked : <<"core", d>> \in runs[j].did,
         \A j \in 1..Len(runs), d \in DatasetSet :
            /\ <<"stage", d>> \in runs'[j].did <=> <<"stage", d>> \in runs[j].did
            /\ <<"core", d>> \in runs'[j].did <=> <<"core", d>> \in runs[j].did
  PROVE  ManyLoaders'
<1>1. ASSUME NEW d \in DatasetSet, Unfinished(d) PROVE Unfinished(d)'
  <2>1. PICK j \in 1..Len(runs) : /\ runs[j].asked = DatasetSet /\ runs[j].status # "succeeded"
                                  /\ <<"core", d>> \notin runs[j].did
    BY <1>1 DEF Unfinished
  <2>2. runs'[j].asked = DatasetSet /\ runs'[j].status # "succeeded" /\ <<"core", d>> \notin runs'[j].did
    BY <2>1
  <2> QED BY <2>2 DEF Unfinished
<1>2. \A d \in DatasetSet : (Staged(d)' <=> Staged(d)) /\ (Loaded(d)' <=> Loaded(d))
  BY DEF Staged, Loaded
<1>3. Many' = Many
  BY DEF Many
<1> QED BY <1>1, <1>2, <1>3 DEF ManyLoaders

-----------------------------------------------------------------------------
(* The steps of a loader that stays at work, one by one.                   *)

LEMMA ThenFacts ==
  ASSUME LoadShape, NEW l \in Loaders, NEW at \in Places, NEW line \in SUBSET Lines, Then(l, at, line)
  PROVE  /\ loader' \in [Loaders -> LoaderRecords]
         /\ loader'[l].at = at /\ loader'[l].diary = line /\ loader'[l].run = loader[l].run
         /\ loader'[l].todo = loader[l].todo /\ loader'[l].manifest = loader[l].manifest
         /\ loader'[l].seen = loader[l].seen /\ loader'[l].late = loader[l].late
         /\ \A k \in Loaders : k # l => loader'[k] = loader[k]
<1> DEFINE r == [[loader[l] EXCEPT !.at = at] EXCEPT !.diary = line]
<1>1. loader[l] \in LoaderRecords
  BY DEF LoadShape
<1>2. r \in LoaderRecords
  BY <1>1 DEF LoaderRecords
<1>3. loader' = [loader EXCEPT ![l] = r]
  BY DEF Then, LoadShape
<1>4. /\ loader' \in [Loaders -> LoaderRecords] /\ loader'[l] = r
      /\ \A k \in Loaders : k # l => loader'[k] = loader[k]
  <2> HIDE DEF r
  <2> QED BY <1>2, <1>3, LoaderFacts
<1> QED BY <1>1, <1>4 DEF LoaderRecords

LEMMA LinesFacts == /\ <<"source_files", "all">> \in Lines
                    /\ \A d \in DatasetSet : {<<"stage", d>>, <<"core", d>>, <<"extra", d>>} \subseteq Lines
  BY DEF Lines

LEMMA VerifyInv ==
  ASSUME LoadInv, NEW l \in Loaders, NEW i, i = Run(l), Verify(l), UNCHANGED acqVars
  PROVE  LoadInv'
<1> DEFINE line == {<<"source_files", "all">>}
           r == [[runs[i] EXCEPT !.registered = loader[l].manifest] EXCEPT !.did = @ \cup line]
<1>1. loader[l].at = "verify" /\ Active(l) /\ LoadShape
  BY DEF Verify, Active, LoadInv
<1>2. /\ Len(runs) \in Nat /\ i \in 1..Len(runs) /\ runs[i] \in RunRecords /\ loader[l] \in LoaderRecords
      /\ OwnRun(l) /\ Lags(l)
  BY <1>1, AtWork
<1>3. /\ runs' \in Seq(RunRecords) /\ Len(runs') = Len(runs) /\ runs'[i] = r
      /\ \A j \in 1..Len(runs) : j # i => runs'[j] = runs[j]
  <2>1. r \in RunRecords
    BY <1>2, LinesFacts DEF RunRecords, LoaderRecords
  <2>2. runs' = [runs EXCEPT ![i] = r]
    BY <1>1, <1>2 DEF Verify, LoadShape
  <2> HIDE DEF r
  <2> QED BY <2>1, <2>2, <1>1, <1>2 DEF LoadShape
<1>4. /\ Alike(runs'[i], runs[i]) /\ runs'[i].status = runs[i].status
      /\ runs'[i].registered = loader[l].manifest /\ runs'[i].steps = runs[i].steps
      /\ runs'[i].did = runs[i].did \cup line
  BY <1>2, <1>3 DEF RunRecords, Alike
<1> HIDE DEF r
<1>5. PICK at \in {"truncate", "stage"} :
        /\ at = "truncate" => Asked(l) = DatasetSet
        /\ Then(l, at, line)
  BY DEF Verify, Full
<1>6. /\ loader' \in [Loaders -> LoaderRecords]
      /\ loader'[l].at = at /\ loader'[l].diary = line /\ loader'[l].run = i
      /\ loader'[l].todo = loader[l].todo /\ loader'[l].manifest = loader[l].manifest
      /\ loader'[l].late = loader[l].late
      /\ \A k \in Loaders : k # l => loader'[k] = loader[k]
  BY <1>1, <1>5, LinesFacts, ThenFacts DEF Places, Run
<1>7. UNCHANGED <<staging, core, extra, crew>>
  BY DEF Verify, tables
<1>8. Working(l)
  BY <1>1, <1>2, <1>3, <1>4, <1>6, <1>7 DEF Working, LoadShape, Run, SameButLate
<1>9. loader[l].todo = Asked(l) /\ loader[l].diary = {}
  BY <1>1, <1>2 DEF OwnRun
<1>10. OwnRun(l)'
  BY <1>2, <1>4, <1>5, <1>6, <1>9 DEF OwnRun, Run, Asked, Alike, Rewriting
<1>11. \A d \in DatasetSet : /\ <<"stage", d>> \notin runs'[i].did /\ <<"core", d>> \notin runs'[i].did
                             /\ <<"extra", d>> \notin runs'[i].did
  BY <1>1, <1>2, <1>4, <1>9 DEF Lags, Past, Run, Rewriting
<1>12. Lags(l)'
  <2>1. runs'[i].did = runs'[i].steps \cup loader'[l].diary
    BY <1>2, <1>4, <1>6, <1>9 DEF Lags, Run
  <2> QED BY <2>1, <1>4, <1>5, <1>6, <1>9, <1>11 DEF Lags, Past, Run, Asked, Alike, Rewriting
<1>13. ASSUME runs[i].files # "moving" PROVE Still(l)'
  <2>1. Still(l)
    BY <1>1, <1>13 DEF LoadInv, FilesStill
  <2>2. \A d \in Asked(l), y \in Years : loader[l].manifest[d][y] # 0 => raw[d][y] = loader[l].manifest[d][y]
    BY DEF Verify, Verified
  <2>3. UNCHANGED <<acq, manifest, raw, intact>>
    BY DEF acqVars, files
  <2>4. /\ loader[l].manifest = manifest /\ acq.at = "idle"
        /\ runs[i].files = "intact" => intact = TRUE
    BY <2>1 DEF Still, Run
  <2>5. \A d \in runs'[i].asked, y \in Years : manifest[d][y] # 0 => raw[d][y] = manifest[d][y]
    BY <2>2, <2>4, <1>4 DEF Asked, Alike
  <2>6. loader'[l].run = i /\ runs'[i].files = runs[i].files /\ runs'[i].registered = manifest
    BY <2>4, <1>4, <1>6 DEF Alike
  <2> QED BY <2>3, <2>4, <2>5, <2>6, <1>6, <1>11 DEF Still, Run, Asked
<1>14. ASSUME LastAlone(i) PROVE Sees(l)' /\ AsLeft(i)'
  <2>1. ~loader[l].late
    BY <1>1, <1>2, <1>14 DEF LoadInv, AloneIsAlone, Sees
  <2> QED BY <2>1, <1>5, <1>6, <1>11 DEF Sees, AsLeft
<1>15. FromFiles(i)'
  BY <1>11 DEF FromFiles
<1>16. ManyLoaders'
  <2>1. ASSUME NEW j \in 1..Len(runs)
        PROVE  /\ runs'[j].asked = runs[j].asked /\ runs'[j].status = runs[j].status
               /\ \A d \in DatasetSet : /\ <<"stage", d>> \in runs'[j].did <=> <<"stage", d>> \in runs[j].did
                                        /\ <<"core", d>> \in runs'[j].did <=> <<"core", d>> \in runs[j].did
    <3>1. CASE j = i
      BY <3>1, <1>4 DEF Alike
    <3>2. CASE j # i
      BY <3>2, <1>3
    <3> QED BY <3>1, <3>2
  <2>2. UNCHANGED <<csv, headless, crew, acquired, staging, core>>
    BY <1>7 DEF acqVars, files
  <2> QED BY <2>1, <2>2, <1>3, ManyQuiet DEF LoadInv
<1> QED BY <1>8, <1>10, <1>12, <1>13, <1>14, <1>15, <1>16, WorkingInv

LEMMA TruncateInv ==
  ASSUME LoadInv, NEW l \in Loaders, NEW i, i = Run(l), Truncate(l), UNCHANGED acqVars
  PROVE  LoadInv'
<1>1. loader[l].at = "truncate" /\ Active(l) /\ LoadShape
  BY DEF Truncate, Active, LoadInv
<1>2. /\ Len(runs) \in Nat /\ i \in 1..Len(runs) /\ runs[i] \in RunRecords /\ loader[l] \in LoaderRecords
      /\ OwnRun(l) /\ Lags(l)
  BY <1>1, AtWork
<1>3. /\ runs' \in Seq(RunRecords) /\ Len(runs') = Len(runs)
      /\ \A j \in 1..Len(runs) : j # i => runs'[j] = runs[j]
      /\ Alike(runs'[i], runs[i]) /\ runs'[i].status = runs[i].status
      /\ runs'[i].registered = runs[i].registered
      /\ runs'[i].steps = runs[i].steps \cup loader[l].diary
      /\ runs'[i].did = runs[i].did
  <2>1. Commit(l, {})
    BY DEF Truncate
  <2>2. {} \in SUBSET Lines /\ runs[i].did \cup {} = runs[i].did
    OBVIOUS
  <2> QED BY <1>1, <1>2, <2>1, <2>2, CommitFacts
<1>4. /\ loader' \in [Loaders -> LoaderRecords]
      /\ loader'[l].at = "stage" /\ loader'[l].diary = {} /\ loader'[l].run = i
      /\ loader'[l].todo = loader[l].todo /\ loader'[l].manifest = loader[l].manifest
      /\ loader'[l].late = loader[l].late
      /\ \A k \in Loaders : k # l => loader'[k] = loader[k]
  <2>1. Then(l, "stage", {}) /\ "stage" \in Places
    BY DEF Truncate, Places
  <2> QED BY <1>1, <2>1, ThenFacts DEF Run
<1>5. core' = Blank /\ extra' = Blank /\ UNCHANGED <<staging, crew>>
  BY DEF Truncate
<1>6. Working(l)
  BY <1>1, <1>2, <1>3, <1>4, <1>5, NothingTyped DEF Working, LoadShape, Run, SameButLate
<1>7. loader[l].todo = Asked(l) /\ Asked(l) = DatasetSet
  BY <1>1, <1>2 DEF OwnRun
<1>8. OwnRun(l)'
  BY <1>2, <1>3, <1>4, <1>7 DEF OwnRun, Run, Asked, Alike, Rewriting
<1>9. \A d \in DatasetSet : /\ <<"stage", d>> \notin runs'[i].did /\ <<"core", d>> \notin runs'[i].did
                            /\ <<"extra", d>> \notin runs'[i].did
  BY <1>1, <1>2, <1>3, <1>7 DEF Lags, Past, Run, Rewriting
<1>10. Lags(l)'
  <2>1. runs'[i].did = runs'[i].steps \cup loader'[l].diary
    BY <1>2, <1>3, <1>4 DEF Lags, Run
  <2> QED BY <2>1, <1>3, <1>4, <1>7, <1>9 DEF Lags, Past, Run, Asked, Alike, Rewriting
<1>11. ASSUME runs[i].files # "moving" PROVE Still(l)'
  <2>1. Still(l)
    BY <1>1, <1>11 DEF LoadInv, FilesStill
  <2>2. UNCHANGED <<acq, manifest, raw, csv, intact>>
    BY DEF acqVars, files
  <2>3. \A d \in DatasetSet : <<"stage", d>> \in runs'[i].did => staging'[d] = csv[d]
    BY <1>9
  <2>4. /\ loader[l].run = i /\ loader[l].at # "verify" /\ loader'[l].run = i
        /\ loader'[l].manifest = loader[l].manifest
    BY <1>1, <1>2, <1>4 DEF Run
  <2>5. runs'[i].asked = runs[i].asked /\ runs'[i].files = runs[i].files /\ runs'[i].registered = runs[i].registered
    BY <1>3 DEF Alike
  <2> QED BY ONLY <2>1, <2>2, <2>3, <2>4, <2>5, StillKept
<1>12. ASSUME LastAlone(i) PROVE Sees(l)' /\ AsLeft(i)'
  <2>1. ~loader[l].late
    BY <1>1, <1>2, <1>12 DEF LoadInv, AloneIsAlone, Sees
  <2> QED BY <2>1, <1>4, <1>9 DEF Sees, AsLeft
<1>13. FromFiles(i)'
  BY <1>9 DEF FromFiles
<1>14. ManyLoaders'
  <2>1. ASSUME NEW d \in DatasetSet
        PROVE  (Staged(d)' <=> Staged(d)) /\ (Loaded(d)' <=> Loaded(d)) /\ Unfinished(d)'
    <3>1. \A j \in 1..Len(runs) : runs'[j].did = runs[j].did
      BY <1>3
    <3>2. runs'[i].asked = DatasetSet /\ runs'[i].status # "succeeded" /\ <<"core", d>> \notin runs'[i].did
      BY <1>2, <1>3, <1>7, <1>9 DEF OwnRun, Run, Asked, Alike
    <3> QED BY <3>1, <3>2, <1>2, <1>3 DEF Staged, Loaded, Unfinished
  <2>2. UNCHANGED <<csv, headless, crew, acquired, staging>>
    BY <1>5 DEF acqVars, files
  <2> QED BY <2>1, <2>2 DEF LoadInv, ManyLoaders, Many
<1> QED BY <1>6, <1>8, <1>10, <1>11, <1>12, <1>13, <1>14, WorkingInv

LEMMA StageInv ==
  ASSUME LoadInv, AcqShape, NEW l \in Loaders, NEW i, i = Run(l), Stage(l), UNCHANGED acqVars
  PROVE  LoadInv'
<1>1. loader[l].at = "stage" /\ loader[l].todo # {} /\ Active(l) /\ LoadShape
  BY DEF Stage, Active, LoadInv
<1>2. /\ Len(runs) \in Nat /\ i \in 1..Len(runs) /\ runs[i] \in RunRecords /\ loader[l] \in LoaderRecords
      /\ OwnRun(l) /\ Lags(l)
  BY <1>1, AtWork
<1>d. PICK D \in DatasetSet : D = Doing(l) /\ D \in loader[l].todo /\ D \notin headless
  BY <1>1, <1>2, FirstIn DEF Stage, Doing, LoaderRecords
<1> DEFINE line == {<<"stage", D>>}
<1>3. /\ runs' \in Seq(RunRecords) /\ Len(runs') = Len(runs)
      /\ \A j \in 1..Len(runs) : j # i => runs'[j] = runs[j]
      /\ Alike(runs'[i], runs[i]) /\ runs'[i].status = runs[i].status
      /\ runs'[i].registered = runs[i].registered
      /\ runs'[i].steps = runs[i].steps \cup loader[l].diary
      /\ runs'[i].did = runs[i].did \cup line
  <2>1. Commit(l, line) /\ line \in SUBSET Lines
    BY <1>d, LinesFacts DEF Stage
  <2> QED BY <1>1, <1>2, <2>1, CommitFacts
<1>4. /\ loader' \in [Loaders -> LoaderRecords]
      /\ loader'[l].at = "map" /\ loader'[l].diary = line /\ loader'[l].run = i
      /\ loader'[l].todo = loader[l].todo /\ loader'[l].manifest = loader[l].manifest
      /\ loader'[l].late = loader[l].late
      /\ \A k \in Loaders : k # l => loader'[k] = loader[k]
  <2>1. Then(l, "map", line) /\ "map" \in Places /\ line \in SUBSET Lines
    BY <1>d, LinesFacts DEF Stage, Places
  <2> QED BY <1>1, <2>1, ThenFacts DEF Run
<1>5. UNCHANGED <<core, extra, crew>> /\ staging' = [staging EXCEPT ![D] = csv[D]]
  BY <1>d DEF Stage
<1>5a. /\ staging' \in Grid /\ staging'[D] = csv[D]
       /\ \A d \in DatasetSet : d # D => staging'[d] = staging[d]
  BY <1>1, <1>5 DEF LoadShape, AcqShape, Grid
<1>6. Working(l)
  BY <1>1, <1>2, <1>3, <1>4, <1>5, <1>5a DEF Working, LoadShape, Run, SameButLate
<1>8. OwnRun(l)'
  BY <1>1, <1>2, <1>3, <1>4 DEF OwnRun, Run, Asked, Alike, Rewriting
<1>9. \A d \in DatasetSet : /\ <<"stage", d>> \in runs'[i].did <=> (<<"stage", d>> \in runs[i].did \/ d = D)
                            /\ <<"core", d>> \in runs'[i].did <=> <<"core", d>> \in runs[i].did
                            /\ <<"extra", d>> \in runs'[i].did <=> <<"extra", d>> \in runs[i].did
  BY <1>3
<1>9a. <<"core", D>> \notin runs[i].did /\ <<"extra", D>> \notin runs[i].did
  BY <1>1, <1>2, <1>d DEF Lags, Past, Run
<1>10. Lags(l)'
  <2>1. runs'[i].did = runs'[i].steps \cup loader'[l].diary
    BY <1>2, <1>3, <1>4 DEF Lags, Run
  <2>2. Doing(l)' = D
    BY <1>4, <1>d DEF Doing
  <2>3. \A d \in DatasetSet : Past(l, d)' <=> Past(l, d)
    BY <1>3, <1>4 DEF Past, Asked, Run, Alike
  <2> QED BY <2>1, <2>2, <2>3, <1>1, <1>2, <1>4, <1>9 DEF Lags, Run, Rewriting
<1>11. ASSUME runs[i].files # "moving" PROVE Still(l)'
  <2>1. Still(l)
    BY <1>1, <1>11 DEF LoadInv, FilesStill
  <2>2. UNCHANGED <<acq, manifest, raw, csv, intact>>
    BY DEF acqVars, files
  <2>3. \A d \in DatasetSet : <<"stage", d>> \in runs'[i].did => staging'[d] = csv[d]
    BY <2>1, <1>5a, <1>9 DEF Still, Run
  <2>4. /\ loader[l].run = i /\ loader[l].at # "verify" /\ loader'[l].run = i
        /\ loader'[l].manifest = loader[l].manifest
    BY <1>1, <1>2, <1>4 DEF Run
  <2>5. runs'[i].asked = runs[i].asked /\ runs'[i].files = runs[i].files /\ runs'[i].registered = runs[i].registered
    BY <1>3 DEF Alike
  <2> QED BY ONLY <2>1, <2>2, <2>3, <2>4, <2>5, StillKept
<1>12. ASSUME LastAlone(i) PROVE Sees(l)' /\ AsLeft(i)'
  <2>1. ~loader[l].late /\ AsLeft(i)
    BY <1>1, <1>2, <1>12 DEF LoadInv, AloneIsAlone, Sees
  <2> QED BY <2>1, <1>4, <1>5, <1>5a, <1>9, <1>9a DEF Sees, AsLeft
<1>13. ASSUME LastAlone(i), runs[i].files # "moving" PROVE FromFiles(i)'
  <2>1. FromFiles(i)
    BY <1>2, <1>13 DEF LoadInv, AsRegistered
  <2> QED BY <2>1, <1>3, <1>5, <1>9 DEF FromFiles, Alike
<1>14. ManyLoaders'
  <2>1. ASSUME NEW d \in DatasetSet
        PROVE  /\ Staged(d)' <=> (Staged(d) \/ d = D)
               /\ Loaded(d)' <=> Loaded(d)
               /\ Unfinished(d) => Unfinished(d)'
    <3>1. \A j \in 1..Len(runs) : <<"stage", d>> \in runs'[j].did <=>
                                     (<<"stage", d>> \in runs[j].did \/ (j = i /\ d = D))
      BY <1>3, <1>9
    <3>2. \A j \in 1..Len(runs) : /\ <<"core", d>> \in runs'[j].did <=> <<"core", d>> \in runs[j].did
                                  /\ runs'[j].asked = runs[j].asked /\ runs'[j].status = runs[j].status
      BY <1>3, <1>9 DEF Alike
    <3> QED BY <3>1, <3>2, <1>2, <1>3 DEF Staged, Loaded, Unfinished
  <2>2. UNCHANGED <<csv, headless, crew, acquired, core>>
    BY <1>5 DEF acqVars, files
  <2> QED BY <2>1, <2>2, <1>5a, <1>d DEF LoadInv, ManyLoaders, Many
<1> QED BY <1>6, <1>8, <1>10, <1>11, <1>12, <1>13, <1>14, WorkingInv

LEMMA DeleteInv ==
  ASSUME LoadInv, NEW l \in Loaders, NEW i, i = Run(l), Delete(l), UNCHANGED acqVars
  PROVE  LoadInv'
<1>1. loader[l].at = "map" /\ Active(l) /\ LoadShape
  BY DEF Delete, Active, LoadInv
<1>2. /\ Len(runs) \in Nat /\ i \in 1..Len(runs) /\ runs[i] \in RunRecords /\ loader[l] \in LoaderRecords
      /\ OwnRun(l) /\ Lags(l)
  BY <1>1, AtWork
<1>3. PICK seen \in SUBSET Years :
        /\ seen = {y \in Years : core[Doing(l)][y] # 0} \/ loader[l].late
        /\ loader' = [loader EXCEPT ![l].at = "insert", ![l].seen = seen]
  BY DEF Delete
<1>4. /\ loader' \in [Loaders -> LoaderRecords]
      /\ loader'[l].at = "insert" /\ loader'[l].diary = loader[l].diary /\ loader'[l].run = i
      /\ loader'[l].todo = loader[l].todo /\ loader'[l].manifest = loader[l].manifest
      /\ loader'[l].late = loader[l].late /\ loader'[l].seen = seen
      /\ \A k \in Loaders : k # l => loader'[k] = loader[k]
  <2> DEFINE r == [[loader[l] EXCEPT !.at = "insert"] EXCEPT !.seen = seen]
  <2>1. r \in LoaderRecords
    BY <1>2 DEF LoaderRecords, Places
  <2>2. loader' = [loader EXCEPT ![l] = r]
    BY <1>1, <1>3 DEF LoadShape
  <2>3. /\ loader' \in [Loaders -> LoaderRecords] /\ loader'[l] = r
        /\ \A k \in Loaders : k # l => loader'[k] = loader[k]
    <3> HIDE DEF r
    <3> QED BY <1>1, <2>1, <2>2, LoaderFacts
  <2> QED BY <1>2, <2>3 DEF LoaderRecords, Run
<1>5. UNCHANGED <<staging, core, extra, runs, crew>>
  BY DEF Delete, tables
<1>6. Working(l)
  BY <1>1, <1>2, <1>4, <1>5 DEF Working, LoadShape, Run, SameButLate, Alike
<1>7. OwnRun(l)'
  BY <1>1, <1>2, <1>4, <1>5 DEF OwnRun, Run, Asked, Rewriting
<1>8. Lags(l)'
  <2>1. Doing(l)' = Doing(l)
    BY <1>4 DEF Doing
  <2>2. \A d \in DatasetSet : Past(l, d)' <=> Past(l, d)
    BY <1>4, <1>5 DEF Past, Asked, Run
  <2> QED BY <2>1, <2>2, <1>1, <1>2, <1>4, <1>5 DEF Lags, Run, Rewriting
<1>9. ASSUME runs[i].files # "moving" PROVE Still(l)'
  <2>1. Still(l)
    BY <1>1, <1>9 DEF LoadInv, FilesStill
  <2>2. UNCHANGED <<acq, manifest, raw, csv, intact>>
    BY DEF acqVars, files
  <2> QED BY <2>1, <2>2, <1>1, <1>4, <1>5 DEF Still, Run, Asked
<1>10. ASSUME LastAlone(i) PROVE Sees(l)' /\ AsLeft(i)'
  <2>1. ~loader[l].late /\ AsLeft(i)
    BY <1>1, <1>2, <1>10 DEF LoadInv, AloneIsAlone, Sees
  <2>2. Doing(l)' = Doing(l)
    BY <1>4 DEF Doing
  <2> QED BY <2>1, <2>2, <1>3, <1>4, <1>5 DEF Sees, AsLeft
<1>11. ASSUME LastAlone(i), runs[i].files # "moving" PROVE FromFiles(i)'
  <2>1. FromFiles(i)
    BY <1>2, <1>11 DEF LoadInv, AsRegistered
  <2> QED BY <2>1, <1>5 DEF FromFiles
<1>12. ManyLoaders'
  <2>1. UNCHANGED <<csv, headless, crew, acquired, staging, core>>
    BY <1>5 DEF acqVars, files
  <2> QED BY <2>1, <1>5, ManyQuiet DEF LoadInv
<1> QED BY <1>6, <1>7, <1>8, <1>9, <1>10, <1>11, <1>12, WorkingInv

LEMMA RewrittenFacts ==
  ASSUME NEW old \in Row, NEW new \in Row, NEW seen \in SUBSET Years
  PROVE  /\ Rewritten(old, new, seen) \in Row
         /\ seen = {y \in Years : old[y] # 0} => Rewritten(old, new, seen) = new
         /\ (\A y \in Years : new[y] # 0) => Rewritten(old, new, seen) = new
<1>1. Rewritten(old, new, seen) \in Row
  BY AcquisitionAssumption DEF Rewritten, Row
<1>2. ASSUME \A y \in Years : Rewritten(old, new, seen)[y] = new[y] PROVE Rewritten(old, new, seen) = new
  BY <1>1, <1>2 DEF Row
<1>3. ASSUME seen = {y \in Years : old[y] # 0} PROVE \A y \in Years : Rewritten(old, new, seen)[y] = new[y]
  BY <1>3 DEF Rewritten
<1>4. ASSUME \A y \in Years : new[y] # 0 PROVE \A y \in Years : Rewritten(old, new, seen)[y] = new[y]
  BY <1>4 DEF Rewritten
<1> QED BY <1>1, <1>2, <1>3, <1>4

\* While no acquisition moves, the CSVs are what the manifest vouches for.
LEMMA StillCsv ==
  ASSUME AcqInv, LoadInv, NEW l \in Loaders, Still(l), loader[l].at # "verify", NEW d \in Asked(l),
         Asked(l) \in SUBSET DatasetSet
  PROVE  /\ runs[Run(l)].files = "intact" => csv[d] = runs[Run(l)].registered[d]
         /\ \A y \in Years : runs[Run(l)].registered[d][y] # 0 => csv[d][y] \in {0, runs[Run(l)].registered[d][y]}
<1>1. /\ runs[Run(l)].registered = manifest
      /\ runs[Run(l)].files = "intact" => intact = TRUE
      /\ \A y \in Years : manifest[d][y] # 0 => raw[d][y] = manifest[d][y]
  BY DEF Still
<1>2. intact = TRUE => manifest[d] = csv[d]
  BY DEF AcqInv, Resting
<1>3. \A y \in Years : /\ csv[d][y] \in Nat /\ manifest[d][y] \in Nat /\ raw[d][y] \in Nat
                       /\ csv[d][y] <= raw[d][y]
                       /\ csv[d][y] # 0 => manifest[d][y] <= csv[d][y]
  BY DEF AcqInv, AcqShape, Ordered, Grid, Row
<1> QED BY <1>1, <1>2, <1>3

LEMMA InsertInv ==
  ASSUME LoadInv, AcqInv, NEW l \in Loaders, NEW i, i = Run(l), Insert(l), UNCHANGED acqVars
  PROVE  LoadInv'
<1>1. loader[l].at = "insert" /\ Active(l) /\ LoadShape
  BY DEF Insert, Active, LoadInv
<1>2. /\ Len(runs) \in Nat /\ i \in 1..Len(runs) /\ runs[i] \in RunRecords /\ loader[l] \in LoaderRecords
      /\ OwnRun(l) /\ Lags(l) /\ Asked(l) \in SUBSET DatasetSet
  BY <1>1, AtWork
<1>d. PICK D \in DatasetSet : D = Doing(l) /\ D \in loader[l].todo /\ D \in Asked(l)
  <2>1. loader[l].todo # {} /\ loader[l].todo \subseteq Asked(l) /\ loader[l].todo \in SUBSET DatasetSet
    BY <1>1, <1>2 DEF OwnRun, Rewriting, LoaderRecords
  <2> QED BY <2>1, FirstIn DEF Doing
<1> DEFINE line == {<<"core", D>>}
           row == Rewritten(core[D], staging[D], loader[l].seen)
<1>3. /\ runs' \in Seq(RunRecords) /\ Len(runs') = Len(runs)
      /\ \A j \in 1..Len(runs) : j # i => runs'[j] = runs[j]
      /\ Alike(runs'[i], runs[i]) /\ runs'[i].status = runs[i].status
      /\ runs'[i].registered = runs[i].registered
      /\ runs'[i].steps = runs[i].steps \cup loader[l].diary
      /\ runs'[i].did = runs[i].did \cup line
  <2>1. Commit(l, line) /\ line \in SUBSET Lines
    BY <1>d, LinesFacts DEF Insert
  <2> QED BY <1>1, <1>2, <2>1, CommitFacts
<1>4. /\ loader' \in [Loaders -> LoaderRecords]
      /\ loader'[l].at = "extras" /\ loader'[l].diary = line /\ loader'[l].run = i
      /\ loader'[l].todo = loader[l].todo /\ loader'[l].manifest = loader[l].manifest
      /\ loader'[l].late = FALSE
      /\ \A k \in Loaders : k # l => SameButLate(loader'[k], loader[k])
  <2> DEFINE r == [[[loader[l] EXCEPT !.at = "extras"] EXCEPT !.late = FALSE] EXCEPT !.diary = line]
             s(k) == [loader[k] EXCEPT !.late = @ \/ k \in Behind(D)]
  <2>1. line \in SUBSET Lines
    BY LinesFacts
  <2>2. [loader[l] EXCEPT !.at = "extras"] \in LoaderRecords
    BY <1>2 DEF LoaderRecords, Places
  <2>3. [[loader[l] EXCEPT !.at = "extras"] EXCEPT !.late = FALSE] \in LoaderRecords
    BY <2>2 DEF LoaderRecords
  <2>4. r \in LoaderRecords
    <3> HIDE DEF line
    <3> QED BY <2>1, <2>3 DEF LoaderRecords
  <2>5. loader' = [k \in Loaders |-> IF k = l THEN r ELSE s(k)]
    BY <1>d DEF Insert
  <2>6. ASSUME NEW k \in Loaders PROVE s(k) \in LoaderRecords /\ SameButLate(s(k), loader[k])
    <3>1. loader[k] \in LoaderRecords
      BY <1>1 DEF LoadShape
    <3>2. (loader[k].late \/ k \in Behind(D)) \in BOOLEAN
      OBVIOUS
    <3> QED BY <3>1, <3>2 DEF LoaderRecords, SameButLate
  <2>7. /\ r.at = "extras" /\ r.diary = line /\ r.run = i /\ r.todo = loader[l].todo
        /\ r.manifest = loader[l].manifest /\ r.late = FALSE
    BY <1>2 DEF LoaderRecords, Run
  <2> HIDE DEF r, s
  <2> QED BY <2>4, <2>5, <2>6, <2>7
<1>5. /\ core' = [core EXCEPT ![D] = row] /\ UNCHANGED <<staging, extra, crew>>
  BY <1>d DEF Insert
<1>5a. /\ core' \in Grid /\ core'[D] = row
       /\ \A d \in DatasetSet : d # D => core'[d] = core[d]
       /\ loader[l].seen = {y \in Years : core[D][y] # 0} => row = staging[D]
       /\ (\A y \in Years : staging[D][y] # 0) => row = staging[D]
  <2>1. core[D] \in Row /\ staging[D] \in Row /\ loader[l].seen \in SUBSET Years
    BY <1>1, <1>2 DEF LoadShape, Grid, LoaderRecords
  <2>2. /\ row \in Row
        /\ loader[l].seen = {y \in Years : core[D][y] # 0} => row = staging[D]
        /\ (\A y \in Years : staging[D][y] # 0) => row = staging[D]
    BY <2>1, RewrittenFacts
  <2> HIDE DEF row
  <2> QED BY <2>2, <1>1, <1>5 DEF LoadShape, Grid
<1> HIDE DEF row
<1>6. Working(l)
  BY <1>1, <1>2, <1>3, <1>4, <1>5, <1>5a DEF Working, LoadShape, Run
<1>8. OwnRun(l)'
  BY <1>1, <1>2, <1>3, <1>4 DEF OwnRun, Run, Asked, Alike, Rewriting
<1>9. \A d \in DatasetSet : /\ <<"core", d>> \in runs'[i].did <=> (<<"core", d>> \in runs[i].did \/ d = D)
                            /\ <<"stage", d>> \in runs'[i].did <=> <<"stage", d>> \in runs[i].did
                            /\ <<"extra", d>> \in runs'[i].did <=> <<"extra", d>> \in runs[i].did
  BY <1>3
<1>9a. <<"stage", D>> \in runs[i].did /\ <<"extra", D>> \notin runs[i].did
  BY <1>1, <1>2, <1>d DEF Lags, Past, Run, Rewriting
<1>10. Lags(l)'
  <2>1. runs'[i].did = runs'[i].steps \cup loader'[l].diary
    BY <1>2, <1>3, <1>4 DEF Lags, Run
  <2>2. Doing(l)' = D /\ Doing(l) = D
    BY <1>4, <1>d DEF Doing
  <2>3. \A d \in DatasetSet : Past(l, d)' <=> Past(l, d)
    BY <1>3, <1>4 DEF Past, Asked, Run, Alike
  <2> QED BY <2>1, <2>2, <2>3, <1>1, <1>2, <1>4, <1>9 DEF Lags, Run, Rewriting
<1>11. ASSUME runs[i].files # "moving" PROVE Still(l)'
  <2>1. Still(l)
    BY <1>1, <1>11 DEF LoadInv, FilesStill
  <2>2. UNCHANGED <<acq, manifest, raw, csv, intact>>
    BY DEF acqVars, files
  <2>3. \A d \in DatasetSet : <<"stage", d>> \in runs'[i].did => staging'[d] = csv[d]
    BY <2>1, <1>5, <1>9 DEF Still, Run
  <2>4. /\ loader[l].run = i /\ loader[l].at # "verify" /\ loader'[l].run = i
        /\ loader'[l].manifest = loader[l].manifest
    BY <1>1, <1>2, <1>4 DEF Run
  <2>5. runs'[i].asked = runs[i].asked /\ runs'[i].files = runs[i].files /\ runs'[i].registered = runs[i].registered
    BY <1>3 DEF Alike
  <2> QED BY ONLY <2>1, <2>2, <2>3, <2>4, <2>5, StillKept
<1>12. ASSUME LastAlone(i) PROVE row = staging[D] /\ Sees(l)' /\ AsLeft(i)'
  <2>1. Sees(l) /\ AsLeft(i)
    BY <1>1, <1>2, <1>12 DEF LoadInv, AloneIsAlone
  <2>2. row = staging[D]
    BY <2>1, <1>1, <1>5a, <1>d DEF Sees
  <2> QED BY <2>1, <2>2, <1>4, <1>5, <1>5a, <1>9, <1>9a DEF Sees, AsLeft
<1>13. ASSUME LastAlone(i), runs[i].files # "moving" PROVE FromFiles(i)'
  <2>1. FromFiles(i)
    BY <1>2, <1>13 DEF LoadInv, AsRegistered
  <2>2. Still(l)
    BY <1>1, <1>13 DEF LoadInv, FilesStill
  <2>3. core'[D] = csv[D]
    BY <2>2, <1>12, <1>13, <1>5a, <1>9a DEF Still, Run
  <2>4. /\ runs[i].files = "intact" => csv[D] = runs[i].registered[D]
        /\ \A y \in Years : runs[i].registered[D][y] # 0 => csv[D][y] \in {0, runs[i].registered[D][y]}
    BY <2>2, <1>1, <1>2, <1>d, StillCsv
  <2> QED BY <2>1, <2>3, <2>4, <1>3, <1>5a, <1>9 DEF FromFiles, Alike
<1>14. ManyLoaders'
  <2>1. ASSUME NEW d \in DatasetSet
        PROVE  /\ Staged(d)' <=> Staged(d)
               /\ Loaded(d)' <=> (Loaded(d) \/ d = D)
               /\ Unfinished(d) /\ d # D => Unfinished(d)'
    <3>1. \A j \in 1..Len(runs) : <<"core", d>> \in runs'[j].did <=>
                                     (<<"core", d>> \in runs[j].did \/ (j = i /\ d = D))
      BY <1>3, <1>9
    <3>2. \A j \in 1..Len(runs) : /\ <<"stage", d>> \in runs'[j].did <=> <<"stage", d>> \in runs[j].did
                                  /\ runs'[j].asked = runs[j].asked /\ runs'[j].status = runs[j].status
      BY <1>3, <1>9 DEF Alike
    <3> QED BY <3>1, <3>2, <1>2, <1>3 DEF Staged, Loaded, Unfinished
  <2>2. UNCHANGED <<csv, headless, crew, acquired, staging>>
    BY <1>5 DEF acqVars, files
  <2>3. Staged(D)
    BY <1>2, <1>9a DEF Staged
  <2>4. Many => core'[D] = csv[D]
    BY <2>3, <1>5a DEF LoadInv, ManyLoaders, FullFiles
  <2> QED BY <2>1, <2>2, <2>3, <2>4, <1>5a DEF LoadInv, ManyLoaders, Many
<1> QED BY <1>6, <1>8, <1>10, <1>11, <1>12, <1>13, <1>14, WorkingInv

\* The end of a dataset: with its extra tables, or without.
LEMMA DatasetDone ==
  ASSUME LoadShape, NEW l \in Loaders, NEW D \in DatasetSet, NEW line \in SUBSET Lines,
         loader' = [loader EXCEPT ![l].at = "stage", ![l].todo = @ \ {D}, ![l].diary = line]
  PROVE  /\ loader' \in [Loaders -> LoaderRecords]
         /\ loader'[l].at = "stage" /\ loader'[l].diary = line /\ loader'[l].run = loader[l].run
         /\ loader'[l].todo = loader[l].todo \ {D} /\ loader'[l].manifest = loader[l].manifest
         /\ loader'[l].late = loader[l].late
         /\ \A k \in Loaders : k # l => loader'[k] = loader[k]
<1> DEFINE todo == loader[l].todo \ {D}
           r == [[[loader[l] EXCEPT !.at = "stage"] EXCEPT !.todo = todo] EXCEPT !.diary = line]
<1>1. LoadShape /\ loader[l] \in LoaderRecords
  BY DEF LoadShape
<1>2. todo \in SUBSET DatasetSet
  BY <1>1 DEF LoaderRecords
<1>3. [loader[l] EXCEPT !.at = "stage"] \in LoaderRecords
  BY <1>1 DEF LoaderRecords, Places
<1>4. loader' = [loader EXCEPT ![l] = r]
  BY <1>1 DEF LoadShape
<1> HIDE DEF todo
<1>5. [[loader[l] EXCEPT !.at = "stage"] EXCEPT !.todo = todo] \in LoaderRecords
  BY <1>2, <1>3 DEF LoaderRecords
<1>6. r \in LoaderRecords
  BY <1>5 DEF LoaderRecords
<1>7. /\ r.at = "stage" /\ r.diary = line /\ r.run = loader[l].run /\ r.todo = todo
      /\ r.manifest = loader[l].manifest /\ r.late = loader[l].late
  BY <1>1 DEF LoaderRecords
<1> HIDE DEF r
<1>8. /\ loader' \in [Loaders -> LoaderRecords] /\ loader'[l] = r
      /\ \A k \in Loaders : k # l => loader'[k] = loader[k]
  BY <1>1, <1>4, <1>6, LoaderFacts
<1> QED BY <1>7, <1>8 DEF todo

LEMMA ExtrasInv ==
  ASSUME LoadInv, NEW l \in Loaders, NEW i, i = Run(l), Extras(l) \/ NoExtras(l), UNCHANGED acqVars
  PROVE  LoadInv'
<1>1. loader[l].at = "extras" /\ Active(l) /\ LoadShape
  BY DEF Extras, NoExtras, Active, LoadInv
<1>2. /\ Len(runs) \in Nat /\ i \in 1..Len(runs) /\ runs[i] \in RunRecords /\ loader[l] \in LoaderRecords
      /\ OwnRun(l) /\ Lags(l) /\ Asked(l) \in SUBSET DatasetSet
  BY <1>1, AtWork
<1>d. PICK D \in DatasetSet : D = Doing(l) /\ D \in loader[l].todo /\ D \in Asked(l)
  <2>1. loader[l].todo # {} /\ loader[l].todo \subseteq Asked(l) /\ loader[l].todo \in SUBSET DatasetSet
    BY <1>1, <1>2 DEF OwnRun, Rewriting, LoaderRecords
  <2> QED BY <2>1, FirstIn DEF Doing
\* What is common to both: the last line of the diary, the lines done, and the extra table.
<1>3. PICK line \in SUBSET Lines :
        /\ Len(runs') = Len(runs) /\ runs' \in Seq(RunRecords)
        /\ \A j \in 1..Len(runs) : j # i => runs'[j] = runs[j]
        /\ Alike(runs'[i], runs[i]) /\ runs'[i].status = runs[i].status
        /\ runs'[i].registered = runs[i].registered
        /\ runs'[i].did = runs'[i].steps \cup line
        /\ \A d \in DatasetSet :
             /\ <<"core", d>> \in runs'[i].did <=> <<"core", d>> \in runs[i].did
             /\ <<"stage", d>> \in runs'[i].did <=> <<"stage", d>> \in runs[i].did
             /\ <<"extra", d>> \in runs'[i].did <=>
                   (<<"extra", d>> \in runs[i].did \/ (d = D /\ D \in WithExtras))
        /\ loader' = [loader EXCEPT ![l].at = "stage", ![l].todo = @ \ {D}, ![l].diary = line]
        /\ UNCHANGED <<staging, core, crew>> /\ extra' \in Grid
        /\ \A d \in DatasetSet : extra'[d] = (IF d = D /\ D \in WithExtras THEN staging[D] ELSE extra[d])
  <2>0. runs[i].did = runs[i].steps \cup loader[l].diary
    BY <1>2 DEF Lags, Run
  <2>1. CASE Extras(l)
    <3> DEFINE line == {<<"extra", D>>}
    <3>1. Commit(l, line) /\ line \in SUBSET Lines /\ D \in WithExtras
      BY <1>d, <2>1, LinesFacts DEF Extras
    <3>2. /\ runs' \in Seq(RunRecords) /\ Len(runs') = Len(runs)
          /\ \A j \in 1..Len(runs) : j # i => runs'[j] = runs[j]
          /\ Alike(runs'[i], runs[i]) /\ runs'[i].status = runs[i].status
          /\ runs'[i].registered = runs[i].registered
          /\ runs'[i].steps = runs[i].steps \cup loader[l].diary
          /\ runs'[i].did = runs[i].did \cup line
      BY <1>1, <1>2, <3>1, CommitFacts
    <3>3. \A d \in DatasetSet :
             /\ <<"core", d>> \in runs'[i].did <=> <<"core", d>> \in runs[i].did
             /\ <<"stage", d>> \in runs'[i].did <=> <<"stage", d>> \in runs[i].did
             /\ <<"extra", d>> \in runs'[i].did <=>
                   (<<"extra", d>> \in runs[i].did \/ (d = D /\ D \in WithExtras))
      BY <3>1, <3>2
    <3>4. loader' = [loader EXCEPT ![l].at = "stage", ![l].todo = @ \ {D}, ![l].diary = line]
      BY <1>d, <2>1 DEF Extras
    <3>5. UNCHANGED <<staging, core, crew>> /\ extra' = [extra EXCEPT ![D] = staging[D]]
      BY <1>d, <2>1 DEF Extras
    <3>6. /\ extra' \in Grid
          /\ \A d \in DatasetSet : extra'[d] = (IF d = D /\ D \in WithExtras THEN staging[D] ELSE extra[d])
      BY <1>1, <3>1, <3>5 DEF LoadShape, Grid
    <3>7. runs'[i].did = runs'[i].steps \cup line
      BY <2>0, <3>2
    <3> HIDE DEF line
    <3> QED BY <3>1, <3>2, <3>3, <3>4, <3>5, <3>6, <3>7
  <2>2. CASE NoExtras(l)
    <3> DEFINE line == loader[l].diary
    <3>1. UNCHANGED <<staging, core, extra, runs, crew>> /\ D \notin WithExtras
      BY <1>d, <2>2 DEF NoExtras, tables
    <3>2. loader' = [loader EXCEPT ![l].at = "stage", ![l].todo = @ \ {D}, ![l].diary = line]
      <4>1. loader' = [loader EXCEPT ![l].at = "stage", ![l].todo = @ \ {D}]
        BY <1>d, <2>2 DEF NoExtras
      <4>2. [[[loader[l] EXCEPT !.at = "stage"] EXCEPT !.todo = @ \ {D}] EXCEPT !.diary = line]
              = [[loader[l] EXCEPT !.at = "stage"] EXCEPT !.todo = @ \ {D}]
        BY <1>2 DEF LoaderRecords
      <4> QED BY <4>1, <4>2, <1>1 DEF LoadShape
    <3>3. line \in SUBSET Lines
      BY <1>2 DEF LoaderRecords
    <3> HIDE DEF line
    <3> QED BY <1>1, <2>0, <3>1, <3>2, <3>3 DEF LoadShape, Alike, line
  <2> QED BY <2>1, <2>2
<1>4. /\ loader' \in [Loaders -> LoaderRecords]
      /\ loader'[l].at = "stage" /\ loader'[l].diary = line /\ loader'[l].run = i
      /\ loader'[l].todo = loader[l].todo \ {D} /\ loader'[l].manifest = loader[l].manifest
      /\ loader'[l].late = loader[l].late
      /\ \A k \in Loaders : k # l => loader'[k] = loader[k]
  <2>1. loader' = [loader EXCEPT ![l].at = "stage", ![l].todo = @ \ {D}, ![l].diary = line]
    BY <1>3
  <2>2. LoadShape /\ line \in SUBSET Lines /\ loader[l].run = i
    BY <1>1 DEF Run
  <2>3. /\ loader' \in [Loaders -> LoaderRecords]
        /\ loader'[l].at = "stage" /\ loader'[l].diary = line /\ loader'[l].run = loader[l].run
        /\ loader'[l].todo = loader[l].todo \ {D} /\ loader'[l].manifest = loader[l].manifest
        /\ loader'[l].late = loader[l].late
        /\ \A k \in Loaders : k # l => loader'[k] = loader[k]
    BY <2>1, <2>2, DatasetDone
  <2> QED BY <2>2, <2>3
<1>6. Working(l)
  BY <1>1, <1>2, <1>3, <1>4 DEF Working, LoadShape, Run, SameButLate
<1>8. OwnRun(l)'
  <2>1. runs'[i].status = "running" /\ runs'[i].asked = runs[i].asked
    BY <1>1, <1>2, <1>3 DEF OwnRun, Run, Alike
  <2>2. loader[l].todo \subseteq runs[i].asked
    BY <1>1, <1>2 DEF OwnRun, Run, Asked
  <2>3. loader'[l].at = "stage" /\ loader'[l].run = i /\ loader'[l].todo \subseteq loader[l].todo
    BY <1>4
  <2> QED BY ONLY <2>1, <2>2, <2>3 DEF OwnRun, Run, Asked, Rewriting
<1>10. Lags(l)'
  <2>1. runs'[i].did = runs'[i].steps \cup loader'[l].diary
    BY <1>3, <1>4
  <2>2. \A d \in DatasetSet : Past(l, d)' <=> (Past(l, d) \/ d = D)
    BY <1>3, <1>4, <1>d DEF Past, Asked, Run, Alike
  <2>3. \A d \in DatasetSet : /\ <<"stage", d>> \in runs[i].did <=> (Past(l, d) \/ d = D)
                              /\ <<"core", d>> \in runs[i].did <=> (Past(l, d) \/ d = D)
                              /\ <<"extra", d>> \in runs[i].did <=> (Past(l, d) /\ d \in WithExtras)
    BY <1>1, <1>2, <1>d DEF Lags, Run, Rewriting
  <2> QED BY <2>1, <2>2, <2>3, <1>3, <1>4 DEF Lags, Run, Rewriting
<1>11. ASSUME runs[i].files # "moving" PROVE Still(l)'
  <2>1. Still(l)
    BY <1>1, <1>11 DEF LoadInv, FilesStill
  <2>2. UNCHANGED <<acq, manifest, raw, csv, intact>>
    BY DEF acqVars, files
  <2>3. \A d \in DatasetSet : <<"stage", d>> \in runs'[i].did => staging'[d] = csv[d]
    BY <2>1, <1>3 DEF Still, Run
  <2>4. /\ loader[l].run = i /\ loader[l].at # "verify" /\ loader'[l].run = i
        /\ loader'[l].manifest = loader[l].manifest
    BY <1>1, <1>2, <1>4 DEF Run
  <2>5. runs'[i].asked = runs[i].asked /\ runs'[i].files = runs[i].files /\ runs'[i].registered = runs[i].registered
    BY <1>3 DEF Alike
  <2> QED BY ONLY <2>1, <2>2, <2>3, <2>4, <2>5, StillKept
<1>12. ASSUME LastAlone(i) PROVE Sees(l)' /\ AsLeft(i)'
  <2>1. ~loader[l].late /\ AsLeft(i)
    BY <1>1, <1>2, <1>12 DEF LoadInv, AloneIsAlone, Sees
  <2> QED BY <2>1, <1>3, <1>4 DEF Sees, AsLeft
<1>13. ASSUME LastAlone(i), runs[i].files # "moving" PROVE FromFiles(i)'
  <2>1. FromFiles(i)
    BY <1>2, <1>13 DEF LoadInv, AsRegistered
  <2>2. /\ runs'[i].files = runs[i].files /\ runs'[i].registered = runs[i].registered /\ core' = core
        /\ \A d \in DatasetSet : <<"core", d>> \in runs'[i].did <=> <<"core", d>> \in runs[i].did
    BY <1>3 DEF Alike
  <2> QED BY <2>1, <2>2 DEF FromFiles
<1>14. ManyLoaders'
  <2>1. ASSUME NEW j \in 1..Len(runs)
        PROVE  /\ runs'[j].asked = runs[j].asked /\ runs'[j].status = runs[j].status
               /\ \A d \in DatasetSet : /\ <<"stage", d>> \in runs'[j].did <=> <<"stage", d>> \in runs[j].did
                                        /\ <<"core", d>> \in runs'[j].did <=> <<"core", d>> \in runs[j].did
    <3>1. CASE j = i
      BY <3>1, <1>3 DEF Alike
    <3>2. CASE j # i
      BY <3>2, <1>3
    <3> QED BY <3>1, <3>2
  <2>2. UNCHANGED <<csv, headless, crew, acquired, staging, core>>
    BY <1>3 DEF acqVars, files
  <2> QED BY <2>1, <2>2, <1>3, ManyQuiet DEF LoadInv
<1> QED BY <1>6, <1>8, <1>10, <1>11, <1>12, <1>13, <1>14, WorkingInv

-----------------------------------------------------------------------------
(* The end of a loader, its beginning, and the steps of an acquisition.    *)

LEMMA AsleepTyped == Asleep \in LoaderRecords
  BY NothingTyped DEF Asleep, LoaderRecords, Places

LEMMA EndInv ==
  ASSUME LoadInv, NEW l \in Loaders, NEW i, i = Run(l), Close(l) \/ Break(l) \/ KillLoader(l),
         UNCHANGED acqVars
  PROVE  LoadInv'
<1>1. /\ Active(l) /\ LoadShape
      /\ loader' = [loader EXCEPT ![l] = Asleep] /\ UNCHANGED <<staging, core, extra, crew>>
  BY DEF Close, Break, KillLoader, Active, LoadInv, tables
<1>2. /\ Len(runs) \in Nat /\ i \in 1..Len(runs) /\ runs[i] \in RunRecords /\ loader[l] \in LoaderRecords
      /\ OwnRun(l) /\ Lags(l)
      /\ \A k \in Loaders : Active(k) /\ k # l => Run(k) # i
  BY <1>1, AtWork
<1>3. /\ Len(runs') = Len(runs) /\ runs' \in Seq(RunRecords)
      /\ \A j \in 1..Len(runs) : j # i => runs'[j] = runs[j]
      /\ Alike(runs'[i], runs[i])
      /\ runs'[i].did = runs[i].did /\ runs'[i].registered = runs[i].registered
      /\ runs'[i].steps \subseteq runs'[i].did
      /\ runs'[i].status = "succeeded" =>
            /\ runs'[i].steps = runs'[i].did
            /\ \A d \in runs[i].asked : /\ <<"core", d>> \in runs[i].did
                                        /\ d \in WithExtras => <<"extra", d>> \in runs[i].did
  <2>0. runs[i].did = runs[i].steps \cup loader[l].diary /\ loader[l].diary \in SUBSET Lines
    BY <1>2 DEF Lags, Run, LoaderRecords
  <2>1. CASE Close(l)
    <3>1. Closed(l, "succeeded", loader[l].diary) /\ loader[l].todo = {}
      BY <2>1 DEF Close
    <3>2. \A d \in runs[i].asked : d \in DatasetSet
      BY <1>2 DEF RunRecords
    <3>3. \A d \in runs[i].asked : /\ <<"core", d>> \in runs[i].did
                                   /\ d \in WithExtras => <<"extra", d>> \in runs[i].did
      BY <1>2, <3>1, <3>2 DEF Lags, Past, Run, Asked
    <3>4. /\ runs' \in Seq(RunRecords) /\ Len(runs') = Len(runs)
          /\ \A j \in 1..Len(runs) : j # i => runs'[j] = runs[j]
          /\ Alike(runs'[i], runs[i])
          /\ runs'[i].registered = runs[i].registered
          /\ runs'[i].steps = runs[i].steps \cup loader[l].diary
          /\ runs'[i].did = runs[i].did
      BY <1>1, <1>2, <2>0, <3>1, ClosedFacts
    <3> QED BY <2>0, <3>3, <3>4
  <2>2. CASE Break(l)
    <3>1. Closed(l, "failed", {}) /\ {} \in SUBSET Lines
      BY <2>2 DEF Break
    <3>2. /\ runs' \in Seq(RunRecords) /\ Len(runs') = Len(runs)
          /\ \A j \in 1..Len(runs) : j # i => runs'[j] = runs[j]
          /\ Alike(runs'[i], runs[i]) /\ runs'[i].status = "failed"
          /\ runs'[i].registered = runs[i].registered
          /\ runs'[i].steps = runs[i].steps \cup {}
          /\ runs'[i].did = runs[i].did
      BY <1>1, <1>2, <3>1, ClosedFacts
    <3> QED BY <2>0, <3>2
  <2>3. CASE KillLoader(l)
    <3>1. runs' = runs
      BY <2>3 DEF KillLoader
    <3>2. runs[i].status = "running"
      BY <1>2 DEF OwnRun, Run
    <3> QED BY <2>0, <3>1, <3>2, <1>1, <1>2 DEF LoadShape, Alike
  <2> QED BY <2>1, <2>2, <2>3
<1>4. /\ loader' \in [Loaders -> LoaderRecords] /\ loader'[l].at = "idle" /\ loader'[l].run = 0
      /\ \A k \in Loaders : k # l => loader'[k] = loader[k]
  <2>1. /\ loader' \in [Loaders -> LoaderRecords] /\ loader'[l] = Asleep
        /\ \A k \in Loaders : k # l => loader'[k] = loader[k]
    BY <1>1, AsleepTyped, LoaderFacts
  <2> QED BY <2>1 DEF Asleep
<1>5. ASSUME NEW k \in Loaders, Active(k)'
      PROVE  k # l /\ Active(k) /\ loader'[k] = loader[k] /\ runs'[loader[k].run] = runs[loader[k].run]
             /\ loader[k].run \in 1..Len(runs)
  <2>1. k # l /\ loader'[k] = loader[k] /\ Active(k)
    BY <1>4, <1>5 DEF Active
  <2>2. Run(k) \in 1..Len(runs) /\ Run(k) # i
    BY <2>1, <1>2, AtWork
  <2> QED BY <2>1, <2>2, <1>3 DEF Run
<1>6. LoadShape'
  BY <1>1, <1>3, <1>4 DEF LoadShape
<1>7. OneRunEach'
  <2>1. ASSUME NEW k \in Loaders
        PROVE  /\ loader'[k].at # "idle" <=> loader'[k].run # 0
               /\ loader'[k].run \in 0..Len(runs)
    BY <1>2, <1>4 DEF LoadInv, OneRunEach, Active
  <2>2. ASSUME NEW k \in Loaders, Active(k)' PROVE OwnRun(k)'
    BY <2>2, <1>5 DEF LoadInv, OneRunEach, OwnRun, Asked, Run
  <2>3. ASSUME NEW k \in Loaders, NEW m \in Loaders, Active(k)', Active(m)', k # m
        PROVE  loader'[k].run # loader'[m].run
    BY <2>3, <1>5 DEF LoadInv, OneRunEach, Run
  <2> QED BY <2>1, <2>2, <2>3, <1>3 DEF OneRunEach, Active, Run
<1>8. DiaryInv'
  <2>1. ASSUME NEW k \in Loaders, Active(k)' PROVE Lags(k)'
    <3>1. Lags(k)
      BY <2>1, <1>5 DEF LoadInv, DiaryInv, DiaryLags
    <3> QED BY <3>1, <2>1, <1>5 DEF Lags, Past, Asked, Run, Doing
  <2>2. DOMAIN runs = 1..Len(runs) /\ DOMAIN runs' = 1..Len(runs)
    BY <1>1, <1>3 DEF LoadShape
  <2>3. DiaryIsTrue'
    BY <2>2, <1>3 DEF LoadInv, DiaryInv, DiaryIsTrue
  <2>4. DidAll'
    BY <1>3 DEF LoadInv, DiaryInv, DidAll, Alike
  <2> QED BY <2>1, <2>3, <2>4 DEF DiaryInv, DiaryLags
<1>9. AloneIsAlone'
  <2>1. ASSUME NEW j \in 1..Len(runs), LastAlone(j)'
        PROVE  AsLeft(j)' /\ \A k \in Loaders : Active(k)' => Run(k)' = j /\ Sees(k)'
    <3>1. LastAlone(j)
      BY <2>1, <1>3 DEF LastAlone, Alike
    <3>2. AsLeft(j) /\ \A k \in Loaders : Active(k) => Run(k) = j /\ Sees(k)
      BY <3>1 DEF LoadInv, AloneIsAlone
    <3>3. AsLeft(j)'
      BY <3>2, <1>1, <1>3 DEF AsLeft
    <3> QED BY <3>2, <3>3, <1>1, <1>5 DEF Run, Sees, Doing
  <2> QED BY <2>1, <1>3 DEF AloneIsAlone
<1>10. FilesStill'
  <2>1. ASSUME NEW k \in Loaders, Active(k)', runs'[loader'[k].run].files # "moving" PROVE Still(k)'
    <3>1. Still(k)
      BY <2>1, <1>5 DEF LoadInv, FilesStill, Run
    <3>2. UNCHANGED <<acq, manifest, raw, csv, intact>>
      BY DEF acqVars, files
    <3> QED BY <2>1, <3>1, <3>2, <1>1, <1>5 DEF Still, Asked, Run
  <2> QED BY <2>1 DEF FilesStill, Run
<1>11. AsRegistered'
  <2>1. ASSUME NEW j \in 1..Len(runs), LastAlone(j)', runs'[j].files # "moving" PROVE FromFiles(j)'
    <3>1. LastAlone(j) /\ runs[j].files # "moving"
      BY <2>1, <1>3 DEF LastAlone, Alike
    <3>2. FromFiles(j)
      BY <3>1 DEF LoadInv, AsRegistered
    <3> QED BY <3>2, <1>1, <1>3 DEF FromFiles, Alike
  <2> QED BY <2>1, <1>3 DEF AsRegistered
<1>12. FullFiles'
  BY <1>1 DEF LoadInv, FullFiles, acqVars, files, Many
<1>13. ManyLoaders'
  <2>1. ASSUME NEW j \in 1..Len(runs)
        PROVE  /\ runs'[j].asked = runs[j].asked
               /\ runs'[j].status = "succeeded" =>
                     \/ runs[j].status = "succeeded"
                     \/ \A d \in runs[j].asked : <<"core", d>> \in runs[j].did
               /\ runs'[j].did = runs[j].did
    <3>1. CASE j = i
      BY <3>1, <1>3 DEF Alike
    <3>2. CASE j # i
      BY <3>2, <1>3
    <3> QED BY <3>1, <3>2
  <2>2. UNCHANGED <<csv, headless, crew, acquired, staging, core>>
    BY <1>1 DEF acqVars, files
  <2> QED BY <2>1, <2>2, <1>3, ManyQuiet DEF LoadInv
<1>14. FirstAlone'
  BY <1>3 DEF LoadInv, FirstAlone, Alike
<1> QED BY <1>6, <1>7, <1>8, <1>9, <1>10, <1>11, <1>12, <1>13, <1>14 DEF LoadInv

LEMMA OpenFacts ==
  ASSUME LoadShape, manifest \in Grid, NEW l \in Loaders, NEW asked \in SUBSET DatasetSet, Open(l, asked),
         NEW m, m = Len(runs) + 1
  PROVE  /\ runs' \in Seq(RunRecords) /\ Len(runs) \in Nat /\ Len(runs') = m
         /\ \A j \in 1..Len(runs) :
              /\ runs'[j].status = runs[j].status /\ runs'[j].asked = runs[j].asked
              /\ runs'[j].registered = runs[j].registered /\ runs'[j].steps = runs[j].steps
              /\ runs'[j].did = runs[j].did /\ runs'[j].files = runs[j].files
         /\ runs'[m].status = "running" /\ runs'[m].asked = asked /\ runs'[m].registered = Blank
         /\ runs'[m].steps = {} /\ runs'[m].did = {}
         /\ runs'[m].alone = (\A k \in Loaders : k # l => loader[k].run = 0)
         /\ runs'[m].files = "intact" => intact
         /\ runs'[m].files # "moving" => intact \/ acq.at = "idle"
         /\ loader' \in [Loaders -> LoaderRecords]
         /\ loader'[l].at = "verify" /\ loader'[l].run = m /\ loader'[l].todo = asked
         /\ loader'[l].manifest = manifest /\ loader'[l].late = FALSE /\ loader'[l].diary = {}
         /\ \A k \in Loaders : k # l => loader'[k] = loader[k]
<1> DEFINE others == {loader[k].run : k \in Loaders \ {l}}
           old == [j \in 1..Len(runs) |-> IF j \in others THEN [runs[j] EXCEPT !.alone = FALSE]
                                          ELSE runs[j]]
           new == [status |-> "running", asked |-> asked, registered |-> Blank,
                   steps |-> {}, did |-> {}, alone |-> others \subseteq {0},
                   files |-> IF intact THEN "intact"
                             ELSE IF acq.at = "idle" THEN "broken" ELSE "moving"]
           r == [Asleep EXCEPT !.at = "verify", !.run = m, !.todo = asked, !.manifest = manifest]
<1>1. Len(runs) \in Nat /\ DOMAIN runs = 1..Len(runs) /\ \A j \in 1..Len(runs) : runs[j] \in RunRecords
  BY DEF LoadShape
<1>2. runs' = Append(old, new) /\ loader' = [loader EXCEPT ![l] = r]
  BY <1>1 DEF Open
<1>3. old \in Seq(RunRecords) /\ Len(old) = Len(runs)
  <2>1. ASSUME NEW j \in 1..Len(runs) PROVE old[j] \in RunRecords
    <3>1. [runs[j] EXCEPT !.alone = FALSE] \in RunRecords
      BY <1>1 DEF RunRecords
    <3> QED BY <1>1, <3>1
  <2> HIDE DEF others
  <2> QED BY <1>1, <2>1
<1>4. new \in RunRecords
  <2>1. (others \subseteq {0}) \in BOOLEAN
    OBVIOUS
  <2> HIDE DEF others
  <2> QED BY <2>1, NothingTyped DEF RunRecords
<1>5. r \in LoaderRecords
  <2>1. m \in Nat
    BY <1>1
  <2>2. [Asleep EXCEPT !.at = "verify"] \in LoaderRecords
    BY AsleepTyped DEF LoaderRecords, Places
  <2>3. [[Asleep EXCEPT !.at = "verify"] EXCEPT !.run = m] \in LoaderRecords
    BY <2>1, <2>2 DEF LoaderRecords
  <2>4. [[[Asleep EXCEPT !.at = "verify"] EXCEPT !.run = m] EXCEPT !.todo = asked] \in LoaderRecords
    BY <2>3 DEF LoaderRecords
  <2> QED BY <2>4 DEF LoaderRecords
<1>6. /\ r.at = "verify" /\ r.run = m /\ r.todo = asked /\ r.manifest = manifest
      /\ r.late = FALSE /\ r.diary = {}
  BY DEF Asleep
<1>7. ASSUME NEW j \in 1..Len(runs)
      PROVE  /\ old[j].status = runs[j].status /\ old[j].asked = runs[j].asked
             /\ old[j].registered = runs[j].registered /\ old[j].steps = runs[j].steps
             /\ old[j].did = runs[j].did /\ old[j].files = runs[j].files
  <2>1. runs[j] \in RunRecords
    BY <1>1
  <2> HIDE DEF others
  <2> QED BY <2>1 DEF RunRecords
<1>8. /\ new.status = "running" /\ new.asked = asked /\ new.registered = Blank
      /\ new.steps = {} /\ new.did = {}
      /\ new.files = "intact" => intact
      /\ new.files # "moving" => intact \/ acq.at = "idle"
  <2> HIDE DEF others
  <2> QED OBVIOUS
<1>9. new.alone = (\A k \in Loaders : k # l => loader[k].run = 0)
  <2>1. new.alone = (others \subseteq {0})
    <3> HIDE DEF others
    <3> QED OBVIOUS
  <2>2. (others \subseteq {0}) = (\A k \in Loaders : k # l => loader[k].run = 0)
    OBVIOUS
  <2> QED BY <2>1, <2>2
<1> HIDE DEF old, new, r, others
<1>10. /\ runs' \in Seq(RunRecords) /\ Len(runs') = m /\ runs'[m] = new
       /\ \A j \in 1..Len(runs) : runs'[j] = old[j]
  BY <1>1, <1>2, <1>3, <1>4
<1>11. /\ loader' \in [Loaders -> LoaderRecords] /\ loader'[l] = r
       /\ \A k \in Loaders : k # l => loader'[k] = loader[k]
  BY <1>2, <1>5, LoaderFacts
<1>12. runs'[m].alone = (\A k \in Loaders : k # l => loader[k].run = 0)
  BY <1>9, <1>10
<1>13. \A j \in 1..Len(runs) :
          /\ runs'[j].status = runs[j].status /\ runs'[j].asked = runs[j].asked
          /\ runs'[j].registered = runs[j].registered /\ runs'[j].steps = runs[j].steps
          /\ runs'[j].did = runs[j].did /\ runs'[j].files = runs[j].files
  BY <1>7, <1>10
<1>14. /\ loader'[l].at = "verify" /\ loader'[l].run = m /\ loader'[l].todo = asked
       /\ loader'[l].manifest = manifest /\ loader'[l].late = FALSE /\ loader'[l].diary = {}
  BY <1>6, <1>11
<1> QED BY <1>1, <1>8, <1>10, <1>11, <1>12, <1>13, <1>14

LEMMA CrewFacts == crew \in SUBSET Loaders => IsFiniteSet(crew) /\ Cardinality(crew) \in Nat
  BY LoaderAssumption, FS_Subset, FS_CardinalityType

LEMMA OpenInv ==
  ASSUME AcqInv, LoadInv, NEW l \in Loaders, NEW asked \in SUBSET DatasetSet, Open(l, asked),
         UNCHANGED acqVars
  PROVE  LoadInv'
<1> DEFINE m == Len(runs) + 1
<1>1. LoadShape /\ manifest \in Grid /\ loader[l].at = "idle" /\ ~Active(l) /\ UNCHANGED <<staging, core, extra, crew>>
  BY DEF LoadInv, AcqInv, AcqShape, Open, Active, tables
<1>2. /\ runs' \in Seq(RunRecords) /\ Len(runs) \in Nat /\ Len(runs') = m
      /\ \A j \in 1..Len(runs) :
           /\ runs'[j].status = runs[j].status /\ runs'[j].asked = runs[j].asked
           /\ runs'[j].registered = runs[j].registered /\ runs'[j].steps = runs[j].steps
           /\ runs'[j].did = runs[j].did /\ runs'[j].files = runs[j].files
      /\ runs'[m].status = "running" /\ runs'[m].asked = asked /\ runs'[m].registered = Blank
      /\ runs'[m].steps = {} /\ runs'[m].did = {}
      /\ runs'[m].alone = (\A k \in Loaders : k # l => loader[k].run = 0)
      /\ runs'[m].files = "intact" => intact
      /\ runs'[m].files # "moving" => intact \/ acq.at = "idle"
      /\ loader' \in [Loaders -> LoaderRecords]
      /\ loader'[l].at = "verify" /\ loader'[l].run = m /\ loader'[l].todo = asked
      /\ loader'[l].manifest = manifest /\ loader'[l].late = FALSE /\ loader'[l].diary = {}
      /\ \A k \in Loaders : k # l => loader'[k] = loader[k]
  BY <1>1, OpenFacts
<1>m. m \in Nat /\ m \notin 1..Len(runs) /\ \A j \in 1..Len(runs') : j \in 1..Len(runs) \/ j = m
  BY <1>2
<1> HIDE DEF m
<1>3. ASSUME NEW k \in Loaders, Active(k)', k # l
      PROVE  Active(k) /\ loader'[k] = loader[k] /\ Run(k) \in 1..Len(runs) /\ loader[k].run = Run(k)
  <2>1. Active(k) /\ loader'[k] = loader[k]
    BY <1>2, <1>3 DEF Active
  <2> QED BY <2>1, AtWork DEF Run
<1>4. LoadShape'
  <2>1. Len(runs') <= Cardinality(crew)
    <3>1. Len(runs) < Cardinality(crew) /\ crew' = crew /\ Len(runs') = Len(runs) + 1
      BY <1>2 DEF Open, m
    <3>2. Len(runs) \in Nat /\ Cardinality(crew) \in Nat
      BY <1>1, CrewFacts DEF LoadShape
    <3> QED BY ONLY <3>1, <3>2
  <2> QED BY <2>1, <1>1, <1>2 DEF LoadShape
<1>5. OneRunEach'
  <2>1. ASSUME NEW k \in Loaders
        PROVE  /\ loader'[k].at # "idle" <=> loader'[k].run # 0
               /\ loader'[k].run \in 0..Len(runs')
    <3>1. CASE k = l
      BY <3>1, <1>2, <1>m DEF m
    <3>2. CASE k # l
      <4>1. loader'[k] = loader[k] /\ loader[k].run \in 0..Len(runs) /\ (Active(k) <=> loader[k].run # 0)
        BY <3>2, <1>2 DEF LoadInv, OneRunEach
      <4> QED BY <4>1, <1>2 DEF Active, m
    <3> QED BY <3>1, <3>2
  <2>2. ASSUME NEW k \in Loaders, Active(k)' PROVE OwnRun(k)'
    <3>1. CASE k = l
      BY <3>1, <1>2 DEF OwnRun, Run, Asked, Rewriting
    <3>2. CASE k # l
      BY <3>2, <2>2, <1>2, <1>3 DEF LoadInv, OneRunEach, OwnRun, Asked, Run
    <3> QED BY <3>1, <3>2
  <2>3. ASSUME NEW k \in Loaders, NEW n \in Loaders, Active(k)', Active(n)', k # n
        PROVE  loader'[k].run # loader'[n].run
    <3>1. CASE k # l /\ n # l
      BY <3>1, <2>3, <1>3 DEF LoadInv, OneRunEach, Run
    <3>2. CASE k = l \/ n = l
      BY <3>2, <2>3, <1>2, <1>3, <1>m
    <3> QED BY <3>1, <3>2
  <2> QED BY <2>1, <2>2, <2>3 DEF OneRunEach, Active, Run
<1>6. DiaryInv'
  <2>1. ASSUME NEW k \in Loaders, Active(k)' PROVE Lags(k)'
    <3>1. CASE k = l
      BY <3>1, <1>2 DEF Lags, Past, Run, Asked, Rewriting
    <3>2. CASE k # l
      <4>1. Lags(k)
        BY <3>2, <2>1, <1>3 DEF LoadInv, DiaryInv, DiaryLags
      <4> QED BY <3>2, <4>1, <2>1, <1>2, <1>3 DEF Lags, Past, Asked, Run, Doing
    <3> QED BY <3>1, <3>2
  <2>2. DOMAIN runs = 1..Len(runs) /\ DOMAIN runs' = 1..Len(runs')
    BY <1>1, <1>2 DEF LoadShape
  <2>3. DiaryIsTrue'
    BY <2>2, <1>2, <1>m DEF LoadInv, DiaryInv, DiaryIsTrue
  <2>4. DidAll'
    BY <1>2, <1>m DEF LoadInv, DiaryInv, DidAll
  <2> QED BY <2>1, <2>3, <2>4 DEF DiaryInv, DiaryLags
<1>7. ASSUME NEW j \in 1..Len(runs'), LastAlone(j)'
      PROVE  j = m /\ \A k \in Loaders : k # l => ~Active(k)
  <2>1. j = m /\ runs'[m].alone
    BY <1>7, <1>2 DEF LastAlone
  <2> QED BY <2>1, <1>2 DEF LoadInv, OneRunEach
<1>8. AloneIsAlone'
  <2>1. ASSUME NEW j \in 1..Len(runs'), LastAlone(j)'
        PROVE  AsLeft(j)' /\ \A k \in Loaders : Active(k)' => Run(k)' = j /\ Sees(k)'
    <3>1. j = m /\ AsLeft(j)'
      BY <2>1, <1>2, <1>7 DEF AsLeft
    <3>2. \A k \in Loaders : Active(k)' => k = l
      BY <2>1, <1>3, <1>7
    <3> QED BY <3>1, <3>2, <1>2 DEF Run, Sees
  <2> QED BY <2>1 DEF AloneIsAlone
<1>9. FilesStill'
  <2>1. ASSUME NEW k \in Loaders, Active(k)', runs'[loader'[k].run].files # "moving" PROVE Still(k)'
    <3>0. UNCHANGED <<acq, manifest, raw, csv, intact>>
      BY DEF acqVars, files
    <3>1. CASE k = l
      <4>1. acq.at = "idle" /\ (runs'[m].files = "intact" => intact = TRUE)
        BY <3>1, <2>1, <1>2 DEF AcqInv, Resting, AcqShape
      <4> QED BY <3>0, <3>1, <4>1, <1>2 DEF Still, Run
    <3>2. CASE k # l
      <4>1. Still(k)
        BY <3>2, <2>1, <1>2, <1>3 DEF LoadInv, FilesStill
      <4> QED BY <4>1, <3>0, <3>2, <2>1, <1>1, <1>2, <1>3 DEF Still, Asked, Run
    <3> QED BY <3>1, <3>2
  <2> QED BY <2>1 DEF FilesStill, Run
<1>10. AsRegistered'
  <2>1. ASSUME NEW j \in 1..Len(runs'), LastAlone(j)' PROVE FromFiles(j)'
    BY <2>1, <1>2, <1>7 DEF FromFiles
  <2> QED BY <2>1 DEF AsRegistered
<1>11. FullFiles'
  BY <1>1 DEF LoadInv, FullFiles, acqVars, files, Many
<1>12. ManyLoaders'
  <2>1. UNCHANGED <<csv, headless, crew, acquired, staging, core>>
    BY <1>1 DEF acqVars, files
  <2>2. ASSUME NEW d \in DatasetSet
        PROVE  /\ Staged(d)' <=> Staged(d)
               /\ Loaded(d)' <=> Loaded(d)
               /\ Unfinished(d) => Unfinished(d)'
    <3>1. 1..Len(runs) \subseteq 1..Len(runs')
      BY <1>2 DEF m
    <3>2. Staged(d)' <=> Staged(d)
      BY <3>1, <1>2, <1>m DEF Staged
    <3>3. Loaded(d)' <=> Loaded(d)
      BY <3>1, <1>2, <1>m DEF Loaded
    <3>4. Unfinished(d) => Unfinished(d)'
      BY <3>1, <1>2 DEF Unfinished
    <3> QED BY <3>2, <3>3, <3>4
  <2> QED BY <2>1, <2>2 DEF LoadInv, ManyLoaders, Many
<1>13. FirstAlone'
  <2>1. ASSUME Len(runs') = 1 PROVE runs'[1].alone
    <3>1. Len(runs) = 0 /\ m = 1
      BY <2>1, <1>2 DEF m
    <3>2. \A k \in Loaders : loader[k].run = 0
      <4>1. \A k \in Loaders : loader[k].run \in 0..Len(runs)
        BY DEF LoadInv, OneRunEach
      <4> QED BY <3>1, <4>1
    <3> QED BY <3>1, <3>2, <1>2
  <2> QED BY <2>1 DEF FirstAlone
<1> QED BY <1>4, <1>5, <1>6, <1>8, <1>9, <1>10, <1>11, <1>12, <1>13 DEF LoadInv

LEMMA AcquireInv ==
  ASSUME LoadInv, ~Many', runs' = Disturbed, UNCHANGED <<tables, loader, crew, loaderKills>>
  PROVE  LoadInv'
<1>1. UNCHANGED <<staging, core, extra, loader, crew>> /\ LoadShape
  BY DEF tables, LoadInv
<1>2. /\ runs' \in Seq(RunRecords) /\ Len(runs') = Len(runs)
      /\ \A j \in 1..Len(runs) :
           /\ runs'[j].status = runs[j].status /\ runs'[j].asked = runs[j].asked
           /\ runs'[j].registered = runs[j].registered /\ runs'[j].steps = runs[j].steps
           /\ runs'[j].did = runs[j].did /\ runs'[j].alone = runs[j].alone
           /\ runs[j].status # "running" => runs'[j].files = runs[j].files
           /\ runs[j].status = "running" => runs'[j].files = "moving"
  BY <1>1, DisturbedFacts
<1>3. ASSUME NEW k \in Loaders, Active(k)'
      PROVE  Active(k) /\ Run(k) \in 1..Len(runs) /\ runs[Run(k)].status = "running"
  <2>1. Active(k)
    BY <1>1, <1>3 DEF Active
  <2> QED BY <2>1, AtWork DEF OwnRun
<1>4. LoadShape'
  BY <1>1, <1>2 DEF LoadShape
<1>5. OneRunEach'
  <2>1. ASSUME NEW k \in Loaders, Active(k)' PROVE OwnRun(k)'
    BY <2>1, <1>1, <1>2, <1>3 DEF LoadInv, OneRunEach, OwnRun, Asked, Run
  <2> QED BY <2>1, <1>1, <1>2 DEF LoadInv, OneRunEach, Active, Run
<1>6. DiaryInv'
  <2>1. ASSUME NEW k \in Loaders, Active(k)' PROVE Lags(k)'
    <3>1. Lags(k)
      BY <2>1, <1>3 DEF LoadInv, DiaryInv, DiaryLags
    <3> QED BY <3>1, <2>1, <1>1, <1>2, <1>3 DEF Lags, Past, Asked, Run, Doing
  <2>2. DOMAIN runs = 1..Len(runs) /\ DOMAIN runs' = 1..Len(runs)
    BY <1>1, <1>2 DEF LoadShape
  <2>3. DiaryIsTrue'
    BY <2>2, <1>2 DEF LoadInv, DiaryInv, DiaryIsTrue
  <2>4. DidAll'
    <3>1. DidAll
      BY DEF LoadInv, DiaryInv
    <3>2. ASSUME NEW j \in 1..Len(runs), runs'[j].status = "succeeded"
          PROVE  \A d \in runs'[j].asked : /\ <<"core", d>> \in runs'[j].did
                                           /\ d \in WithExtras => <<"extra", d>> \in runs'[j].did
      <4>1. runs'[j].asked = runs[j].asked /\ runs'[j].did = runs[j].did /\ runs[j].status = "succeeded"
        BY ONLY <1>2, <3>2
      <4> QED BY ONLY <3>1, <4>1 DEF DidAll
    <3>3. Len(runs') = Len(runs)
      BY <1>2
    <3> QED BY ONLY <3>2, <3>3 DEF DidAll
  <2> QED BY <2>1, <2>3, <2>4 DEF DiaryInv, DiaryLags
<1>7. AloneIsAlone'
  <2>1. ASSUME NEW j \in 1..Len(runs), LastAlone(j)'
        PROVE  AsLeft(j)' /\ \A k \in Loaders : Active(k)' => Run(k)' = j /\ Sees(k)'
    <3>1. LastAlone(j)
      BY <2>1, <1>2 DEF LastAlone
    <3>2. AsLeft(j) /\ \A k \in Loaders : Active(k) => Run(k) = j /\ Sees(k)
      BY <3>1 DEF LoadInv, AloneIsAlone
    <3>3. AsLeft(j)'
      BY <3>2, <1>1, <1>2 DEF AsLeft
    <3> QED BY <3>2, <3>3, <1>1, <1>3 DEF Run, Sees, Doing
  <2> QED BY <2>1, <1>2 DEF AloneIsAlone
<1>8. FilesStill'
  BY <1>1, <1>2, <1>3 DEF FilesStill, Run
<1>9. AsRegistered'
  <2>1. ASSUME NEW j \in 1..Len(runs), LastAlone(j)', runs'[j].files # "moving" PROVE FromFiles(j)'
    <3>1. LastAlone(j) /\ runs[j].files # "moving" /\ runs'[j].files = runs[j].files
      BY <2>1, <1>2 DEF LastAlone
    <3>2. FromFiles(j)
      BY <3>1 DEF LoadInv, AsRegistered
    <3> QED BY <3>1, <3>2, <1>1, <1>2 DEF FromFiles
  <2> QED BY <2>1, <1>2 DEF AsRegistered
<1>10. FullFiles' /\ ManyLoaders'
  BY DEF FullFiles, ManyLoaders
<1>11. FirstAlone'
  BY <1>2 DEF LoadInv, FirstAlone
<1> QED BY <1>4, <1>5, <1>6, <1>7, <1>8, <1>9, <1>10, <1>11 DEF LoadInv

-----------------------------------------------------------------------------
(* The theorems of acquisition and loader.                                 *)

LEMMA LoadInitInv == Init => LoadInv
<1> SUFFICES ASSUME Init PROVE LoadInv
  OBVIOUS
<1>1. /\ staging = Blank /\ runs = <<>> /\ Len(runs) = 0 /\ DOMAIN runs = {}
      /\ loader = [l \in Loaders |-> Asleep]
  BY DEF Init, LoadInit
<1>2. AcqShape /\ acq.at = "idle"
  BY AcqInitShape DEF Init, AcqInit, NoRun
<1>3. core \in Grid /\ extra \in Grid
  <2>1. feed \in 0..MaxRevision
    BY <1>2, AcquisitionAssumption DEF AcqShape
  <2>2. \A years \in SUBSET Years : Only(Published, years) \in Row
    BY <2>1, AcquisitionAssumption DEF Only, Published, Row
  <2>3. core \in Grid
    BY <2>2 DEF Init, LoadInit, Grid
  <2>4. extra = [d \in DatasetSet |-> IF d \in WithExtras THEN core[d] ELSE Nothing]
    BY DEF Init, LoadInit
  <2> QED BY <2>3, <2>4, NothingTyped DEF Grid
<1>4. crew \in SUBSET Loaders /\ crew # {}
  BY LoaderAssumption DEF Init
<1>5. LoadShape
  <2>1. loader \in [Loaders -> LoaderRecords]
    BY <1>1, AsleepTyped
  <2>2. Len(runs) <= Cardinality(crew)
    BY <1>1, <1>4, CrewFacts
  <2>3. runs \in Seq(RunRecords)
    BY <1>1
  <2> QED BY <2>1, <2>2, <2>3, <1>1, <1>3, <1>4, NothingTyped DEF LoadShape
<1>6. \A l \in Loaders : ~Active(l) /\ loader[l].run = 0
  BY <1>1 DEF Active, Asleep
<1>7. OneRunEach /\ DiaryLags /\ FilesStill
  BY <1>1, <1>6 DEF OneRunEach, DiaryLags, FilesStill
<1>8. DiaryIsTrue /\ DidAll /\ AloneIsAlone /\ AsRegistered /\ FirstAlone
  BY <1>1 DEF DiaryIsTrue, DidAll, AloneIsAlone, AsRegistered, FirstAlone
<1>9. ManyLoaders
  BY <1>1 DEF ManyLoaders, Staged, Loaded
<1>10. FullFiles
  <2>1. PICK years \in {{}, Years} : raw = [d \in DatasetSet |-> Only(Published, years)]
    BY DEF Init, AcqInit
  <2>2. csv = raw /\ headless = {d \in DatasetSet : raw[d] = Nothing} /\ feed = 1
    BY DEF Init, AcqInit
  <2>3. CASE years = {}
    BY <2>1, <2>2, <2>3 DEF FullFiles, Only, Nothing
  <2>4. CASE years = Years
    BY <2>1, <2>2, <2>4 DEF FullFiles, Only, Published
  <2> QED BY <2>1, <2>3, <2>4
<1> QED BY <1>5, <1>7, <1>8, <1>9, <1>10 DEF LoadInv, DiaryInv

LEMMA AcqQuiet == AcqInv /\ UNCHANGED acqVars => AcqInv'
<1> SUFFICES ASSUME AcqInv, UNCHANGED acqVars PROVE AcqInv'
  OBVIOUS
<1>1. UNCHANGED <<feed, raw, csv, headless, manifest, acq, outcomes, failed, entries, intact, acquired, kills>>
  BY DEF acqVars, files
<1> QED BY <1>1 DEF AcqInv, AcqShape, Ordered, Underway, SettledBehind, BlankAhead, Gathered, Asking,
                    Complete, Entered, AtTheEnd, Resting, Settled, Unentered, Kept, Requested, Pending, Spec_

LEMMA LoadQuiet == LoadInv /\ UNCHANGED vars => LoadInv'
<1> SUFFICES ASSUME LoadInv, UNCHANGED vars PROVE LoadInv'
  OBVIOUS
<1>1. UNCHANGED <<staging, core, extra, runs, loader, crew, acq, acquired, manifest, raw, csv, headless, intact>>
  BY DEF vars, loadVars, tables, acqVars, files
<1>2. LoadShape' /\ OneRunEach' /\ FullFiles' /\ FirstAlone'
  BY <1>1 DEF LoadInv, LoadShape, OneRunEach, OwnRun, Active, Run, Asked, FullFiles, Many, FirstAlone
<1>3. DiaryInv'
  BY <1>1 DEF LoadInv, DiaryInv, DiaryIsTrue, DiaryLags, Lags, Past, Active, Run, Asked, Doing, DidAll
<1>4. AloneIsAlone' /\ AsRegistered'
  BY <1>1 DEF LoadInv, AloneIsAlone, AsRegistered, LastAlone, Active, Run, Sees, Doing, AsLeft, FromFiles
<1>5. FilesStill' /\ ManyLoaders'
  BY <1>1 DEF LoadInv, FilesStill, Still, Active, Run, Asked, ManyLoaders, Staged, Loaded, Unfinished, Many
<1> QED BY <1>2, <1>3, <1>4, <1>5 DEF LoadInv

LEMMA LoaderInv ==
  ASSUME AcqInv, LoadInv, NEW l \in Loaders, UNCHANGED acqVars,
         LoadStep(l) \/ KillLoader(l) \/ \E asked \in SUBSET DatasetSet : Open(l, asked)
  PROVE  LoadInv'
<1>1. PICK i : i = Run(l)
  OBVIOUS
<1>2. CASE Verify(l)
  BY <1>1, <1>2, VerifyInv
<1>3. CASE Truncate(l)
  BY <1>1, <1>3, TruncateInv
<1>4. CASE Stage(l)
  BY <1>1, <1>4, StageInv DEF AcqInv
<1>5. CASE Delete(l)
  BY <1>1, <1>5, DeleteInv
<1>6. CASE Insert(l)
  BY <1>1, <1>6, InsertInv
<1>7. CASE Extras(l) \/ NoExtras(l)
  BY <1>1, <1>7, ExtrasInv
<1>8. CASE Close(l) \/ Break(l) \/ KillLoader(l)
  BY <1>1, <1>8, EndInv
<1>9. CASE \E asked \in SUBSET DatasetSet : Open(l, asked)
  BY <1>9, OpenInv
<1> QED BY <1>2, <1>3, <1>4, <1>5, <1>6, <1>7, <1>8, <1>9 DEF LoadStep

\* Where several loaders are, nobody acquires.
OneAcquires == Cardinality(crew) # 1 => acquired = 0

\* Init => IInv and IInv /\ [Next]_vars => IInv', for IInv == AcqInv /\ LoadInv /\ OneAcquires
THEOREM LoadInductive == Spec => [](AcqInv /\ LoadInv /\ OneAcquires)
<1>1. Init => AcqInv /\ LoadInv /\ OneAcquires
  BY AcqInitInv, LoadInitInv DEF Init, AcqInit, OneAcquires
<1>2. AcqInv /\ LoadInv /\ OneAcquires /\ [Next]_vars => AcqInv' /\ LoadInv' /\ OneAcquires'
  <2> SUFFICES ASSUME AcqInv, LoadInv, OneAcquires, [Next]_vars
               PROVE  AcqInv' /\ LoadInv' /\ OneAcquires'
    OBVIOUS
  <2>1. CASE LoadNext /\ UNCHANGED acqVars
    <3>1. PICK l \in Loaders : \/ LoadStep(l) \/ KillLoader(l)
                               \/ \E asked \in SUBSET DatasetSet : Open(l, asked)
      BY <2>1 DEF LoadNext
    <3>2. crew' = crew
      BY <3>1 DEF LoadStep, KillLoader, Open, Verify, Truncate, Stage, Delete, Insert, Extras, NoExtras,
                  Close, Break
    <3> QED BY <2>1, <3>1, <3>2, LoaderInv, AcqQuiet DEF OneAcquires, acqVars
  <2>2. CASE /\ Cardinality(crew) = 1 /\ AcqNext
             /\ runs' = Disturbed /\ UNCHANGED <<tables, loader, crew, loaderKills>>
    BY <2>2, AcquireInv, AcqStepInv DEF Many, OneAcquires
  <2>3. CASE UNCHANGED vars
    BY <2>3, AcqQuiet, LoadQuiet DEF vars, OneAcquires, loadVars, acqVars
  <2> QED BY <2>1, <2>2, <2>3 DEF Next
<1> QED BY <1>1, <1>2, PTL DEF Spec

\* After every acquisition that reaches its end, whatever was killed before it, the manifest, the raw
\* files and the CSV tell one story, and it has lost nothing that it was not asked for
\* (download_us_treasury.py:690-860, 1740-1900).
THEOREM FilesStandAlways == Spec => []FilesStand
<1>1. AcqInv => FilesStand
  <2> SUFFICES ASSUME AcqInv, intact PROVE FilesStand
    BY DEF FilesStand, FilesAgree, NothingElseLost
  <2>1. \A d \in DatasetSet : manifest[d] = csv[d] /\ Kept(d)
    BY DEF AcqInv, Resting
  <2> QED BY <2>1 DEF FilesStand, FilesAgree, NothingElseLost, Kept
<1> QED BY <1>1, LoadInductive, PTL

LEMMA LoadTypes == AcqInv /\ LoadInv => TypeOK
<1> SUFFICES ASSUME AcqInv, LoadInv PROVE TypeOK
  OBVIOUS
<1>1. AcqTypeOK
  <2>1. AcqShape
    BY DEF AcqInv
  <2>2. Row \subseteq [Years -> Nat]
    BY AcquisitionAssumption DEF Row
  <2>3. Grid \subseteq [DatasetSet -> [Years -> Nat]]
    BY <2>2 DEF Grid
  <2>4. entries \in [DatasetSet -> [there : [Years -> Nat], failed : SUBSET Years]]
    BY <2>1, <2>2 DEF AcqShape
  <2> QED BY <2>1, <2>2, <2>3, <2>4 DEF AcqShape, AcqTypeOK, Acquirer
<1>2. Grid = Table
  BY DEF Grid, Row, Table
<1>3. LoadShape /\ DOMAIN runs = 1..Len(runs)
  BY DEF LoadInv, LoadShape
<1>4. ASSUME NEW i \in DOMAIN runs
      PROVE  /\ runs[i].status \in {"running", "succeeded", "failed"}
             /\ runs[i].files \in {"intact", "broken", "moving"}
             /\ runs[i].asked \subseteq DatasetSet /\ runs[i].registered \in Table
             /\ runs[i].steps \cup runs[i].did \subseteq Lines
  <2>1. runs[i] \in RunRecords
    BY <1>3 DEF LoadShape
  <2> QED BY <1>2, <2>1 DEF RunRecords
<1>5. ASSUME NEW l \in Loaders
      PROVE  /\ loader[l].run \in 0..Len(runs) /\ loader[l].diary \subseteq Lines
             /\ loader[l].at = "idle" <=> loader[l].run = 0
  <2>1. loader[l].diary \subseteq Lines
    BY <1>3 DEF LoadShape, LoaderRecords
  <2> QED BY <2>1 DEF LoadInv, OneRunEach, Active
<1> QED BY <1>1, <1>2, <1>3, <1>4, <1>5 DEF LoadShape, TypeOK

LEMMA WholeLoad == AcqInv /\ LoadInv => LoadIsWhole
<1> SUFFICES ASSUME AcqInv, LoadInv PROVE LoadIsWhole
  OBVIOUS
<1>1. DOMAIN runs = 1..Len(runs) /\ \A i \in 1..Len(runs) : runs[i].asked \subseteq DatasetSet
  <2>1. runs \in Seq(RunRecords)
    BY DEF LoadInv, LoadShape
  <2>2. DOMAIN runs = 1..Len(runs) /\ \A i \in 1..Len(runs) : runs[i] \in RunRecords
    BY <2>1
  <2> QED BY <2>2 DEF RunRecords
<1>2. ASSUME NEW i \in 1..Len(runs), runs[i].status = "succeeded", NEW d \in runs[i].asked
      PROVE  /\ d \in DatasetSet /\ <<"core", d>> \in runs[i].did
             /\ d \in WithExtras => <<"extra", d>> \in runs[i].did
  BY <1>1, <1>2 DEF LoadInv, DiaryInv, DidAll
<1>3. ASSUME NEW i \in 1..Len(runs), LastTrusted(i)
      PROVE  /\ AsLeft(i)
             /\ runs[i].files # "moving" => FromFiles(i)
             /\ runs[i].status = "succeeded"
  BY <1>3 DEF LoadInv, AloneIsAlone, AsRegistered, LastTrusted, Trusted, LastAlone
<1>4. SuccessIsWhole
  <2>1. ASSUME NEW i \in 1..Len(runs), LastTrusted(i), NEW d \in runs[i].asked
        PROVE  core[d] = staging[d] /\ (d \in WithExtras => extra[d] = staging[d])
    BY <2>1, <1>2, <1>3 DEF AsLeft
  <2> QED BY <2>1, <1>1 DEF SuccessIsWhole, LastTrusted
<1>5. SuccessIsVerified
  <2>1. ASSUME NEW i \in 1..Len(runs), LastTrusted(i), runs[i].files = "intact", NEW d \in runs[i].asked
        PROVE  core[d] = runs[i].registered[d]
    BY <2>1, <1>2, <1>3 DEF FromFiles
  <2> QED BY <2>1, <1>1 DEF SuccessIsVerified
<1>6. VouchedOrAbsent
  <2>1. ASSUME NEW i \in 1..Len(runs), LastTrusted(i), runs[i].files # "moving",
               NEW d \in runs[i].asked, NEW y \in Years, runs[i].registered[d][y] # 0
        PROVE  core[d][y] \in {0, runs[i].registered[d][y]}
    BY <2>1, <1>2, <1>3 DEF FromFiles
  <2> QED BY <2>1, <1>1 DEF VouchedOrAbsent
<1>7. WholeTogether
  <2> SUFFICES ASSUME AllSucceeded, NEW d \in DatasetSet, NEW i \in DOMAIN runs, d \in runs[i].asked
               PROVE  core[d] = csv[d]
    BY DEF WholeTogether
  <2>1. \A j \in 1..Len(runs) : runs[j].status = "succeeded"
    BY <1>1 DEF AllSucceeded
  <2>2. Loaded(d)
    BY <1>1, <1>2, <2>1 DEF Loaded
  <2>3. Many
    BY DEF Many, AllSucceeded
  <2>4. ~Unfinished(d)
    BY <2>1 DEF Unfinished
  <2> QED BY <2>2, <2>3, <2>4 DEF LoadInv, ManyLoaders
<1> QED BY <1>4, <1>5, <1>6, <1>7, LoadTypes DEF LoadIsWhole

\* A load that is called a success is one of everything it was asked for, of verified bytes, and
\* does not mix revisions; loaders that all succeed leave every dataset whole, in whatever order
\* they truncated, staged and wrote (load.py:240-360, 690-835).
THEOREM LoadIsWholeAlways == Spec => []LoadIsWhole
BY WholeLoad, LoadInductive, PTL

\* The diary says only what was done and a success says all of it; and an emptied table is never
\* behind a history of successes (load.py:735-835).
THEOREM DiaryTellsAlways == Spec => []DiaryTells
<1>1. LoadInv /\ OneAcquires => DiaryTells
  <2> SUFFICES ASSUME LoadInv, OneAcquires, NEW d \in DatasetSet, NEW i \in DOMAIN runs,
                      <<"core", d>> \in runs[i].did, core[d] = Nothing, staging[d] # Nothing
               PROVE  Unfinished(d)
    <3>1. LoadInv => DiaryIsTrue
      BY DEF LoadInv, DiaryInv
    <3>2. LoadInv => DOMAIN runs = 1..Len(runs)
      BY DEF LoadInv, LoadShape
    <3> QED BY <3>1, <3>2 DEF DiaryTells, LossIsRecorded, Unfinished
  <2>1. i \in 1..Len(runs) /\ Len(runs) \in Nat /\ crew \in SUBSET Loaders
        /\ Len(runs) <= Cardinality(crew)
    BY DEF LoadInv, LoadShape
  <2>2. CASE Many
    <3>1. Loaded(d)
      BY <2>1 DEF Loaded
    <3> QED BY <2>2, <3>1 DEF LoadInv, ManyLoaders
  <2>3. CASE ~Many
    <3>0. \A n \in Nat : \A j \in 1..n : n <= 1 => n = 1 /\ j = 1
      OBVIOUS
    <3>1. Len(runs) = 1 /\ i = 1
      <4>1. Cardinality(crew) = 1
        BY <2>3 DEF Many, OneAcquires
      <4>2. Len(runs) <= 1
        BY <4>1, <2>1
      <4> QED BY <2>1, <4>2, <3>0
    <3>2. AsLeft(i)
      BY <3>1 DEF LoadInv, FirstAlone, AloneIsAlone, LastAlone
    <3> QED BY <3>2 DEF AsLeft
  <2> QED BY <2>2, <2>3
<1> QED BY <1>1, LoadInductive, PTL

-----------------------------------------------------------------------------
(* The verification beside the loader.                                     *)

VerPlaces == {"start", "probe", "files", "status", "facts", "staging", "counts", "values",
              "placeholders", "integrity", "schema", "persist", "report", "stopped"}
Counting  == {"facts", "staging", "counts", "values"}
Closing   == {"placeholders", "integrity", "schema", "persist", "report"}

\* What it has read of the database and of the files.
ReadWell == /\ verifier.at = "start" => verifier = Unread
            /\ verifier.at = "files" => ~verifier.failed
            /\ verifier.at \in {"files", "status"} => verifier.index = 1
            /\ evidence # {} => verifier.at \in {"report", "stopped"}
            /\ verifier.last \in 0..Len(runs)
            /\ verifier.at \in Counting \cup Closing /\ ~verifier.failed =>
                  verifier.last # 0 /\ runs[verifier.last].status = "succeeded"
Compared(i) == \/ verifier.at \in {"facts", "staging", "counts"} /\ i < verifier.index
               \/ verifier.at = "values" /\ i <= verifier.index
               \/ verifier.at \in Closing

\* While nothing moves and nothing is found, what was compared is equal.
Earned == verifier.still /\ ~verifier.failed =>
    /\ verifier.at \in Counting \cup Closing => verifier.last = Len(runs)
    /\ \A i \in 1..Len(Datasets) : Compared(i) => Tally(core[Datasets[i]]) = Tally(csv[Datasets[i]])
    /\ \A d \in DatasetSet : \A y \in verifier.sampled[d] : core[d][y] = csv[d][y]
    /\ verifier.at \in {"schema", "persist", "report"} => \A d \in DatasetSet : core[d] # Nothing
    /\ verifier.at \in {"persist", "report"} => sound

\* A full load that succeeded by itself, of files that are as they were then: nothing is found
\* against it while nothing moves (the antecedent of GoodLoadPasses).
Good == /\ runs # <<>> /\ LastTrusted(Len(runs)) /\ runs[Len(runs)].asked = DatasetSet /\ csv = staging
        /\ manifest = runs[Len(runs)].registered /\ manifest = csv
        /\ \A s \in Sources : s[3] = manifest[s[1]][s[2]]
        /\ \A d \in DatasetSet : csv[d] # Nothing
        /\ sound
NotWithheld == /\ verifier.still /\ verifier.at \in {"staging", "counts", "values"} =>
                     verifier.facts = csv[Datasets[verifier.index]]
               /\ verifier.still /\ Good => ~verifier.failed

Verifiers == [at : VerPlaces, index : 1..Len(Datasets), facts : Row, target : Years \cup {0},
              original : Nat, failed : BOOLEAN, last : Nat, sampled : [DatasetSet -> SUBSET Years],
              still : BOOLEAN, report : SUBSET [run : Nat, passed : BOOLEAN]]
VerShape == /\ verifier \in Verifiers /\ sound \in BOOLEAN
            /\ evidence \subseteq [run : 1..Len(runs), passed : BOOLEAN]
VerInv == VerShape /\ ReadWell /\ Earned /\ NotWithheld /\ FiledWell

\* The verifier's record after Verifier.record, and after a step that only moves on.
LEMMA RecordsFacts ==
  ASSUME VerShape, NEW at \in VerPlaces, NEW ok \in BOOLEAN, Records(ok, at)
  PROVE  /\ verifier' \in Verifiers /\ verifier'.at = at
         /\ (verifier'.failed <=> verifier.failed \/ ~ok)
         /\ verifier'.index = verifier.index /\ verifier'.facts = verifier.facts
         /\ verifier'.last = verifier.last /\ verifier'.sampled = verifier.sampled
         /\ verifier'.still = verifier.still /\ verifier'.report = verifier.report
<1>1. verifier \in Verifiers
  BY DEF VerShape
<1>2. verifier' = [verifier EXCEPT !.at = at, !.failed = verifier.failed \/ ~ok]
  BY DEF Records
<1>3. PICK f \in BOOLEAN : f = (verifier.failed \/ ~ok)
  BY <1>1 DEF Verifiers
<1>4. verifier' = [verifier EXCEPT !.at = at, !.failed = f]
  BY <1>2, <1>3
<1>5. /\ verifier' \in Verifiers /\ verifier'.at = at /\ verifier'.failed = f
      /\ verifier'.index = verifier.index /\ verifier'.facts = verifier.facts
      /\ verifier'.last = verifier.last /\ verifier'.sampled = verifier.sampled
      /\ verifier'.still = verifier.still /\ verifier'.report = verifier.report
  BY <1>1, <1>4 DEF Verifiers
<1> QED BY <1>3, <1>5

LEMMA GoesFacts ==
  ASSUME VerShape, NEW at \in VerPlaces, Goes(at)
  PROVE  /\ verifier' \in Verifiers /\ verifier'.at = at /\ verifier'.failed = verifier.failed
         /\ verifier'.index = verifier.index /\ verifier'.facts = verifier.facts
         /\ verifier'.last = verifier.last /\ verifier'.sampled = verifier.sampled
         /\ verifier'.still = verifier.still /\ verifier'.report = verifier.report
BY DEF VerShape, Goes, Verifiers

LEMMA UnreadTyped == Unread \in Verifiers
BY DatasetFacts, NothingTyped DEF Unread, Verifiers, VerPlaces

\* A run that is closed as a success stays one.
LEMMA LoaderKeepsSuccess ==
  ASSUME LoadInv, NEW l \in Loaders, LoadStep(l) \/ KillLoader(l) \/ Open(l, DatasetSet)
  PROVE  /\ Len(runs) <= Len(runs')
         /\ \A i \in 1..Len(runs) : runs[i].status = "succeeded" => runs'[i].status = "succeeded"
<1>1. LoadShape /\ Len(runs) \in Nat
  BY DEF LoadInv, LoadShape
<1>2. CASE UNCHANGED runs
  BY <1>1, <1>2
<1>3. ASSUME NEW done \in SUBSET Lines, Active(l), Commit(l, done)
      PROVE  /\ Len(runs') = Len(runs)
             /\ \A i \in 1..Len(runs) : runs[i].status = "succeeded" => runs'[i].status = "succeeded"
  <2>1. Run(l) \in 1..Len(runs)
    BY <1>3, AtWork
  <2> QED BY <2>1, <1>1, <1>3, CommitFacts
<1>4. ASSUME NEW status \in {"succeeded", "failed"}, NEW diary \in SUBSET Lines, Active(l),
             Closed(l, status, diary)
      PROVE  /\ Len(runs') = Len(runs)
             /\ \A i \in 1..Len(runs) : runs[i].status = "succeeded" => runs'[i].status = "succeeded"
  <2>1. Run(l) \in 1..Len(runs) /\ runs[Run(l)].status = "running"
    BY <1>4, AtWork DEF OwnRun
  <2>2. \A j \in 1..Len(runs) : j # Run(l) => runs'[j] = runs[j]
    BY <2>1, <1>1, <1>4, ClosedFacts
  <2>3. Len(runs') = Len(runs)
    BY <2>1, <1>1, <1>4, ClosedFacts
  <2> QED BY <2>1, <2>2, <2>3
<1>5. \A d \in DatasetSet : <<"stage", d>> \in Lines /\ <<"core", d>> \in Lines /\ <<"extra", d>> \in Lines
  BY DEF Lines
<1>6. CASE Verify(l)
  <2>1. Active(l) /\ Run(l) \in 1..Len(runs)
    BY <1>6, AtWork DEF Verify, Active
  <2>2. \A i \in 1..Len(runs) : runs[i] \in RunRecords
    BY <1>1 DEF LoadShape
  <2>3. \A i \in 1..Len(runs) : runs'[i].status = runs[i].status
    BY <2>1, <2>2, <1>1, <1>6 DEF Verify, LoadShape, RunRecords
  <2>4. Len(runs') = Len(runs)
    BY <1>1, <1>6 DEF Verify, LoadShape
  <2> QED BY <2>3, <2>4, <1>1
<1>7. CASE Truncate(l)
  BY <1>7, <1>3, <1>1 DEF Truncate, Active
<1>8. ASSUME Active(l), loader[l].todo # {} PROVE Doing(l) \in DatasetSet
  <2>1. loader[l].todo \in SUBSET DatasetSet
    BY <1>1 DEF LoadShape, LoaderRecords
  <2> QED BY <2>1, <1>8, FirstIn DEF Doing
<1>9. CASE Stage(l)
  <2>1. Active(l) /\ Doing(l) \in DatasetSet
    BY <1>9, <1>8 DEF Stage, Active
  <2>2. Commit(l, {<<"stage", Doing(l)>>}) /\ {<<"stage", Doing(l)>>} \in SUBSET Lines
    BY <2>1, <1>9, <1>5 DEF Stage
  <2> QED BY <2>1, <2>2, <1>3, <1>1
<1>10. CASE Insert(l)
  <2>1. Active(l)
    BY <1>10 DEF Insert, Active
  <2>2. loader[l].todo # {}
    BY <2>1, <1>10, AtWork DEF Insert, OwnRun, Rewriting
  <2>3. Doing(l) \in DatasetSet
    BY <2>1, <2>2, <1>8
  <2>4. Commit(l, {<<"core", Doing(l)>>}) /\ {<<"core", Doing(l)>>} \in SUBSET Lines
    BY <2>3, <1>10, <1>5 DEF Insert
  <2> QED BY <2>1, <2>4, <1>3, <1>1
<1>11. CASE Extras(l)
  <2>1. Active(l)
    BY <1>11 DEF Extras, Active
  <2>2. loader[l].todo # {}
    BY <2>1, <1>11, AtWork DEF Extras, OwnRun, Rewriting
  <2>3. Doing(l) \in DatasetSet
    BY <2>1, <2>2, <1>8
  <2>4. Commit(l, {<<"extra", Doing(l)>>}) /\ {<<"extra", Doing(l)>>} \in SUBSET Lines
    BY <2>3, <1>11, <1>5 DEF Extras
  <2> QED BY <2>1, <2>4, <1>3, <1>1
<1>12. CASE Delete(l) \/ NoExtras(l) \/ KillLoader(l)
  BY <1>12, <1>2 DEF Delete, NoExtras, KillLoader
<1>13. CASE Close(l)
  <2>1. Active(l) /\ loader[l].diary \in SUBSET Lines
    BY <1>13, <1>1 DEF Close, Active, LoadShape, LoaderRecords
  <2> QED BY <2>1, <1>13, <1>4, <1>1 DEF Close
<1>14. CASE Break(l)
  BY <1>14, <1>4, <1>1 DEF Break, Active
<1>15. CASE Open(l, DatasetSet)
  <2> DEFINE others == {loader[k].run : k \in Loaders \ {l}}
             changed == [i \in DOMAIN runs |-> IF i \in others THEN [runs[i] EXCEPT !.alone = FALSE]
                                               ELSE runs[i]]
  <2>1. PICK r : runs' = Append(changed, r)
    BY <1>15 DEF Open
  <2>2. DOMAIN runs = 1..Len(runs) /\ \A i \in 1..Len(runs) : runs[i] \in RunRecords
    BY <1>1 DEF LoadShape
  <2>3. \A i \in 1..Len(runs) : changed[i].status = runs[i].status
    BY <2>2 DEF RunRecords
  <2>4. changed \in Seq(RunRecords) /\ Len(changed) = Len(runs)
    <3>1. \A i \in 1..Len(runs) : changed[i] \in RunRecords
      BY <2>2 DEF RunRecords
    <3> QED BY <3>1, <2>2, <1>1
  <2>5. Len(runs') = Len(runs) + 1 /\ \A i \in 1..Len(runs) : runs'[i] = changed[i]
    <3> HIDE DEF changed
    <3> QED BY <2>1, <2>4, <1>1
  <2> HIDE DEF changed
  <2> QED BY <2>3, <2>5, <1>1
<1> QED BY <1>6, <1>7, <1>9, <1>10, <1>11, <1>12, <1>13, <1>14, <1>15 DEF LoadStep

\* A whole acquisition leaves what acquisitions leave.
LEMMA RefreshedInv ==
  ASSUME AcqInv, NEW selected \in SUBSET DatasetSet, NEW years, Refreshed(selected, years)
  PROVE  AcqInv' /\ acquired' # 0
<1>1. AcqShape /\ acq.at = "idle"
  BY DEF AcqInv, Refreshed
<1>2. UNCHANGED <<acq, outcomes, failed, entries, intact, kills>>
  BY DEF Refreshed
<1>3. feed' = feed + 1 /\ feed' \in 1..MaxRevision /\ feed \in 1..MaxRevision
  BY <1>1, AcquisitionAssumption DEF AcqShape, Refreshed
<1>4. csv' = raw' /\ manifest' = raw' /\ headless' \in SUBSET DatasetSet
  BY <1>1 DEF Refreshed, AcqShape
<1>5. ASSUME NEW d \in DatasetSet, NEW y \in Years PROVE raw[d][y] \in 0..MaxRevision /\ raw[d][y] <= feed
  BY <1>1 DEF AcqInv, AcqShape, Grid, Row, Ordered
<1>6. ASSUME NEW d \in DatasetSet, NEW y \in Years PROVE raw'[d][y] \in {raw[d][y], feed'}
  BY DEF Refreshed
<1>7. raw' \in Grid
  <2>1. \A d \in DatasetSet, y \in Years : (IF d \in selected /\ (y \in years \/ raw[d][y] = 0)
                                              THEN feed' ELSE raw[d][y]) \in 0..MaxRevision
    BY <1>3, <1>5
  <2> QED BY <2>1 DEF Refreshed, Grid, Row
<1>8. acquired' \in Nat /\ acquired' # 0
  BY <1>1 DEF AcqShape, Refreshed
<1>9. AcqShape'
  BY <1>1, <1>2, <1>3, <1>4, <1>7, <1>8 DEF AcqShape
<1>10. ASSUME NEW d \in DatasetSet, NEW y \in Years PROVE raw'[d][y] \in Nat /\ raw'[d][y] <= feed'
  BY <1>3, <1>5, <1>6, AcquisitionAssumption
<1>11. Ordered'
  BY <1>4, <1>10 DEF Ordered
<1>12. Underway'
  BY <1>1, <1>2 DEF Underway, SettledBehind, BlankAhead, Gathered, Asking, Complete, Entered, AtTheEnd
<1>13. Resting'
  BY <1>1, <1>2, <1>4 DEF AcqInv, Resting, Kept
<1> QED BY <1>8, <1>9, <1>11, <1>12, <1>13 DEF AcqInv

\* Success is kept, whatever moves beside the verification.
LEMMA BesideFacts ==
  ASSUME AcqInv, LoadInv, Beside
  PROVE  /\ AcqInv' /\ LoadInv' /\ Len(runs) \in Nat /\ Len(runs') \in Nat /\ Len(runs) <= Len(runs')
         /\ \A i \in 1..Len(runs) : runs[i].status = "succeeded" => runs'[i].status = "succeeded"
<1> DEFINE one == CHOOSE k \in Loaders : TRUE
<1>1. one \in Loaders
  BY LoaderAssumption
<1>2. CASE (LoadStep(one) \/ KillLoader(one) \/ Open(one, DatasetSet)) /\ UNCHANGED acqVars
  <2> HIDE DEF one
  <2>1. AcqInv'
    BY <1>2, AcqQuiet
  <2>2. LoadInv'
    BY <1>1, <1>2, LoaderInv
  <2>3. /\ Len(runs) <= Len(runs')
        /\ \A i \in 1..Len(runs) : runs[i].status = "succeeded" => runs'[i].status = "succeeded"
    BY <1>1, <1>2, LoaderKeepsSuccess
  <2> QED BY <2>1, <2>2, <2>3 DEF LoadInv, LoadShape
<1>3. CASE /\ \E selected \in (SUBSET DatasetSet) \ {{}}, years \in {{CurrentYear}, Years} :
                 Refreshed(selected, years)
           /\ runs' = Disturbed /\ UNCHANGED <<tables, loader, crew, loaderKills>>
  <2>1. PICK selected \in SUBSET DatasetSet, years \in {{CurrentYear}, Years} : Refreshed(selected, years)
    BY <1>3
  <2>2. AcqInv' /\ acquired' # 0
    BY <2>1, RefreshedInv
  <2>3. LoadInv'
    BY <1>3, <2>2, AcquireInv DEF Many
  <2>4. Len(runs') = Len(runs) /\ \A i \in 1..Len(runs) : runs'[i].status = runs[i].status
    BY <1>3, DisturbedFacts DEF LoadInv
  <2> QED BY <2>2, <2>3, <2>4 DEF LoadInv, LoadShape
<1> QED BY <1>2, <1>3 DEF Beside

LEMMA DatasetsFinite == IsFiniteSet(DatasetSet)
<1> DEFINE f == [i \in 1..Len(Datasets) |-> Datasets[i]]
<1>1. f \in [1..Len(Datasets) -> DatasetSet] /\ \A d \in DatasetSet : \E i \in 1..Len(Datasets) : f[i] = d
  BY DatasetFacts
<1>2. f \in Surjection(1..Len(Datasets), DatasetSet)
  <2> HIDE DEF f
  <2> QED BY <1>1, Fun_IsSurj
<1>3. IsFiniteSet(1..Len(Datasets))
  BY DatasetFacts, FS_Interval
<1> QED BY <1>2, <1>3, FS_Surjection

\* A file the manifest vouches for is registered once, if no other revision of it is.
LEMMA VouchedOnce ==
  ASSUME AcqInv, LoadInv, Good
  PROVE  Cardinality(Vouched) = Cardinality(Sources)
<1>1. LoadShape /\ manifest \in Grid /\ DOMAIN runs = 1..Len(runs)
  BY DEF AcqInv, AcqShape, LoadInv, LoadShape
<1>2. /\ Len(runs) \in DOMAIN runs /\ runs[Len(runs)].asked = DatasetSet
      /\ runs[Len(runs)].registered = manifest
      /\ \A s \in Sources : s[3] = manifest[s[1]][s[2]]
  BY <1>1 DEF Good, LoadShape
<1>3. \A d \in DatasetSet, y \in Years : manifest[d][y] \in 0..MaxRevision
  BY <1>1 DEF Grid, Row
<1> DEFINE f == [v \in Vouched |-> <<v[1], v[2], manifest[v[1]][v[2]]>>]
<1>4. ASSUME NEW v \in Vouched PROVE f[v] \in Sources
  <2>1. v[1] \in DatasetSet /\ v[2] \in Years /\ manifest[v[1]][v[2]] \in 1..MaxRevision
    <3>1. v[1] \in DatasetSet /\ v[2] \in Years /\ manifest[v[1]][v[2]] # 0
      BY DEF Vouched
    <3>2. manifest[v[1]][v[2]] \in 0..MaxRevision
      BY <3>1, <1>3
    <3> QED BY <3>1, <3>2, AcquisitionAssumption
  <2>2. f[v] = <<v[1], v[2], manifest[v[1]][v[2]]>>
    OBVIOUS
  <2> QED BY <2>1, <2>2, <1>2 DEF Sources
<1>5. ASSUME NEW v \in Vouched, NEW w \in Vouched, f[v] = f[w] PROVE v = w
  <2>1. /\ v \in DatasetSet \X Years /\ w \in DatasetSet \X Years
        /\ f[v] = <<v[1], v[2], manifest[v[1]][v[2]]>> /\ f[w] = <<w[1], w[2], manifest[w[1]][w[2]]>>
    BY DEF Vouched
  <2>2. v[1] = w[1] /\ v[2] = w[2]
    BY <2>1, <1>5
  <2> QED BY <2>1, <2>2
<1>6. ASSUME NEW s \in Sources PROVE \E v \in Vouched : f[v] = s
  <2>1. /\ s \in DatasetSet \X Years \X (1..MaxRevision)
        /\ s[1] \in DatasetSet /\ s[2] \in Years /\ s[3] \in 1..MaxRevision
        /\ s = <<s[1], s[2], s[3]>> /\ s[3] = manifest[s[1]][s[2]]
    BY <1>2 DEF Sources
  <2>2. <<s[1], s[2]>> \in Vouched
    BY <2>1, AcquisitionAssumption DEF Vouched
  <2>3. f[<<s[1], s[2]>>] = <<s[1], s[2], manifest[s[1]][s[2]]>>
    BY <2>2
  <2> QED BY <2>1, <2>2, <2>3
<1>7. f \in [Vouched -> Sources]
  BY <1>4
<1>8. f \in Bijection(Vouched, Sources)
  <2> HIDE DEF f
  <2> QED BY <1>5, <1>6, <1>7, Fun_IsBij
<1>9. IsFiniteSet(Vouched)
  <2>1. IsFiniteSet(DatasetSet \X Years)
    BY DatasetsFinite, AcquisitionAssumption, FS_Product
  <2>2. Vouched \in SUBSET (DatasetSet \X Years)
    BY DEF Vouched
  <2> QED BY <2>1, <2>2, FS_Subset
<1>10. ExistsBijection(Vouched, Sources)
  <2> HIDE DEF f
  <2> QED BY <1>8, Fun_ExistsBij
<1> QED BY <1>9, <1>10, FS_Bijection

\* After a good load every comparison is between equals.
LEMMA GoodIsWhole ==
  ASSUME AcqInv, LoadInv, Good
  PROVE  /\ \A d \in DatasetSet : core[d] = csv[d]
         /\ staging = csv /\ \A d \in DatasetSet : core[d] # Nothing
<1>1. LoadShape /\ DOMAIN runs = 1..Len(runs)
  BY DEF LoadInv, LoadShape
<1>2. Len(runs) \in DOMAIN runs
  BY <1>1 DEF Good, LoadShape
<1>3. SuccessIsWhole
  BY WholeLoad DEF LoadIsWhole
<1> QED BY <1>2, <1>3 DEF Good, SuccessIsWhole, LastTrusted

Steady == UNCHANGED <<core, csv, staging, runs, manifest, sound>>

LEMMA SteadyFacts ==
  ASSUME Steady
  PROVE  /\ Good' <=> Good
         /\ \A i \in 1..Len(Datasets) : Tally(core[Datasets[i]])' = Tally(core[Datasets[i]])
BY DEF Steady, Good, LastTrusted, Trusted, Sources, Tally, Present

\* A step of the verification that reads: what it has to see to.
LEMMA ReadingInv ==
  ASSUME VerInv, Steady, evidence' = evidence, verifier.at \notin {"report", "stopped"},
         verifier' \in Verifiers, verifier'.at # "start", verifier'.still = verifier.still,
         verifier'.at = "files" => ~verifier'.failed,
         verifier'.at \in {"files", "status"} => verifier'.index = 1,
         verifier'.last \in 0..Len(runs),
         verifier'.at \in Counting \cup Closing /\ ~verifier'.failed =>
            verifier'.last # 0 /\ runs[verifier'.last].status = "succeeded",
         verifier.still /\ ~verifier'.failed =>
            /\ verifier'.at \in Counting \cup Closing => verifier'.last = Len(runs)
            /\ \A i \in 1..Len(Datasets) : Compared(i)' => Tally(core[Datasets[i]]) = Tally(csv[Datasets[i]])
            /\ \A d \in DatasetSet : \A y \in verifier'.sampled[d] : core[d][y] = csv[d][y]
            /\ verifier'.at \in {"schema", "persist", "report"} => \A d \in DatasetSet : core[d] # Nothing
            /\ verifier'.at \in {"persist", "report"} => sound,
         verifier.still /\ verifier'.at \in {"staging", "counts", "values"} =>
            verifier'.facts = csv[Datasets[verifier'.index]],
         verifier.still /\ Good => ~verifier'.failed
  PROVE  VerInv'
<1>1. evidence = {} /\ evidence' = {}
  BY DEF VerInv, ReadWell
<1>2. VerShape'
  BY <1>1 DEF VerInv, VerShape, Steady
<1>3. ReadWell'
  BY <1>1 DEF ReadWell, Steady
<1>4. Earned'
  BY DEF Earned, Steady, Tally, Present
<1>5. NotWithheld'
  BY SteadyFacts DEF NotWithheld, Steady
<1>6. FiledWell'
  BY <1>1 DEF FiledWell
<1> QED BY <1>2, <1>3, <1>4, <1>5, <1>6 DEF VerInv

LEMMA ReadsSteady == ASSUME NEW at, Reads(at) PROVE Steady /\ evidence' = evidence /\ verifier.at = at
BY DEF Reads, Steady, vars, acqVars, loadVars, tables, files

\* The row that self_test corrupts.
LEMMA LeastYear ==
  ASSUME NEW row \in Row, row # Nothing
  PROVE  LET y == CHOOSE z \in Present(row) : \A x \in Present(row) : z <= x
         IN  y \in Present(row)
<1>1. Present(row) \subseteq Nat /\ Present(row) # {}
  BY AcquisitionAssumption DEF Present, Row, Nothing
<1>2. PICK m \in Present(row) : \A v \in Present(row) : ~ (<<v, m>> \in OpToRel(<, Nat))
  BY <1>1, NatLessThanWellFounded, WFMin
<1>3. \A v \in Present(row) : ~(v < m)
  BY <1>1, <1>2 DEF OpToRel
<1>4. \A v \in Present(row) : m <= v
  BY <1>1, <1>3
<1> QED BY <1>4

\* The program stops where it is.
LEMMA StopInv ==
  ASSUME VerInv, Steady, evidence' = evidence, verifier.at \notin {"report", "stopped"}, Goes("stopped")
  PROVE  VerInv'
<1>1. VerShape /\ "stopped" \in VerPlaces
  BY DEF VerInv, VerPlaces
<1>2. /\ verifier' \in Verifiers /\ verifier'.at = "stopped" /\ verifier'.failed = verifier.failed
      /\ verifier'.index = verifier.index /\ verifier'.facts = verifier.facts
      /\ verifier'.last = verifier.last /\ verifier'.sampled = verifier.sampled
      /\ verifier'.still = verifier.still
  BY <1>1, GoesFacts
<1> QED BY <1>2, ReadingInv DEF VerInv, ReadWell, Earned, NotWithheld, Counting, Closing, Compared

\* It has nothing in hand but what it started with.
LEMMA AfreshInv ==
  ASSUME VerInv, Steady, evidence' = evidence, verifier.at \in {"start", "probe"},
         verifier' \in Verifiers, verifier'.at \in {"probe", "files", "stopped"},
         verifier'.still = verifier.still, ~verifier'.failed, verifier'.last = 0, verifier'.index = 1,
         \A d \in DatasetSet : verifier'.sampled[d] = {}
  PROVE  VerInv'
<1>1. 0 \in 0..Len(runs)
  BY DEF VerInv, ReadWell
<1> QED BY <1>1, ReadingInv DEF Counting, Closing, Compared

LEMMA SelfTestInv ==
  ASSUME AcqInv, LoadInv, VerInv, SelfTest \/ Probe \/ NoSelfTest
  PROVE  VerInv'
<1>1. Steady /\ evidence' = evidence /\ verifier.at \in {"start", "probe"} /\ VerShape
  BY ReadsSteady DEF SelfTest, Probe, NoSelfTest, VerInv
<1>2. /\ verifier.at = "start" => verifier = Unread
      /\ Unread \in Verifiers /\ ~Unread.failed /\ Unread.last = 0 /\ Unread.index = 1
      /\ \A d \in DatasetSet : Unread.sampled[d] = {}
  BY UnreadTyped DEF VerInv, ReadWell, Unread
<1>3. Probed \in DatasetSet /\ core[Probed] \in Row /\ csv[Probed] \in Row
  BY DatasetFacts DEF Probed, LoadInv, LoadShape, AcqInv, AcqShape, Grid
<1>4. CASE SelfTest
  <2>1. CASE core[Probed] = Nothing
    BY <2>1, <1>1, <1>4, StopInv DEF SelfTest
  <2>2. CASE core[Probed] # Nothing
    <3>1. PICK y \in Present(core[Probed]) :
             verifier' = [verifier EXCEPT !.at = "probe", !.facts = csv[Probed], !.target = y,
                                          !.original = core[Probed][y]]
      BY <2>2, <1>3, <1>4, LeastYear DEF SelfTest
    <3>2. y \in Years \cup {0} /\ core[Probed][y] \in Nat
      BY <1>3, AcquisitionAssumption DEF Present, Row
    <3>3. PICK o \in Nat : o = core[Probed][y]
      BY <3>2
    <3>4. verifier = Unread
      BY <1>2, <1>4 DEF SelfTest, Reads
    <3>5. verifier' = [Unread EXCEPT !.at = "probe", !.facts = csv[Probed], !.target = y, !.original = o]
      BY <3>1, <3>3, <3>4
    <3>6. /\ verifier' \in Verifiers /\ verifier'.at = "probe" /\ verifier'.still = Unread.still
          /\ verifier'.failed = Unread.failed /\ verifier'.last = Unread.last /\ verifier'.index = Unread.index
          /\ verifier'.sampled = Unread.sampled
      BY <3>2, <3>5, <1>2, <1>3 DEF Verifiers, VerPlaces
    <3> QED BY <3>4, <3>6, <1>1, <1>2, AfreshInv
  <2> QED BY <2>1, <2>2
<1>5. CASE Probe
  <2>1. PICK at \in {"files", "stopped"} :
           verifier' = [Unread EXCEPT !.still = verifier.still, !.at = at]
    BY <1>5 DEF Probe
  <2>2. /\ verifier' \in Verifiers /\ verifier'.at = at /\ verifier'.still = verifier.still
        /\ verifier'.failed = Unread.failed /\ verifier'.last = Unread.last /\ verifier'.index = Unread.index
        /\ verifier'.sampled = Unread.sampled
    BY <2>1, <1>1, <1>2 DEF Verifiers, VerPlaces, VerShape
  <2> QED BY <2>2, <1>1, <1>2, AfreshInv
<1>6. CASE NoSelfTest
  <2>1. verifier = Unread
    BY <1>2, <1>6 DEF NoSelfTest, Reads
  <2>2. /\ verifier' \in Verifiers /\ verifier'.at = "files" /\ verifier'.failed = verifier.failed
        /\ verifier'.last = verifier.last /\ verifier'.sampled = verifier.sampled
        /\ verifier'.still = verifier.still /\ verifier'.index = verifier.index
    BY <1>1, <1>6, GoesFacts DEF NoSelfTest, VerPlaces
  <2> QED BY <2>1, <2>2, <1>1, <1>2, AfreshInv
<1> QED BY <1>4, <1>5, <1>6

\* The checks that change nothing but where it is and whether something was found.
LEMMA FilesCheckInv == ASSUME AcqInv, LoadInv, VerInv, CheckFiles PROVE VerInv'
<1>1. Steady /\ evidence' = evidence /\ verifier.at = "files" /\ VerShape
  BY ReadsSteady DEF CheckFiles, VerInv
<1>2. PICK ok \in BOOLEAN : ok = (Cardinality(Vouched) = Cardinality(Sources))
  OBVIOUS
<1>3. /\ verifier' \in Verifiers /\ verifier'.at = "status"
      /\ (verifier'.failed <=> verifier.failed \/ ~ok)
      /\ verifier'.last = verifier.last /\ verifier'.sampled = verifier.sampled
      /\ verifier'.still = verifier.still /\ verifier'.index = verifier.index
  BY <1>1, <1>2, RecordsFacts DEF CheckFiles, VerPlaces
<1>4. verifier.still /\ Good => ~verifier'.failed
  BY <1>1, <1>2, <1>3, VouchedOnce DEF VerInv, NotWithheld
<1> QED BY <1>1, <1>3, <1>4, ReadingInv DEF VerInv, ReadWell, Earned, Counting, Closing, Compared

LEMMA StatusCheckInv == ASSUME AcqInv, LoadInv, VerInv, CheckStatus PROVE VerInv'
<1>1. Steady /\ evidence' = evidence /\ verifier.at = "status" /\ VerShape /\ Len(runs) \in Nat
  BY ReadsSteady DEF CheckStatus, VerInv, LoadInv, LoadShape
<1>2. PICK f \in BOOLEAN : f = (verifier.failed \/ runs = <<>> \/ runs[Len(runs)].status # "succeeded")
  OBVIOUS
<1>3. verifier' = [verifier EXCEPT !.at = "facts", !.last = Len(runs), !.failed = f]
  BY <1>2 DEF CheckStatus
<1>4. /\ verifier' \in Verifiers /\ verifier'.at = "facts" /\ verifier'.failed = f
      /\ verifier'.index = verifier.index
      /\ verifier'.last = Len(runs) /\ verifier'.sampled = verifier.sampled
      /\ verifier'.still = verifier.still
  BY <1>1, <1>3 DEF Verifiers, VerShape, VerPlaces
<1>5. verifier.still /\ Good => ~verifier'.failed
  BY <1>2, <1>4 DEF VerInv, NotWithheld, Good, LastTrusted, Trusted
<1>6. ~verifier'.failed => ~verifier.failed /\ Len(runs) # 0 /\ runs[Len(runs)].status = "succeeded"
  <2>1. runs # <<>> => Len(runs) # 0
    BY DEF LoadInv, LoadShape
  <2> QED BY <2>1, <1>2, <1>4
<1> QED BY <1>1, <1>4, <1>5, <1>6, ReadingInv DEF VerInv, ReadWell, Earned, Counting, Closing, Compared

\* The dataset it is at, and what it compares with.
LEMMA CheckedFacts ==
  ASSUME AcqInv, LoadInv, VerInv
  PROVE  /\ verifier.index \in 1..Len(Datasets) /\ Checked = Datasets[verifier.index]
         /\ Checked \in DatasetSet /\ csv[Checked] \in Row /\ Len(Datasets) \in Nat
BY DatasetFacts DEF VerInv, VerShape, Verifiers, Checked, AcqInv, AcqShape, Grid

LEMMA ReadFactsInv == ASSUME AcqInv, LoadInv, VerInv, ReadFacts PROVE VerInv'
<1>1. Steady /\ evidence' = evidence /\ verifier.at = "facts" /\ VerShape
  BY ReadsSteady DEF ReadFacts, VerInv
<1>2. CASE Goes("stopped")
  BY <1>1, <1>2, StopInv
<1>3. CASE verifier' = [verifier EXCEPT !.at = "staging", !.facts = csv[Checked]]
  <2>1. /\ verifier' \in Verifiers /\ verifier'.at = "staging" /\ verifier'.facts = csv[Checked]
        /\ verifier'.failed = verifier.failed /\ verifier'.index = verifier.index
        /\ verifier'.last = verifier.last /\ verifier'.sampled = verifier.sampled
        /\ verifier'.still = verifier.still
    BY <1>1, <1>3, CheckedFacts DEF Verifiers, VerShape, VerPlaces
  <2> QED BY <2>1, <1>1, CheckedFacts, ReadingInv
          DEF VerInv, ReadWell, Earned, NotWithheld, Counting, Closing, Compared
<1> QED BY <1>2, <1>3 DEF ReadFacts

LEMMA StagingCheckInv == ASSUME AcqInv, LoadInv, VerInv, CheckStaging PROVE VerInv'
<1>1. Steady /\ evidence' = evidence /\ verifier.at = "staging" /\ VerShape
  BY ReadsSteady DEF CheckStaging, VerInv
<1>2. PICK ok \in BOOLEAN :
         ok = (Tally(staging[Checked]).observations = Tally(verifier.facts).observations)
  OBVIOUS
<1>3. /\ verifier' \in Verifiers /\ verifier'.at = "counts"
      /\ (verifier'.failed <=> verifier.failed \/ ~ok)
      /\ verifier'.index = verifier.index /\ verifier'.facts = verifier.facts
      /\ verifier'.last = verifier.last /\ verifier'.sampled = verifier.sampled
      /\ verifier'.still = verifier.still
  BY <1>1, <1>2, RecordsFacts DEF CheckStaging, VerPlaces
<1>4. verifier.still => verifier.facts = csv[Checked]
  BY <1>1, CheckedFacts DEF VerInv, NotWithheld
<1>5. verifier.still /\ Good => ~verifier'.failed
  <2>1. Good => staging[Checked] = csv[Checked]
    BY DEF Good
  <2>2. verifier.still /\ Good => ok
    BY <2>1, <1>2, <1>4
  <2> QED BY <2>2, <1>3 DEF VerInv, NotWithheld
<1> QED BY <1>1, <1>3, <1>4, <1>5, CheckedFacts, ReadingInv
        DEF VerInv, ReadWell, Earned, Counting, Closing, Compared

LEMMA CountsCheckInv == ASSUME AcqInv, LoadInv, VerInv, CheckCounts PROVE VerInv'
<1>1. Steady /\ evidence' = evidence /\ verifier.at = "counts" /\ VerShape
  BY ReadsSteady DEF CheckCounts, VerInv
<1>2. PICK ok \in BOOLEAN : ok = (Tally(core[Checked]) = Tally(verifier.facts))
  OBVIOUS
<1>3. /\ verifier' \in Verifiers /\ verifier'.at = "values"
      /\ (verifier'.failed <=> verifier.failed \/ ~ok)
      /\ verifier'.index = verifier.index /\ verifier'.facts = verifier.facts
      /\ verifier'.last = verifier.last /\ verifier'.sampled = verifier.sampled
      /\ verifier'.still = verifier.still
  BY <1>1, <1>2, RecordsFacts DEF CheckCounts, VerPlaces
<1>4. verifier.still => verifier.facts = csv[Checked]
  BY <1>1, CheckedFacts DEF VerInv, NotWithheld
<1>5. verifier.still /\ Good => ~verifier'.failed
  <2>1. Good => core[Checked] = csv[Checked]
    BY GoodIsWhole, CheckedFacts
  <2>2. verifier.still /\ Good => ok
    BY <2>1, <1>2, <1>4
  <2> QED BY <2>2, <1>3 DEF VerInv, NotWithheld
<1>6. ASSUME verifier.still, ~verifier'.failed, NEW i \in 1..Len(Datasets), Compared(i)'
      PROVE  Tally(core[Datasets[i]]) = Tally(csv[Datasets[i]])
  <2>1. ~verifier.failed /\ ok /\ i <= verifier.index
    BY <1>3, <1>6 DEF Compared, Closing
  <2>2. CASE i = verifier.index
    BY <2>1, <2>2, <1>2, <1>4, <1>6, CheckedFacts
  <2>3. CASE i # verifier.index
    <3>1. Compared(i)
      BY <2>1, <2>3, <1>1, CheckedFacts DEF Compared
    <3> QED BY <3>1, <2>1, <1>6 DEF VerInv, Earned
  <2> QED BY <2>2, <2>3
<1> QED BY <1>1, <1>3, <1>4, <1>5, <1>6, CheckedFacts, ReadingInv
        DEF VerInv, ReadWell, Earned, Counting, Closing

LEMMA ValuesCheckInv == ASSUME AcqInv, LoadInv, VerInv, CheckValues PROVE VerInv'
<1>1. Steady /\ evidence' = evidence /\ verifier.at = "values" /\ VerShape
  BY ReadsSteady DEF CheckValues, VerInv
<1>2. PICK sample \in SUBSET Present(verifier.facts) :
         verifier' = [verifier EXCEPT !.failed = @ \/ \E y \in sample : ~AsPrinted(y),
                        !.sampled[Checked] = sample, !.facts = Nothing,
                        !.index = IF @ < Len(Datasets) THEN @ + 1 ELSE @,
                        !.at = IF verifier.index < Len(Datasets) THEN "facts" ELSE "placeholders"]
  BY DEF CheckValues
<1>3. sample \in SUBSET Years
  BY DEF Present
<1>4. PICK f \in BOOLEAN : f = (verifier.failed \/ \E y \in sample : ~AsPrinted(y))
  OBVIOUS
<1>5. PICK samples \in [DatasetSet -> SUBSET Years] : samples = [verifier.sampled EXCEPT ![Checked] = sample]
  BY <1>1, <1>3, CheckedFacts DEF VerShape, Verifiers
<1>6. PICK n \in 1..Len(Datasets) :
         n = IF verifier.index < Len(Datasets) THEN verifier.index + 1 ELSE verifier.index
  BY CheckedFacts
<1>7. PICK at \in {"facts", "placeholders"} :
         at = IF verifier.index < Len(Datasets) THEN "facts" ELSE "placeholders"
  OBVIOUS
<1>8. verifier' = [verifier EXCEPT !.failed = f, !.sampled = samples, !.facts = Nothing,
                                   !.index = n, !.at = at]
  BY <1>2, <1>4, <1>5, <1>6, <1>7
<1>9. /\ verifier' \in Verifiers /\ verifier'.at = at /\ verifier'.failed = f
      /\ verifier'.index = n /\ verifier'.last = verifier.last /\ verifier'.sampled = samples
      /\ verifier'.still = verifier.still
  BY <1>1, <1>8, NothingTyped DEF Verifiers, VerShape, VerPlaces
<1>10. verifier.still => verifier.facts = csv[Checked]
  BY <1>1, CheckedFacts DEF VerInv, NotWithheld
<1>11. verifier.still /\ Good => ~verifier'.failed
  <2>1. Good => core[Checked] = csv[Checked]
    BY GoodIsWhole, CheckedFacts
  <2>2. verifier.still /\ Good => \A y \in sample : AsPrinted(y)
    BY <2>1, <1>10 DEF AsPrinted
  <2> QED BY <2>2, <1>4, <1>9 DEF VerInv, NotWithheld
<1>12. ASSUME verifier.still, ~verifier'.failed, NEW d \in DatasetSet, NEW y \in verifier'.sampled[d]
       PROVE  core[d][y] = csv[d][y]
  <2>1. ~verifier.failed /\ \A z \in sample : AsPrinted(z)
    BY <1>4, <1>9, <1>12
  <2>2. CASE d = Checked
    <3>1. y \in sample
      BY <2>2, <1>1, <1>5, <1>9, <1>12 DEF VerShape, Verifiers
    <3> QED BY <3>1, <2>1, <2>2, <1>10, <1>12 DEF AsPrinted
  <2>3. CASE d # Checked
    <3>1. y \in verifier.sampled[d]
      BY <2>3, <1>1, <1>5, <1>9, <1>12 DEF VerShape, Verifiers
    <3> QED BY <3>1, <2>1, <1>12 DEF VerInv, Earned
  <2> QED BY <2>2, <2>3
<1>13. ASSUME verifier.still, ~verifier'.failed, NEW i \in 1..Len(Datasets), Compared(i)'
       PROVE  Tally(core[Datasets[i]]) = Tally(csv[Datasets[i]])
  <2>1. ~verifier.failed
    BY <1>4, <1>9, <1>13
  <2>2. i <= verifier.index
    BY <1>6, <1>7, <1>9, <1>13, CheckedFacts DEF Compared, Closing
  <2>3. Compared(i)
    BY <2>2, <1>1 DEF Compared
  <2> QED BY <2>1, <2>3, <1>13 DEF VerInv, Earned
<1>14. ~verifier'.failed => ~verifier.failed
  BY <1>4, <1>9
<1> QED BY <1>1, <1>7, <1>9, <1>11, <1>12, <1>13, <1>14, ReadingInv
        DEF VerInv, ReadWell, Earned, Counting, Closing

\* The last three checks: what is found in one of them is all they differ by.
LEMMA ClosingCheckInv ==
  ASSUME AcqInv, LoadInv, VerInv, CheckPlaceholders \/ CheckIntegrity \/ CheckSchema
  PROVE  VerInv'
<1>1. /\ Steady /\ evidence' = evidence /\ VerShape
      /\ verifier.at \in {"placeholders", "integrity", "schema"} /\ sound \in BOOLEAN
  BY ReadsSteady DEF CheckPlaceholders, CheckIntegrity, CheckSchema, VerInv, VerShape
<1>2. Probed \in DatasetSet
  BY DatasetFacts DEF Probed
<1>3. PICK ok \in BOOLEAN, at \in {"integrity", "schema", "persist"} :
         /\ Records(ok, at)
         /\ Good => ok
         /\ at = "integrity" => verifier.at = "placeholders"
         /\ at = "schema" => (ok => \A d \in DatasetSet : core[d] # Nothing)
         /\ at = "persist" => (ok => sound) /\ verifier.at = "schema"
  <2>1. CASE CheckPlaceholders
    <3>1. PICK ok \in BOOLEAN : ok = ((staging[Probed][Earliest] # 0) = (core[Probed][Earliest] # 0))
      OBVIOUS
    <3>2. Records(ok, "integrity") /\ verifier.at = "placeholders"
      BY <3>1, <2>1 DEF CheckPlaceholders, Reads
    <3>3. Good => ok
      BY <3>1, <1>2, GoodIsWhole
    <3> QED BY <3>2, <3>3
  <2>2. CASE CheckIntegrity
    <3>1. PICK ok \in BOOLEAN : ok = (\A d \in DatasetSet : core[d] # Nothing)
      OBVIOUS
    <3>2. Records(ok, "schema")
      BY <3>1, <2>2 DEF CheckIntegrity
    <3>3. Good => ok
      BY <3>1, GoodIsWhole
    <3> QED BY <3>1, <3>2, <3>3
  <2>3. CASE CheckSchema
    <3>1. Records(sound, "persist") /\ verifier.at = "schema"
      BY <2>3 DEF CheckSchema, Reads
    <3>2. Good => sound
      BY DEF Good
    <3> QED BY <3>1, <3>2, <1>1
  <2> QED BY <2>1, <2>2, <2>3
<1>4. /\ verifier' \in Verifiers /\ verifier'.at = at
      /\ (verifier'.failed <=> verifier.failed \/ ~ok)
      /\ verifier'.index = verifier.index /\ verifier'.facts = verifier.facts
      /\ verifier'.last = verifier.last /\ verifier'.sampled = verifier.sampled
      /\ verifier'.still = verifier.still
  BY <1>1, <1>3, RecordsFacts DEF VerPlaces
<1>5. verifier.still /\ Good => ~verifier'.failed
  BY <1>3, <1>4 DEF VerInv, NotWithheld
<1>6. ~verifier'.failed => ~verifier.failed /\ ok
  BY <1>4
<1>7. verifier.at \in Closing /\ \A i \in 1..Len(Datasets) : Compared(i)
  BY <1>1 DEF Closing, Compared
<1>8. verifier.still /\ ~verifier'.failed =>
         /\ verifier'.at \in {"schema", "persist", "report"} => \A d \in DatasetSet : core[d] # Nothing
         /\ verifier'.at \in {"persist", "report"} => sound
  BY <1>3, <1>4, <1>6 DEF VerInv, Earned
<1>9. verifier.still /\ ~verifier'.failed =>
         /\ verifier'.last = Len(runs)
         /\ \A i \in 1..Len(Datasets) : Tally(core[Datasets[i]]) = Tally(csv[Datasets[i]])
         /\ \A d \in DatasetSet : \A y \in verifier'.sampled[d] : core[d][y] = csv[d][y]
  BY <1>4, <1>6, <1>7 DEF VerInv, Earned
<1>10. ~verifier'.failed => verifier'.last # 0 /\ runs[verifier'.last].status = "succeeded"
  BY <1>4, <1>6, <1>7 DEF VerInv, ReadWell
<1> QED BY <1>1, <1>4, <1>5, <1>8, <1>9, <1>10, ReadingInv DEF VerInv, ReadWell

\* The verdict is filed.
LEMMA PersistInv == ASSUME LoadInv, VerInv, Persist PROVE VerInv'
<1>1. Steady /\ verifier.at = "persist" /\ VerShape /\ evidence = {}
  BY DEF Persist, VerInv, ReadWell, Steady, vars, acqVars, loadVars, tables, files
<1>2. LoadShape /\ Len(runs) \in Nat /\ DOMAIN runs = 1..Len(runs)
  BY DEF LoadInv, LoadShape
<1> DEFINE good == {i \in DOMAIN runs : runs[i].status = "succeeded"}
           filed == Latest(good)
<1>3. /\ evidence' = {[run |-> i, passed |-> ~verifier.failed] : i \in filed}
      /\ Goes(IF filed = {} THEN "stopped" ELSE "report")
  BY <1>1 DEF Persist
<1>4. PICK at \in {"stopped", "report"} : at = IF filed = {} THEN "stopped" ELSE "report"
  OBVIOUS
<1>5. /\ verifier' \in Verifiers /\ verifier'.at = at /\ verifier'.failed = verifier.failed
      /\ verifier'.index = verifier.index /\ verifier'.facts = verifier.facts
      /\ verifier'.last = verifier.last /\ verifier'.sampled = verifier.sampled
      /\ verifier'.still = verifier.still
  <2> HIDE DEF filed
  <2> QED BY <1>1, <1>3, <1>4, GoesFacts DEF VerPlaces
<1>6. ASSUME NEW i \in filed
      PROVE  i \in 1..Len(runs) /\ runs[i].status = "succeeded" /\ \A j \in good : j <= i
  BY <1>2 DEF Latest
<1>7. ~verifier.failed => verifier.last \in good /\ verifier.last > 0
  BY <1>1, <1>2 DEF VerInv, ReadWell, Closing
<1>8. verifier.failed \in BOOLEAN
  BY <1>1 DEF VerShape, Verifiers
<1>9. ASSUME NEW e \in evidence'
      PROVE  /\ e.run \in 1..Len(runs) /\ e.passed \in BOOLEAN /\ e \in [run : 1..Len(runs), passed : BOOLEAN]
             /\ runs[e.run].status = "succeeded"
             /\ e.passed => e.run >= verifier.last /\ verifier.last > 0
  <2>1. PICK i \in filed : e = [run |-> i, passed |-> ~verifier.failed]
    BY <1>3
  <2>2. e.run = i /\ e.passed = ~verifier.failed
    BY <2>1
  <2>3. i \in 1..Len(runs) /\ runs[i].status = "succeeded" /\ \A j \in good : j <= i
    BY <1>6
  <2>4. ~verifier.failed => i >= verifier.last
    <3> HIDE DEF good
    <3> QED BY <2>3, <1>7
  <2>5. e \in [run : 1..Len(runs), passed : BOOLEAN]
    BY <2>1, <2>3, <1>8
  <2> QED BY <2>2, <2>3, <2>4, <2>5, <1>7, <1>8
<1>10. Len(runs') = Len(runs) /\ runs' = runs /\ sound' = sound
  BY <1>1 DEF Steady
<1>11. VerShape'
  BY <1>1, <1>5, <1>9, <1>10 DEF VerShape
<1>12. ReadWell'
  BY <1>1, <1>4, <1>5, <1>10 DEF VerInv, ReadWell, Counting, Closing
<1>13. Earned'
  <2>1. verifier'.at \in {"stopped", "report"} /\ verifier.at \in Closing
    BY <1>1, <1>4, <1>5 DEF Closing
  <2>2. \A i \in 1..Len(Datasets) : Compared(i)
    BY <2>1 DEF Compared
  <2> QED BY <2>1, <2>2, <1>1, <1>5 DEF VerInv, Earned, Steady, Tally, Present
<1>14. NotWithheld'
  BY <1>1, <1>4, <1>5, SteadyFacts DEF VerInv, NotWithheld
<1>15. FiledWell'
  BY <1>5, <1>9, <1>10 DEF FiledWell
<1> QED BY <1>11, <1>12, <1>13, <1>14, <1>15 DEF VerInv

LEMMA WriteReportsInv == ASSUME LoadInv, VerInv, WriteReports PROVE VerInv'
<1>1. Steady /\ evidence' = evidence /\ verifier.at = "report" /\ VerShape /\ Len(runs) \in Nat
  BY ReadsSteady DEF WriteReports, VerInv, LoadInv, LoadShape
<1>2. verifier' = [verifier EXCEPT !.at = "stopped", !.report = evidence]
  BY DEF WriteReports
<1>3. evidence \in SUBSET [run : Nat, passed : BOOLEAN]
  BY <1>1 DEF VerShape
<1>4. /\ verifier' \in Verifiers /\ verifier'.at = "stopped" /\ verifier'.failed = verifier.failed
      /\ verifier'.index = verifier.index /\ verifier'.facts = verifier.facts
      /\ verifier'.last = verifier.last /\ verifier'.sampled = verifier.sampled
      /\ verifier'.still = verifier.still
  BY <1>1, <1>2, <1>3 DEF VerShape, Verifiers, VerPlaces
<1>5. VerShape'
  BY <1>1, <1>4 DEF VerShape, Steady
<1>6. ReadWell'
  BY <1>1, <1>4 DEF VerInv, ReadWell, Steady, Counting, Closing
<1>7. Earned'
  BY <1>1, <1>4 DEF VerInv, Earned, Steady, Counting, Closing, Compared
<1>8. NotWithheld'
  BY <1>1, <1>4, SteadyFacts DEF VerInv, NotWithheld
<1>9. FiledWell'
  BY <1>1, <1>4 DEF VerInv, FiledWell, Steady
<1> QED BY <1>5, <1>6, <1>7, <1>8, <1>9 DEF VerInv

LEMMA BesideInv == ASSUME AcqInv, LoadInv, VerInv, Beside PROVE VerInv'
<1>1. VerShape /\ Len(runs) \in Nat /\ Len(runs') \in Nat /\ Len(runs) <= Len(runs')
  BY BesideFacts DEF VerInv
<1>2. \A i \in 1..Len(runs) : runs[i].status = "succeeded" => runs'[i].status = "succeeded"
  BY BesideFacts
<1>3. PICK b \in BOOLEAN : b = (verifier.at = "start")
  OBVIOUS
<1>4. verifier' = [verifier EXCEPT !.still = b] /\ evidence' = evidence /\ sound' = sound
  BY <1>3 DEF Beside
<1>5. /\ verifier' \in Verifiers /\ verifier'.at = verifier.at /\ verifier'.failed = verifier.failed
      /\ verifier'.index = verifier.index /\ verifier'.facts = verifier.facts
      /\ verifier'.last = verifier.last /\ verifier'.sampled = verifier.sampled
      /\ verifier'.still = b
  BY <1>1, <1>4 DEF VerShape, Verifiers
<1>6. verifier.at = "start" => verifier = Unread /\ verifier' = Unread
  <2>1. verifier.at = "start" => verifier = Unread
    BY DEF VerInv, ReadWell
  <2>2. ASSUME verifier = Unread PROVE verifier' = Unread
    BY <2>2, <1>3, <1>4 DEF Unread
  <2> QED BY <2>1, <2>2
<1>7. VerShape'
  BY <1>1, <1>4, <1>5 DEF VerShape
<1>8. ReadWell'
  <2>1. verifier.last \in 1..Len(runs) /\ runs[verifier.last].status = "succeeded" =>
           runs'[verifier.last].status = "succeeded"
    BY <1>2
  <2>2. verifier'.at = "start" => verifier' = Unread
    BY <1>5, <1>6
  <2> QED BY <2>1, <2>2, <1>1, <1>4, <1>5 DEF VerInv, ReadWell
<1>9. ASSUME verifier.at = "start" PROVE Earned' /\ NotWithheld'
  <2>1. ~Unread.failed /\ \A d \in DatasetSet : Unread.sampled[d] = {}
    BY DEF Unread
  <2>2. Earned'
    BY <2>1, <1>5, <1>6, <1>9 DEF Earned, Counting, Closing, Compared
  <2> QED BY <2>1, <2>2, <1>5, <1>6, <1>9 DEF NotWithheld
<1>10. ASSUME verifier.at # "start" PROVE Earned' /\ NotWithheld'
  BY <1>3, <1>5, <1>10 DEF Earned, NotWithheld
<1>11. FiledWell'
  <2>1. \A e \in evidence : e.run \in 1..Len(runs)
    BY <1>1 DEF VerShape
  <2> QED BY <2>1, <1>2, <1>4, <1>5 DEF VerInv, FiledWell
<1> QED BY <1>7, <1>8, <1>9, <1>10, <1>11 DEF VerInv

LEMMA VerInitInv == Init /\ VerInit => VerInv
<1> SUFFICES ASSUME Init, VerInit PROVE VerInv
  OBVIOUS
<1>1. verifier = Unread /\ evidence = {} /\ sound \in BOOLEAN /\ runs = <<>> /\ Len(runs) = 0
  BY DEF VerInit, Init, LoadInit
<1>2. /\ Unread \in Verifiers /\ Unread.at = "start" /\ ~Unread.failed /\ Unread.last = 0
      /\ \A d \in DatasetSet : Unread.sampled[d] = {}
  BY UnreadTyped DEF Unread
<1>3. VerShape /\ FiledWell
  BY <1>1, <1>2 DEF VerShape, FiledWell
<1>4. ReadWell
  BY <1>1, <1>2 DEF ReadWell, Counting, Closing
<1>5. Earned /\ NotWithheld
  BY <1>1, <1>2 DEF Earned, NotWithheld, Counting, Closing, Compared
<1> QED BY <1>3, <1>4, <1>5 DEF VerInv

LEMMA VerQuiet == VerInv /\ UNCHANGED <<vars, verVars>> => VerInv'
<1> SUFFICES ASSUME VerInv, UNCHANGED <<vars, verVars>> PROVE VerInv'
  OBVIOUS
<1>1. Steady /\ verifier' = verifier /\ evidence' = evidence
  BY DEF Steady, vars, acqVars, loadVars, tables, files, verVars
<1>2. VerShape' /\ ReadWell' /\ FiledWell'
  BY <1>1 DEF VerInv, VerShape, ReadWell, FiledWell, Steady
<1>3. Earned'
  BY <1>1 DEF VerInv, Earned, Steady, Tally, Present, Compared
<1>4. NotWithheld'
  BY <1>1, SteadyFacts DEF VerInv, NotWithheld, Steady
<1> QED BY <1>2, <1>3, <1>4 DEF VerInv

\* A verdict on a load is earned, is not withheld from a good load, and is filed under a success,
\* whatever is loaded and acquired beside the verification (verify_load.py:191-371, 572-588).
THEOREM VerdictHoldsAlways == VerSpec => []VerdictHolds
<1>1. Init /\ VerInit => AcqInv /\ LoadInv /\ VerInv
  BY AcqInitInv, LoadInitInv, VerInitInv DEF Init
<1>2. AcqInv /\ LoadInv /\ VerInv /\ [VerNext]_<<vars, verVars>> => AcqInv' /\ LoadInv' /\ VerInv'
  <2> SUFFICES ASSUME AcqInv, LoadInv, VerInv, [VerNext]_<<vars, verVars>>
               PROVE  AcqInv' /\ LoadInv' /\ VerInv'
    OBVIOUS
  <2>1. CASE Beside
    BY <2>1, BesideFacts, BesideInv
  <2>2. CASE VerStep
    <3>1. UNCHANGED vars
      BY <2>2 DEF VerStep, Reads, SelfTest, Probe, NoSelfTest, CheckFiles, CheckStatus, ReadFacts,
                  CheckStaging, CheckCounts, CheckValues, CheckPlaceholders, CheckIntegrity,
                  CheckSchema, Persist, WriteReports
    <3>2. AcqInv' /\ LoadInv'
      BY <3>1, AcqQuiet, LoadQuiet DEF vars
    <3>3. VerInv'
      BY <2>2, SelfTestInv, FilesCheckInv, StatusCheckInv, ReadFactsInv, StagingCheckInv,
         CountsCheckInv, ValuesCheckInv, ClosingCheckInv, PersistInv, WriteReportsInv DEF VerStep
    <3> QED BY <3>2, <3>3
  <2>3. CASE UNCHANGED <<vars, verVars>>
    BY <2>3, AcqQuiet, LoadQuiet, VerQuiet DEF vars
  <2> QED BY <2>1, <2>2, <2>3 DEF VerNext
<1>3. AcqInv /\ LoadInv /\ VerInv => VerdictHolds
  <2> SUFFICES ASSUME AcqInv, LoadInv, VerInv PROVE VerdictHolds
    OBVIOUS
  <2>1. VerTypeOK
    <3>1. DOMAIN runs = 1..Len(runs)
      BY DEF LoadInv, LoadShape
    <3> QED BY <3>1 DEF VerInv, VerShape, ReadWell, Verifiers, VerTypeOK
  <2>2. PassIsEarned
    <3> SUFFICES ASSUME verifier.at = "persist", verifier.still, ~verifier.failed
                 PROVE  /\ Len(runs) > 0 /\ runs[Len(runs)].status = "succeeded" /\ sound
                        /\ \A d \in DatasetSet : /\ Tally(core[d]) = Tally(csv[d]) /\ core[d] # Nothing
                                                 /\ \A y \in verifier.sampled[d] : core[d][y] = csv[d][y]
      BY DEF PassIsEarned
    <3>1. verifier.last = Len(runs) /\ verifier.last # 0 /\ runs[verifier.last].status = "succeeded"
      BY DEF VerInv, ReadWell, Earned, Closing
    <3>2. Len(runs) \in Nat
      BY DEF LoadInv, LoadShape
    <3>3. \A d \in DatasetSet : Tally(core[d]) = Tally(csv[d])
      BY DatasetFacts DEF VerInv, Earned, Compared, Closing
    <3>4. sound /\ \A d \in DatasetSet : /\ core[d] # Nothing
                                         /\ \A y \in verifier.sampled[d] : core[d][y] = csv[d][y]
      BY DEF VerInv, Earned
    <3> QED BY <3>1, <3>2, <3>3, <3>4
  <2>3. GoodLoadPasses
    BY DEF VerInv, NotWithheld, GoodLoadPasses, Good
  <2> QED BY <2>1, <2>2, <2>3 DEF VerInv, VerdictHolds
<1> QED BY <1>1, <1>2, <1>3, PTL DEF VerSpec

-----------------------------------------------------------------------------
(* Migrations.                                                             *)

Exits      == {"none", "ok", "drift", "failed", "killed"}
MigPlaces  == {"start", "ledger", "check", "apply", "record", "ended"}
MigRecords == [at : MigPlaces, found : SUBSET Versions, applied : [Versions -> Nat],
               pending : SUBSET Versions, text : Nat, exit : Exits, stale : BOOLEAN]
MigShape   == /\ disk \in [Versions -> Nat] /\ schemaLedger \in [Versions -> Nat]
              /\ executed \in Seq(Versions \X Nat)
              /\ slipped \in SUBSET Versions /\ late \in SUBSET Versions
              /\ migrator \in [Migrators -> MigRecords]

\* A file is never removed, and an edit makes it another for good.
Lasting == \A v \in Versions : (v \notin late => disk[v] # 0) /\ schemaLedger[v] <= disk[v]
\* The ledger tells what ran.
Recorded == \A e \in Range(executed) : e[1] \notin slipped => schemaLedger[e[1]] = e[2]

\* What a migrator knows: the files, what was applied, and that all it has behind it is.
Outdated(v, revision) == 0 < revision /\ revision < disk[v]
Knows(k) ==
    /\ \A v \in migrator[k].found : disk[v] # 0
    /\ migrator[k].at # "start" => Versions \ late \subseteq migrator[k].found
    /\ migrator[k].at # "ended" => migrator[k].exit = "none"
    /\ migrator[k].at = "check" =>
          \A v \in Versions : migrator[k].applied[v] # 0 => schemaLedger[v] # 0
    /\ migrator[k].at \in {"apply", "record"} =>
          /\ migrator[k].pending # {} /\ migrator[k].pending \subseteq migrator[k].found
          /\ \A v \in migrator[k].found \ migrator[k].pending : schemaLedger[v] # 0
    /\ migrator[k].at = "record" =>
          migrator[k].text = disk[Upcoming(k)] \/ Upcoming(k) \in slipped
    /\ migrator[k].stale =>
          /\ migrator[k].at \in {"ledger", "check", "ended"} /\ migrator[k].exit # "ok"
          /\ migrator[k].at = "ledger" => \E v \in migrator[k].found : Outdated(v, schemaLedger[v])
          /\ migrator[k].at = "check" =>
                \E v \in migrator[k].found : Outdated(v, migrator[k].applied[v])
MigInv == /\ MigShape /\ Lasting /\ Recorded /\ OnceEach /\ InFileOrder
          /\ \A k \in Migrators : Knows(k)

LEMMA MinFacts ==
  ASSUME NEW S \in SUBSET Versions, S # {}
  PROVE  Min(S) \in S /\ \A v \in S : Min(S) <= v
<1>1. S \subseteq Nat
  BY MigrationsAssumption
<1>2. PICK m \in S : \A v \in S : ~ (<<v, m>> \in OpToRel(<, Nat))
  BY <1>1, NatLessThanWellFounded, WFMin
<1>3. \A v \in S : ~ (v < m)
  BY <1>1, <1>2 DEF OpToRel
<1>4. \A v \in S : m <= v
  BY <1>1, <1>3
<1> QED BY <1>4 DEF Min

LEMMA UpcomingFacts ==
  ASSUME MigShape, NEW k \in Migrators, Knows(k), migrator[k].at \in {"apply", "record"}
  PROVE  /\ migrator[k] \in MigRecords /\ Upcoming(k) \in Versions /\ Upcoming(k) \in Nat
         /\ Upcoming(k) \in migrator[k].pending /\ Upcoming(k) \in migrator[k].found
         /\ disk[Upcoming(k)] # 0
         /\ \A v \in migrator[k].pending : Upcoming(k) <= v
<1>1. migrator[k] \in MigRecords
  BY DEF MigShape
<1>2. migrator[k].pending \in SUBSET Versions /\ migrator[k].pending # {}
  BY <1>1 DEF MigRecords, Knows
<1>3. /\ Upcoming(k) \in migrator[k].pending
      /\ \A v \in migrator[k].pending : Upcoming(k) <= v
  BY <1>2, MinFacts DEF Upcoming
<1>4. Upcoming(k) \in migrator[k].found
  BY <1>3 DEF Knows
<1> QED BY <1>1, <1>2, <1>3, <1>4, MigrationsAssumption DEF Knows

LEMMA MigratorFacts ==
  ASSUME MigShape, NEW k \in Migrators, NEW r \in MigRecords, migrator' = [migrator EXCEPT ![k] = r]
  PROVE  /\ migrator' \in [Migrators -> MigRecords] /\ migrator'[k] = r
         /\ \A j \in Migrators : j # k => migrator'[j] = migrator[j]
BY DEF MigShape

LEMMA EndsFacts ==
  ASSUME MigShape, NEW k \in Migrators, NEW code \in Exits, Ends(k, code)
  PROVE  /\ migrator' \in [Migrators -> MigRecords]
         /\ migrator'[k].at = "ended" /\ migrator'[k].exit = code
         /\ migrator'[k].found = migrator[k].found /\ migrator'[k].stale = migrator[k].stale
         /\ \A j \in Migrators : j # k => migrator'[j] = migrator[j]
<1> DEFINE r == [[migrator[k] EXCEPT !.at = "ended"] EXCEPT !.exit = code]
<1>1. migrator[k] \in MigRecords
  BY DEF MigShape
<1>2. r \in MigRecords
  BY <1>1 DEF MigRecords, MigPlaces
<1>3. migrator' = [migrator EXCEPT ![k] = r]
  BY DEF Ends, MigShape
<1>4. /\ r.at = "ended" /\ r.exit = code /\ r.found = migrator[k].found /\ r.stale = migrator[k].stale
  BY <1>1 DEF MigRecords
<1> HIDE DEF r
<1>5. /\ migrator' \in [Migrators -> MigRecords] /\ migrator'[k] = r
      /\ \A j \in Migrators : j # k => migrator'[j] = migrator[j]
  BY <1>2, <1>3, MigratorFacts
<1> QED BY <1>4, <1>5

\* Who has ended, and was not outdated or did not end well, knows all there is to know.
LEMMA EndedKnows ==
  ASSUME MigShape, NEW k \in Migrators, Knows(k), NEW code \in Exits, Ends(k, code),
         UNCHANGED <<disk, late>>, migrator[k].at # "start", migrator[k].stale => code # "ok"
  PROVE  Knows(k)'
<1>1. /\ migrator'[k].at = "ended" /\ migrator'[k].exit = code
      /\ migrator'[k].found = migrator[k].found /\ migrator'[k].stale = migrator[k].stale
  BY EndsFacts
<1> QED BY <1>1 DEF Knows

\* What the others do takes nothing away from what a migrator knows.
LEMMA StillKnows ==
  ASSUME MigShape, MigShape', NEW j \in Migrators, Knows(j), migrator'[j] = migrator[j], late' = late,
         \A v \in Versions : /\ schemaLedger[v] # 0 => schemaLedger'[v] = schemaLedger[v]
                             /\ disk[v] <= disk'[v],
         slipped \subseteq slipped',
         migrator[j].at = "record" =>
            disk'[Upcoming(j)] = disk[Upcoming(j)] \/ Upcoming(j) \in slipped'
  PROVE  Knows(j)'
<1>1. /\ migrator[j] \in MigRecords
      /\ \A v \in Versions : disk[v] \in Nat /\ disk'[v] \in Nat /\ schemaLedger[v] \in Nat
  BY DEF MigShape
<1>2. Upcoming(j)' = Upcoming(j)
  BY DEF Upcoming
<1>3. \A v \in Versions, revision \in Nat : Outdated(v, revision) => Outdated(v, revision)'
  BY <1>1 DEF Outdated
<1>4. /\ migrator[j].found \in SUBSET Versions
      /\ \A v \in Versions : migrator[j].applied[v] \in Nat
  BY <1>1 DEF MigRecords
<1>5. \A v \in migrator[j].found : disk'[v] # 0
  <2>1. \A v \in migrator[j].found : disk[v] # 0
    BY DEF Knows
  <2> QED BY <2>1, <1>1, <1>4
<1>6. ASSUME migrator[j].stale, migrator[j].at = "ledger"
      PROVE  \E v \in migrator[j].found : Outdated(v, schemaLedger[v])'
  <2>1. PICK v \in migrator[j].found : Outdated(v, schemaLedger[v])
    BY <1>6 DEF Knows
  <2>2. v \in Versions /\ schemaLedger[v] # 0
    BY <2>1, <1>1, <1>4 DEF Outdated
  <2>3. schemaLedger'[v] = schemaLedger[v]
    BY <2>2
  <2> QED BY <2>1, <2>2, <2>3, <1>1 DEF Outdated
<1>7. ASSUME migrator[j].stale, migrator[j].at = "check"
      PROVE  \E v \in migrator[j].found : Outdated(v, migrator[j].applied[v])'
  <2>1. PICK v \in migrator[j].found : Outdated(v, migrator[j].applied[v])
    BY <1>7 DEF Knows
  <2> QED BY <2>1, <1>1, <1>4 DEF Outdated
<1>8. migrator[j].at = "record" => migrator[j].text = disk'[Upcoming(j)] \/ Upcoming(j) \in slipped'
  BY DEF Knows
<1>9. ASSUME migrator[j].at \in {"apply", "record"}
      PROVE  \A v \in migrator[j].found \ migrator[j].pending : schemaLedger'[v] # 0
  <2>1. \A v \in migrator[j].found \ migrator[j].pending : schemaLedger[v] # 0
    BY <1>9 DEF Knows
  <2> QED BY <2>1, <1>4
<1>10. migrator[j].at = "check" => \A v \in Versions : migrator[j].applied[v] # 0 => schemaLedger'[v] # 0
  BY DEF Knows
<1> QED BY <1>2, <1>5, <1>6, <1>7, <1>8, <1>9, <1>10 DEF Knows

LEMMA MigInitInv == MigInit => MigInv
<1> SUFFICES ASSUME MigInit PROVE MigInv
  OBVIOUS
<1>1. /\ disk \in [Versions -> Nat] /\ schemaLedger = [v \in Versions |-> 0] /\ executed = <<>>
      /\ slipped = {} /\ late = {v \in Versions : disk[v] = 0}
      /\ migrator = [k \in Migrators |-> Waiting]
  BY DEF MigInit
<1>2. Waiting \in MigRecords
  BY DEF Waiting, MigRecords, MigPlaces, Exits
<1>3. MigShape
  BY <1>1, <1>2 DEF MigShape
<1>4. Lasting
  <2>1. \A v \in Versions : disk[v] \in Nat
    BY <1>1
  <2> QED BY <1>1, <2>1 DEF Lasting
<1>5. Range(executed) = {} /\ Len(executed) = 0
  BY <1>1 DEF Range
<1>6. Recorded /\ OnceEach /\ InFileOrder
  BY <1>1, <1>5 DEF Recorded, OnceEach, InFileOrder
<1>7. \A k \in Migrators : Knows(k)
  BY <1>1 DEF Knows, Waiting
<1> QED BY <1>3, <1>4, <1>6, <1>7 DEF MigInv

\* A step of a migrator that leaves the files and the ledger alone.
LEMMA QuietStep ==
  ASSUME MigInv, NEW k \in Migrators, UNCHANGED <<disk, schemaLedger, executed, slipped, late>>,
         migrator' \in [Migrators -> MigRecords], \A j \in Migrators : j # k => migrator'[j] = migrator[j],
         Knows(k)'
  PROVE  MigInv'
<1>1. MigShape /\ MigShape'
  BY DEF MigInv, MigShape
<1>2. \A v \in Versions : disk[v] <= disk[v]
  BY <1>1 DEF MigShape
<1>3. ASSUME NEW j \in Migrators PROVE Knows(j)'
  <2>1. CASE j = k
    BY <2>1
  <2>2. CASE j # k
    BY <2>2, <1>1, <1>2, StillKnows DEF MigInv
  <2> QED BY <2>1, <2>2
<1>4. Lasting' /\ Recorded' /\ OnceEach' /\ InFileOrder'
  BY DEF MigInv, Lasting, Recorded, OnceEach, InFileOrder
<1> QED BY <1>1, <1>3, <1>4 DEF MigInv

LEMMA DiscoverInv == ASSUME MigInv, NEW k \in Migrators, Discover(k) PROVE MigInv'
<1> DEFINE found == {v \in Versions : disk[v] # 0}
           stale == \E e \in Range(executed) : e[1] \notin slipped /\ disk[e[1]] # e[2]
           r == [[[migrator[k] EXCEPT !.at = "ledger"] EXCEPT !.found = found] EXCEPT !.stale = stale]
<1>1. MigShape /\ Knows(k) /\ migrator[k] \in MigRecords /\ migrator[k].at = "start"
  BY DEF MigInv, MigShape, Discover
<1>2. [migrator[k] EXCEPT !.at = "ledger"] \in MigRecords
  BY <1>1 DEF MigRecords, MigPlaces
<1>3. found \in SUBSET Versions /\ stale \in BOOLEAN
  OBVIOUS
<1>4. migrator' = [migrator EXCEPT ![k] = r]
  BY <1>1 DEF Discover, MigShape
<1>5. ASSUME stale PROVE \E v \in found : Outdated(v, schemaLedger[v])
  <2>1. PICK e \in Range(executed) : e[1] \notin slipped /\ disk[e[1]] # e[2]
    BY <1>5
  <2>2. schemaLedger[e[1]] = e[2]
    BY <2>1 DEF MigInv, Recorded
  <2>3. e[1] \in Versions /\ schemaLedger[e[1]] # 0
    BY <2>1 DEF MigInv, OnceEach
  <2>4. schemaLedger[e[1]] \in Nat /\ disk[e[1]] \in Nat /\ schemaLedger[e[1]] <= disk[e[1]]
    BY <2>3, <1>1 DEF MigInv, Lasting, MigShape
  <2>5. e[1] \in found /\ Outdated(e[1], schemaLedger[e[1]])
    BY <2>1, <2>2, <2>3, <2>4 DEF Outdated
  <2> QED BY <2>5
<1>6. Versions \ late \subseteq found
  BY DEF MigInv, Lasting
<1>f. \A v \in found : disk[v] # 0
  OBVIOUS
<1> HIDE DEF found, stale
<1>7. r \in MigRecords
  <2>1. [[migrator[k] EXCEPT !.at = "ledger"] EXCEPT !.found = found] \in MigRecords
    BY <1>2, <1>3 DEF MigRecords
  <2> QED BY <2>1, <1>3 DEF MigRecords
<1>8. /\ r.at = "ledger" /\ r.found = found /\ r.exit = migrator[k].exit
  BY <1>1 DEF MigRecords
<1>9. r.stale = stale
  BY <1>1 DEF MigRecords
<1> HIDE DEF r
<1>10. /\ migrator' \in [Migrators -> MigRecords] /\ migrator'[k] = r
       /\ \A j \in Migrators : j # k => migrator'[j] = migrator[j]
  BY <1>1, <1>4, <1>7, MigratorFacts
<1>11. UNCHANGED <<disk, schemaLedger, executed, slipped, late>>
  BY DEF Discover
<1>12. Knows(k)'
  <2>1. migrator[k].exit = "none"
    BY <1>1 DEF Knows
  <2>2. r.stale => \E v \in r.found : Outdated(v, schemaLedger[v])
    BY <1>5, <1>8, <1>9
  <2>3. r.stale => \E v \in r.found : Outdated(v, schemaLedger[v])'
    BY <2>2, <1>11 DEF Outdated
  <2> QED BY <2>1, <2>3, <1>f, <1>6, <1>8, <1>10, <1>11 DEF Knows
<1> QED BY <1>10, <1>11, <1>12, QuietStep

LEMMA ReadLedgerInv == ASSUME MigInv, NEW k \in Migrators, ReadLedger(k) PROVE MigInv'
<1> DEFINE r == [[migrator[k] EXCEPT !.at = "check"] EXCEPT !.applied = schemaLedger]
<1>1. MigShape /\ Knows(k) /\ migrator[k] \in MigRecords /\ migrator[k].at = "ledger"
  BY DEF MigInv, MigShape, ReadLedger
<1>2. r \in MigRecords
  <2>1. [migrator[k] EXCEPT !.at = "check"] \in MigRecords
    BY <1>1 DEF MigRecords, MigPlaces
  <2> QED BY <2>1, <1>1 DEF MigRecords, MigShape
<1>3. migrator' = [migrator EXCEPT ![k] = r]
  BY <1>1 DEF ReadLedger, MigShape
<1>4. /\ r.at = "check" /\ r.applied = schemaLedger /\ r.found = migrator[k].found
      /\ r.exit = migrator[k].exit /\ r.stale = migrator[k].stale
  BY <1>1 DEF MigRecords
<1> HIDE DEF r
<1>5. /\ migrator' \in [Migrators -> MigRecords] /\ migrator'[k] = r
      /\ \A j \in Migrators : j # k => migrator'[j] = migrator[j]
  BY <1>1, <1>2, <1>3, MigratorFacts
<1>6. UNCHANGED <<disk, schemaLedger, executed, slipped, late>>
  BY DEF ReadLedger
<1>7. Knows(k)'
  <2>1. r.stale => \E v \in r.found : Outdated(v, r.applied[v])
    BY <1>1, <1>4 DEF Knows
  <2>2. (\E v \in r.found : Outdated(v, r.applied[v])) =>
        \E v \in migrator'[k].found : Outdated(v, migrator[k].applied[v])'
    BY <1>5, <1>6 DEF Outdated
  <2> QED BY <2>1, <2>2, <1>1, <1>4, <1>5, <1>6 DEF Knows
<1> QED BY <1>5, <1>6, <1>7, QuietStep

\* A step that ends a migrator.
LEMMA EndingInv ==
  ASSUME MigInv, NEW k \in Migrators, NEW code \in Exits, Ends(k, code),
         UNCHANGED <<disk, schemaLedger, executed, slipped, late>>,
         migrator[k].at # "start", migrator[k].stale => code # "ok"
  PROVE  MigInv'
<1>1. MigShape /\ Knows(k)
  BY DEF MigInv
<1>2. Knows(k)'
  BY <1>1, EndedKnows
<1>3. /\ migrator' \in [Migrators -> MigRecords]
      /\ \A j \in Migrators : j # k => migrator'[j] = migrator[j]
  BY <1>1, EndsFacts
<1> QED BY <1>2, <1>3, QuietStep

LEMMA CheckInv == ASSUME MigInv, NEW k \in Migrators, Check(k) PROVE MigInv'
<1> DEFINE pending == {v \in migrator[k].found : migrator[k].applied[v] = 0}
           r == [[migrator[k] EXCEPT !.at = "apply"] EXCEPT !.pending = pending]
<1>1. /\ MigShape /\ Knows(k) /\ migrator[k] \in MigRecords /\ migrator[k].at = "check"
      /\ UNCHANGED <<disk, schemaLedger, executed, slipped, late>>
  BY DEF MigInv, MigShape, Check
<1>2. migrator[k].found \in SUBSET Versions /\ \A v \in Versions : disk[v] \in Nat
  BY <1>1 DEF MigRecords, MigShape
<1>3. migrator[k].stale => Drifted(k) # {}
  <2>1. ASSUME migrator[k].stale PROVE Drifted(k) # {}
    <3>1. PICK v \in migrator[k].found : Outdated(v, migrator[k].applied[v])
      BY <2>1, <1>1 DEF Knows
    <3>2. disk[v] \in Nat /\ migrator[k].applied[v] \in Nat
      BY <1>1, <1>2 DEF MigRecords
    <3>3. v \in Drifted(k)
      BY <3>1, <3>2 DEF Drifted, Outdated
    <3> QED BY <3>3
  <2> QED BY <2>1
<1>4. CASE Drifted(k) # {}
  <2>1. Ends(k, "drift")
    BY <1>4 DEF Check
  <2> QED BY <2>1, <1>1, EndingInv DEF Exits
<1>5. CASE Drifted(k) = {} /\ pending = {}
  <2>1. Ends(k, "ok")
    BY <1>5 DEF Check
  <2> QED BY <2>1, <1>1, <1>3, <1>5, EndingInv DEF Exits
<1>6. CASE Drifted(k) = {} /\ pending # {}
  <2>1. pending \in SUBSET Versions /\ pending \subseteq migrator[k].found
    BY <1>2
  <2>2. \A v \in migrator[k].found \ pending : schemaLedger[v] # 0
    BY <1>1, <1>2 DEF Knows
  <2>3. migrator' = [migrator EXCEPT ![k] = r]
    BY <1>1, <1>6 DEF Check, MigShape
  <2> HIDE DEF pending
  <2>4. r \in MigRecords
    <3>1. [migrator[k] EXCEPT !.at = "apply"] \in MigRecords
      BY <1>1 DEF MigRecords, MigPlaces
    <3> QED BY <3>1, <2>1 DEF MigRecords
  <2>5. /\ r.at = "apply" /\ r.pending = pending /\ r.found = migrator[k].found
        /\ r.exit = migrator[k].exit /\ r.stale = migrator[k].stale
    BY <1>1 DEF MigRecords
  <2> HIDE DEF r
  <2>6. /\ migrator' \in [Migrators -> MigRecords] /\ migrator'[k] = r
        /\ \A j \in Migrators : j # k => migrator'[j] = migrator[j]
    BY <1>1, <2>3, <2>4, MigratorFacts
  <2>7. Knows(k)'
    BY <1>1, <1>3, <1>6, <2>1, <2>2, <2>5, <2>6 DEF Knows
  <2> QED BY <1>1, <2>6, <2>7, QuietStep
<1> QED BY <1>4, <1>5, <1>6

LEMMA ExecuteInv == ASSUME MigInv, NEW k \in Migrators, Execute(k) PROVE MigInv'
<1> DEFINE text == disk[Upcoming(k)]
           r == [[migrator[k] EXCEPT !.at = "record"] EXCEPT !.text = text]
<1>1. /\ MigShape /\ Knows(k) /\ migrator[k] \in MigRecords /\ migrator[k].at = "apply"
      /\ UNCHANGED <<disk, schemaLedger, executed, slipped, late>>
  BY DEF MigInv, MigShape, Execute
<1>2. Upcoming(k) \in Versions /\ text \in Nat
  BY <1>1, UpcomingFacts DEF MigShape
<1>3. migrator' = [migrator EXCEPT ![k] = r]
  BY <1>1 DEF Execute, MigShape
<1>t. text = disk[Upcoming(k)]
  OBVIOUS
<1> HIDE DEF text
<1>4. r \in MigRecords
  <2>1. [migrator[k] EXCEPT !.at = "record"] \in MigRecords
    BY <1>1 DEF MigRecords, MigPlaces
  <2> QED BY <2>1, <1>2 DEF MigRecords
<1>5. /\ r.at = "record" /\ r.text = text /\ r.pending = migrator[k].pending
      /\ r.found = migrator[k].found /\ r.exit = migrator[k].exit /\ r.stale = migrator[k].stale
  BY <1>1 DEF MigRecords
<1> HIDE DEF r
<1>6. /\ migrator' \in [Migrators -> MigRecords] /\ migrator'[k] = r
      /\ \A j \in Migrators : j # k => migrator'[j] = migrator[j]
  BY <1>1, <1>3, <1>4, MigratorFacts
<1>7. Upcoming(k)' = Upcoming(k)
  BY <1>5, <1>6 DEF Upcoming
<1>8. r.text = disk'[Upcoming(k)']
  BY <1>1, <1>5, <1>7, <1>t
<1>9. Knows(k)'
  BY <1>1, <1>5, <1>6, <1>8 DEF Knows
<1> QED BY <1>1, <1>6, <1>9, QuietStep

LEMMA RecordInv == ASSUME MigInv, NEW k \in Migrators, Record(k) PROVE MigInv'
<1>1. /\ MigShape /\ Knows(k) /\ migrator[k] \in MigRecords /\ migrator[k].at = "record"
      /\ UNCHANGED <<disk, slipped, late>>
  BY DEF MigInv, MigShape, Record
<1>u. PICK U \in Versions :
        /\ U = Upcoming(k) /\ U \in migrator[k].pending /\ U \in migrator[k].found
        /\ disk[U] # 0 /\ U \in Nat /\ \A v \in migrator[k].pending : U <= v
  BY <1>1, UpcomingFacts
<1>t. PICK text \in Nat : text = migrator[k].text
  BY <1>1 DEF MigRecords
<1>2. /\ schemaLedger[U] = 0 /\ schemaLedger' = [schemaLedger EXCEPT ![U] = disk[U]]
      /\ executed' = Append(executed, <<U, text>>)
  BY <1>u, <1>t DEF Record
<1>3. /\ schemaLedger' \in [Versions -> Nat] /\ schemaLedger'[U] = disk[U]
      /\ \A v \in Versions : v # U => schemaLedger'[v] = schemaLedger[v]
  BY <1>1, <1>2 DEF MigShape
<1>4. /\ executed' \in Seq(Versions \X Nat) /\ Len(executed) \in Nat /\ Len(executed') = Len(executed) + 1
      /\ executed'[Len(executed) + 1] = <<U, text>>
      /\ \A i \in 1..Len(executed) : executed'[i] = executed[i]
  BY <1>1, <1>2 DEF MigShape
<1>5. \A i \in 1..Len(executed) : executed[i] \in Range(executed) /\ executed[i][1] # U
  <2>1. \A i \in 1..Len(executed) : executed[i] \in Range(executed)
    BY <1>1 DEF MigShape, Range
  <2>2. \A e \in Range(executed) : schemaLedger[e[1]] # 0
    BY DEF MigInv, OnceEach
  <2> QED BY <1>2, <2>1, <2>2
<1>6. Range(executed') = Range(executed) \cup {<<U, text>>}
  <2>1. DOMAIN executed = 1..Len(executed) /\ DOMAIN executed' = 1..(Len(executed) + 1)
    BY <1>1, <1>4 DEF MigShape
  <2>2. 1..(Len(executed) + 1) = 1..Len(executed) \cup {Len(executed) + 1}
    BY <1>4
  <2>3. ASSUME NEW e \in Range(executed') PROVE e \in Range(executed) \cup {<<U, text>>}
    <3>1. PICK i \in 1..(Len(executed) + 1) : e = executed'[i]
      BY ONLY <2>1, <2>3 DEF Range
    <3>2. CASE i \in 1..Len(executed)
      BY ONLY <1>4, <2>1, <3>1, <3>2 DEF Range
    <3>3. CASE i = Len(executed) + 1
      BY ONLY <1>4, <3>1, <3>3
    <3> QED BY ONLY <2>2, <3>2, <3>3
  <2>4. ASSUME NEW e \in Range(executed) PROVE e \in Range(executed')
    <3>1. PICK i \in 1..Len(executed) : e = executed[i]
      BY ONLY <2>1, <2>4 DEF Range
    <3>2. e = executed'[i] /\ i \in 1..(Len(executed) + 1)
      BY ONLY <1>4, <2>2, <3>1
    <3> QED BY ONLY <2>1, <3>2 DEF Range
  <2>5. <<U, text>> \in Range(executed')
    BY ONLY <1>4, <2>1, <2>2 DEF Range
  <2> QED BY ONLY <2>3, <2>4, <2>5
<1>7. Lasting'
  <2>1. \A v \in Versions : disk[v] \in Nat /\ disk'[v] = disk[v] /\ late' = late
    BY <1>1 DEF MigShape
  <2> QED BY <2>1, <1>3 DEF MigInv, Lasting
<1>8. Recorded'
  <2>1. ASSUME NEW e \in Range(executed), e[1] \notin slipped PROVE schemaLedger'[e[1]] = e[2]
    <3>1. schemaLedger[e[1]] = e[2]
      BY <2>1 DEF MigInv, Recorded
    <3>2. e[1] \in Versions /\ schemaLedger[e[1]] # 0
      BY DEF MigInv, OnceEach
    <3> QED BY <1>2, <1>3, <3>1, <3>2
  <2>2. U \notin slipped => schemaLedger'[U] = text
    BY <1>1, <1>3, <1>u, <1>t DEF Knows
  <2> QED BY <1>1, <1>6, <2>1, <2>2 DEF Recorded
<1>9. OnceEach'
  <2>1. ASSUME NEW i \in 1..Len(executed'), NEW j \in 1..Len(executed'), executed'[i][1] = executed'[j][1]
        PROVE  i = j
    <3>1. CASE i \in 1..Len(executed) /\ j \in 1..Len(executed)
      BY <2>1, <3>1, <1>4 DEF MigInv, OnceEach
    <3>0. /\ executed'[Len(executed) + 1][1] = U
          /\ \A n \in 1..Len(executed) : executed'[n][1] # U
      <4>1. <<U, text>>[1] = U
        OBVIOUS
      <4>2. executed'[Len(executed) + 1][1] = U
        BY <1>4, <4>1
      <4>3. \A n \in 1..Len(executed) : executed'[n] = executed[n] /\ executed[n][1] # U
        BY <1>4, <1>5
      <4> QED BY <4>2, <4>3
    <3>2. CASE i = Len(executed) + 1 /\ j \in 1..Len(executed)
      BY <2>1, <3>0, <3>2
    <3>3. CASE i \in 1..Len(executed) /\ j = Len(executed) + 1
      BY <2>1, <3>0, <3>3
    <3>4. CASE i = Len(executed) + 1 /\ j = Len(executed) + 1
      BY <3>4
    <3> QED BY <3>1, <3>2, <3>3, <3>4, <1>4
  <2>2. {e[1] : e \in Range(executed')} = {e[1] : e \in Range(executed)} \cup {U}
    <3> DEFINE old == Range(executed)
               new == Range(executed')
               last == <<U, text>>
    <3>1. new = old \cup {last} /\ last[1] = U
      BY <1>6
    <3> HIDE DEF old, new, last
    <3>2. {e[1] : e \in new} = {e[1] : e \in old} \cup {U}
      BY <3>1
    <3> QED BY <3>2 DEF old, new
  <2>3. {v \in Versions : schemaLedger'[v] # 0} = {v \in Versions : schemaLedger[v] # 0} \cup {U}
    BY <1>3, <1>u
  <2> QED BY <2>1, <2>2, <2>3 DEF MigInv, OnceEach
<1>10. InFileOrder'
  <2> SUFFICES ASSUME NEW v \in Versions \ late, NEW w \in Versions \ late, v < w, schemaLedger'[w] # 0
               PROVE  schemaLedger'[v] # 0
    BY <1>1 DEF InFileOrder
  <2>0. v \in Nat /\ w \in Nat
    BY MigrationsAssumption
  <2>1. CASE w = U
    <3>1. v \in migrator[k].found /\ v \notin migrator[k].pending /\ v # U
      BY <1>1, <1>u, <2>0, <2>1 DEF Knows
    <3>2. schemaLedger[v] # 0
      BY <1>1, <3>1 DEF Knows
    <3> QED BY <1>3, <3>1, <3>2
  <2>2. CASE w # U
    <3>1. schemaLedger[v] # 0
      BY <1>3, <2>2 DEF MigInv, InFileOrder
    <3> QED BY <1>2, <1>3, <3>1
  <2> QED BY <2>1, <2>2
<1>11. ~migrator[k].stale
  BY <1>1 DEF Knows
<1>12. /\ migrator' \in [Migrators -> MigRecords] /\ Knows(k)'
       /\ \A j \in Migrators : j # k => migrator'[j] = migrator[j]
  <2>1. CASE migrator[k].pending = {U}
    <3>1. Ends(k, "ok")
      BY <2>1, <1>u DEF Record, After
    <3>2. Knows(k)'
      BY <3>1, <1>1, <1>11, EndedKnows DEF Exits
    <3> QED BY <3>1, <3>2, <1>1, EndsFacts DEF Exits
  <2>2. CASE migrator[k].pending # {U}
    <3> DEFINE rest == migrator[k].pending \ {U}
               r == [[migrator[k] EXCEPT !.at = "apply"] EXCEPT !.pending = rest]
    <3>1. migrator' = [migrator EXCEPT ![k] = r]
      BY <2>2, <1>1, <1>u DEF Record, After, MigShape
    <3>2. rest \in SUBSET Versions /\ rest # {} /\ rest \subseteq migrator[k].found
      BY <2>2, <1>1, <1>u DEF MigRecords, Knows
    <3>3. \A v \in migrator[k].found \ rest : schemaLedger'[v] # 0
      <4>1. migrator[k].found \in SUBSET Versions
        BY <1>1 DEF MigRecords
      <4>2. \A v \in migrator[k].found \ migrator[k].pending : schemaLedger[v] # 0
        BY <1>1 DEF Knows
      <4> QED BY <4>1, <4>2, <1>3, <1>u
    <3> HIDE DEF rest
    <3>4. r \in MigRecords
      <4>1. [migrator[k] EXCEPT !.at = "apply"] \in MigRecords
        BY <1>1 DEF MigRecords, MigPlaces
      <4> QED BY <4>1, <3>2 DEF MigRecords
    <3>5. /\ r.at = "apply" /\ r.pending = rest /\ r.found = migrator[k].found
          /\ r.exit = migrator[k].exit /\ r.stale = migrator[k].stale
      BY <1>1 DEF MigRecords
    <3> HIDE DEF r
    <3>6. /\ migrator' \in [Migrators -> MigRecords] /\ migrator'[k] = r
          /\ \A j \in Migrators : j # k => migrator'[j] = migrator[j]
      BY <1>1, <3>1, <3>4, MigratorFacts
    <3>7. Knows(k)'
      BY <1>1, <1>11, <3>2, <3>3, <3>5, <3>6 DEF Knows
    <3> QED BY <3>6, <3>7
  <2> QED BY <2>1, <2>2
<1>13. MigShape'
  BY <1>1, <1>3, <1>4, <1>12 DEF MigShape
<1>14. ASSUME NEW j \in Migrators PROVE Knows(j)'
  <2>1. CASE j = k
    BY <2>1, <1>12
  <2>2. CASE j # k
    <3>1. Knows(j) /\ migrator'[j] = migrator[j]
      BY <2>2, <1>12 DEF MigInv
    <3>2. \A v \in Versions : /\ schemaLedger[v] # 0 => schemaLedger'[v] = schemaLedger[v]
                              /\ disk[v] <= disk'[v]
      BY <1>1, <1>2, <1>3 DEF MigShape
    <3> QED BY <3>1, <3>2, <1>1, <1>13, StillKnows
  <2> QED BY <2>1, <2>2
<1> QED BY <1>7, <1>8, <1>9, <1>10, <1>13, <1>14 DEF MigInv

LEMMA FilesInv == ASSUME MigInv, NEW v \in Versions, EditFile(v) \/ AddFile(v) PROVE MigInv'
<1>1. /\ MigShape /\ UNCHANGED <<schemaLedger, executed, late, migrator>>
      /\ disk[v] \in Nat /\ FileRevisions \in Nat
  BY MigrationsAssumption DEF MigInv, MigShape, EditFile, AddFile
<1>2. disk' = [disk EXCEPT ![v] = disk[v] + 1]
  BY <1>1 DEF EditFile, AddFile
<1>3. /\ disk' \in [Versions -> Nat] /\ disk'[v] = disk[v] + 1
      /\ \A w \in Versions : w # v => disk'[w] = disk[w]
  BY <1>1, <1>2 DEF MigShape
<1>4. /\ slipped' \in SUBSET Versions /\ slipped \subseteq slipped'
      /\ \A k \in Migrators : migrator[k].at = "record" /\ Upcoming(k) = v =>
            v \in slipped' \/ disk[v] = 0
  BY <1>1 DEF EditFile, AddFile, MigShape
<1>5. MigShape'
  BY <1>1, <1>3, <1>4 DEF MigShape
<1>6. Lasting'
  <2>1. \A w \in Versions : disk[w] \in Nat /\ schemaLedger[w] \in Nat
    BY <1>1 DEF MigShape
  <2> QED BY <2>1, <1>1, <1>3 DEF MigInv, Lasting
<1>7. Recorded' /\ OnceEach' /\ InFileOrder'
  BY <1>1, <1>4 DEF MigInv, Recorded, OnceEach, InFileOrder
<1>8. ASSUME NEW k \in Migrators PROVE Knows(k)'
  <2>1. Knows(k) /\ migrator'[k] = migrator[k]
    BY <1>1 DEF MigInv
  <2>2. \A w \in Versions : disk[w] <= disk'[w]
    <3>1. \A w \in Versions : disk[w] \in Nat
      BY <1>1 DEF MigShape
    <3> QED BY <3>1, <1>3
  <2>3. migrator[k].at = "record" => disk'[Upcoming(k)] = disk[Upcoming(k)] \/ Upcoming(k) \in slipped'
    <3> SUFFICES ASSUME migrator[k].at = "record"
                 PROVE  disk'[Upcoming(k)] = disk[Upcoming(k)] \/ Upcoming(k) \in slipped'
      OBVIOUS
    <3>1. Upcoming(k) \in Versions /\ disk[Upcoming(k)] # 0
      BY <2>1, <1>1, UpcomingFacts
    <3> QED BY <3>1, <1>3, <1>4
  <2>4. \A w \in Versions : schemaLedger[w] # 0 => schemaLedger'[w] = schemaLedger[w]
    BY <1>1
  <2> QED BY <2>1, <2>2, <2>3, <2>4, <1>1, <1>4, <1>5, StillKnows
<1> QED BY <1>5, <1>6, <1>7, <1>8 DEF MigInv

\* The four rules of migrate.py: however many migrators race, fail and are killed, and whoever edits
\* or adds files meanwhile, each version runs once and is on record, in the order of the files, and
\* a file that was edited after it ran stops whoever begins then (migrate.py:62-183).
THEOREM MigrationsHoldAlways == MigInit /\ [][MigNext]_migVars => []MigrationsHold
<1>1. MigInv /\ [MigNext]_migVars => MigInv'
  <2> SUFFICES ASSUME MigInv, [MigNext]_migVars PROVE MigInv'
    OBVIOUS
  <2>1. ASSUME NEW k \in Migrators,
               \/ Discover(k) \/ ReadLedger(k) \/ Check(k) \/ Report(k)
               \/ Execute(k) \/ Record(k) \/ Fail(k) \/ KillMigrator(k)
        PROVE  MigInv'
    <3>1. CASE Discover(k)
      BY <3>1, DiscoverInv
    <3>2. CASE ReadLedger(k)
      BY <3>2, ReadLedgerInv
    <3>3. CASE Check(k)
      BY <3>3, CheckInv
    <3>4. CASE Report(k)
      <4>1. ~migrator[k].stale
        BY <3>4 DEF MigInv, Knows, Report
      <4> QED BY <3>4, <4>1, EndingInv DEF Report, Exits
    <3>5. CASE Execute(k)
      BY <3>5, ExecuteInv
    <3>6. CASE Record(k)
      BY <3>6, RecordInv
    <3>7. CASE Fail(k)
      BY <3>7, EndingInv DEF Fail, Exits
    <3>8. CASE KillMigrator(k)
      BY <3>8, EndingInv DEF KillMigrator, Exits
    <3> QED BY <2>1, <3>1, <3>2, <3>3, <3>4, <3>5, <3>6, <3>7, <3>8
  <2>2. CASE UNCHANGED migVars
    <3>1. UNCHANGED <<disk, schemaLedger, executed, slipped, late, migrator>>
      BY <2>2 DEF migVars
    <3>2. MigShape /\ MigShape' /\ \A v \in Versions : disk[v] <= disk[v]
      BY <3>1 DEF MigInv, MigShape
    <3>3. \A k \in Migrators : Knows(k)'
      BY <3>1, <3>2, StillKnows DEF MigInv
    <3> QED BY <3>1, <3>2, <3>3 DEF MigInv, Lasting, Recorded, OnceEach, InFileOrder
  <2> QED BY <2>1, <2>2, FilesInv DEF MigNext
<1>2. MigInv => MigrationsHold
  <2> SUFFICES ASSUME MigInv PROVE DriftIsLoud
    BY DEF MigInv, MigrationsHold
  <2>1. \A k \in Migrators : Knows(k)
    BY DEF MigInv
  <2> QED BY <2>1 DEF MigInv, Recorded, DriftIsLoud, Knows
<1> QED BY <1>1, <1>2, MigInitInv, PTL

-----------------------------------------------------------------------------
(* The calendar of the feeds (FeedTable).                                  *)

\* A year that is divisible adds one to what was divided before it.
LEMMA Quotients ==
  ASSUME NEW y \in Int
  PROVE  /\ y \div 4 = (y - 1) \div 4 + (IF y % 4 = 0 THEN 1 ELSE 0)
         /\ y \div 100 = (y - 1) \div 100 + (IF y % 100 = 0 THEN 1 ELSE 0)
         /\ y \div 400 = (y - 1) \div 400 + (IF y % 400 = 0 THEN 1 ELSE 0)
         /\ (y % 400 = 0 => y % 100 = 0) /\ (y % 100 = 0 => y % 4 = 0)
<1>1. y \div 4 = (y - 1) \div 4 + (IF y % 4 = 0 THEN 1 ELSE 0)
  OBVIOUS
<1>2. y \div 100 = (y - 1) \div 100 + (IF y % 100 = 0 THEN 1 ELSE 0)
  OBVIOUS
<1>3. y \div 400 = (y - 1) \div 400 + (IF y % 400 = 0 THEN 1 ELSE 0)
  OBVIOUS
<1>4. y % 400 = 0 => y % 100 = 0
  OBVIOUS
<1>5. y % 100 = 0 => y % 4 = 0
  OBVIOUS
<1>. QED BY <1>1, <1>2, <1>3, <1>4, <1>5

\* The days up to the end of February, and those of each month after it.
Leaps(y) == y \div 4 - y \div 100 + y \div 400
LEMMA DaysOfAYear ==
  ASSUME NEW y \in Int, NEW m \in 1..12, NEW d \in Int
  PROVE  /\ Day(<<y, m, d>>) \in Int
         /\ m > 2 => Day(<<y, m, d>>) = 365 * y + Leaps(y) + DaysBefore[m] + d
         /\ m <= 2 => Day(<<y, m, d>>) = 365 * y + Leaps(y - 1) + DaysBefore[m] + d
         /\ Leaps(y) \in Int /\ Leaps(y - 1) \in Int /\ Leaps(y) - Leaps(y - 1) \in {0, 1}
         /\ DaysBefore[m] \in Int
<1>1. PICK x : x = <<y, m, d>>
  OBVIOUS
<1>2. x[1] = y /\ x[2] = m /\ x[3] = d
  BY <1>1
<1>3. PICK q4, q100, q400, p4, p100, p400 :
          /\ q4 = y \div 4 /\ q100 = y \div 100 /\ q400 = y \div 400
          /\ p4 = (y - 1) \div 4 /\ p100 = (y - 1) \div 100 /\ p400 = (y - 1) \div 400
  OBVIOUS
<1>4. q4 \in Int /\ q100 \in Int /\ q400 \in Int /\ p4 \in Int /\ p100 \in Int /\ p400 \in Int
  BY <1>3
<1>5. Leaps(y) = q4 - q100 + q400 /\ Leaps(y - 1) = p4 - p100 + p400
  BY <1>3 DEF Leaps
<1>6. q4 - q100 + q400 = p4 - p100 + p400 + (IF Leap(y) THEN 1 ELSE 0)
  <2>1. PICK r4, r100, r400 : r4 = y % 4 /\ r100 = y % 100 /\ r400 = y % 400
    OBVIOUS
  <2>2. /\ q4 = p4 + (IF r4 = 0 THEN 1 ELSE 0) /\ q100 = p100 + (IF r100 = 0 THEN 1 ELSE 0)
        /\ q400 = p400 + (IF r400 = 0 THEN 1 ELSE 0)
        /\ (r400 = 0 => r100 = 0) /\ (r100 = 0 => r4 = 0)
    BY <1>3, <2>1, Quotients
  <2>3. Leap(y) <=> r4 = 0 /\ (r100 # 0 \/ r400 = 0)
    BY <2>1 DEF Leap
  <2>. QED BY ONLY <1>4, <2>2, <2>3
<1>7. PICK b : b = DaysBefore[m]
  OBVIOUS
<1>8. b \in Int
  <2>1. m = 1 \/ m = 2 \/ m = 3 \/ m = 4 \/ m = 5 \/ m = 6 \/ m = 7 \/ m = 8 \/ m = 9 \/ m = 10 \/ m = 11 \/ m = 12
    OBVIOUS
  <2>. QED BY <1>7, <2>1 DEF DaysBefore
<1>9. Day(x) = 365 * y + p4 - p100 + p400 + b + (IF m > 2 /\ Leap(y) THEN 1 ELSE 0) + d
  BY <1>2, <1>3, <1>7 DEF Day
<1>10. PICK u, v : u = Leaps(y) /\ v = Leaps(y - 1)
  OBVIOUS
<1>11. u \in Int /\ v \in Int /\ u = v + (IF Leap(y) THEN 1 ELSE 0)
  BY <1>4, <1>5, <1>6, <1>10
<1>12. Day(x) = 365 * y + v + b + (IF m > 2 /\ Leap(y) THEN 1 ELSE 0) + d
  BY <1>4, <1>5, <1>8, <1>9, <1>10
<1>13. /\ Day(x) \in Int /\ (m > 2 => Day(x) = 365 * y + u + b + d) /\ (m <= 2 => Day(x) = 365 * y + v + b + d)
       /\ u - v \in {0, 1}
  BY <1>8, <1>11, <1>12
<1>. QED BY <1>1, <1>7, <1>8, <1>10, <1>11, <1>13

LEMMA March ==
  ASSUME NEW y \in Int
  PROVE  /\ Day(<<y, 3, 1>>) = 365 * y + Leaps(y) + 60 /\ Leaps(y) \in Int
         /\ \A d \in Int : /\ Day(<<y, 3, d>>) = Day(<<y, 3, 1>>) + d - 1
                           /\ Day(<<y, 4, d>>) = Day(<<y, 3, 1>>) + d + 30
<1>1. DaysBefore[3] = 59 /\ DaysBefore[4] = 90
  BY DEF DaysBefore
<1>2. Leaps(y) \in Int
  BY DEF Leaps
<1>3. \A d \in Int : Day(<<y, 3, d>>) = 365 * y + Leaps(y) + DaysBefore[3] + d
  BY DaysOfAYear
<1>4. \A d \in Int : Day(<<y, 4, d>>) = 365 * y + Leaps(y) + DaysBefore[4] + d
  BY DaysOfAYear
<1>. QED BY <1>1, <1>2, <1>3, <1>4

-----------------------------------------------------------------------------
(* Easter. Of the year's number: a in the cycle of nineteen, b and c the   *)
(* centuries and the rest, d, e and k, r each of them in fours.            *)

\* The two ways to correct the moon over the centuries are the same.
LEMMA Centuries ==
  ASSUME NEW b \in Int
  PROVE  /\ (b - (b + 8) \div 25 + 1) \div 3 = (8 * b + 13) \div 25
         /\ (3 * (b + 1)) \div 4 = b - b \div 4
<1>1. (b - (b + 8) \div 25 + 1) \div 3 = (8 * b + 13) \div 25
  OBVIOUS
<1>2. (3 * (b + 1)) \div 4 = b - b \div 4
  OBVIOUS
<1>. QED BY <1>1, <1>2

\* h days after the 21st of March and the epact say the same of the moon.
MoonOf(a, C, h, epact) ==
    /\ a \in 0..18 /\ C \in Int /\ h = (19 * a + C + 15) % 30 /\ epact = (11 * (a + 1) + 27 - C) % 30
SameMoon(h, epact) ==
    h \in 0..29 /\ epact \in 0..29 /\ h = IF epact <= 23 THEN 23 - epact ELSE 53 - epact
LEMMA MoonsAgree == ASSUME NEW a, NEW C, NEW h, NEW epact, MoonOf(a, C, h, epact) PROVE SameMoon(h, epact)
BY DEF MoonOf, SameMoon

\* The Sunday after it: what the last correction of the computus does.
SundayOf(a, h, epact, l, m, moon) ==
    /\ a \in 0..18 /\ l \in 0..6 /\ SameMoon(h, epact) /\ m = (a + 11 * h + 22 * l) \div 451
    /\ moon = 44 - (IF epact = 24 \/ (epact = 25 /\ a + 1 > 11) THEN epact + 1 ELSE epact)
SundayIs(h, l, m, full) ==
    m \in {0, 1} /\ full \in Int /\ (h + l - 7 * m + 22) - full \in 1..7 /\ h + l - 7 * m + 114 \in 114..148
LEMMA SundayAfter ==
  ASSUME NEW a, NEW h, NEW epact, NEW l, NEW m, NEW moon, SundayOf(a, h, epact, l, m, moon)
  PROVE  SundayIs(h, l, m, IF moon < 21 THEN moon + 30 ELSE moon)
<1>1. PICK full : full = IF moon < 21 THEN moon + 30 ELSE moon
  OBVIOUS
<1>2. SundayIs(h, l, m, full)
  BY <1>1 DEF SundayOf, SundayIs, SameMoon
<1>. QED BY <1>1, <1>2

\* The days of a year and the week.
InFours(y, b, c, e, k, r) ==
    y \in Int /\ b = y \div 100 /\ c = y % 100 /\ e = b % 4 /\ k = c \div 4 /\ r = c % 4
LEMMA WeekOfMarch ==
  ASSUME NEW y, NEW b, NEW c, NEW e, NEW k, NEW r, InFours(y, b, c, e, k, r)
  PROVE  (365 * y + Leaps(y)) % 7 = (5 * e + 5 * k + r) % 7
<1>0. y \in Int /\ b = y \div 100 /\ c = y % 100 /\ e = b % 4 /\ k = c \div 4 /\ r = c % 4
  BY DEF InFours
<1>1. b \in Int /\ c \in 0..99 /\ y = 100 * b + c
  BY <1>0
<1>2. PICK d : d = b \div 4
  OBVIOUS
<1>3. d \in Int /\ e \in 0..3 /\ b = 4 * d + e /\ k \in Int /\ r \in 0..3 /\ c = 4 * k + r
  BY <1>0, <1>1, <1>2
<1>4. y \div 4 = 25 * b + k
  BY <1>1, <1>3
<1>5. y \div 400 = d
  BY <1>1, <1>3
<1>6. Leaps(y) = 25 * b + k - b + d
  BY <1>0, <1>4, <1>5 DEF Leaps
<1>7. 365 * y + Leaps(y) = 7 * (20871 * d + 5217 * e + 208 * k + 52 * r) + 5 * e + 5 * k + r
  BY <1>1, <1>3, <1>6
<1>. QED BY <1>3, <1>7

(* Easter is the first Sunday after the paschal full moon, in every year.  *)
LEMMA EasterIsRight ==
  ASSUME NEW y \in Int
  PROVE  Easter(y) \in Int /\ Weekday(Easter(y)) = Sunday /\ Easter(y) - PaschalMoon(y) \in 1..7
<1>1. PICK a, b, c, d, e, k, r :
          /\ a = y % 19 /\ b = y \div 100 /\ c = y % 100 /\ d = b \div 4 /\ e = b % 4
          /\ k = c \div 4 /\ r = c % 4
  OBVIOUS
<1>2. /\ a \in 0..18 /\ b \in Int /\ c \in 0..99 /\ d \in Int /\ e \in 0..3 /\ k \in Int /\ r \in 0..3
  BY <1>1
<1>3. PICK g, C, h : g = (b - (b + 8) \div 25 + 1) \div 3 /\ C = b - d - g /\ h = (19 * a + b - d - g + 15) % 30
  OBVIOUS
<1>4. PICK l : l = (32 + 2 * e + 2 * k - h - r) % 7
  OBVIOUS
<1>5. PICK m, n : m = (a + 11 * h + 22 * l) \div 451 /\ n = h + l - 7 * m + 114
  OBVIOUS
<1>6. Easter(y) = Day(<<y, n \div 31, (n % 31) + 1>>)
  <2>1. /\ h = (19 * (y % 19) + b - d - g + 15) % 30 /\ g = (b - (b + 8) \div 25 + 1) \div 3 /\ d = b \div 4
        /\ b = y \div 100 /\ c = y % 100
    BY ONLY <1>1, <1>3
  <2>2. l = (32 + 2 * (b % 4) + 2 * (c \div 4) - h - (c % 4)) % 7
    BY ONLY <1>1, <1>4
  <2>3. m = ((y % 19) + 11 * h + 22 * l) \div 451 /\ n = h + l - 7 * m + 114
    BY ONLY <1>1, <1>5
  <2>. QED BY ONLY <2>1, <2>2, <2>3 DEF Easter
<1>7. PICK epact : epact = (11 * (a + 1) + 20 + (8 * (b + 1) + 5) \div 25 - 5 - ((3 * (b + 1)) \div 4 - 12)) % 30
  OBVIOUS
<1>8. PICK moon : moon = 44 - (IF epact = 24 \/ (epact = 25 /\ a + 1 > 11) THEN epact + 1 ELSE epact)
  OBVIOUS
<1>9. PICK full : full = IF moon < 21 THEN moon + 30 ELSE moon
  OBVIOUS
<1>10. PaschalMoon(y) = Day(<<y, 3, 1>>) - 1 + full
  BY <1>1, <1>7, <1>8, <1>9 DEF PaschalMoon
<1>11. g \in Int /\ C \in Int
  BY <1>2, <1>3
<1>12. epact = (11 * (a + 1) + 27 - C) % 30
  <2>1. g = (8 * b + 13) \div 25 /\ (3 * (b + 1)) \div 4 = b - d
    BY <1>1, <1>2, <1>3, Centuries
  <2>2. 8 * (b + 1) + 5 = 8 * b + 13
    BY <1>2
  <2>3. 11 * (a + 1) + 20 + g - 5 - ((b - d) - 12) = 11 * (a + 1) + 27 - C
    BY <1>2, <1>3, <1>11
  <2>. QED BY <1>7, <2>1, <2>2, <2>3
<1>13. h = (19 * a + C + 15) % 30
  <2>1. 19 * a + b - d - g + 15 = 19 * a + C + 15
    BY <1>2, <1>3, <1>11
  <2>. QED BY <1>3, <2>1
<1>14. h \in 0..29 /\ epact \in 0..29 /\ h = IF epact <= 23 THEN 23 - epact ELSE 53 - epact
  <2>1. MoonOf(a, C, h, epact)
    BY <1>2, <1>11, <1>12, <1>13 DEF MoonOf
  <2>. QED BY <2>1, MoonsAgree DEF SameMoon
<1>15. l \in 0..6
  BY <1>2, <1>4, <1>14
<1>16. m \in {0, 1} /\ full \in Int /\ (h + l - 7 * m + 22) - full \in 1..7 /\ n \in 114..148
  <2>1. SundayOf(a, h, epact, l, m, moon)
    BY <1>2, <1>5, <1>8, <1>14, <1>15 DEF SundayOf, SameMoon
  <2>2. SundayIs(h, l, m, full)
    BY <1>9, <2>1, SundayAfter
  <2>. QED BY <1>5, <2>2 DEF SundayIs
<1>17. PICK D : D = Day(<<y, 3, 1>>)
  OBVIOUS
<1>18. /\ D = 365 * y + Leaps(y) + 60 /\ Leaps(y) \in Int
       /\ \A x \in Int : Day(<<y, 3, x>>) = D + x - 1 /\ Day(<<y, 4, x>>) = D + x + 30
  BY <1>17, March
<1>19. D \in Int
  BY <1>18
<1>20. Easter(y) = D - 1 + (n - 92)
  <2>1. \/ n \div 31 = 3 /\ (n % 31) + 1 = n - 92
        \/ n \div 31 = 4 /\ (n % 31) + 1 = n - 123
    BY ONLY <1>16
  <2>2. n - 92 \in Int /\ n - 123 \in Int
    BY <1>16
  <2>a. PICK x3, x4 : x3 = n - 92 /\ x4 = n - 123
    OBVIOUS
  <2>b. Day(<<y, 3, x3>>) = D + x3 - 1 /\ Day(<<y, 4, x4>>) = D + x4 + 30
    <3>1. x3 \in Int /\ x4 \in Int
      BY ONLY <2>2, <2>a
    <3>2. \A x \in Int : Day(<<y, 3, x>>) = D + x - 1
      BY ONLY <1>18
    <3>3. \A x \in Int : Day(<<y, 4, x>>) = D + x + 30
      BY ONLY <1>18
    <3>. QED BY ONLY <3>1, <3>2, <3>3, Zenon
  <2>3. Day(<<y, 3, n - 92>>) = D + (n - 92) - 1 /\ Day(<<y, 4, n - 123>>) = D + (n - 123) + 30
    BY ONLY <2>a, <2>b
  <2>4. D + (n - 92) - 1 = D - 1 + (n - 92) /\ D + (n - 123) + 30 = D - 1 + (n - 92)
    BY <1>16, <1>19
  <2>. QED BY <1>6, <2>1, <2>3, <2>4
<1>21. PICK s : s = h + l - 7 * m + 22
  OBVIOUS
<1>22. s \in Int /\ n - 92 = s /\ s - full \in 1..7
  BY <1>5, <1>14, <1>15, <1>16, <1>21
<1>23. Easter(y) = D - 1 + s
  BY <1>20, <1>22
<1>24. Easter(y) - PaschalMoon(y) \in 1..7
  BY <1>10, <1>16, <1>17, <1>19, <1>22, <1>23
<1>25. (D - 1 + s + 5) % 7 = 6
  <2>1. PICK w : w = 365 * y + Leaps(y)
    OBVIOUS
  <2>2. w \in Int /\ D = w + 60
    BY <1>18, <2>1
  <2>3. w % 7 = (5 * e + 5 * k + r) % 7
    <3>1. InFours(y, b, c, e, k, r)
      BY <1>1 DEF InFours
    <3>. QED BY <2>1, <3>1, WeekOfMarch
  <2>4. D - 1 + s + 5 = w + 86 + h + l - 7 * m
    BY <1>14, <1>15, <1>16, <1>21, <2>2
  <2>5. (w + 86 + h + l - 7 * m) % 7 = 6
    BY ONLY <1>2, <1>4, <1>14, <1>15, <1>16, <2>2, <2>3
  <2>. QED BY <2>4, <2>5
<1>26. Weekday(Easter(y)) = Sunday
  BY <1>23, <1>25 DEF Weekday, Sunday
<1>. QED BY <1>19, <1>22, <1>23, <1>24, <1>26

-----------------------------------------------------------------------------
(* The open days of a year.                                                *)

LEMMA WeekdayIs == ASSUME NEW day \in Int
  PROVE  Weekday(day) \in 0..6 /\ Weekday(day + 1) = (Weekday(day) + 1) % 7 /\ Weekday(day - 1) = (Weekday(day) + 6) % 7
BY DEF Weekday

\* A day kept for a holiday, if it is no weekend itself.
KeptFor(x, day) == day = x \/ (Weekday(day) = 4 /\ day + 1 = x) \/ (Weekday(day) = Monday /\ day - 1 = x)
LEMMA ObservedIs ==
  ASSUME NEW x \in Int, NEW day \in Int, Weekday(day) < Saturday
  PROVE  day = Observed(x) <=> KeptFor(x, day)
<1>1. Weekday(x) = (x + 5) % 7 /\ Weekday(day) = (day + 5) % 7
  BY DEF Weekday
<1>2. Observed(x) = IF Weekday(x) = 5 THEN x - 1 ELSE IF Weekday(x) = 6 THEN x + 1 ELSE x
  <2>1. Weekday(x) = 5 \/ Weekday(x) = 6 \/ (Weekday(x) # 5 /\ Weekday(x) # 6)
    OBVIOUS
  <2>. QED BY <2>1 DEF Observed, Saturday, Sunday
<1>3. PICK v, w, o : v = Weekday(x) /\ w = Weekday(day) /\ o = Observed(x)
  OBVIOUS
<1>4. /\ v = (x + 5) % 7 /\ w = (day + 5) % 7 /\ w < 5
      /\ o = IF v = 5 THEN x - 1 ELSE IF v = 6 THEN x + 1 ELSE x
  BY <1>1, <1>2, <1>3 DEF Saturday
<1>5. day = o <=> day = x \/ (w = 4 /\ day + 1 = x) \/ (w = 0 /\ day - 1 = x)
  BY ONLY <1>4, x \in Int, day \in Int
<1>. QED BY <1>3, <1>5 DEF KeptFor, Monday

\* A weekday by its place: after a first day, or before a last one.
LEMMA PlaceAfter ==
  ASSUME NEW first \in Int, NEW w \in 0..6, NEW n \in Int, NEW day \in Int
  PROVE  day = first + ((w - Weekday(first)) % 7) + 7 * (n - 1)
            <=> Weekday(day) = w /\ day - (first + 7 * (n - 1)) \in 0..6
<1>1. PICK v, u : v = (first + 5) % 7 /\ u = (day + 5) % 7
  OBVIOUS
<1>2. day = first + ((w - v) % 7) + 7 * (n - 1) <=> u = w /\ day - (first + 7 * (n - 1)) \in 0..6
  BY <1>1
<1>. QED BY <1>1, <1>2 DEF Weekday
LEMMA PlaceBefore ==
  ASSUME NEW last \in Int, NEW w \in 0..6, NEW day \in Int
  PROVE  day = last - ((Weekday(last) - w) % 7) <=> Weekday(day) = w /\ day - (last - 6) \in 0..6
<1>1. PICK v, u : v = (last + 5) % 7 /\ u = (day + 5) % 7
  OBVIOUS
<1>2. day = last - ((v - w) % 7) <=> u = w /\ day - (last - 6) \in 0..6
  BY <1>1
<1>. QED BY <1>1, <1>2 DEF Weekday

\* A month goes on day by day.
LEMMA DayByDay ==
  ASSUME NEW y \in Int, NEW m \in 1..12, NEW d \in Int
  PROVE  Day(<<y, m, d>>) = Day(<<y, m, 1>>) + d - 1 /\ Day(<<y, m, 1>>) \in Int /\ Day(<<y, m, d>>) \in Int
<1>1. PICK b, u, v : b = DaysBefore[m] /\ u = Leaps(y) /\ v = Leaps(y - 1)
  OBVIOUS
<1>2. /\ m > 2 => Day(<<y, m, d>>) = 365 * y + u + b + d
      /\ m <= 2 => Day(<<y, m, d>>) = 365 * y + v + b + d
      /\ u \in Int /\ v \in Int /\ b \in Int
  BY <1>1, DaysOfAYear
<1>3. 1 \in Int
  OBVIOUS
<1>4. /\ m > 2 => Day(<<y, m, 1>>) = 365 * y + u + b + 1
      /\ m <= 2 => Day(<<y, m, 1>>) = 365 * y + v + b + 1
  BY <1>1, <1>3, DaysOfAYear
<1>5. m > 2 \/ m <= 2
  OBVIOUS
<1>. QED BY <1>2, <1>4, <1>5

Place(y, m, x, w, day) == Weekday(day) = w /\ day - Day(<<y, m, x>>) \in 0..6
NthFrom(n, x) == n \in 1..5 /\ x = 1 + 7 * (n - 1)
LEMMA NthIs ==
  ASSUME NEW y \in Int, NEW m \in 1..12, NEW w \in 0..6, NEW n, NEW x, NthFrom(n, x), NEW day \in Int
  PROVE  day = NthWeekday(y, m, w, n) <=> Place(y, m, x, w, day)
<1>0. n \in 1..5 /\ x = 1 + 7 * (n - 1)
  BY DEF NthFrom
<1>1. PICK f : f = Day(<<y, m, 1>>)
  OBVIOUS
<1>2. f \in Int /\ x \in Int /\ Day(<<y, m, x>>) = f + 7 * (n - 1)
  <2>1. x \in Int
    BY <1>0
  <2>2. Day(<<y, m, x>>) = f + x - 1 /\ f \in Int
    BY <1>1, <2>1, DayByDay
  <2>. QED BY <1>0, <2>1, <2>2
<1>3. NthWeekday(y, m, w, n) = f + ((w - Weekday(f)) % 7) + 7 * (n - 1)
  BY <1>0, <1>1 DEF NthWeekday
<1>4. n \in Int
  BY <1>0
<1>5. day = f + ((w - Weekday(f)) % 7) + 7 * (n - 1) <=> Weekday(day) = w /\ day - (f + 7 * (n - 1)) \in 0..6
  BY <1>2, <1>4, PlaceAfter
<1>. QED BY <1>2, <1>3, <1>5 DEF Place

LEMMA LastMondayOfMay ==
  ASSUME NEW y \in Int, NEW day \in Int
  PROVE  day = NthWeekday(y, 5, Monday, -1) <=> Weekday(day) = Monday /\ day - Day(<<y, 5, 25>>) \in 0..6
<1>1. PICK last : last = Day(<<y, 6, 1>>) - 1
  OBVIOUS
<1>2. DaysBefore[5] = 120 /\ DaysBefore[6] = 151
  BY DEF DaysBefore
<1>3. /\ Day(<<y, 6, 1>>) = 365 * y + Leaps(y) + DaysBefore[6] + 1
      /\ Day(<<y, 5, 25>>) = 365 * y + Leaps(y) + DaysBefore[5] + 25
      /\ Leaps(y) \in Int
  BY DaysOfAYear DEF Leaps
<1>4. last \in Int /\ Day(<<y, 5, 25>>) = last - 6
  BY <1>1, <1>2, <1>3
<1>5. NthWeekday(y, 5, Monday, -1) = last - ((Weekday(last) - Monday) % 7)
  BY <1>1 DEF NthWeekday
<1>6. Monday \in 0..6
  BY DEF Monday
<1>7. day = last - ((Weekday(last) - Monday) % 7) <=> Weekday(day) = Monday /\ day - (last - 6) \in 0..6
  BY <1>4, <1>6, PlaceBefore
<1>. QED BY <1>4, <1>5, <1>7

\* The holidays that are a date, and those that are a weekday by its place.
Dated(y, day) ==
    \/ day = Day(<<y, 1, 1>>) \/ day = Day(<<y, 7, 4>>) \/ day = Day(<<y, 11, 11>>) \/ day = Day(<<y, 12, 25>>)
    \/ (y >= 2021 /\ day = Day(<<y, 6, 19>>)) \/ day = Day(<<y + 1, 1, 1>>)
Placed(y, day) ==
    \/ Place(y, 1, 15, Monday, day) \/ Place(y, 2, 15, Monday, day) \/ Place(y, 5, 25, Monday, day)
    \/ Place(y, 9, 1, Monday, day) \/ Place(y, 10, 8, Monday, day) \/ Place(y, 11, 22, Thursday, day)
LEMMA LegalIs == ASSUME NEW y, NEW day PROVE Legal(y, day) <=> Dated(y, day) \/ Placed(y, day)
BY DEF Legal, Dated, Placed, Place

LEMMA YearEnds ==
  ASSUME NEW y \in Int
  PROVE  /\ Day(<<y, 1, 1>>) \in Int /\ Day(<<y, 12, 31>>) \in Int /\ Day(<<y, 1, 1>>) <= Day(<<y, 12, 31>>)
         /\ Day(<<y + 1, 1, 1>>) = Day(<<y, 12, 31>>) + 1
<1>1. DaysBefore[1] = 0 /\ DaysBefore[12] = 334
  BY DEF DaysBefore
<1>2. y + 1 \in Int /\ (y + 1) - 1 = y
  OBVIOUS
<1>3. /\ Day(<<y, 1, 1>>) = 365 * y + Leaps(y - 1) + DaysBefore[1] + 1
      /\ Day(<<y, 12, 31>>) = 365 * y + Leaps(y) + DaysBefore[12] + 31
      /\ Leaps(y) \in Int /\ Leaps(y - 1) \in Int /\ Leaps(y) - Leaps(y - 1) \in {0, 1}
  <2>1. 1 \in 1..12 /\ 12 \in 1..12 /\ 1 \in Int /\ 31 \in Int /\ ~(1 > 2) /\ 1 <= 2 /\ 12 > 2
    OBVIOUS
  <2>. QED BY <2>1, DaysOfAYear
<1>4. Day(<<y + 1, 1, 1>>) = 365 * (y + 1) + Leaps(y) + DaysBefore[1] + 1
  <2>1. 1 \in 1..12 /\ 1 \in Int /\ 1 <= 2
    OBVIOUS
  <2>2. Day(<<y + 1, 1, 1>>) = 365 * (y + 1) + Leaps((y + 1) - 1) + DaysBefore[1] + 1
    BY <1>2, <2>1, DaysOfAYear
  <2>. QED BY <1>2, <2>2
<1>. QED BY <1>1, <1>3, <1>4

\* The holidays of a year, read off its days from Monday to Friday.
LEMMA HolidaysAre ==
  ASSUME NEW y \in Int, NEW day \in Int, Weekday(day) < Saturday, day <= Day(<<y, 12, 31>>)
  PROVE  day \in FederalHolidays(y) <=>
            \/ Dated(y, day) \/ Placed(y, day)
            \/ (Weekday(day) = 4 /\ Dated(y, day + 1)) \/ (Weekday(day) = Monday /\ Dated(y, day - 1))
<1>1. PICK x1, x7, x11, x12, x6, xn :
          /\ x1 = Day(<<y, 1, 1>>) /\ x7 = Day(<<y, 7, 4>>) /\ x11 = Day(<<y, 11, 11>>)
          /\ x12 = Day(<<y, 12, 25>>) /\ x6 = Day(<<y, 6, 19>>) /\ xn = Day(<<y + 1, 1, 1>>)
  OBVIOUS
<1>2. x1 \in Int /\ x7 \in Int /\ x11 \in Int /\ x12 \in Int /\ x6 \in Int
  <2>1. \A m \in 1..12, d \in Int : Day(<<y, m, d>>) \in Int
    BY DayByDay
  <2>2. 1 \in 1..12 /\ 7 \in 1..12 /\ 11 \in 1..12 /\ 12 \in 1..12 /\ 6 \in 1..12
    OBVIOUS
  <2>3. 1 \in Int /\ 4 \in Int /\ 11 \in Int /\ 25 \in Int /\ 19 \in Int
    OBVIOUS
  <2>4. Day(<<y, 1, 1>>) \in Int /\ Day(<<y, 7, 4>>) \in Int /\ Day(<<y, 11, 11>>) \in Int
    BY <2>1, <2>2, <2>3
  <2>5. Day(<<y, 12, 25>>) \in Int /\ Day(<<y, 6, 19>>) \in Int
    BY <2>1, <2>2, <2>3
  <2>. QED BY <1>1, <2>4, <2>5
<1>3. xn \in Int /\ day < xn
  BY <1>1, YearEnds
<1>4. PICK N1, N2, N5, N9, N10, N11 :
          /\ N1 = NthWeekday(y, 1, Monday, 3) /\ N2 = NthWeekday(y, 2, Monday, 3) /\ N5 = NthWeekday(y, 5, Monday, -1)
          /\ N9 = NthWeekday(y, 9, Monday, 1) /\ N10 = NthWeekday(y, 10, Monday, 2) /\ N11 = NthWeekday(y, 11, Thursday, 4)
  OBVIOUS
<1>5. day \in FederalHolidays(y) <=>
         \/ day = Observed(x1) \/ day = Observed(x7) \/ day = Observed(x11) \/ day = Observed(x12)
         \/ (y >= 2021 /\ day = Observed(x6)) \/ day = Observed(xn)
         \/ day = N1 \/ day = N2 \/ day = N5 \/ day = N9 \/ day = N10 \/ day = N11
  <2>1. FederalHolidays(y) =
           {Observed(x1), N1, N2, N5, Observed(x7), N9, N10, Observed(x11), N11, Observed(x12)}
           \cup (IF y >= 2021 THEN {Observed(x6)} ELSE {})
           \cup {z \in {Observed(xn)} : z < xn}
    BY <1>1, <1>4 DEF FederalHolidays
  <2>. QED BY <1>3, <2>1
<1>6. /\ day = Observed(x1) <=> KeptFor(x1, day)
      /\ day = Observed(x7) <=> KeptFor(x7, day)
      /\ day = Observed(x11) <=> KeptFor(x11, day)
      /\ day = Observed(x12) <=> KeptFor(x12, day)
      /\ day = Observed(x6) <=> KeptFor(x6, day)
      /\ day = Observed(xn) <=> KeptFor(xn, day)
  BY <1>2, <1>3, ObservedIs
<1>7. /\ day = N1 <=> Place(y, 1, 15, Monday, day)
      /\ day = N2 <=> Place(y, 2, 15, Monday, day)
      /\ day = N5 <=> Place(y, 5, 25, Monday, day)
      /\ day = N9 <=> Place(y, 9, 1, Monday, day)
      /\ day = N10 <=> Place(y, 10, 8, Monday, day)
      /\ day = N11 <=> Place(y, 11, 22, Thursday, day)
  <2>0. y \in Int /\ day \in Int
    OBVIOUS
  <2>1. Monday \in 0..6 /\ Thursday \in 0..6
    BY DEF Monday, Thursday
  <2>2. /\ NthFrom(3, 15) /\ NthFrom(1, 1) /\ NthFrom(2, 8) /\ NthFrom(4, 22)
        /\ 1 \in 1..12 /\ 2 \in 1..12 /\ 9 \in 1..12 /\ 10 \in 1..12 /\ 11 \in 1..12
    BY DEF NthFrom
  <2>3. day = N1 <=> Place(y, 1, 15, Monday, day)
    <3>1. NthFrom(3, 15) /\ 1 \in 1..12 /\ Monday \in 0..6
      BY ONLY <2>1, <2>2
    <3>2. day = NthWeekday(y, 1, Monday, 3) <=> Place(y, 1, 15, Monday, day)
      BY ONLY <2>0, <3>1, NthIs
    <3>. QED BY ONLY <3>2, <1>4
  <2>4. day = N2 <=> Place(y, 2, 15, Monday, day)
    <3>1. NthFrom(3, 15) /\ 2 \in 1..12 /\ Monday \in 0..6
      BY ONLY <2>1, <2>2
    <3>2. day = NthWeekday(y, 2, Monday, 3) <=> Place(y, 2, 15, Monday, day)
      BY ONLY <2>0, <3>1, NthIs
    <3>. QED BY ONLY <3>2, <1>4
  <2>5. day = N5 <=> Place(y, 5, 25, Monday, day)
    BY <1>4, LastMondayOfMay DEF Place
  <2>6. day = N9 <=> Place(y, 9, 1, Monday, day)
    <3>1. NthFrom(1, 1) /\ 9 \in 1..12 /\ Monday \in 0..6
      BY ONLY <2>1, <2>2
    <3>2. day = NthWeekday(y, 9, Monday, 1) <=> Place(y, 9, 1, Monday, day)
      BY ONLY <2>0, <3>1, NthIs
    <3>. QED BY ONLY <3>2, <1>4
  <2>7. day = N10 <=> Place(y, 10, 8, Monday, day)
    <3>1. NthFrom(2, 8) /\ 10 \in 1..12 /\ Monday \in 0..6
      BY ONLY <2>1, <2>2
    <3>2. day = NthWeekday(y, 10, Monday, 2) <=> Place(y, 10, 8, Monday, day)
      BY ONLY <2>0, <3>1, NthIs
    <3>. QED BY ONLY <3>2, <1>4
  <2>8. day = N11 <=> Place(y, 11, 22, Thursday, day)
    <3>1. NthFrom(4, 22) /\ 11 \in 1..12 /\ Thursday \in 0..6
      BY ONLY <2>1, <2>2
    <3>2. day = NthWeekday(y, 11, Thursday, 4) <=> Place(y, 11, 22, Thursday, day)
      BY ONLY <2>0, <3>1, NthIs
    <3>. QED BY ONLY <3>2, <1>4
  <2>. QED BY <2>3, <2>4, <2>5, <2>6, <2>7, <2>8
<1>8. Placed(y, day) <=> day = N1 \/ day = N2 \/ day = N5 \/ day = N9 \/ day = N10 \/ day = N11
  BY <1>7 DEF Placed
<1>9. \A z \in Int : Dated(y, z) <=> \/ z = x1 \/ z = x7 \/ z = x11 \/ z = x12 \/ (y >= 2021 /\ z = x6) \/ z = xn
  BY <1>1 DEF Dated
<1>10. day + 1 \in Int /\ day - 1 \in Int
  OBVIOUS
<1>11. day \in FederalHolidays(y) <=>
         \/ KeptFor(x1, day) \/ KeptFor(x7, day) \/ KeptFor(x11, day) \/ KeptFor(x12, day)
         \/ (y >= 2021 /\ KeptFor(x6, day)) \/ KeptFor(xn, day) \/ Placed(y, day)
  BY <1>5, <1>6, <1>8
<1>12. \/ KeptFor(x1, day) \/ KeptFor(x7, day) \/ KeptFor(x11, day) \/ KeptFor(x12, day)
       \/ (y >= 2021 /\ KeptFor(x6, day)) \/ KeptFor(xn, day)
       <=> \/ Dated(y, day) \/ (Weekday(day) = 4 /\ Dated(y, day + 1))
           \/ (Weekday(day) = Monday /\ Dated(y, day - 1))
  BY <1>9, <1>10 DEF KeptFor
<1>. QED BY <1>11, <1>12

\* No holiday by its place is on a weekend.
LEMMA PlacedInTheWeek == ASSUME NEW y, NEW day, Placed(y, day) PROVE Weekday(day) = 0 \/ Weekday(day) = 3
BY DEF Placed, Place, Monday, Thursday

LEMMA OpenDays ==
  ASSUME NEW y \in Int, NEW day \in Int, day <= Day(<<y, 12, 31>>)
  PROVE  day \in ExpectedBusinessDays(day, y, day, y) <=>
            /\ Weekday(day) \notin {Saturday, Sunday} /\ day \notin SpecialClosures
            /\ ~Legal(y, day)
            /\ ~(Weekday(day) = 4 /\ Legal(y, day + 1))
            /\ ~(Weekday(day) = Monday /\ Legal(y, day - 1))
            /\ day # Easter(y) - 2
<1>1. /\ Weekday(day) \in 0..6 /\ Weekday(day + 1) = (Weekday(day) + 1) % 7
      /\ Weekday(day - 1) = (Weekday(day) + 6) % 7
  BY WeekdayIs
<1>2. day \in ExpectedBusinessDays(day, y, day, y) <=>
         /\ Weekday(day) < Saturday /\ day \notin SpecialClosures
         /\ day \notin FederalHolidays(y) /\ day # Easter(y) - 2
  <2>1. y..y = {y} /\ day..day = {day}
    OBVIOUS
  <2>2. PICK F, E : F = FederalHolidays(y) /\ E = Easter(y) - 2
    OBVIOUS
  <2>3. UNION {FederalHolidays(z) \cup {Easter(z) - 2} : z \in y..y} = F \cup {E}
    BY <2>1, <2>2
  <2>4. ExpectedBusinessDays(day, y, day, y) =
           {z \in {day} : Weekday(z) < Saturday /\ z \notin (F \cup {E}) \cup SpecialClosures}
    <3>1. ExpectedBusinessDays(day, y, day, y) =
             {z \in day..day : Weekday(z) < Saturday
                  /\ z \notin (UNION {FederalHolidays(u) \cup {Easter(u) - 2} : u \in y..y}) \cup SpecialClosures}
      BY DEF ExpectedBusinessDays
    <3>. QED BY <2>1, <2>3, <3>1
  <2>. QED BY <2>2, <2>4
<1>3. Weekday(day) < Saturday <=> Weekday(day) \notin {Saturday, Sunday}
  BY <1>1 DEF Saturday, Sunday
<1>4. Weekday(day) = 4 => ~Placed(y, day + 1)
  <2>1. Weekday(day) = 4 => Weekday(day + 1) = 5
    BY <1>1
  <2>. QED BY <2>1, PlacedInTheWeek
<1>5. Weekday(day) = Monday => ~Placed(y, day - 1)
  <2>1. Weekday(day) = Monday => Weekday(day - 1) = 6
    BY <1>1 DEF Monday
  <2>. QED BY <2>1, PlacedInTheWeek
<1>6. /\ Legal(y, day) <=> Dated(y, day) \/ Placed(y, day)
      /\ Legal(y, day + 1) <=> Dated(y, day + 1) \/ Placed(y, day + 1)
      /\ Legal(y, day - 1) <=> Dated(y, day - 1) \/ Placed(y, day - 1)
  BY LegalIs
<1>7. Weekday(day) < Saturday =>
        (day \in FederalHolidays(y) <=>
            \/ Dated(y, day) \/ Placed(y, day)
            \/ (Weekday(day) = 4 /\ Dated(y, day + 1)) \/ (Weekday(day) = Monday /\ Dated(y, day - 1)))
  BY HolidaysAre
<1>. QED BY <1>2, <1>3, <1>4, <1>5, <1>6, <1>7

(* The calendar of the feeds expects the open days and no others, and puts  *)
(* Easter on the Sunday after the paschal full moon, in whatever years it   *)
(* is asked for (download_us_treasury.py:264-395).                          *)
THEOREM CalendarIsTrue == CalSpec => []CalendarHolds
<1>1. CalInit => CalTypeOK
  <2>1. SUFFICES ASSUME NEW y \in FirstYear..LastYear, LookFrom(y) PROVE CalTypeOK
    BY DEF CalInit
  <2>2. y \in Int
    BY CalendarAssumption
  <2>3. within = y /\ looked = Day(<<y, 1, 1>>)
    BY <2>1 DEF LookFrom
  <2>4. Day(<<y, 1, 1>>) \in Day(<<y, 1, 1>>)..Day(<<y, 12, 31>>)
    <3>1. PICK a, b : a = Day(<<y, 1, 1>>) /\ b = Day(<<y, 12, 31>>)
      OBVIOUS
    <3>2. a \in Int /\ b \in Int /\ a <= b
      BY <2>2, <3>1, YearEnds
    <3>3. a \in a..b
      BY <3>2
    <3>. QED BY <3>1, <3>3
  <2>. QED BY <2>1, <2>3, <2>4 DEF CalTypeOK
<1>2. CalTypeOK /\ [CalNext]_calVars => CalTypeOK'
  <2>1. SUFFICES ASSUME CalTypeOK, CalNext \/ UNCHANGED calVars PROVE CalTypeOK'
    OBVIOUS
  <2>2. within \in Int
    BY <2>1, CalendarAssumption DEF CalTypeOK
  <2>3. PICK a, b : a = Day(<<within, 1, 1>>) /\ b = Day(<<within, 12, 31>>)
    OBVIOUS
  <2>4. a \in Int /\ b \in Int
    BY <2>2, <2>3, YearEnds
  <2>5. looked \in a..b /\ within' = within
    BY <2>1, <2>3 DEF CalTypeOK, CalNext, calVars
  <2>6. CASE CalNext
    <3>1. looked < b /\ looked' = looked + 1
      BY <2>3, <2>6 DEF CalNext
    <3>2. looked' \in a..b
      BY <2>4, <2>5, <3>1
    <3>. QED BY <2>1, <2>3, <2>5, <3>2 DEF CalTypeOK
  <2>7. CASE UNCHANGED calVars
    BY <2>1, <2>7 DEF CalTypeOK, calVars
  <2>. QED BY <2>1, <2>6, <2>7
<1>3. CalTypeOK => CalendarHolds
  <2>1. SUFFICES ASSUME CalTypeOK PROVE CalendarHolds
    OBVIOUS
  <2>2. within \in Int
    BY <2>1, CalendarAssumption DEF CalTypeOK
  <2>3. looked \in Int /\ looked <= Day(<<within, 12, 31>>)
    BY <2>1, <2>2, YearEnds DEF CalTypeOK
  <2>4. ExpectedIsOpen
    BY <2>2, <2>3, OpenDays DEF ExpectedIsOpen
  <2>5. EasterAfterTheMoon
    BY <2>2, EasterIsRight DEF EasterAfterTheMoon
  <2>. QED BY <2>1, <2>4, <2>5 DEF CalendarHolds
<1>. QED BY <1>1, <1>2, <1>3, PTL DEF CalSpec
=============================================================================
