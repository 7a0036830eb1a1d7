----------------------------- MODULE Migrations -----------------------------
(***************************************************************************)
(* postgres/src/treasury_db/migrate.py: several migrators on one database. *)
(* Each discovers the files, reads the ledger, compares checksums, and     *)
(* applies what is pending, one transaction per file.  Meanwhile files are *)
(* edited and added, statements fail and migrators are killed.  A file is  *)
(* abstracted to its revision; 0 means that there is no such file.         *)
(***************************************************************************)
EXTENDS Naturals, Sequences, SequencesExt

CONSTANTS Versions,       \* version numbers, in the order of their file names
          FileRevisions,  \* bound: the revisions of a file
          Migrators

ASSUME MigrationsAssumption == Versions \subseteq Nat \ {0} /\ FileRevisions \in Nat \ {0}

VARIABLES disk,        \* postgres/migrations: the revision of each file
          schemaLedger,\* meta.schema_migration: the revision whose checksum is recorded
          executed,    \* history: the versions and revisions whose SQL was committed, in order
          slipped,     \* history: the files edited after their SQL was read, before their checksum
          late,        \* history: the files that were added after the beginning
          migrator     \* the processes
migVars == <<disk, schemaLedger, executed, slipped, late, migrator>>

Waiting == [at |-> "start", found |-> {}, applied |-> [v \in Versions |-> 0], pending |-> {},
            text |-> 0, exit |-> "none", stale |-> FALSE]
\* discover sorts the files by their version: the lowest pending one is next.
Upcoming(k)    == Min(migrator[k].pending)
Ends(k, code)  == migrator' = [migrator EXCEPT ![k].at = "ended", ![k].exit = code]

MigInit == /\ disk \in [Versions -> {0, 1}] /\ \E v \in Versions : disk[v] = 1
           /\ schemaLedger = [v \in Versions |-> 0] /\ executed = <<>> /\ slipped = {}
           /\ late = {v \in Versions : disk[v] = 0}
           /\ migrator = [k \in Migrators |-> Waiting]

\* discover.  (History: whether a file differs by then from what was executed of it.)
Discover(k) == /\ migrator[k].at = "start"
               /\ migrator' = [migrator EXCEPT ![k].at = "ledger",
                     ![k].found = {v \in Versions : disk[v] # 0},
                     ![k].stale = \E e \in Range(executed) : e[1] \notin slipped /\ disk[e[1]] # e[2]]
               /\ UNCHANGED <<disk, schemaLedger, executed, slipped, late>>

\* ensure_ledger and applied_migrations
ReadLedger(k) == /\ migrator[k].at = "ledger"
                 /\ migrator' = [migrator EXCEPT ![k].at = "check", ![k].applied = schemaLedger]
                 /\ UNCHANGED <<disk, schemaLedger, executed, slipped, late>>

DriftedNever(k) == {}

\* Rule 3: a recorded checksum against the file as it is now
Drifted(k) == {v \in migrator[k].found : migrator[k].applied[v] \notin {0, disk[v]}}
Check(k) ==
    /\ migrator[k].at = "check"
    /\ LET pending == {v \in migrator[k].found : migrator[k].applied[v] = 0} IN
       IF Drifted(k) # {} THEN Ends(k, "drift")
       ELSE IF pending = {} THEN Ends(k, "ok")
       ELSE migrator' = [migrator EXCEPT ![k].at = "apply", ![k].pending = pending]
    /\ UNCHANGED <<disk, schemaLedger, executed, slipped, late>>
\* --status and --dry-run go no further.
Report(k) == /\ migrator[k].at = "apply" /\ migrator[k].text = 0 /\ Ends(k, "ok")
             /\ UNCHANGED <<disk, schemaLedger, executed, slipped, late>>

\* read_text, and the SQL is executed: nothing of it can be seen before the commit.
Execute(k) == /\ migrator[k].at = "apply"
              /\ migrator' = [migrator EXCEPT ![k].at = "record", ![k].text = disk[Upcoming(k)]]
              /\ UNCHANGED <<disk, schemaLedger, executed, slipped, late>>

After(k) == IF migrator[k].pending = {Upcoming(k)}
            THEN Ends(k, "ok")
            ELSE migrator' = [migrator EXCEPT ![k].at = "apply", ![k].pending = @ \ {Upcoming(k)}]

RecordAgain(k) ==
    /\ migrator[k].at = "record"
    /\ schemaLedger' = [schemaLedger EXCEPT ![Upcoming(k)] = disk[Upcoming(k)]]
    /\ executed' = Append(executed, <<Upcoming(k), migrator[k].text>>)
    /\ After(k) /\ UNCHANGED <<disk, slipped, late>>

\* The checksum of the file as it is now, under the version as primary key, and the commit.  The
\* INSERT waits for another that is not committed; if that one is, it fails.
Record(k) ==
    /\ migrator[k].at = "record" /\ schemaLedger[Upcoming(k)] = 0
    /\ schemaLedger' = [schemaLedger EXCEPT ![Upcoming(k)] = disk[Upcoming(k)]]
    /\ executed' = Append(executed, <<Upcoming(k), migrator[k].text>>)
    /\ After(k) /\ UNCHANGED <<disk, slipped, late>>

FailOn(k) == /\ migrator[k].at = "record" /\ After(k)
             /\ UNCHANGED <<disk, schemaLedger, executed, slipped, late>>

\* A statement fails, or the version is there by now: all of the file is rolled back and the run
\* ends.
Fail(k) == /\ migrator[k].at = "record" /\ Ends(k, "failed")
           /\ UNCHANGED <<disk, schemaLedger, executed, slipped, late>>

\* The process is killed; the database rolls back.
KillMigrator(k) == /\ migrator[k].at \notin {"start", "ended"} /\ Ends(k, "killed")
                   /\ UNCHANGED <<disk, schemaLedger, executed, slipped, late>>

EditFile(v) == /\ disk[v] \in 1..(FileRevisions - 1)
               /\ disk' = [disk EXCEPT ![v] = @ + 1]
               /\ slipped' = IF \E k \in Migrators : migrator[k].at = "record" /\ Upcoming(k) = v
                             THEN slipped \cup {v} ELSE slipped
               /\ UNCHANGED <<schemaLedger, executed, late, migrator>>
AddFile(v) == /\ disk[v] = 0 /\ disk' = [disk EXCEPT ![v] = 1]
              /\ UNCHANGED <<schemaLedger, executed, slipped, late, migrator>>

MigNext == \/ \E k \in Migrators : \/ Discover(k) \/ ReadLedger(k) \/ Check(k) \/ Report(k)
                                   \/ Execute(k) \/ Record(k) \/ Fail(k) \/ KillMigrator(k)
           \/ \E v \in Versions : EditFile(v) \/ AddFile(v)

-----------------------------------------------------------------------------
(* What is checked: the four rules of the module's docstring.              *)

\* Rules 1 and 2: whoever races, fails or is killed, the SQL of a version is committed at most
\* once, and exactly for the versions in the ledger.
OnceEach == /\ \A i, j \in 1..Len(executed) : executed[i][1] = executed[j][1] => i = j
            /\ {e[1] : e \in Range(executed)} = {v \in Versions : schemaLedger[v] # 0}

\* Rule 1: of the files that were there from the beginning none is applied before a lower one.
InFileOrder == \A v, w \in Versions \ late :
                  v < w /\ schemaLedger[w] # 0 => schemaLedger[v] # 0

\* Rule 3: what the ledger records is what ran, unless the file was edited while it was being
\* applied; and a migrator that begins with a file edited since it ran applies nothing and does
\* not end well.
DriftIsLoud ==
    /\ \A e \in Range(executed) : e[1] \notin slipped => schemaLedger[e[1]] = e[2]
    /\ \A k \in Migrators : migrator[k].stale =>
          migrator[k].at \notin {"apply", "record"} /\ migrator[k].exit # "ok"

\* The four rules of migrate.py, for any number of migrators that race, fail and are killed.
MigrationsHold == OnceEach /\ InFileOrder /\ DriftIsLoud
=============================================================================
