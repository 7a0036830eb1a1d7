CONSTANTS
  Datasets <- MCDatasets
  Years = {1, 2}
  MaxRevision = 2
  MaxAttempts = 2
  MaxAcquisitions = 1
  MaxKills = 1
  Loaders = {l1, l2}
  WithExtras = {"d2"}
  MaxLoaderKills = 1
  Versions = {1, 2, 3}
  FileRevisions = 2
  Migrators = {k1, k2}
SPECIFICATION MCSpec
CHECK_DEADLOCK FALSE
INVARIANTS FilesStand LoadIsWhole DiaryTells MigrationsHold VerdictHolds
SYMMETRY Alike
