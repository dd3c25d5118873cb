\* Three months, restarts at any moment, two dbt entries; with and without the right to create.
SPECIFICATION FairSpec
CONSTANTS
  Ahead = 1
  Keep = 1
  Builds = 2
  MaxMonth = 2
  Grants = {TRUE, FALSE}
INVARIANTS PartitionsInPlace MetricHasModel
PROPERTIES DriftIsReported BuildsComeRound
