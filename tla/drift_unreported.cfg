\* The grants of migration 001: role etl may not create tables in raw.
SPECIFICATION FairSpec
CONSTANTS
  Ahead = 1
  Keep = 1
  Builds = 1
  MaxMonth = 1
  Grants = {FALSE}
PROPERTY DriftPages
