SPECIFICATION FairSpec
CONSTANTS
  MaxWrites = 2
  MaxFaults = 2
  MaxKills = 2
  Faults = {"step"}
INVARIANTS TypeOK FoundNewest NoForeignLog
PROPERTIES NothingOverwritten EndsServing
CHECK_DEADLOCK FALSE
