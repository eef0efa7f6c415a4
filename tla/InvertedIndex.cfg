CONSTANTS
  PageSize = 2
  BuilderPage = 3
  SortMemory = 2
  Hash <- MCHash
  Checksum <- MCChecksum
  RecordsPerMap = 2
  Keys = {"a", "b", "c", "x"}
  Inserted = {"a", "b", "c"}
  Values <- MCValues
  MaxBucketSize = 1
  MaxFileSize = 9
  Expected = 4
  Begins = {0, 1}
  Lengths = {1, 4}
  MaxRecords = 3
  MaxFailures = 1
SPECIFICATION Spec
CHECK_DEADLOCK FALSE
INVARIANTS
  BucketsBounded
  StatisticsAgree
PROPERTY
  ImplementsSortedLists
