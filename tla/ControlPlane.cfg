SPECIFICATION FairSpec
CONSTANTS
  Timelines <- MCTimelines
  Posts <- MCPosts
  BootPads = 2
  BootWells = 1
  MaxPads = 2
  MaxWells = 2
  MaxTotalWells = 2
  MaxRuns = 1
  MaxPosts = 2
  MaxBreaks = 1
  MaxCrashes = 1
  MaxSeq = 3
INVARIANTS
  ResetClearsAll
  SeqsExact
PROPERTY RunsEnd
CHECK_DEADLOCK FALSE
