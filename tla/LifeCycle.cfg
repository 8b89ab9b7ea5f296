\* All five programs, either kind of stdout, any process killed at any moment.
SPECIFICATION FairSpec
CONSTANTS
  Programs = {"first", "observe", "second", "ParZ", "third"}
  Depth = 1
  MaxKills = 2
  MaxUntold = 1
INVARIANTS LinesOnce SleepsOrder ReportIsTrue PagesTellTheCopy
PROPERTY AllReaped
