SPECIFICATION Spec
CONSTANTS
  Threads = {t1, t2}
  Urls = {u1, u2}
  Names = {n1, n2}
  Blocks = {1, 2}
  Totals = {1, 2}
  MaxEntrySize = 1
  DumpFrequency = 1
  MaxLeaks = 1
  Faults = {"write", "update", "index"}
  Crashes = TRUE
  NoThread = NoThread
  NoUrl = NoUrl
  NoEntry = NoEntry
  NoName = NoName
SYMMETRY Symmetry
CHECK_DEADLOCK FALSE
INVARIANTS Consistent HeldStays EntriesWhole
