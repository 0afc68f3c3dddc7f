SPECIFICATION Spec
CONSTANTS
  Threads = {t1, t2}
  Urls = {u1, u2}
  Names = {n1, n2, n3}
  Blocks = {1, 2}
  Totals = {2, 3}
  MaxEntrySize = 1
  DumpFrequency = 1
  MaxLeaks = 1
  Faults = {}
  Crashes = FALSE
  NoThread = NoThread
  NoUrl = NoUrl
  NoEntry = NoEntry
  NoName = NoName
SYMMETRY Symmetry
CHECK_DEADLOCK FALSE
INVARIANT NoHang
