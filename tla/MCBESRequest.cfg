SPECIFICATION Spec
CONSTANTS
  Names = {n1, n2}
  Defs = {d1, d2}
  Files = {z, p}
  Compressed = {z}
  Objects = {1, 2, 3, 4, 5, 6, 7, 8, 9, 10}
  MaxCommands = 3
  MaxRequests = 2
  MaxContainers = 2
  Garbage = {TRUE, FALSE}
  NoFile = NoFile
SYMMETRY Symmetry
INVARIANTS Consistent ErrorEndsAnswer LastReleases DefinedForTame
