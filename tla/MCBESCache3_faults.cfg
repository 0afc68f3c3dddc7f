SPECIFICATION Spec
CONSTANTS
  l1 = l1
  l2 = l2
  l3 = l3
  f1 = f1
  f2 = f2
  f3 = f3
  i1 = i1
  i2 = i2
  i3 = i3
  i4 = i4
  c1 = c1
  c2 = c2
  None = None
  Listeners = {l1, l2}
  Files = {f1, f2}
  Containers = {c1, c2, f2}
  RealFile <- TwoOfOne
  SizeOf <- UnitSizes
  Inodes = {i1, i2, i3}
  FDs = {1, 2}
  MaxSize = 1
  MaxContainers = 2
  MaxAccess = 1
  CanFail = {l1}
  CanCrash = {l2}
  InfoExists = FALSE
CONSTRAINT InfoSizeBound
SYMMETRY InodeSymmetry
INVARIANTS CreateNeverBlocks CacheUnlockedOutside
