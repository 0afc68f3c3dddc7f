SPECIFICATION Spec
CONSTANTS
  l1 = l1
  l2 = l2
  l3 = l3
  f1 = f1
  f2 = f2
  f3 = f3
  i1 = i1
  i2 = i2
  i3 = i3
  i4 = i4
  c1 = c1
  c2 = c2
  None = None
  Listeners = {l1, l2}
  Files = {f1, f2}
  Containers = {f1, f2}
  RealFile <- OneContainerPerFile
  SizeOf <- Sizes
  Inodes = {i1, i2, i3}
  FDs = {1, 2}
  MaxSize = 2
  MaxContainers = 1
  MaxAccess = 2
  CanFail = {}
  CanCrash = {}
  InfoExists = TRUE
SYMMETRY Symmetry
INVARIANTS TypeOK UseSafe NoDeadlock RecordedSizeCovers
PROPERTY ImplementsPinnedCache
