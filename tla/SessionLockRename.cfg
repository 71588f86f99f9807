\* Two processes and their children contend for s, crash, and leave stale files.
CONSTANTS
  p1 = p1  p2 = p2  p3 = p3
  i1 = i1  i2 = i2  i3 = i3  i4 = i4
  s = s  k = k  a1 = a1  a2 = a2  a3 = a3
  Procs = {p1, p2}
  Inodes = {i1, i2, i3, i4}
  NoFile = NoFile
  Names = {s, k, a1, a2}
  Sources = {a1, a2}
  Targets = {s}
  AcquireNames <- Disciplined
SPECIFICATION FairSpec
\* Every process may be gone.
CHECK_DEADLOCK FALSE
INVARIANTS
  MutualExclusion
  NameBacked
PROPERTIES
  OnlyUnlinkedByHolder
  RenameReturns
