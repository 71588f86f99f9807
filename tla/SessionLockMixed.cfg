\* One process acquires the session name directly while another renames to it.
CONSTANTS
  p1 = p1  p2 = p2  p3 = p3
  i1 = i1  i2 = i2  i3 = i3  i4 = i4
  s = s  k = k  a1 = a1  a2 = a2  a3 = a3
  Procs = {p1, p2, p3}
  Inodes = {i1, i2, i3, i4}
  NoFile = NoFile
  Names = {s, k, a1, a2, a3}
  Sources = {a1, a2, a3}
  Targets = {s}
  AcquireNames <- Mixed
SPECIFICATION Spec
\* Every process may be gone.
CHECK_DEADLOCK FALSE
INVARIANTS
  MutualExclusion
