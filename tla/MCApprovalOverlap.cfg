SPECIFICATION Spec
CONSTANTS
  Token = {1}
  Scope = {s1}
  Process = {p1}
  Call = {c1, c2}
  Inode = {i1, i2, i3}
  MaxTime = 1
  MaxTTL = 1
INVARIANTS
  LoadNeverPartial
