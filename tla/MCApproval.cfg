SPECIFICATION Spec
CONSTANTS
  Token = {1, 2}
  Scope = {s1, s2}
  Process = {p1, p2}
  Call = {c1}
  Inode = {i1, i2}
  MaxTime = 1
  MaxTTL = 1
SYMMETRY Perms
INVARIANTS
  GrantsHonoured
  StoreHonest
