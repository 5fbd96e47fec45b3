SPECIFICATION FairSpec
CONSTANTS
  s1 = s1  s2 = s2  a = a  b = b
  root = root  i1 = i1  i2 = i2  i3 = i3  i4 = i4  i5 = i5
  none = none  w = w  x = x  y = y  z = z
  Shells = {s1, s2}
  Names = {a, b}
  Inodes = {root, i1, i2, i3, i4, i5}
  Root = root
  Nowhere = none
  Data = {w, x, y, z}
  Empty = z
  Short = w
  Failing = {"read", "write", "flush"}
  Trees <- MCTrees
  Programs <- MCPrograms
CHECK_DEADLOCK FALSE
INVARIANT DirectoryNeedsR
