CONSTANTS
  ed = ed
  vi = vi
  b1 = b1
  b2 = b2
  Procs = {p1, p2}
  Names = {ed}
  Versions <- MCVersions
  Bins = {b1, b2}
  Files <- MCFiles
  Archives <- MCArchives
  Modules <- MCModules
  Inodes = {i1, i2, i3, i4}
  NoInode = NoInode
  NoPkg = NoPkg
  Commands = {"install", "remove", "upgrade"}
  Faults = {"disk"}
  MaxLines <- MCLinesTwo
SPECIFICATION Spec
PROPERTIES
  OthersKept
SYMMETRY MCSymmetry
