CONSTANTS
  ed = ed
  vi = vi
  b1 = b1
  b2 = b2
  Procs = {p1}
  Names = {ed, vi}
  Versions <- MCVersions
  Bins = {b1, b2}
  Files <- MCFiles
  Archives <- MCArchives
  Modules <- MCModules
  Inodes = {i1, i2}
  NoInode = NoInode
  NoPkg = NoPkg
  Commands = {"install", "remove"}
  Faults = {}
  MaxLines <- MCLinesTwo
SPECIFICATION Spec
PROPERTIES
  RemoveTakesOwnLinks
