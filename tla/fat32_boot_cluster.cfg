CONSTANTS
  NClusters = 5
  DirSize = 3
  ClusterSize = 2
  Names = {root, a}
  RootName = root
  Exts = {"dir", "none"}
  NoExt = "none"
  NoName = NoName
  Data = {d1, d2}
  WriteSizes = {0, 1, 3}
  ReadSizes = {2, 4}
SPECIFICATION NoTornSpec
PROPERTY BootKeepsFiles
