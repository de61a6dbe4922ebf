CONSTANTS
  NClusters = 5
  DirSize = 3
  ClusterSize = 2
  RootName = "root"
  Exts = {"dir", "txt", "none"}
  NoExt = "none"
  NoName = ""
  WriteSizes = {0, 2}
  ReadSizes = {2}
  TypedNames = {"a", "b"}
  FileExts = {"txt"}
  ShellName = "shell"
  Blank = "zero"
SPECIFICATION OffEdgeSpec
INVARIANT TypeOK
INVARIANT CwdMatchesPath
VIEW ShellView
