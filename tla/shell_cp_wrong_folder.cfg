CONSTANTS
  NClusters = 6
  DirSize = 3
  ClusterSize = 2
  RootName = "root"
  Exts = {"dir", "txt", "none"}
  NoExt = "none"
  NoName = ""
  WriteSizes = {0, 2}
  ReadSizes = {2}
  TypedNames = {"a", "b"}
  FileExts = {"txt", "dir"}
  ShellName = "shell"
  Blank = "zero"
SPECIFICATION CopySpec
VIEW ShellView
PROPERTY CpWritesAtDest
