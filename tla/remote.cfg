CONSTANTS
  d1 = d1
  d2 = d2
  f1 = f1
  f2 = f2
  Dirs <- MCDirs
  Files <- MCFiles
  DirOf <- MCDirOf
  kDlWorkers <- MCWorkers
  MaxEnqueue <- MCEnqueue
SPECIFICATION RemoteFairSpec
INVARIANTS
  IdleMeansSettled
PROPERTIES
  RemoteSettles
