\* Two runs in one herdr session, every request, every fault, and a socket
\* whose inode is reused with or without a birth time.
CONSTANTS
  None = None
  Newer = Newer
  r1 = r1
  r2 = r2
  t1 = t1
  t2 = t2
  s1 = s1
  s2 = s2
  Words = {"foo", "bar"}
  UsizeMax = 3
  CollisionTries = 2
  SocketPaths <- MC1Socket
  Tabs <- MCTabs
  Bases <- MCBases
  Inodes = {1}
  Births = {7, 8}
  MaxSessions = 8
  Runs <- MC2Runs
  Requests <- OneSessionRequests
  LockTries = 1
  Faults = {"stat", "dir", "write", "busy", "newer", "restart"}
SPECIFICATION StoreSpec
SYMMETRY RunSymmetry
INVARIANTS StoreTypeOK HolderSeesDisk RecordedBehindCounter
PROPERTIES CountersOnlyResetOnRestart NewerFileUntouched ImplementsAtomicNumbering
CHECK_DEADLOCK FALSE
