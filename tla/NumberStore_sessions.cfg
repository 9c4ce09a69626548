\* Two runs in three sessions, a file that holds two of them, and a lock that
\* is tried twice behind a holder that may be stuck.
CONSTANTS
  None = None
  Newer = Newer
  r1 = r1
  r2 = r2
  t1 = t1
  t2 = t2
  s1 = s1
  s2 = s2
  Words = {"foo", "bar"}
  UsizeMax = 2
  CollisionTries = 2
  SocketPaths <- MC2Sockets
  Tabs = {t1}
  Bases <- MCBases
  Inodes = {1}
  Births = {}
  MaxSessions = 2
  Runs <- MC2Runs
  Requests <- ManySessionRequests
  LockTries = 2
  Faults = {"dir", "busy", "newer"}
SPECIFICATION FairStoreSpec
PROPERTIES SessionsIndependent NeverHangsOnLock
CHECK_DEADLOCK FALSE
