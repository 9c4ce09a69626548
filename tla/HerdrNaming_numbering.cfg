\* Three tabs, four runs, and labels restored by one restart.
CONSTANTS
  None = None
  Newer = Newer
  Closed = Closed
  Unnamed = Unnamed
  t1 = t1
  t2 = t2
  t3 = t3
  s1 = s1
  Words = {"foo", "mine", "position"}
  UsizeMax = 9
  CollisionTries = 3
  SocketPaths <- MCSockets
  Tabs <- MC3Tabs
  Bases <- MCBases
  Inodes = {1, 2}
  Births = {}
  MaxSessions = 8
  Runs <- MC3Tabs
  Requests <- NoRequests
  LockTries = 1
  Faults = {"restart"}
  Socket = s1
  TabOf <- OnePanePerTab
  Expects = {FALSE}
  AutoLabel <- MCAuto
  HumanTabs = {}
  HumanLabels <- NoNames
  HumanAgents <- NoNames
  MaxStarts = 4
  MaxRestarts = 1
SPECIFICATION Spec
SYMMETRY TabSymmetry
INVARIANT NumbersUnique
CHECK_DEADLOCK FALSE
