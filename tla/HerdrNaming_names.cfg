\* Two tabs, two runs, an agent that already answers to a wanted name, a human
\* who renames tabs, and renames that fail.
CONSTANTS
  None = None
  Newer = Newer
  Closed = Closed
  Unnamed = Unnamed
  t1 = t1
  t2 = t2
  t3 = t3
  s1 = s1
  Words = {"foo", "mine", "position"}
  UsizeMax = 9
  CollisionTries = 3
  SocketPaths <- MCSockets
  Tabs <- MC2Tabs
  Bases <- MCBases
  Inodes = {1}
  Births = {}
  MaxSessions = 8
  Runs <- MC2Tabs
  Requests <- NoRequests
  LockTries = 1
  Faults = {"rename", "agents", "race", "wedge"}
  Socket = s1
  TabOf <- OnePanePerTab
  Expects = {TRUE, FALSE}
  AutoLabel <- MCAuto
  HumanTabs = {t1}
  HumanLabels <- MCHumanLabels
  HumanAgents <- MCHumanAgents
  MaxStarts = 2
  MaxRestarts = 0
SPECIFICATION FairSpec
INVARIANTS TypeOK TabAndAgentAgree
PROPERTIES HumanLabelKept NamerFollowsRun
CHECK_DEADLOCK FALSE
