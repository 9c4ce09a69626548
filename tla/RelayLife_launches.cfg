\* Three runs, the second under the name the first had, relays that hang and
\* die, sockets that cannot be mounted.
CONSTANTS
  r1 = r1
  r2 = r2
  r3 = r3
  s1 = s1
  s2 = s2
  None = None
  Runs <- MCRuns
  Paths <- MCPaths
  NameOf <- MCNames
  Faults = {"hang", "kill", "declined"}
SPECIFICATION FairSpec
INVARIANTS TypeOK MountedIsServed NoRelayUnheard
PROPERTIES RelayFollowsRun LaunchGetsOn
CHECK_DEADLOCK FALSE
