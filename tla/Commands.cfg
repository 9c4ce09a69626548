\* Every command, on a machine with a repository, two worktrees of it and some
\* directories; every pair of ten entries is mounted.
CONSTANTS
  None = None
  Invalid = Invalid
  Values = {"default", "other"}
  Names = {"claude"}
  MountLists <- MCMountLists
  Paths <- MCPaths
  Home <- me
  Canonical <- MCCanonical
  Dirs <- MCDirs
  Pointer <- MCPointer
  CommonDir <- MCCommonDir
  CommaNames = {"a,b"}
  ColonNames = {}
  KnownAgents = {"claude", "codex"}
  HomeDir <- MCHomeDir
  BinDir <- MCBinDir
  RelaySocket <- MCRelaySocket
  Starts <- MCStarts
  TokensOf <- MCTokensOf
  VersionLimit = 2
SPECIFICATION FairSpec
INVARIANTS TypeOK ReachIsHumans NothingSilent SeenAsMounted GitReadable
PROPERTY CommandEnds
CHECK_DEADLOCK FALSE
