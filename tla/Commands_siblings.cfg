\* A worktree whose git directory is already there, refused for a conflict.
CONSTANTS
  None = None
  Invalid = Invalid
  Values = {"default", "other"}
  Names = {"claude"}
  MountLists <- MCMountLists
  Paths <- MCPaths
  Home <- me
  Canonical <- MCCanonical
  Dirs <- MCDirs
  Pointer <- MCPointer
  CommonDir <- MCCommonDir
  CommaNames = {"a,b"}
  ColonNames = {}
  KnownAgents = {"claude", "codex"}
  HomeDir <- MCHomeDir
  BinDir <- MCBinDir
  RelaySocket <- MCRelaySocket
  Starts <- MCStarts
  TokensOf <- MCTokensOf
  VersionLimit = 2
SPECIFICATION Spec
PROPERTY NoFalseConflict
CHECK_DEADLOCK FALSE
