SPECIFICATION Spec
CONSTANTS
  d1 = d1
  d2 = d2
  saves = saves
  config = config
  beside = beside
  roms = roms
  Missing = Missing
  None = None
  Appended = 1
  Overrides = 2
  Paths <- MCPaths
  Installations <- MCOpaqueInstallations
  Trees <- MCTrees
  DefaultFlags <- MCDefaultFlags
  PlatformDefault = saves
  PlatformConfig = config
  ConfigFileDir = beside
  ContentDir = roms
INVARIANT LayoutIsTheEmulators
CHECK_DEADLOCK FALSE
