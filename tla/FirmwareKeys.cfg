SPECIFICATION ResolversSpec
CONSTANTS
  t1 = t1
  t2 = t2
  k1 = k1
  k2 = k2
  v1 = v1
  v2 = v2
  Threads <- MCThreads
  Keys <- MCKeys
  ContentOf <- MCContentOf
  MaxDepth = 3
  None = None
  Up = ".."
  MaxHops = 2
  Names <- MCNames
  Trees <- MCStepsBack
  Queries <- MCView
  Loops = Loops
  NotDir = NotDir
  Words <- MCWords
  Layers <- MCLayers
  Commands <- MCCommands
  Answers <- MCAnswers
  RelativeWords <- MCRelative
  Assumed <- MCAssumed
  Environments <- MCEnvironments
  Folders <- MCFolders
  Reads <- MCReads
  Machines <- MCMachines
  MaxMoves = 2
  DeckHome <- MCDeckHome
  EmulationHome <- MCEmulationHome
  Hosts <- MCHosts
  Grants <- MCGrants
  Probes <- MCProbes
  Strays <- MCStrays
  Gone = Gone
  States <- MCStates
  FolderOf <- MCFolderOf
  Cores <- MCOneKey
  MaxShifts = 1
INVARIANT EveryYesIsEarned
