SPECIFICATION ResolversSpec
CONSTANTS
  t1 = t1
  t2 = t2
  k1 = k1
  k2 = k2
  v1 = v1
  v2 = v2
  Threads <- MCThreads
  Keys <- MCKeys
  ContentOf <- MCContentOf
  MaxDepth = 3
  None = None
  Up = ".."
  MaxHops = 2
  Names <- MCNames
  Trees <- MCTrees
  Queries <- MCQueries
  Loops = Loops
  NotDir = NotDir
  Words <- MCWords
  Layers <- MCLayers
  Commands <- MCCommands
  Answers <- MCAnswers
  RelativeWords <- MCRelative
  Assumed <- MCAssumed
  Environments <- MCEnvironments
  Folders <- MCFolders
  Reads <- MCReads
  Machines <- MCMachines
  MaxMoves = 2
  DeckHome <- MCDeckHome
  EmulationHome <- MCEmulationHome
  Hosts <- MCHosts
  Grants <- MCGrants
  Probes <- MCProbes
  Strays <- MCStrays
  Gone = Gone
  States <- MCStates
  FolderOf <- MCFolderOf
  Cores <- MCCores
  MaxShifts = 1
INVARIANT ResolversTypeOK
INVARIANT OneReadingPerKey
INVARIANT NothingOlderThanTheQuestion
INVARIANT NoMemoLeftBehind
INVARIANT LandsWithTheKernel
INVARIANT OnlyAFileLeadsOut
INVARIANT NothingInsideIsRefused
INVARIANT APrefixSettles
INVARIANT LinkViewIsTheKernels
INVARIANT VerdictIsTheFrontends
INVARIANT AssumptionsAreNoted
INVARIANT DoubtIsReal
INVARIANT NoRetroArchTwice
INVARIANT WhatStandsIsFound
INVARIANT FindingsAreOfTheStatedRoots
INVARIANT ProbesAreTheSandboxes
INVARIANT VerdictIsEarned
INVARIANT ConsoleVerdictIsEarned
INVARIANT DoubtIsOpen
INVARIANT FailuresAreReadAfresh
