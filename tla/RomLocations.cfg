SPECIFICATION Spec
CONSTANTS
  home = home
  card = card
  snes = snes
  psx = psx
  None = None
  Roots <- MCRoots
  DefaultRoot = home
  Systems <- MCSystems
  Overlays <- MCOverlays
  Bundles <- MCBundles
  Settings = {"unset", "absolute", "unreadable"}
  Edited <- OneRootAndTheRest
  Questions = {"systems", "rom_location", "rom_locations"}
  DetectedByDeploy = TRUE
  MaxEdits = 2
INVARIANT TypeOK
INVARIANT OneRevisionPerPart
INVARIANT ListedSystemsArePlaced
INVARIANT OneRomRoot
