SPECIFICATION Spec
CONSTANTS
  home = home
  card = card
  snes = snes
  psx = psx
  None = None
  Roots <- MCRoots
  DefaultRoot = home
  Systems <- MCSystems
  Overlays <- MCOverlays
  Bundles <- MCBundles
  Settings = {"unset", "absolute", "unreadable"}
  Edited = {"marker"}
  Questions = {"rom_locations"}
  DetectedByDeploy = TRUE
  MaxEdits = 2
INVARIANT OneRevisionPerAnswer
