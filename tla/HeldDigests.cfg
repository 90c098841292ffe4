SPECIFICATION Spec
CONSTANTS
  a1 = a1
  a2 = a2
  r1 = r1
  r2 = r2
  r3 = r3
  Gone = Gone
  None = None
  Askers <- MCOneAsker
  Revisions <- MCRevisions
  StampOf <- MCStampOf
  Holds = {"blob"}
  Events = {"chmod"}
  MaxChanges = 2
INVARIANT FailuresAreReadAfresh
