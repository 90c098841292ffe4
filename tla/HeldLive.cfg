SPECIFICATION Spec
CONSTANTS
  a1 = a1
  a2 = a2
  r1 = r1
  r2 = r2
  r3 = r3
  Gone = Gone
  None = None
  Askers <- MCAskers
  Revisions <- MCTwoRevisions
  StampOf <- MCStampOf
  Holds = {"blob", "build"}
  Events = {"replace", "remove"}
  MaxChanges = 2
PROPERTY AnswersLive
