SPECIFICATION Spec
CONSTANTS
  a1 = a1
  a2 = a2
  r1 = r1
  r2 = r2
  r3 = r3
  Gone = Gone
  None = None
  Askers <- MCAskers
  Revisions <- MCRevisions
  StampOf <- MCStampOf
  Holds = {"rules", "embedded"}
  Events = {"replace", "remove", "hide", "codec"}
  MaxChanges = 4
SYMMETRY Symmetric
INVARIANT TypeOK
INVARIANT HitsAreLive
PROPERTY AnswersAsIfNothingKept
