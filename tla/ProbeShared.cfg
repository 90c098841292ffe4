SPECIFICATION Spec
CONSTANTS
  a1 = a1
  a2 = a2
  r1 = r1
  r2 = r2
  Gone = Gone
  None = None
  Askers <- MCAskers
  Revisions <- MCRevisions
  KeyOf <- MCKeyOf
  Running = "runs"
  MaxChanges = 3
SYMMETRY Symmetric
INVARIANT TypeOK
INVARIANT MemoIsLive
INVARIANT OnlyAKilledRunIsRememberedUnanswered
INVARIANT PrintedAnswerStands
