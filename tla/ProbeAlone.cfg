SPECIFICATION Spec
CONSTANTS
  a1 = a1
  a2 = a2
  r1 = r1
  r2 = r2
  Gone = Gone
  None = None
  Askers <- MCOneAsker
  Revisions <- MCRevisions
  KeyOf <- MCKeyOf
  Running = "runs"
  MaxChanges = 4
INVARIANT TheTimeoutIsPaidOnce
PROPERTY AnAnswerIsMemoized
PROPERTY EveryQuestionEnds
