\* Two operators add notes to one review.
SPECIFICATION Spec
CONSTANTS
  c1 = c1
  c2 = c2
  o1 = o1
  o2 = o2
  o3 = o3
  f1 = f1
  f2 = f2
  NoOne = NoOne
  Clients <- MCOneClient
  Operators <- MCOperators
  Duty <- MCNotes
  Fields <- MCFields
  Corrected <- MCNothingCorrected
INVARIANTS
  NotesKept
CHECK_DEADLOCK FALSE
