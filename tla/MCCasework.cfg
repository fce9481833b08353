SPECIFICATION Spec
CONSTANTS
  c1 = c1
  c2 = c2
  o1 = o1
  o2 = o2
  o3 = o3
  f1 = f1
  f2 = f2
  NoOne = NoOne
  Clients <- MCClients
  Operators <- MCTwoOperators
  Duty <- MCDuties
  Fields <- MCFields
  Corrected <- MCCorrected
INVARIANTS
  TypeOK
  OneSubmission
  RerunSeesCorrections
PROPERTIES
  AcceptedRunsStart
CHECK_DEADLOCK FALSE
