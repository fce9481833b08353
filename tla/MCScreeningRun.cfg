SPECIFICATION Spec
CONSTANTS
  l1 = l1
  l2 = l2
  d1 = d1
  d2 = d2
  Lists <- MCLists
  Hits <- AllHits
  Rules <- MCRules
  Deliveries <- MCOneDelivery
  MaxChanges = 1
SYMMETRY MCSymmetry
INVARIANTS
  TypeOK
  SoloVerdict
  ScoredRuleDecides
  SoloExplanationConsistent
  CoverageRecorded
CHECK_DEADLOCK FALSE
