\* The same task delivered twice.
SPECIFICATION Spec
CONSTANTS
  l1 = l1
  l2 = l2
  d1 = d1
  d2 = d2
  Lists <- MCOneList
  Hits = {"variant", "other_birthday"}
  Rules <- MCOneRule
  Deliveries <- MCTwoDeliveries
  MaxChanges = 0
SYMMETRY MCDeliverySymmetry

  
PROPERTIES
  DecisionIsFinal
CHECK_DEADLOCK FALSE
