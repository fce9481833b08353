CONSTANTS
  Absent = Absent
  s1 = s1
  s2 = s2
  t1 = t1
  t2 = t2
  Subjects = {s1, s2}
  Screenings = {t1, t2}
  Details <- MCDetails
  Rules <- MCRules
  Listings <- MCListings
  MaxHuman = 2
SYMMETRY Interchangeable
SPECIFICATION Spec
INVARIANTS
  TypeOK
  ReadableUntilShredded
  ReplaysReproduce
  
 
CHECK_DEADLOCK FALSE
