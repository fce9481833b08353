---------------------------- MODULE MCScreeningRun ---------------------------
(* Two required lists.  A name is common from two full matches on, so that *)
(* one match counted twice is a common name (in the code the threshold is  *)
(* ten).  Rule 2 is stricter on MATCH and laxer on CLEAR than rule 1.      *)
EXTENDS ScreeningRun, TLC

CONSTANTS l1, l2, d1, d2

MCLists == {l1, l2}
MCRules == << [clear_below |-> 35, match_at |-> 90, common |-> 2],
              [clear_below |-> 45, match_at |-> 80, common |-> 2] >>
MCOneList == {l1}
MCOneRule == << MCRules[1] >>
MCTwoDeliveries == {d1, d2}
MCOneDelivery == {d1}
MCSymmetry == Permutations(MCLists)
MCDeliverySymmetry == Permutations(MCTwoDeliveries)
=============================================================================
