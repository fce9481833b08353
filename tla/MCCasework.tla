----------------------------- MODULE MCCasework -----------------------------
(* Instances of Casework: a submission, its retry, and two operators; and  *)
(* a submission whose review three operators write.                        *)
EXTENDS Casework

CONSTANTS c1, c2, o1, o2, o3, f1, f2

MCClients == {c1, c2}
MCOneClient == {c1}
MCOperators == {o1, o2, o3}
MCFields == {f1, f2}

(* One operator corrects a field; another does anything.                   *)
MCTwoOperators == {o1, o2}
MCDuties ==
  [o \in MCTwoOperators |->
     IF o = o1 THEN {"correct"} ELSE {"correct", "rerun", "note", "review"}]
MCCorrected == [o \in MCTwoOperators |-> IF o = o1 THEN {f1} ELSE {f1, f2}]

(* Two notes and a review.                                                 *)
MCNotes == [o \in MCOperators |-> IF o = o3 THEN {"review"} ELSE {"note"}]
MCNothingCorrected == [o \in MCOperators |-> {}]

=============================================================================
