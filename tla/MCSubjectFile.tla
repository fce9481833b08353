---------------------------- MODULE MCSubjectFile ----------------------------
(* Two files of one person, two screenings, two rules, one list entry    *)
(* that comes and goes.                                                    *)
EXTENDS SubjectFile, TLC

CONSTANTS s1, s2, t1, t2

MCDetails ==
  {[dob |-> "none", nationality |-> "none"], [dob |-> "none", nationality |-> "FR"],
   [dob |-> "1970", nationality |-> "IT"]}

MCRules == <<[clear_below |-> 20, match_at |-> 80], [clear_below |-> 50, match_at |-> 80]>>

MCListings == {[named |-> FALSE, dob |-> "none"], [named |-> TRUE, dob |-> "1970"]}

Interchangeable == Permutations({s1, s2}) \cup Permutations({t1, t2})
=============================================================================
