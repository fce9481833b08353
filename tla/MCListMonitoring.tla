-------------------------- MODULE MCListMonitoring --------------------------
(* Two people and two entries of the list.  s1 is hit by e1 in either      *)
(* version; s2 by e2, and by e1 once an alias has been added to it.        *)
EXTENDS ListMonitoring

CONSTANTS s1, s2, e1, e2, i1, i2

MCSubjects == {s1, s2}
MCEntries == {e1, e2}
MCMatches == {<<s1, e1, 1>>, <<s1, e1, 2>>, <<s2, e1, 2>>, <<s2, e2, 1>>}

(* Nobody; e1; both; both, with the alias.                                 *)
Edition(v1, v2) == [e \in MCEntries |-> IF e = e1 THEN v1 ELSE v2]
MCEditions == {Edition(1, 0), Edition(1, 1), Edition(2, 1)}

(* For two ingests at a time: one person and one entry.                    *)
MCOneSubject == {s1}
MCOneEntry == {e1}
MCOneMatch == {<<s1, e1, 1>>, <<s1, e1, 2>>}
MCOneEditions == [MCOneEntry -> 0 .. 2]

MCIngesters == {i1, i2}
MCOneIngester == {i1}
=============================================================================
