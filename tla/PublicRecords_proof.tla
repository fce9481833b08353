-------------------------- MODULE PublicRecords_proof --------------------------
(***************************************************************************)
(* What collect_people makes of any people that are declared and any that  *)
(* the registry names.                                                     *)
(***************************************************************************)
EXTENDS PublicRecords, WellFoundedInduction, TLAPS

\* A person of the list stands for p.  The date of birth is missing only if p's
\* is: this is what makes a later merge, which may fill it in, harmless.
Stands(x, p) ==
    /\ x.name = p.name
    /\ DobCompatible(x.dob, p.dob)
    /\ x.dob = {} => p.dob = {}
    /\ p.roles \subseteq x.roles

IsList(x) == x \in Seq(Range(x))

\* Everybody among the first k of seq is stood for.
StoodFor(list, seq, k) ==
    \A j \in 1..k : \E i \in DOMAIN list : Stands(list[i], seq[j])

-----------------------------------------------------------------------------
(* Numbers.                                                                *)

LEMMA SmallestExists ==
  ASSUME NEW T \in SUBSET Nat, T # {}
  PROVE  \E n \in T : \A m \in T : n <= m
<1>1. PICK n \in T : \A m \in T : ~ (<<m, n>> \in OpToRel(<, Nat))
  BY WFMin, NatLessThanWellFounded
<1>2. SUFFICES ASSUME NEW m \in T PROVE n <= m
  OBVIOUS
<1>3. ~ (m < n)
  BY <1>1 DEF OpToRel
<1> QED BY <1>3

LEMMA GreatestExists ==
  ASSUME NEW n \in Nat, NEW s \in SUBSET (1..n), s # {}
  PROVE  Max(s) \in s /\ \A x \in s : x <= Max(s)
<1> DEFINE T == {n - x : x \in s}
<1>1. T \in SUBSET Nat /\ T # {}
  <2>1. \A x \in s : x \in 1..n /\ n - x \in Nat
    OBVIOUS
  <2> QED BY <2>1
<1>2. PICK t \in T : \A u \in T : t <= u
  <2> HIDE DEF T
  <2> QED BY <1>1, SmallestExists
<1>3. PICK m \in s : t = n - m
  OBVIOUS
<1>4. \A x \in s : m >= x
  <2> SUFFICES ASSUME NEW x \in s PROVE m >= x
    OBVIOUS
  <2>1. n - x \in T
    OBVIOUS
  <2>2. n - m <= n - x
    BY <1>2, <1>3, <2>1
  <2> QED BY <2>2
<1>5. \E x \in s : \A y \in s : x >= y
  BY <1>4
<1>6. Max(s) \in s /\ \A y \in s : Max(s) >= y
  BY <1>5 DEF Max
<1> QED BY <1>6

-----------------------------------------------------------------------------
(* One merge.                                                              *)

\* Merging p into a list makes it stand for p, and for all it stood for before.
LEMMA MergeKeeps ==
  ASSUME NEW list, IsList(list), NEW p
  PROVE  /\ IsList(Merge(list, p))
         /\ \E i \in DOMAIN Merge(list, p) : Stands(Merge(list, p)[i], p)
         /\ \A q : (\E i \in DOMAIN list : Stands(list[i], q)) =>
              \E i \in DOMAIN Merge(list, p) : Stands(Merge(list, p)[i], q)
<1> DEFINE same == {i \in DOMAIN list : SamePerson(list[i], p)}
           first == CHOOSE i \in same : \A j \in same : i <= j
           new == Merge(list, p)
<1>1. Len(list) \in Nat /\ DOMAIN list = 1..Len(list)
  BY DEF IsList
<1>2. CASE same = {}
  <2>1. new = Append(list, p)
    BY <1>2 DEF Merge
  <2>2. /\ DOMAIN new = 1..(Len(list) + 1)
        /\ \A i \in DOMAIN list : new[i] = list[i]
        /\ new[Len(list) + 1] = p
    BY <2>1, <1>1 DEF IsList
  <2>3. IsList(new)
    <3>1. list \in Seq(Range(list) \cup {p})
      BY DEF IsList
    <3>2. new \in Seq(Range(list) \cup {p})
      BY <2>1, <3>1
    <3> HIDE DEF new
    <3>3. new \in Seq(Range(new))
      BY <3>2 DEF Range
    <3> QED BY <3>3 DEF IsList
  <2>4. Stands(p, p)
    BY DEF Stands, DobCompatible
  <2> HIDE DEF new
  <2> QED BY <1>1, <2>2, <2>3, <2>4 DEF new
<1>3. CASE same # {}
  <2>1. first \in same
    <3>1. same \in SUBSET Nat
      BY <1>1
    <3>2. \E i \in same : \A j \in same : i <= j
      BY <1>3, <3>1, SmallestExists
    <3> QED BY <3>2
  <2> DEFINE known == list[first]
             merged == [name |-> known.name,
                        dob |-> IF known.dob = {} THEN p.dob ELSE known.dob,
                        roles |-> known.roles \cup p.roles]
  <2>2. new = [list EXCEPT ![first] = merged]
    BY <1>3 DEF Merge
  <2>3. SamePerson(known, p) /\ first \in DOMAIN list
    BY <2>1
  <2> HIDE DEF first
  <2>4. /\ DOMAIN new = DOMAIN list /\ new[first] = merged
        /\ \A i \in DOMAIN list : i # first => new[i] = list[i]
    BY <2>2, <2>3
  <2>5. IsList(new)
    <3>1. new \in Seq(Range(list) \cup {merged})
      BY <2>2, <2>3, <1>1 DEF IsList
    <3> HIDE DEF new
    <3>2. new \in Seq(Range(new))
      BY <3>1 DEF Range
    <3> QED BY <3>2 DEF IsList
  <2>6. Stands(merged, p)
    BY <2>3 DEF SamePerson, Stands, DobCompatible
  <2>7. \A q : Stands(known, q) => Stands(merged, q)
    BY <2>3 DEF SamePerson, Stands, DobCompatible
  <2> HIDE DEF new, merged, known
  <2>8. \A q : (\E i \in DOMAIN list : Stands(list[i], q)) =>
          \E i \in DOMAIN new : Stands(new[i], q)
    BY <2>3, <2>4, <2>7 DEF known
  <2> QED BY <2>3, <2>4, <2>5, <2>6, <2>8 DEF new
<1> QED BY <1>2, <1>3

-----------------------------------------------------------------------------
(* The fold: one merge after another, in the order of the sequence.        *)

\* g is the fold of every part of seq that is in D.
Folded(g, seq, D) ==
    g = [s \in D |-> IF s = {} THEN <<>>
                     ELSE Merge(g[s \ {Max(s)}], seq[Max(s)])]

LEMMA FoldIsFolded ==
  ASSUME NEW seq
  PROVE  FoldLeft(Merge, <<>>, seq)
           = (CHOOSE g : Folded(g, seq, SUBSET DOMAIN seq))[DOMAIN seq]
BY DEF FoldLeft, MapThenFoldSet, Folded

\* There is such a fold: over the subsets of 1..n, for every n.
LEMMA FoldExists ==
  ASSUME NEW seq, NEW last \in Nat
  PROVE  \E g : Folded(g, seq, SUBSET (1..last))
<1> DEFINE Bad == {n \in Nat : ~ \E g : Folded(g, seq, SUBSET (1..n))}
<1>1. SUFFICES ASSUME Bad # {} PROVE FALSE
  OBVIOUS
<1>2. PICK n \in Bad : \A m \in Bad : n <= m
  <2>1. Bad \in SUBSET Nat
    OBVIOUS
  <2> HIDE DEF Bad
  <2> QED BY <1>1, <2>1, SmallestExists
<1>3. n \in Nat /\ ~ \E g : Folded(g, seq, SUBSET (1..n))
  OBVIOUS
<1>4. CASE n = 0
  <2> DEFINE g == [s \in SUBSET (1..0) |-> <<>>]
  <2>1. \A s \in SUBSET (1..0) : s = {}
    OBVIOUS
  <2>2. Folded(g, seq, SUBSET (1..0))
    BY <2>1 DEF Folded
  <2> QED BY <1>3, <1>4, <2>2
<1>5. CASE n # 0
  <2>1. n - 1 \in Nat /\ ~ (n <= n - 1)
    BY <1>3, <1>5
  <2>2. n - 1 \notin Bad
    <3> HIDE DEF Bad
    <3> QED BY <1>2, <2>1
  <2>3. PICK g : Folded(g, seq, SUBSET (1..(n - 1)))
    BY <2>1, <2>2
  <2> DEFINE D == SUBSET (1..n)
             C == SUBSET (1..(n - 1))
             h == [s \in D |-> IF s = {} THEN <<>>
                               ELSE Merge(g[s \ {Max(s)}], seq[Max(s)])]
  <2>4. \A s \in D : s # {} => s \ {Max(s)} \in C
    <3> SUFFICES ASSUME NEW s \in D, s # {}, NEW x \in s \ {Max(s)}
                 PROVE  x \in 1..(n - 1)
      OBVIOUS
    <3>1. s \in SUBSET (1..n) /\ x \in s /\ x # Max(s)
      OBVIOUS
    <3>2. Max(s) \in s /\ x <= Max(s)
      BY <1>3, <3>1, GreatestExists
    <3>3. x \in 1..n /\ Max(s) \in 1..n
      BY <3>1, <3>2
    <3> QED BY <1>3, <3>1, <3>2, <3>3
  <2>5. \A s \in C : s \in D
    BY <1>3
  <2>6. \A s \in C : g[s] = IF s = {} THEN <<>>
                            ELSE Merge(g[s \ {Max(s)}], seq[Max(s)])
    BY <2>3 DEF Folded
  <2> HIDE DEF C, D
  <2>7. \A s \in C : h[s] = g[s]
    BY <2>5, <2>6
  <2>8. \A s \in D : s # {} => h[s \ {Max(s)}] = g[s \ {Max(s)}]
    BY <2>4, <2>7
  <2>9. h = [s \in D |-> IF s = {} THEN <<>>
                         ELSE Merge(h[s \ {Max(s)}], seq[Max(s)])]
    BY <2>8
  <2>10. Folded(h, seq, D)
    BY <2>9 DEF Folded
  <2> QED BY <1>3, <2>10 DEF D
<1> QED BY <1>4, <1>5

\* The fold of a sequence, unfolded: after k elements it is g[1..k].
LEMMA FoldUnfolded ==
  ASSUME NEW T, NEW seq \in Seq(T)
  PROVE  \E g : /\ FoldLeft(Merge, <<>>, seq) = g[1..Len(seq)]
                /\ g[1..0] = <<>>
                /\ \A k \in 1..Len(seq) : g[1..k] = Merge(g[1..(k - 1)], seq[k])
<1> DEFINE D == SUBSET DOMAIN seq
           g == CHOOSE f : Folded(f, seq, D)
<1>1. Len(seq) \in Nat /\ DOMAIN seq = 1..Len(seq)
  OBVIOUS
<1>2. Folded(g, seq, D)
  BY <1>1, FoldExists
<1>3. FoldLeft(Merge, <<>>, seq) = g[1..Len(seq)]
  BY <1>1, FoldIsFolded
<1> HIDE DEF g
<1>4. \A s \in D : g[s] = IF s = {} THEN <<>>
                          ELSE Merge(g[s \ {Max(s)}], seq[Max(s)])
  BY <1>2 DEF Folded
<1>5. g[1..0] = <<>>
  <2>1. 1..0 = {} /\ 1..0 \in D
    OBVIOUS
  <2> QED BY <1>4, <2>1
<1>6. ASSUME NEW k \in 1..Len(seq)
      PROVE  g[1..k] = Merge(g[1..(k - 1)], seq[k])
  <2>1. k \in Nat /\ 1..k \in D /\ k \in 1..k
    BY <1>1, <1>6
  <2>2. Max(1..k) = k
    <3>1. Max(1..k) \in 1..k /\ k <= Max(1..k)
      BY <2>1, GreatestExists
    <3> QED BY <2>1, <3>1
  <2>3. (1..k) \ {k} = 1..(k - 1)
    BY <2>1
  <2> QED BY <1>4, <2>1, <2>2, <2>3
<1> QED BY <1>3, <1>5, <1>6

\* Everybody who is merged into a list is stood for in it.
LEMMA FoldStandsForAll ==
  ASSUME NEW T, NEW seq \in Seq(T)
  PROVE  StoodFor(FoldLeft(Merge, <<>>, seq), seq, Len(seq))
<1>1. PICK g : /\ FoldLeft(Merge, <<>>, seq) = g[1..Len(seq)]
               /\ g[1..0] = <<>>
               /\ \A k \in 1..Len(seq) : g[1..k] = Merge(g[1..(k - 1)], seq[k])
  BY FoldUnfolded
<1> DEFINE Good(k) == IsList(g[1..k]) /\ StoodFor(g[1..k], seq, k)
           Bad == {k \in 0..Len(seq) : ~Good(k)}
<1>2. Len(seq) \in Nat
  OBVIOUS
<1>3. Bad = {}
  <2> SUFFICES ASSUME Bad # {} PROVE FALSE
    OBVIOUS
  <2>1. PICK k \in Bad : \A m \in Bad : k <= m
    <3>1. Bad \in SUBSET Nat
      BY <1>2
    <3> HIDE DEF Bad
    <3> QED BY <3>1, SmallestExists
  <2>2. k \in 0..Len(seq) /\ ~Good(k)
    OBVIOUS
  <2>3. Good(0)
    <3>1. IsList(<<>>)
      BY DEF IsList
    <3> QED BY <1>1, <3>1 DEF StoodFor
  <2>4. k # 0
    BY <2>2, <2>3
  <2>5. k \in 1..Len(seq) /\ k - 1 \in 0..Len(seq) /\ ~ (k <= k - 1)
    BY <1>2, <2>2, <2>4
  <2>6. Good(k - 1)
    <3>1. k - 1 \notin Bad
      <4> HIDE DEF Bad
      <4> QED BY <2>1, <2>5
    <3> QED BY <2>5, <3>1
  <2> DEFINE old == g[1..(k - 1)]
             new == g[1..k]
  <2>7. new = Merge(old, seq[k])
    BY <1>1, <2>5
  <2>8. IsList(old) /\ \A j \in 1..(k - 1) : \E i \in DOMAIN old : Stands(old[i], seq[j])
    BY <2>6 DEF StoodFor
  <2> HIDE DEF old, new
  <2>9. /\ IsList(new)
        /\ \E i \in DOMAIN new : Stands(new[i], seq[k])
        /\ \A q : (\E i \in DOMAIN old : Stands(old[i], q)) =>
             \E i \in DOMAIN new : Stands(new[i], q)
    BY <2>7, <2>8, MergeKeeps
  <2>10. \A j \in 1..k : \E i \in DOMAIN new : Stands(new[i], seq[j])
    <3> SUFFICES ASSUME NEW j \in 1..k PROVE \E i \in DOMAIN new : Stands(new[i], seq[j])
      OBVIOUS
    <3>1. j = k \/ j \in 1..(k - 1)
      BY <2>5, <1>2
    <3> QED BY <2>8, <2>9, <3>1
  <2>11. Good(k)
    BY <2>9, <2>10 DEF StoodFor, new
  <2> QED BY <2>2, <2>11
<1>4. Good(Len(seq))
  BY <1>2, <1>3
<1> QED BY <1>1, <1>4

\* Whatever the registry says, collect_people returns everybody who was declared,
\* as themselves or as a namesake whose date of birth does not speak against it,
\* in every role they were declared in (people.py:143).
THEOREM DeclaredAreCollected ==
  ASSUME NEW n, NEW declared, IsList(declared), NEW a,
         a.kind = "answer" => IsList(a.people)
  PROVE  \A p \in Range(declared) :
           \E i \in DOMAIN CollectPeople(n, declared, a).people :
             Stands(CollectPeople(n, declared, a).people[i], p)
<1> DEFINE named == IF a.kind = "answer" THEN a.people ELSE <<>>
           T == Range(declared) \cup Range(named)
           seq == declared \o named
           found == FoldLeft(Merge, <<>>, seq)
<1>1. declared \in Seq(T) /\ named \in Seq(T)
  <2>1. IsList(named)
    <3>1. IsList(<<>>)
      BY DEF IsList
    <3> QED BY <3>1
  <2> HIDE DEF named
  <2> QED BY <2>1 DEF IsList
<1> HIDE DEF named, T
<1>2. /\ seq \in Seq(T)
      /\ Len(declared) \in Nat /\ DOMAIN declared = 1..Len(declared)
      /\ \A j \in DOMAIN declared : j \in 1..Len(seq) /\ seq[j] = declared[j]
  BY <1>1
<1> HIDE DEF seq
<1>3. StoodFor(found, seq, Len(seq))
  BY <1>2, FoldStandsForAll
<1>4. CollectPeople(n, declared, a).people = found
  BY DEF CollectPeople, seq, named
<1> HIDE DEF found
<1>5. SUFFICES ASSUME NEW j \in DOMAIN declared
               PROVE  \E i \in DOMAIN found : Stands(found[i], declared[j])
  BY <1>4 DEF Range
<1> QED BY <1>2, <1>3, <1>5 DEF StoodFor

=============================================================================
