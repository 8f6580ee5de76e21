---------------------------- MODULE Paging_proofs ----------------------------
(***************************************************************************)
(* Proofs about lists that are read page by page while they change.        *)
(*                                                                         *)
(* First Fetching, for every source, page size and limit: a fetch misses   *)
(* no more than what was closed while it was reading.  Then Listings, for  *)
(* every catalogue, query and profile: a reader overlooks no more than the *)
(* changes behind his back can have hidden.                                *)
(*                                                                         *)
(* Lists are finite sets of numbers, so all that is needed of them is      *)
(* counting: how the place of an element changes with the list, and how    *)
(* many elements a part of the list has.                                   *)
(***************************************************************************)
EXTENDS Fetching, Listings, Posting_proofs

-----------------------------------------------------------------------------
(* Places in a list.                                                       *)

\* A part of a finite list has a number of elements, no more than the list has.
LEMMA PartCounted ==
  ASSUME NEW S, IsFiniteSet(S), NEW T \in SUBSET S
  PROVE  IsFiniteSet(T) /\ Cardinality(T) \in Nat /\ Cardinality(S) \in Nat
         /\ Cardinality(T) <= Cardinality(S)
  BY FS_Subset, FS_CardinalityType

\* The place of an element is a number, and it is higher in a longer list.
LEMMA RankGrows ==
  ASSUME NEW S, IsFiniteSet(S), NEW T \in SUBSET S, NEW n
  PROVE  Rank(n, T) \in Nat /\ Rank(n, S) \in Nat /\ Rank(n, T) <= Rank(n, S)
<1> DEFINE above(X) == {m \in X : m >= n}
<1>1. above(S) \in SUBSET S /\ above(T) \in SUBSET above(S)
  OBVIOUS
<1>2. IsFiniteSet(above(S))
  BY <1>1, PartCounted
<1> QED
  BY <1>1, <1>2, PartCounted DEF Rank

\* The newer of two elements has the lower place.
LEMMA RankFalls ==
  ASSUME NEW S \in SUBSET Nat, IsFiniteSet(S), NEW m \in S, NEW n \in Nat, m < n
  PROVE  Rank(n, S) + 1 <= Rank(m, S)
<1> DEFINE upper == {x \in S : x >= n}
           lower == {x \in S : x >= m}
<1>1. upper \union {m} \in SUBSET lower /\ m \notin upper /\ upper \in SUBSET S /\ lower \in SUBSET S
  <2>1. m \in Nat /\ \A x \in S : x \in Nat
    OBVIOUS
  <2>2. \A x \in Nat : x >= n => x >= m
    BY <2>1
  <2>3. m >= m /\ ~(m >= n)
    BY <2>1
  <2> QED
    BY <2>1, <2>2, <2>3
<1>2. IsFiniteSet(upper) /\ IsFiniteSet(lower) /\ Cardinality(upper) \in Nat
  BY <1>1, PartCounted
<1>3. Cardinality(upper \union {m}) = Cardinality(upper) + 1
  BY <1>1, <1>2, FS_AddElement
<1>4. Cardinality(upper \union {m}) <= Cardinality(lower)
  BY <1>1, <1>2, PartCounted
<1>5. Rank(n, S) = Cardinality(upper) /\ Rank(m, S) = Cardinality(lower)
  BY DEF Rank
<1> QED
  BY <1>3, <1>4, <1>5

\* No place is behind the last one.
LEMMA RankBounded ==
  ASSUME NEW S, IsFiniteSet(S), NEW n
  PROVE  Rank(n, S) <= Cardinality(S)
<1>1. {m \in S : m >= n} \in SUBSET S
  OBVIOUS
<1> QED
  BY <1>1, PartCounted DEF Rank

\* The first k of a list are finitely many, and what is newer than one of them is one of them.
LEMMA FirstIsFirst ==
  ASSUME NEW S \in SUBSET Nat, IsFiniteSet(S), NEW k \in Int
  PROVE  /\ FirstOf(k, S) \in SUBSET S /\ FirstOf(k, S) \in SUBSET Nat /\ IsFiniteSet(FirstOf(k, S))
         /\ Cardinality(FirstOf(k, S)) \in Nat
         /\ \A m \in FirstOf(k, S), n \in S : m < n => n \in FirstOf(k, S)
<1>1. FirstOf(k, S) \in SUBSET S /\ FirstOf(k, S) \in SUBSET Nat
  BY DEF FirstOf
<1>2. ASSUME NEW m \in FirstOf(k, S), NEW n \in S, m < n PROVE n \in FirstOf(k, S)
  <2>1. Rank(n, S) + 1 <= Rank(m, S) /\ Rank(m, S) <= k
    BY <1>1, <1>2, RankFalls DEF FirstOf
  <2>2. Rank(n, S) \in Nat /\ Rank(m, S) \in Nat
    BY RankGrows
  <2> QED
    BY <2>1, <2>2 DEF FirstOf
<1> QED
  BY <1>1, <1>2, PartCounted

\* There are at most k of them ...
LEMMA FirstAtMost ==
  ASSUME NEW S \in SUBSET Nat, IsFiniteSet(S), NEW k \in Nat
  PROVE  Cardinality(FirstOf(k, S)) <= k
<1>1. CASE FirstOf(k, S) = {}
  BY <1>1, FS_EmptySet
<1>2. CASE FirstOf(k, S) # {}
  <2>0. k \in Int /\ FirstOf(k, S) \in SUBSET Nat
    BY FirstIsFirst
  <2>1. PICK m \in FirstOf(k, S) : \A n \in FirstOf(k, S) : m <= n
    BY <1>2, <2>0, LeastNumber, Zenon
  <2>2. FirstOf(k, S) = {n \in S : n >= m}
    <3>1. m \in Nat /\ FirstOf(k, S) \subseteq S
      BY <2>0, <2>1 DEF FirstOf
    <3>2. ASSUME NEW n \in S, n >= m PROVE n \in FirstOf(k, S)
      <4>1. n = m \/ m < n
        BY <3>1, <3>2
      <4> QED
        BY <2>1, <4>1, FirstIsFirst
    <3>3. ASSUME NEW n \in FirstOf(k, S) PROVE n \in S /\ n >= m
      <4>1. n \in S /\ n \in Nat /\ m <= n
        BY <2>0, <2>1, <3>1, <3>3
      <4> QED
        BY <3>1, <4>1
    <3> QED
      BY <3>2, <3>3
  <2>3. Rank(m, S) <= k
    BY <2>1 DEF FirstOf
  <2> QED
    BY <2>2, <2>3 DEF Rank
<1> QED
  BY <1>1, <1>2

\* ... and k if that is not the whole list.
LEMMA FirstAtLeast ==
  ASSUME NEW S \in SUBSET Nat, IsFiniteSet(S), NEW k \in Nat, FirstOf(k, S) # S
  PROVE  k <= Cardinality(FirstOf(k, S))
<1> DEFINE places == {Rank(n, S) : n \in S \ FirstOf(k, S)}
<1>0. \A n : Rank(n, S) \in Nat
  BY RankGrows
<1>1. places \in SUBSET Nat /\ places # {}
  <2>1. S \ FirstOf(k, S) # {}
    BY DEF FirstOf
  <2> QED
    BY <1>0, <2>1
<1>2. PICK n \in S \ FirstOf(k, S) : \A x \in S \ FirstOf(k, S) : Rank(n, S) <= Rank(x, S)
  <2>1. PICK least \in places : \A other \in places : least <= other
    BY <1>1, LeastNumber
  <2> QED
    BY <2>1
<1>3. {x \in S : x >= n} = FirstOf(k, S) \union {n}
  <2>1. ASSUME NEW x \in S, x > n PROVE x \in FirstOf(k, S)
    <3>1. n \in S /\ n < x /\ x \in Nat
      BY <1>2, <2>1
    <3>2. Rank(x, S) + 1 <= Rank(n, S)
      BY <3>1, RankFalls
    <3>3. ~(Rank(n, S) <= Rank(x, S))
      BY <1>0, <3>2
    <3> QED
      BY <1>2, <3>3
  <2>2. ASSUME NEW x \in FirstOf(k, S) PROVE x \in S /\ x > n
    <3>1. x \in S /\ x \in Nat /\ n \in Nat
      BY <1>2 DEF FirstOf
    <3>2. ~(x < n) /\ x # n
      BY <1>2, FirstIsFirst
    <3> QED
      BY <3>1, <3>2
  <2>3. n \in S /\ n \in Nat
    BY <1>2
  <2>4. ASSUME NEW x PROVE x \in {y \in S : y >= n} <=> x \in FirstOf(k, S) \union {n}
    <3>1. ASSUME x \in S PROVE x >= n <=> x > n \/ x = n
      <4>1. x \in Nat
        BY <3>1
      <4> QED
        BY <2>3, <4>1
    <3>2. CASE x \in S
      BY <2>1, <2>2, <2>3, <3>1, <3>2
    <3>3. CASE x \notin S
      BY <2>2, <2>3, <3>3
    <3> QED
      BY <3>2, <3>3
  <2> QED
    BY <2>4
<1>4. Rank(n, S) = Cardinality(FirstOf(k, S)) + 1
  <2>1. IsFiniteSet(FirstOf(k, S)) /\ n \notin FirstOf(k, S)
    BY <1>2, FirstIsFirst
  <2>2. Cardinality(FirstOf(k, S) \union {n}) = Cardinality(FirstOf(k, S)) + 1
    BY <2>1, FS_AddElement
  <2> QED
    BY <1>3, <2>2 DEF Rank
<1>5. ~(Rank(n, S) <= k)
  BY <1>2 DEF FirstOf
<1>6. Cardinality(FirstOf(k, S)) \in Nat
  BY FirstIsFirst
<1> QED
  BY <1>4, <1>5, <1>6

\* A list of no more than k is its own first k.
LEMMA FirstIsAll ==
  ASSUME NEW S, IsFiniteSet(S), NEW k \in Int, Cardinality(S) <= k
  PROVE  FirstOf(k, S) = S
<1>1. \A n \in S : Rank(n, S) <= k
  BY RankBounded, RankGrows, FS_CardinalityType
<1> QED
  BY <1>1 DEF FirstOf

\* A part of the list that should have d elements and has fewer is the end of it.
LEMMA ShortPart ==
  ASSUME NEW S \in SUBSET Nat, IsFiniteSet(S), NEW k \in Nat, NEW d \in Nat,
         Cardinality(FirstOf(k + d, S) \ FirstOf(k, S)) < d
  PROVE  FirstOf(k + d, S) = S
<1> DEFINE long  == FirstOf(k + d, S)
           short == FirstOf(k, S)
<1>0. short \in SUBSET long
  <2>1. \A n \in S : Rank(n, S) \in Nat
    BY RankGrows
  <2>2. ASSUME NEW r \in Nat, r <= k PROVE r <= k + d
    BY <2>2
  <2> QED
    BY <2>1, <2>2 DEF FirstOf
<1>1. /\ IsFiniteSet(long) /\ Cardinality(long) \in Nat
      /\ Cardinality(short) \in Nat /\ Cardinality(short) <= k
  <2>1. k + d \in Int /\ k \in Int
    OBVIOUS
  <2> QED
    BY <2>1, FirstIsFirst, FirstAtMost
<1> HIDE DEF long, short
<1>2. long \intersect short = short
  BY <1>0
<1>3. Cardinality(long \ short) = Cardinality(long) - Cardinality(short)
  BY <1>1, <1>2, FS_Difference
<1>4. Cardinality(long) < k + d
  <2>1. Cardinality(long \ short) < d
    BY DEF long, short
  <2> QED
    BY <1>1, <1>3, <2>1
<1>5. k + d \in Nat /\ ~(k + d <= Cardinality(long))
  BY <1>1, <1>4
<1> QED
  BY <1>5, FirstAtLeast DEF long

\* In a longer list fewer elements of the shorter one are among the first k.
LEMMA FirstShrinks ==
  ASSUME NEW S, IsFiniteSet(S), NEW T \in SUBSET S, NEW k \in Int
  PROVE  FirstOf(k, S) \intersect T \subseteq FirstOf(k, T)
  BY RankGrows DEF FirstOf

\* When an element leaves the list, at most one moves up among the first k.
LEMMA OneMovesUp ==
  ASSUME NEW S \in SUBSET Nat, IsFiniteSet(S), NEW c, NEW k \in Int
  PROVE  \E x : FirstOf(k, S \ {c}) \subseteq FirstOf(k, S) \union {x}
<1> DEFINE new == FirstOf(k, S \ {c}) \ FirstOf(k, S)
<1>1. ASSUME NEW n \in new PROVE n \in S /\ Rank(n, S) = k + 1
  <2> DEFINE above == {m \in S : m >= n}
  <2>1. above \in SUBSET S /\ {m \in S \ {c} : m >= n} = above \ {c} /\ S \ {c} \in SUBSET S
    OBVIOUS
  <2>2. IsFiniteSet(above) /\ Cardinality(above) \in Nat
    BY <2>1, PartCounted
  <2>3. Rank(n, S) = Cardinality(above) /\ Rank(n, S \ {c}) = Cardinality(above \ {c})
    BY <2>1 DEF Rank
  <2> HIDE DEF above
  <2>4. Cardinality(above \ {c}) \in {Cardinality(above), Cardinality(above) - 1}
    BY <2>2, FS_RemoveElement
  <2>5. Rank(n, S \ {c}) <= k /\ ~(Rank(n, S) <= k) /\ n \in S
    BY <1>1 DEF FirstOf
  <2> QED
    BY <2>2, <2>3, <2>4, <2>5
<1>2. ASSUME NEW m \in new, NEW n \in new PROVE m = n
  <2>1. m \in Nat /\ n \in Nat /\ m \in S /\ n \in S
    BY <1>1
  <2>2. Rank(m, S) = k + 1 /\ Rank(n, S) = k + 1 /\ ~(k + 1 + 1 <= k + 1)
    BY <1>1
  <2>3. ~(m < n) /\ ~(n < m)
    BY <2>1, <2>2, RankFalls
  <2> QED
    BY <2>1, <2>3
<1> QED
  BY <1>2
-----------------------------------------------------------------------------
(* What a fetch has read and what it missed.                               *)

\* The numbers of postings that are vacancies for this connector.
Vacant == {n \in Nat : Vacancy(n)}

\* The vacancies that were open all along and have not been taken, and those of them that the
\* fetch has passed: on a page it has read, or newer than a posting it has taken.
Missed == {n \in 1..Shown : n \notin closed /\ Vacancy(n)} \ taken
Passed == {n \in Missed : n \in FirstOf((page - 1) * PageSize, List) \/ \E m \in taken : m < n}

\* The types that counting needs.
Counted ==
  /\ opened \in Nat /\ Shown <= opened
  /\ closed \in SUBSET (1..opened) /\ taken \in SUBSET Nat
  /\ page \in Nat \ {0} /\ count \in 0..MaxItems

\* Of what a fetch has passed it missed no more than was closed meanwhile.
FetchInv ==
  /\ Counted
  /\ outcome = "reading" => Cardinality(Passed) <= Cardinality(closed)
  /\ NothingMissed

\* The limits are positive numbers.
LEMMA Limits ==
  PageSize \in Nat \ {0} /\ MaxItems \in Nat /\ Shown \in Nat
BY FetchingAssumption DEF PageSize

\* What the counting is about is finite.
LEMMA FiniteLists ==
  ASSUME Counted
  PROVE  /\ List \in SUBSET Nat /\ IsFiniteSet(List)
         /\ IsFiniteSet(closed) /\ Cardinality(closed) \in Nat
         /\ IsFiniteSet(Missed) /\ Missed \in SUBSET List
<1>1. IsFiniteSet(1..opened) /\ 1..opened \subseteq Nat /\ 1..Shown \subseteq 1..opened
  BY Limits, FS_Interval DEF Counted
<1>2. List \in SUBSET (1..opened) /\ Missed \in SUBSET (1..opened) /\ closed \in SUBSET (1..opened)
  BY <1>1 DEF List, Missed, Counted
<1>3. Missed \in SUBSET List
  BY <1>1 DEF List, Missed
<1> QED
  BY <1>1, <1>2, <1>3, PartCounted

\* Which postings are vacancies is settled before the fetch begins.
LEMMA VacancyKept ==
  ASSUME connector' = connector
  PROVE  Vacant' = Vacant /\ \A n : Vacancy(n)' = Vacancy(n)
BY DEF Vacant, Vacancy

\* The vacancies of a list are those of its postings that are.
LEMMA VacanciesOfList ==
  ASSUME NEW items \in SUBSET Nat
  PROVE  Vacancies(items) = items \intersect Vacant
BY DEF Vacancies, Vacant

\* A smaller set has no more elements.
LEMMA NoMore ==
  ASSUME Counted, NEW T, T \subseteq Passed, Cardinality(Passed) <= Cardinality(closed)
  PROVE  Cardinality(T) <= Cardinality(closed)
<1>1. Passed \in SUBSET Missed /\ T \in SUBSET Passed
  BY DEF Passed
<1>2. IsFiniteSet(Passed)
  BY <1>1, FiniteLists, PartCounted
<1> QED
  BY <1>1, <1>2, FiniteLists, PartCounted

-----------------------------------------------------------------------------
(* One step.                                                               *)

\* A posting that is opened moves the others down, out of what was read.
LEMMA OpenKeeps ==
  ASSUME FetchInv, Open
  PROVE  FetchInv'
<1>1. /\ opened' = opened + 1 /\ outcome = "reading" /\ outcome' = outcome
      /\ UNCHANGED <<connector, closed, page, taken, count>>
  BY DEF Open
<1>2. Counted'
  <2>1. 1..opened \subseteq 1..(opened + 1) /\ Shown <= opened + 1 /\ opened + 1 \in Nat
    BY Limits DEF FetchInv, Counted
  <2> QED
    BY <1>1, <2>1 DEF FetchInv, Counted
<1>3. List \in SUBSET List' /\ IsFiniteSet(List')
  <2>1. List \in SUBSET List'
    BY <1>1 DEF List, FetchInv, Counted
  <2>2. IsFiniteSet(1..(opened + 1))
    BY FS_Interval DEF FetchInv, Counted
  <2>3. List' \in SUBSET (1..(opened + 1))
    BY <1>1 DEF List
  <2> QED
    BY <2>1, <2>2, <2>3, PartCounted
<1>4. Missed' = Missed
  BY <1>1, VacancyKept DEF Missed
<1>5. PageSize' = PageSize /\ (page - 1) * PageSize \in Int
  BY Limits DEF PageSize, FetchInv, Counted
<1>6. Passed' \subseteq Passed
  <2>1. FirstOf((page - 1) * PageSize, List') \intersect List \subseteq FirstOf((page - 1) * PageSize, List)
    BY <1>3, <1>5, FirstShrinks
  <2>2. Missed \subseteq List
    BY FiniteLists DEF FetchInv
  <2>3. FirstOf((page - 1) * PageSize, List)' = FirstOf((page - 1) * PageSize, List')
    BY <1>1, <1>5 DEF FirstOf, Rank
  <2> QED
    BY <1>1, <1>4, <2>1, <2>2, <2>3 DEF Passed
<1>7. Cardinality(Passed') <= Cardinality(closed)
  BY <1>1, <1>6, NoMore DEF FetchInv
<1> QED
  BY <1>1, <1>2, <1>7 DEF FetchInv, NothingMissed

\* A posting that is closed moves one up at most, and pays for it.
LEMMA CloseKeeps ==
  ASSUME FetchInv, Close
  PROVE  FetchInv'
<1>1. PICK c \in List : closed' = closed \union {c}
  BY DEF Close
<1>2. /\ outcome = "reading" /\ outcome' = outcome
      /\ UNCHANGED <<connector, opened, page, taken, count>>
  BY DEF Close
<1>3. Counted'
  BY <1>1, <1>2 DEF FetchInv, Counted, List
<1>4. List' = List \ {c} /\ c \notin closed
  BY <1>1, <1>2 DEF List
<1>5. Missed' \subseteq Missed
  BY <1>1, <1>2, VacancyKept DEF Missed
<1>6. PageSize' = PageSize /\ (page - 1) * PageSize \in Int
  BY Limits DEF PageSize, FetchInv, Counted
<1>7. PICK x : FirstOf((page - 1) * PageSize, List \ {c}) \subseteq FirstOf((page - 1) * PageSize, List) \union {x}
  BY <1>6, FiniteLists, OneMovesUp DEF FetchInv
<1>8. Passed' \subseteq Passed \union {x}
  <2>1. FirstOf((page - 1) * PageSize, List)' = FirstOf((page - 1) * PageSize, List \ {c})
    BY <1>2, <1>4, <1>6 DEF FirstOf, Rank
  <2> QED
    BY <1>2, <1>5, <1>7, <2>1 DEF Passed
<1>9. Cardinality(Passed') <= Cardinality(closed')
  <2>1. Passed \in SUBSET Missed /\ Passed' \in SUBSET (Passed \union {x})
    BY <1>8 DEF Passed
  <2>2. IsFiniteSet(Passed) /\ Cardinality(Passed) \in Nat
    BY <2>1, FiniteLists, PartCounted DEF FetchInv
  <2>3. /\ IsFiniteSet(Passed \union {x}) /\ Cardinality(Passed \union {x}) \in Nat
        /\ Cardinality(Passed \union {x}) <= Cardinality(Passed) + 1
    <3>1. /\ IsFiniteSet(Passed \union {x})
          /\ Cardinality(Passed \union {x}) =
               IF x \in Passed THEN Cardinality(Passed) ELSE Cardinality(Passed) + 1
      BY <2>2, FS_AddElement
    <3> QED
      BY <2>2, <3>1
  <2>4. Cardinality(Passed') \in Nat /\ Cardinality(Passed') <= Cardinality(Passed \union {x})
    BY <2>1, <2>3, PartCounted
  <2>5. Cardinality(closed') = Cardinality(closed) + 1 /\ Cardinality(closed) \in Nat
    BY <1>1, <1>4, FiniteLists, FS_AddElement DEF FetchInv
  <2> QED
    BY <1>2, <2>2, <2>3, <2>4, <2>5 DEF FetchInv
<1> QED
  BY <1>2, <1>3, <1>9 DEF FetchInv, NothingMissed

\* The parts of a page: what it takes is vacancies on it, and with one of them every newer one.
LEMMA PageTakes ==
  ASSUME Counted
  PROVE  LET old   == FirstOf((page - 1) * PageSize, List)
             now   == FirstOf(page * PageSize, List)
             found == Vacancies(PageItems)
             new   == FirstOf(MaxItems - count, found)
         IN  /\ found = (now \ old) \intersect Vacant
             /\ found \in SUBSET Nat /\ IsFiniteSet(found) /\ Cardinality(found) \in Nat
             /\ new \in SUBSET found
             /\ \A m \in new, n \in found : m < n => n \in new
             /\ \A m \in now, n \in List : m < n => n \in now
             /\ count + Cardinality(found) <= MaxItems => new = found
             /\ LastPage(PageItems) => now = List
<1> DEFINE k     == (page - 1) * PageSize
           old   == FirstOf(k, List)
           now   == FirstOf(page * PageSize, List)
           found == Vacancies(PageItems)
           room  == MaxItems - count
           new   == FirstOf(room, found)
<1>1. /\ k \in Nat /\ k \in Int /\ page * PageSize = k + PageSize /\ page * PageSize \in Int
      /\ room \in Int /\ PageSize \in Nat
  BY Limits DEF Counted
<1>2. List \in SUBSET Nat /\ IsFiniteSet(List)
  BY FiniteLists
<1>3. now \in SUBSET List /\ now \in SUBSET Nat /\ IsFiniteSet(now) /\ \A m \in now, n \in List : m < n => n \in now
  BY <1>1, <1>2, FirstIsFirst
<1>4. PageItems = now \ old
  BY DEF PageItems
<1>5. found = (now \ old) \intersect Vacant
  BY <1>3, <1>4, VacanciesOfList
<1>6. found \in SUBSET Nat /\ IsFiniteSet(found) /\ Cardinality(found) \in Nat
  BY <1>3, <1>5, PartCounted
<1>7. LastPage(PageItems) => now = List
  BY <1>1, <1>2, <1>4, ShortPart DEF LastPage
<1> HIDE DEF found, room, now
<1>8. new \in SUBSET found /\ \A m \in new, n \in found : m < n => n \in new
  BY <1>1, <1>6, FirstIsFirst
<1>9. count + Cardinality(found) <= MaxItems => new = found
  <2>1. count + Cardinality(found) <= MaxItems => Cardinality(found) <= room
    BY <1>6, Limits DEF room, Counted
  <2> QED
    BY <1>1, <1>6, <2>1, FirstIsAll
<1> QED
  BY <1>3, <1>5, <1>6, <1>7, <1>8, <1>9 DEF found, room, now
\* What a page takes leaves nothing behind on the pages read that was not passed before.
LEMMA PageMisses ==
  ASSUME FetchInv, NEW stop, Page(stop)
  PROVE  /\ \A n \in Missed' : (\E m \in taken' : m < n) => n \in Passed
         /\ outcome' \in {"reading", "complete"} =>
              \A n \in Missed' : n \in FirstOf(page * PageSize, List) => n \in Passed
         /\ outcome' = "complete" => FirstOf(page * PageSize, List) = List
<1> DEFINE old   == FirstOf((page - 1) * PageSize, List)
           now   == FirstOf(page * PageSize, List)
           found == Vacancies(PageItems)
           new   == FirstOf(MaxItems - count, found)
<1>1. Counted
  BY DEF FetchInv
<1>2. /\ found = (now \ old) \intersect Vacant /\ found \in SUBSET Nat /\ new \in SUBSET found
      /\ Cardinality(found) \in Nat
      /\ \A m \in new, n \in found : m < n => n \in new
      /\ \A m \in now, n \in List : m < n => n \in now
      /\ count + Cardinality(found) <= MaxItems => new = found
      /\ LastPage(PageItems) => now = List
  BY <1>1, PageTakes
<1>3. taken' = taken \union new /\ UNCHANGED <<connector, opened, closed>>
  BY DEF Page
<1>4. /\ outcome' = "complete" => LastPage(PageItems) /\ count + Cardinality(found) <= MaxItems
      /\ outcome' = "reading" => count + Cardinality(found) < MaxItems
  BY DEF Page
<1>5. outcome' \in {"reading", "complete"} => new = found
  <2>1. count + Cardinality(found) \in Int /\ MaxItems \in Int
    BY <1>1, <1>2, Limits DEF Counted
  <2>2. count + Cardinality(found) < MaxItems => count + Cardinality(found) <= MaxItems
    BY <2>1
  <2> QED
    BY <1>2, <1>4, <2>2
<1>6. ASSUME NEW n \in Missed' PROVE n \in Missed /\ n \notin new /\ n \in List /\ n \in Vacant
  <2>1. n \in Missed /\ n \notin new
    BY <1>3, <1>6, VacancyKept DEF Missed
  <2>2. n \in List /\ n \in Nat
    BY <1>1, <2>1, FiniteLists
  <2> QED
    BY <2>1, <2>2 DEF Missed, Vacant
<1>7. ASSUME NEW n \in Missed, n \in old PROVE n \in Passed
  BY <1>7 DEF Passed
<1> HIDE DEF old, now, found, new
<1>8. ASSUME NEW n \in Missed', NEW m \in taken', m < n PROVE n \in Passed
  <2>1. CASE m \in taken
    BY <1>6, <1>8, <2>1 DEF Passed
  <2>2. CASE m \in new
    <3>1. m \in found /\ m \in now
      BY <1>2, <2>2
    <3>2. n \in now
      BY <1>2, <1>6, <1>8, <3>1
    <3>3. n \notin found
      BY <1>2, <1>6, <1>8, <2>2
    <3>4. n \in old
      BY <1>2, <1>6, <3>2, <3>3
    <3> QED
      BY <1>6, <1>7, <3>4
  <2> QED
    BY <1>3, <1>8, <2>1, <2>2
<1>9. ASSUME outcome' \in {"reading", "complete"}, NEW n \in Missed', n \in now PROVE n \in Passed
  <2>1. n \in old
    BY <1>2, <1>5, <1>6, <1>9
  <2> QED
    BY <1>6, <1>7, <2>1
<1>10. outcome' = "complete" => now = List
  BY <1>2, <1>4
<1> QED
  BY <1>8, <1>9, <1>10 DEF now

\* A page keeps the account.
LEMMA PageKeeps ==
  ASSUME FetchInv, NEW stop, Page(stop)
  PROVE  FetchInv'
<1>1. Counted /\ outcome = "reading" /\ UNCHANGED <<connector, opened, closed>>
  BY DEF FetchInv, Page
<1>2. Cardinality(Passed) <= Cardinality(closed)
  BY <1>1 DEF FetchInv
<1>3. Counted'
  <2> DEFINE found == Vacancies(PageItems)
             new   == FirstOf(MaxItems - count, found)
  <2>1. found \in SUBSET Nat /\ Cardinality(found) \in Nat /\ new \in SUBSET found
    BY <1>1, PageTakes
  <2>2. taken' = taken \union new
    BY DEF Page
  <2>3. count' = IF count + Cardinality(found) > MaxItems THEN MaxItems ELSE count + Cardinality(found)
    BY DEF Page
  <2>4. page' \in {page, page + 1}
    BY DEF Page
  <2> HIDE DEF found, new
  <2>5. taken' \in SUBSET Nat
    BY <1>1, <2>1, <2>2 DEF Counted
  <2>6. count' \in 0..MaxItems
    BY <1>1, <2>1, <2>3, Limits DEF Counted
  <2>7. page' \in Nat \ {0}
    BY <1>1, <2>4 DEF Counted
  <2> QED
    BY <1>1, <2>5, <2>6, <2>7 DEF Counted
<1>4. CASE outcome' = "reading"
  <2>1. page' = page + 1 /\ PageSize' = PageSize
    BY <1>4 DEF Page, PageSize
  <2>2. (page' - 1) * PageSize' = page * PageSize
    BY <1>1, <2>1, Limits DEF Counted
  <2>3. FirstOf((page - 1) * PageSize, List)' = FirstOf(page * PageSize, List)
    BY <1>1, <2>2 DEF FirstOf, Rank, List
  <2>4. Passed' \subseteq Passed
    BY <1>4, <2>3, PageMisses DEF Passed
  <2>5. Cardinality(Passed') <= Cardinality(closed)
    BY <1>1, <1>2, <2>4, NoMore
  <2> QED
    BY <1>1, <1>3, <1>4, <2>5 DEF FetchInv, NothingMissed
<1>5. CASE outcome' = "complete"
  <2>1. Missed' \subseteq List
    <3>1. Missed' \subseteq Missed
      BY <1>1, VacancyKept DEF Missed, Page
    <3> QED
      BY <1>1, <3>1, FiniteLists
  <2>2. Missed' \subseteq Passed
    BY <1>5, <2>1, PageMisses
  <2>3. Cardinality(Missed') <= Cardinality(closed)
    BY <1>1, <1>2, <2>2, NoMore
  <2> QED
    BY <1>1, <1>3, <1>5, <2>3 DEF FetchInv, NothingMissed, Missed
<1>6. CASE outcome' = "limited"
  <2>1. {n \in Missed' : \E m \in taken' : m < n} \subseteq Passed
    BY PageMisses
  <2>2. Cardinality({n \in Missed' : \E m \in taken' : m < n}) <= Cardinality(closed)
    BY <1>1, <1>2, <2>1, NoMore
  <2> QED
    BY <1>1, <1>3, <1>6, <2>2 DEF FetchInv, NothingMissed, Missed
<1> QED
  BY <1>1, <1>4, <1>5, <1>6 DEF Page

\* A fetch that ends with what it has, or with nothing, has passed no more.
LEMMA FailureKeeps ==
  ASSUME FetchInv, PageFails \/ PageUnreadable \/ PageShapeless \/ AnswerFails
  PROVE  FetchInv'
<1>1. /\ Counted /\ outcome = "reading" /\ UNCHANGED <<connector, opened, closed, page>>
      /\ outcome' \in {"partial", "limited", "failed"}
  BY DEF FetchInv, PageFails, PageUnreadable, PageShapeless, AnswerFails
<1>2. UNCHANGED <<taken, count>> \/ (outcome' = "failed" /\ taken' = {} /\ count' = 0)
  BY DEF PageFails, PageUnreadable, PageShapeless, AnswerFails
<1>3. Counted'
  <2>1. taken' \in SUBSET Nat /\ count' \in 0..MaxItems
    <3>1. 0 \in 0..MaxItems
      BY Limits
    <3> QED
      BY <1>1, <1>2, <3>1 DEF Counted
  <2> QED
    BY <1>1, <2>1 DEF Counted
<1>4. CASE outcome' = "failed"
  BY <1>3, <1>4 DEF FetchInv, NothingMissed
<1>5. CASE outcome' # "failed"
  <2>1. UNCHANGED <<taken, count>>
    BY <1>2, <1>5
  <2>2. Missed' = Missed
    BY <1>1, <2>1, VacancyKept DEF Missed
  <2>3. {n \in Missed' : \E m \in taken' : m < n} \subseteq Passed
    BY <2>1, <2>2 DEF Passed
  <2>4. Cardinality({n \in Missed' : \E m \in taken' : m < n}) <= Cardinality(closed)
    BY <1>1, <2>3, NoMore DEF FetchInv
  <2> QED
    BY <1>1, <1>3, <1>5, <2>4 DEF FetchInv, NothingMissed, Missed
<1> QED
  BY <1>4, <1>5

\* An answer that comes at once misses nothing that is newer than something it has, and nothing
\* at all if it is complete.
LEMMA AnswerKeeps ==
  ASSUME FetchInv, NEW kind, NEW items, items \in {List, Vacancies(List)}, NEW malformed \in BOOLEAN,
         Answer(kind, items, malformed)
  PROVE  FetchInv'
<1> DEFINE first == FirstOf(MaxItems, items)
<1>1. /\ Counted /\ outcome = "reading" /\ UNCHANGED <<connector, opened, closed, page>>
      /\ taken' = Vacancies(first) /\ count' = Cardinality(taken')
  BY DEF FetchInv, Answer
<1>2. /\ outcome' \in {"partial", "limited", "complete"}
      /\ outcome' = "complete" => ~(Cardinality(items) > MaxItems)
  BY DEF Answer
<1>3. /\ List \in SUBSET Nat /\ items \in SUBSET List /\ IsFiniteSet(items) /\ Cardinality(items) \in Nat
      /\ List \intersect Vacant \subseteq items
  <2>1. List \in SUBSET Nat /\ IsFiniteSet(List)
    BY <1>1, FiniteLists
  <2>2. Vacancies(List) = List \intersect Vacant
    BY <2>1, VacanciesOfList
  <2>3. items \in SUBSET List /\ List \intersect Vacant \subseteq items
    BY <2>2
  <2> QED
    BY <2>1, <2>3, PartCounted
<1>4. /\ first \in SUBSET Nat /\ IsFiniteSet(first) /\ Cardinality(first) <= MaxItems
      /\ Cardinality(first) \in Nat
      /\ \A m \in first, n \in items : m < n => n \in first
  <2>1. items \in SUBSET Nat /\ MaxItems \in Int /\ MaxItems \in Nat
    BY <1>3, Limits
  <2> QED
    BY <1>3, <2>1, FirstIsFirst, FirstAtMost
<1>5. outcome' = "complete" => first = items
  <2>1. MaxItems \in Int /\ (outcome' = "complete" => Cardinality(items) <= MaxItems)
    BY <1>2, <1>3, Limits
  <2> QED
    BY <1>3, <2>1, FirstIsAll
<1> HIDE DEF first
<1>6. taken' = first \intersect Vacant
  BY <1>1, <1>4, VacanciesOfList
<1>7. Counted'
  <2>1. taken' \in SUBSET first
    BY <1>6
  <2>2. Cardinality(taken') \in Nat /\ Cardinality(taken') <= Cardinality(first)
    BY <1>4, <2>1, PartCounted
  <2>3. count' \in 0..MaxItems
    BY <1>1, <1>4, <2>2, Limits
  <2>4. taken' \in SUBSET Nat
    BY <1>4, <2>1
  <2> QED
    BY <1>1, <2>3, <2>4 DEF Counted
<1>8. ASSUME NEW n \in Missed' PROVE n \in items /\ n \notin first
  <2>1. n \in 1..Shown /\ n \notin closed /\ Vacancy(n) /\ n \notin taken'
    BY <1>1, <1>8, VacancyKept DEF Missed
  <2>2. n \in List /\ n \in Vacant
    BY <1>1, <2>1, Limits DEF List, Vacant, Counted
  <2> QED
    BY <1>3, <1>6, <2>1, <2>2
<1>9. CASE outcome' = "complete"
  <2>1. Missed' = {}
    BY <1>5, <1>8, <1>9
  <2> QED
    BY <1>1, <1>7, <1>9, <2>1, FS_EmptySet, FiniteLists DEF FetchInv, NothingMissed, Missed
<1>10. CASE outcome' # "complete"
  <2>1. {n \in Missed' : \E m \in taken' : m < n} = {}
    BY <1>4, <1>6, <1>8
  <2> QED
    BY <1>1, <1>2, <1>7, <1>10, <2>1, FS_EmptySet, FiniteLists DEF FetchInv, NothingMissed, Missed
<1> QED
  BY <1>9, <1>10

-----------------------------------------------------------------------------
(* The theorem.                                                            *)

\* The account is right when the fetch begins.
LEMMA FetchBegins ==
  ASSUME FetchingInit
  PROVE  FetchInv
<1>1. Counted
  BY Limits, FetchingAssumption DEF FetchingInit, Counted
<1>2. (page - 1) * PageSize = 0
  BY Limits DEF FetchingInit
<1>3. Passed = {}
  <2>1. FirstOf(0, List) = {}
    <3>1. List \in SUBSET Nat /\ IsFiniteSet(List)
      BY <1>1, FiniteLists
    <3>2. Cardinality(FirstOf(0, List)) <= 0 /\ IsFiniteSet(FirstOf(0, List))
          /\ Cardinality(FirstOf(0, List)) \in Nat
      BY <3>1, FirstAtMost, FirstIsFirst
    <3> QED
      BY <3>2, FS_EmptySet
  <2> QED
    BY <1>2, <2>1 DEF Passed, FetchingInit
<1> QED
  BY <1>1, <1>3, FS_EmptySet, FiniteLists DEF FetchInv, NothingMissed, FetchingInit

\* FetchInv is inductive.
LEMMA FetchInvStep ==
  ASSUME FetchInv, [FetchingNext]_fetchingVars
  PROVE  FetchInv'
<1>1. CASE UNCHANGED fetchingVars
  BY <1>1, VacancyKept DEF fetchingVars, FetchInv, Counted, Passed, Missed, NothingMissed, FirstOf, Rank,
     List, PageSize
<1>2. ASSUME \/ ReadSearch \/ \E remaining \in {4, 5} : ReadIssues(remaining) PROVE FetchInv'
  BY <1>2, PageKeeps DEF ReadSearch, ReadIssues
<1>3. CASE ReadBoard \/ ReadPostings \/ ReadFeed \/ ReadSeed
  BY <1>3, AnswerKeeps DEF ReadBoard, ReadPostings, ReadFeed, ReadSeed
<1> QED
  BY <1>1, <1>2, <1>3, OpenKeeps, CloseKeeps, FailureKeeps DEF FetchingNext

\* For every source, page size and limit, a fetch misses no more of what it has passed than was
\* closed while it was reading.
THEOREM NothingIsMissed == FetchingSpec => []NothingMissed
<1>1. FetchingInit => FetchInv
  BY FetchBegins
<1>2. FetchInv /\ [FetchingNext]_fetchingVars => FetchInv'
  BY FetchInvStep
<1>3. FetchInv => NothingMissed
  BY DEF FetchInv
<1> QED
  BY <1>1, <1>2, <1>3, PTL DEF FetchingSpec
-----------------------------------------------------------------------------
(* The order of a search.                                                  *)

Sorts == {"newest", "deadline", "salary", "quality", "relevance"}

\* A key is of three numbers.
LEMMA KeyOfNumbers ==
  ASSUME NEW n \in DOMAIN Catalogue, NEW sort \in Sorts
  PROVE  /\ SortKey(n, sort)[1] \in Int /\ SortKey(n, sort)[2] \in Int /\ SortKey(n, sort)[3] \in Int
         /\ SortKey(n, sort) = <<SortKey(n, sort)[1], SortKey(n, sort)[2], SortKey(n, sort)[3]>>
<1>1. /\ n \in Int /\ Catalogue[n].posted \in Int /\ Catalogue[n].quality \in Int /\ Catalogue[n].relevance \in Int
      /\ Catalogue[n].deadline \in Int \union {None} /\ Catalogue[n].salary_min \in Int \union {None}
      /\ Catalogue[n].salary_max \in Int \union {None}
  BY ListingAssumption
<1>2. Today \in Int
  BY NormalizerAssumption
<1>3. NoneOr(NoneOr(Catalogue[n].salary_max, Catalogue[n].salary_min), 0 - 1) \in Int
  BY <1>1 DEF NoneOr
<1>4. (IF Catalogue[n].deadline = None THEN 0 - (Today * 10) ELSE 0 - Catalogue[n].deadline) \in Int
  BY <1>1, <1>2
<1>5. (IF Catalogue[n].featured THEN 1 ELSE 0) \in Int
  OBVIOUS
<1> QED
  BY <1>1, <1>3, <1>4, <1>5 DEF SortKey, Sorts

\* Which of two jobs is before the other: the first number that differs decides.
LEMMA BeforeByKey ==
  ASSUME NEW a \in DOMAIN Catalogue, NEW b \in DOMAIN Catalogue, NEW sort \in Sorts
  PROVE  LET x == SortKey(a, sort)
             y == SortKey(b, sort)
         IN Before(a, b, sort) <=>
              x[1] > y[1] \/ (x[1] = y[1] /\ (x[2] > y[2] \/ (x[2] = y[2] /\ x[3] > y[3])))
<1> DEFINE x == SortKey(a, sort)
           y == SortKey(b, sort)
<1>1. Before(a, b, sort) <=> \E i \in 1..3 : x[i] > y[i] /\ \A k \in 1..(i - 1) : x[k] = y[k]
  BY DEF Before
<1> HIDE DEF x, y
<1>2. (\E i \in 1..3 : x[i] > y[i] /\ \A k \in 1..(i - 1) : x[k] = y[k])
      <=> x[1] > y[1] \/ (x[1] = y[1] /\ (x[2] > y[2] \/ (x[2] = y[2] /\ x[3] > y[3])))
  OBVIOUS
<1> QED
  BY <1>1, <1>2 DEF x, y

\* It is a strict order, in which two jobs that do not tie are one before the other.
LEMMA BeforeIsOrder ==
  ASSUME NEW a \in DOMAIN Catalogue, NEW b \in DOMAIN Catalogue, NEW c \in DOMAIN Catalogue,
         NEW sort \in Sorts
  PROVE  /\ ~Before(a, a, sort) /\ ~(Before(a, b, sort) /\ Before(b, a, sort))
         /\ Before(a, b, sort) /\ Before(b, c, sort) => Before(a, c, sort)
         /\ a = b \/ Before(a, b, sort) \/ Before(b, a, sort) \/ Tied(a, b, sort)
<1> DEFINE x == SortKey(a, sort)
           y == SortKey(b, sort)
           z == SortKey(c, sort)
<1>1. /\ x[1] \in Int /\ x[2] \in Int /\ x[3] \in Int /\ x = <<x[1], x[2], x[3]>>
      /\ y[1] \in Int /\ y[2] \in Int /\ y[3] \in Int /\ y = <<y[1], y[2], y[3]>>
      /\ z[1] \in Int /\ z[2] \in Int /\ z[3] \in Int
  BY KeyOfNumbers
<1>2. Before(a, b, sort) <=> x[1] > y[1] \/ (x[1] = y[1] /\ (x[2] > y[2] \/ (x[2] = y[2] /\ x[3] > y[3])))
  BY BeforeByKey
<1>3. Before(b, a, sort) <=> y[1] > x[1] \/ (y[1] = x[1] /\ (y[2] > x[2] \/ (y[2] = x[2] /\ y[3] > x[3])))
  BY BeforeByKey
<1>4. Before(b, c, sort) <=> y[1] > z[1] \/ (y[1] = z[1] /\ (y[2] > z[2] \/ (y[2] = z[2] /\ y[3] > z[3])))
  BY BeforeByKey
<1>5. Before(a, c, sort) <=> x[1] > z[1] \/ (x[1] = z[1] /\ (x[2] > z[2] \/ (x[2] = z[2] /\ x[3] > z[3])))
  BY BeforeByKey
<1>6. Before(a, a, sort) <=> x[1] > x[1] \/ (x[1] = x[1] /\ (x[2] > x[2] \/ (x[2] = x[2] /\ x[3] > x[3])))
  BY BeforeByKey
<1>7. Tied(a, b, sort) <=> a # b /\ x = y
  BY DEF Tied
<1> HIDE DEF x, y, z
<1>8. ~Before(a, a, sort) /\ ~(Before(a, b, sort) /\ Before(b, a, sort))
  BY <1>1, <1>2, <1>3, <1>6
<1>9. Before(a, b, sort) /\ Before(b, c, sort) => Before(a, c, sort)
  BY <1>1, <1>2, <1>4, <1>5
<1>10. x[1] = y[1] /\ x[2] = y[2] /\ x[3] = y[3] => x = y
  BY <1>1
<1>11. a = b \/ Before(a, b, sort) \/ Before(b, a, sort) \/ Tied(a, b, sort)
  BY <1>1, <1>2, <1>3, <1>7, <1>10
<1> QED
  BY <1>8, <1>9, <1>11
-----------------------------------------------------------------------------
(* The place of a job in a list.                                           *)

\* How many of the jobs of S are before n.
Place(n, S, sort) == Cardinality({m \in S : Before(m, n, sort)})

\* A job no other has the same key as.
Untied(n, sort) == \A m \in DOMAIN Catalogue : ~Tied(n, m, sort)

\* The place of a job is a number, no higher than the list is long, and higher in a longer list.
LEMMA PlaceGrows ==
  ASSUME NEW S, IsFiniteSet(S), NEW T \in SUBSET S, NEW n, NEW sort
  PROVE  /\ Place(n, S, sort) \in Nat /\ Place(n, T, sort) \in Nat
         /\ Place(n, T, sort) <= Place(n, S, sort) /\ Place(n, S, sort) <= Cardinality(S)
<1> DEFINE ahead(X) == {m \in X : Before(m, n, sort)}
<1>1. ahead(S) \in SUBSET S /\ ahead(T) \in SUBSET ahead(S)
  OBVIOUS
<1>2. IsFiniteSet(ahead(S))
  BY <1>1, PartCounted
<1> QED
  BY <1>1, <1>2, PartCounted DEF Place

\* A job before another one has the lower place.
LEMMA PlaceFalls ==
  ASSUME NEW S \in SUBSET (DOMAIN Catalogue), NEW sort \in Sorts,
         NEW m \in S, NEW n \in DOMAIN Catalogue, Before(m, n, sort)
  PROVE  Place(m, S, sort) + 1 <= Place(n, S, sort)
<1> DEFINE few  == {x \in S : Before(x, m, sort)}
           more == {x \in S : Before(x, n, sort)}
<1>1. IsFiniteSet(S)
  BY ListingAssumption, FS_Subset
<1>2. few \in SUBSET S /\ more \in SUBSET S /\ m \notin few /\ few \union {m} \in SUBSET more
  <2>1. m \in DOMAIN Catalogue /\ m \notin few
    BY BeforeIsOrder
  <2>2. \A x \in few : x \in more
    BY BeforeIsOrder
  <2> QED
    BY <2>1, <2>2
<1>3. IsFiniteSet(few) /\ IsFiniteSet(more) /\ Cardinality(few) \in Nat
  BY <1>1, <1>2, PartCounted
<1>4. Cardinality(few \union {m}) = Cardinality(few) + 1
  BY <1>2, <1>3, FS_AddElement
<1>5. Cardinality(few \union {m}) <= Cardinality(more)
  BY <1>2, <1>3, PartCounted
<1>6. Place(m, S, sort) = Cardinality(few) /\ Place(n, S, sort) = Cardinality(more)
  BY DEF Place
<1> QED
  BY <1>4, <1>5, <1>6

\* Two jobs of the list of which one is untied are not at the same place.
LEMMA OwnPlace ==
  ASSUME NEW S \in SUBSET (DOMAIN Catalogue), NEW sort \in Sorts,
         NEW a \in S, NEW b \in S, a # b, Untied(a, sort)
  PROVE  Place(a, S, sort) # Place(b, S, sort)
<1>1. Before(a, b, sort) \/ Before(b, a, sort)
  <2>1. a \in DOMAIN Catalogue /\ b \in DOMAIN Catalogue /\ ~Tied(a, b, sort)
    BY DEF Untied
  <2> QED
    BY <2>1, BeforeIsOrder
<1>2. Place(a, S, sort) \in Nat /\ Place(b, S, sort) \in Nat
  BY ListingAssumption, FS_Subset, PlaceGrows
<1>3. Place(a, S, sort) + 1 <= Place(b, S, sort) \/ Place(b, S, sort) + 1 <= Place(a, S, sort)
  BY <1>1, PlaceFalls
<1> QED
  BY <1>2, <1>3

\* When one leaves the list, a job moves up by one place at most.
LEMMA PlaceAfterOneLeft ==
  ASSUME NEW S, IsFiniteSet(S), NEW c, NEW n, NEW sort
  PROVE  Place(n, S \ {c}, sort) \in {Place(n, S, sort), Place(n, S, sort) - 1}
<1> DEFINE ahead == {m \in S : Before(m, n, sort)}
<1>1. ahead \in SUBSET S /\ {m \in S \ {c} : Before(m, n, sort)} = ahead \ {c}
  OBVIOUS
<1>2. IsFiniteSet(ahead) /\ Cardinality(ahead) \in Nat
  BY <1>1, PartCounted
<1>3. Place(n, S, sort) = Cardinality(ahead) /\ Place(n, S \ {c}, sort) = Cardinality(ahead \ {c})
  BY <1>1 DEF Place
<1> HIDE DEF ahead
<1> QED
  BY <1>2, <1>3, FS_RemoveElement

\* Of untied jobs there are no more than places from the k-th to the last.
LEMMA PlacesLeft ==
  ASSUME NEW S \in SUBSET (DOMAIN Catalogue), NEW sort \in Sorts, NEW k \in Nat, NEW U \in SUBSET S,
         \A n \in U : Untied(n, sort) /\ k <= Place(n, S, sort)
  PROVE  /\ U # {} => k < Cardinality(S)
         /\ U # {} => Cardinality(U) <= Cardinality(S) - k
<1> DEFINE last == Cardinality(S) - 1
           f == [n \in U |-> Place(n, S, sort)]
<1>1. IsFiniteSet(S) /\ Cardinality(S) \in Nat /\ last \in Int
  BY ListingAssumption, FS_Subset, FS_CardinalityType
<1>2. \A n \in S : Place(n, S, sort) \in 0..last
  <2>1. SUFFICES ASSUME NEW n \in S PROVE Place(n, S, sort) \in 0..last
    OBVIOUS
  <2> DEFINE ahead == {m \in S : Before(m, n, sort)}
  <2>2. ahead \in SUBSET (S \ {n})
    BY BeforeIsOrder
  <2>3. IsFiniteSet(S \ {n}) /\ Cardinality(S \ {n}) = last
    BY <1>1, FS_RemoveElement
  <2>4. Cardinality(ahead) \in Nat /\ Cardinality(ahead) <= last
    BY <2>2, <2>3, PartCounted
  <2>5. Place(n, S, sort) = Cardinality(ahead)
    BY DEF Place
  <2> QED
    BY <1>1, <2>4, <2>5
<1>3. \A n \in U : f[n] \in k..last
  <2>1. SUFFICES ASSUME NEW n \in U PROVE f[n] \in k..last
    OBVIOUS
  <2>2. n \in S /\ f[n] = Place(n, S, sort) /\ k <= Place(n, S, sort)
    OBVIOUS
  <2>3. Place(n, S, sort) \in 0..last
    BY <1>2, <2>2
  <2> QED
    BY <1>1, <2>2, <2>3
<1>4. f \in Injection(U, k..last)
  <2>1. f \in [U -> k..last]
    BY <1>3
  <2>2. \A a, b \in U : f[a] = f[b] => a = b
    BY OwnPlace
  <2> QED
    BY <2>1, <2>2 DEF Injection, IsInjective
<1>5. U # {} => k <= last
  BY <1>1, <1>3
<1>6. IsFiniteSet(k..last) /\ Cardinality(k..last) = IF k > last THEN 0 ELSE last - k + 1
  <2>1. k \in Int
    OBVIOUS
  <2> HIDE DEF last
  <2> QED
    BY <1>1, <2>1, FS_Interval
<1>7. Cardinality(U) <= Cardinality(k..last)
  BY <1>4, <1>6, FS_Injection
<1> QED
  BY <1>1, <1>5, <1>6, <1>7

\* In every order an untied job is at its place.
LEMMA InItsPlace ==
  ASSUME NEW S \in SUBSET (DOMAIN Catalogue), NEW sort \in Sorts, NEW s \in Orders(S, sort),
         NEW n \in S, Untied(n, sort)
  PROVE  Place(n, S, sort) + 1 \in 1..Cardinality(S) /\ s[Place(n, S, sort) + 1] = n
<1> DEFINE D == 1..Cardinality(S)
<1>1. IsFiniteSet(S) /\ Cardinality(S) \in Nat
  BY ListingAssumption, FS_Subset, FS_CardinalityType
<1>2. /\ s \in [D -> S] /\ \A i, j \in D : i # j => s[i] # s[j]
      /\ \A i, j \in D : i < j => ~Before(s[j], s[i], sort)
  BY DEF Orders, SetToSeqs
<1>3. PICK i \in D : s[i] = n
  <2>1. s \in Injection(D, S)
    BY <1>2 DEF Injection, IsInjective
  <2>2. IsFiniteSet(D) /\ Cardinality(D) = Cardinality(S)
    BY <1>1, FS_Interval
  <2>3. s \in Surjection(D, S)
    BY <1>1, <2>1, <2>2, FS_Injection
  <2> QED
    BY <2>3 DEF Surjection
<1> DEFINE ahead == {m \in S : Before(m, n, sort)}
           I     == 1..(i - 1)
           f     == [j \in I |-> s[j]]
<1>4. i \in Int /\ I \in SUBSET D
  BY <1>1
<1>5. ASSUME NEW j \in I PROVE f[j] \in ahead
  <2>1. j \in D /\ j < i /\ s[j] # n /\ s[j] \in S
    BY <1>2, <1>3, <1>4
  <2>2. ~Before(n, s[j], sort)
    BY <1>2, <1>3, <2>1
  <2>3. ~Tied(n, s[j], sort)
    BY <2>1 DEF Untied
  <2>4. Before(s[j], n, sort)
    BY <2>1, <2>2, <2>3, BeforeIsOrder
  <2> QED
    BY <2>1, <2>4
<1>6. ASSUME NEW m \in ahead PROVE \E j \in I : f[j] = m
  <2>1. PICK j \in D : s[j] = m
    <3>1. s \in Injection(D, S)
      BY <1>2 DEF Injection, IsInjective
    <3>2. IsFiniteSet(D) /\ Cardinality(D) = Cardinality(S)
      BY <1>1, FS_Interval
    <3>3. s \in Surjection(D, S)
      BY <1>1, <3>1, <3>2, FS_Injection
    <3> QED
      BY <3>3 DEF Surjection
  <2>2. ~(i < j) /\ i # j
    BY <1>2, <1>3, <2>1, BeforeIsOrder
  <2>3. j \in I
    BY <1>1, <2>1, <2>2
  <2> QED
    BY <2>1, <2>3
<1>7. f \in Bijection(I, ahead)
  <2>1. f \in [I -> ahead]
    BY <1>5
  <2>2. \A a, b \in I : f[a] = f[b] => a = b
    BY <1>2, <1>4
  <2> QED
    BY <1>6, <2>1, <2>2 DEF Bijection, Injection, Surjection, IsInjective
<1>8. Cardinality(ahead) = i - 1
  <2>1. IsFiniteSet(I) /\ Cardinality(I) = i - 1
    BY <1>3, <1>4, FS_Interval
  <2> QED
    BY <1>7, <2>1, FS_Bijection DEF ExistsBijection
<1>9. Place(n, S, sort) + 1 = i
  BY <1>4, <1>8 DEF Place
<1> QED
  BY <1>3, <1>9
-----------------------------------------------------------------------------
(* Pages.                                                                  *)

\* The pages counted hold all that was counted.
LEMMA PagesHoldAll ==
  ASSUME NEW t \in Nat, NEW f, f.size \in Nat \ {0}, NEW a \in Nat, ~(a < TotalPages(t, f))
  PROVE  t <= a * f.size
<1> DEFINE d == f.size
           q == (t + d - 1) \div d
<1>1. q \in Nat /\ t <= q * d
  OBVIOUS
<1>2. q <= a
  BY <1>1 DEF TotalPages
<1>3. q * d <= a * d /\ q * d \in Nat /\ a * d \in Nat
  BY <1>1, <1>2
<1> QED
  BY <1>1, <1>3

\* A page shows what is at its places of the list.
LEMMA PageShows ==
  ASSUME NEW c \in Nat, NEW S, NEW s \in [1..c -> S], NEW f, f.size \in Nat \ {0}, NEW number \in Nat \ {0},
         NEW k \in 1..c, (number - 1) * f.size < k, k <= (number - 1) * f.size + f.size
  PROVE  s[k] \in Range(PageOf(s, number, f))
<1> DEFINE base == (number - 1) * f.size
           rest == SubSeq(s, base + 1, Len(s))
           size == IF Len(rest) > f.size THEN f.size ELSE Len(rest)
           shown == SubSeq(rest, 1, size)
<1>1. base \in Nat /\ base < k /\ k <= base + f.size
  OBVIOUS
<1>2. Len(s) = c /\ s \in Seq(S)
  BY SeqDef, LenProperties
<1>3. PageOf(s, number, f) = shown
  BY DEF PageOf, UpTo
<1> HIDE DEF base
<1>4. /\ rest \in Seq(S) /\ Len(rest) = IF base + 1 <= c THEN c - base ELSE 0
      /\ \A i \in 1..(c - base) : rest[i] = s[base + i]
  <2>1. \A i \in (base + 1)..c : s[i] \in S
    BY <1>1
  <2>2. /\ rest \in Seq(S) /\ Len(rest) = IF base + 1 <= c THEN c - (base + 1) + 1 ELSE 0
        /\ \A i \in 1..(c - (base + 1) + 1) : rest[i] = s[base + 1 + i - 1]
    BY <1>1, <1>2, <2>1, SubSeqProperties
  <2> HIDE DEF rest
  <2> QED
    BY <1>1, <2>2
<1> HIDE DEF rest
<1>5. k - base \in 1..Len(rest) /\ k - base <= f.size /\ k - base \in 1..(c - base)
  BY <1>1, <1>4
<1>6. size \in Nat /\ size <= Len(rest) /\ k - base \in 1..size
  BY <1>1, <1>4, <1>5
<1>7. /\ shown \in Seq(S) /\ Len(shown) = IF 1 <= size THEN size - 1 + 1 ELSE 0
      /\ \A i \in 1..(size - 1 + 1) : shown[i] = rest[1 + i - 1]
  <2> HIDE DEF size
  <2>1. \A i \in 1..size : rest[i] \in S
    BY <1>4, <1>6, LenProperties
  <2> QED
    BY <1>6, <2>1, SubSeqProperties
<1> HIDE DEF shown, size
<1>8. DOMAIN shown = 1..size
  BY <1>6, <1>7, LenProperties
<1>9. shown[k - base] = s[k]
  BY <1>1, <1>4, <1>5, <1>6, <1>7
<1> QED
  BY <1>3, <1>6, <1>8, <1>9 DEF Range

\* The count of a search is not less than the jobs found: a join with the skills gives every job
\* that has one of them at least once.
LEMMA AllCounted ==
  ASSUME NEW f \in Queries, listed \subseteq DOMAIN Catalogue
  PROVE  Total(f) \in Nat /\ Cardinality(Found(f)) <= Total(f)
<1>1. IsFiniteSet(Found(f)) /\ Cardinality(Found(f)) \in Nat
  BY ListingAssumption, FS_Subset, FS_CardinalityType DEF Found
<1>2. CASE f.skills = {}
  BY <1>1, <1>2 DEF Total
<1>3. CASE f.skills # {}
  <2> DEFINE join == {r \in Found(f) \X f.skills : r[2] \in Catalogue[r[1]].skills}
             one(n) == CHOOSE k \in f.skills : k \in Catalogue[n].skills
             g == [n \in Found(f) |-> <<n, one(n)>>]
  <2>1. IsFiniteSet(join)
    <3>1. IsFiniteSet(Found(f) \X f.skills)
      BY <1>1, ListingAssumption, FS_Product
    <3> QED
      BY <3>1, FS_Subset
  <2>2. \A n \in Found(f) : g[n] \in join
    <3>1. SUFFICES ASSUME NEW n \in Found(f) PROVE g[n] \in join
      OBVIOUS
    <3>2. Catalogue[n].skills \intersect f.skills # {}
      BY <1>3 DEF Found, Matches
    <3>3. one(n) \in f.skills /\ one(n) \in Catalogue[n].skills
      BY <3>2
    <3> HIDE DEF one
    <3> QED
      BY <3>3
  <2>3. g \in Injection(Found(f), join)
    <3>1. g \in [Found(f) -> join]
      BY <2>2
    <3>2. \A a, b \in Found(f) : g[a] = g[b] => a = b
      OBVIOUS
    <3> QED
      BY <3>1, <3>2 DEF Injection, IsInjective
  <2> HIDE DEF g
  <2>4. Cardinality(Found(f)) <= Cardinality(join) /\ Cardinality(join) \in Nat
    BY <2>1, <2>3, FS_Injection, FS_CardinalityType
  <2> QED
    BY <1>3, <2>4 DEF Total
<1> QED
  BY <1>2, <1>3

-----------------------------------------------------------------------------
(* A reader who follows the pages.                                         *)

\* The jobs the reader has passed without seeing them: they are at the places of a page read.
Overlooked == {n \in standing \ seen :
             Untied(n, query.sort) /\ Place(n, Found(query), query.sort) < (at - 1) * query.size}

\* How many more jobs are found by now than were counted.
Excess == IF Cardinality(Found(query)) > total THEN Cardinality(Found(query)) - total ELSE 0

\* Jobs that are behind the reader, or behind the last page, are no more than the changes that
\* can have put them there.
WalkInv ==
  /\ listed \subseteq DOMAIN Catalogue
  /\ reader \in {"idle", "counting", "reading", "done"}
  /\ reader # "idle" => /\ query \in Queries /\ at \in Nat \ {0} /\ slips \in Nat
                        /\ standing \subseteq Found(query)
  /\ reader = "counting" => Cardinality(Overlooked) <= slips
  /\ reader = "reading" => total \in Nat /\ Cardinality(Overlooked) + Excess <= slips
  /\ WalkComplete

\* What the counting is about is finite.
LEMMA FiniteWalk ==
  ASSUME WalkInv, reader # "idle"
  PROVE  /\ Found(query) \in SUBSET (DOMAIN Catalogue) /\ IsFiniteSet(Found(query))
         /\ Cardinality(Found(query)) \in Nat
         /\ Overlooked \in SUBSET Found(query) /\ IsFiniteSet(Overlooked) /\ Cardinality(Overlooked) \in Nat
         /\ query.size \in Nat \ {0} /\ query.sort \in Sorts /\ (at - 1) * query.size \in Nat
<1>1. Found(query) \in SUBSET (DOMAIN Catalogue)
  BY DEF WalkInv, Found
<1>2. Overlooked \in SUBSET Found(query)
  BY DEF WalkInv, Overlooked
<1>3. query.size \in Nat \ {0} /\ query.sort \in Sorts
  BY ListingAssumption DEF WalkInv, Sorts
<1>4. at - 1 \in Nat
  BY DEF WalkInv
<1>5. (at - 1) * query.size \in Nat
  BY <1>3, <1>4
<1> QED
  BY <1>1, <1>2, <1>3, <1>5, ListingAssumption, FS_Subset, FS_CardinalityType

\* A search begins with nothing passed.
LEMMA WalkBegins ==
  ASSUME WalkInv, Search
  PROVE  WalkInv'
<1>1. /\ query' \in Queries /\ at' = 1 /\ slips' = 0 /\ reader' = "counting" /\ listed' = listed
      /\ standing' = Found(query')
  BY DEF Search
<1>2. Found(query)' = Found(query')
  BY <1>1 DEF Found
<1>3. Overlooked' = {}
  <2>1. query'.size \in Nat
    BY <1>1, ListingAssumption
  <2>2. (at' - 1) * query'.size = 0
    BY <1>1, <2>1
  <2>3. Found(query)' \in SUBSET (DOMAIN Catalogue)
    BY <1>1 DEF WalkInv, Found
  <2>4. \A n : Place(n, Found(query)', query'.sort) \in Nat
    BY <2>3, ListingAssumption, FS_Subset, PlaceGrows
  <2> QED
    BY <2>2, <2>4 DEF Overlooked
<1>4. Cardinality(Overlooked)' <= slips'
  BY <1>1, <1>3, FS_EmptySet
<1>5. WalkComplete'
  BY <1>1 DEF WalkComplete
<1> QED
  BY <1>1, <1>2, <1>4, <1>5 DEF WalkInv

\* After the count nothing is behind the last page.
LEMMA WalkCounts ==
  ASSUME WalkInv, Count
  PROVE  WalkInv'
<1>1. /\ reader = "counting" /\ reader' = "reading" /\ total' = Total(query)
      /\ UNCHANGED <<listed, query, at, seen, standing, slips>>
  BY DEF Count
<1>2. Found(query)' = Found(query) /\ Overlooked' = Overlooked
  BY <1>1 DEF Found, Overlooked
<1>3. total' \in Nat /\ Cardinality(Found(query)) <= total' /\ Cardinality(Found(query)) \in Nat
  BY <1>1, AllCounted, FiniteWalk DEF WalkInv
<1>4. Excess' = 0
  BY <1>2, <1>3 DEF Excess
<1>5. Cardinality(Overlooked) <= slips /\ Cardinality(Overlooked) \in Nat /\ slips \in Nat
  BY <1>1, FiniteWalk DEF WalkInv
<1>6. WalkComplete'
  BY <1>1 DEF WalkComplete
<1> QED
  BY <1>1, <1>2, <1>3, <1>4, <1>5, <1>6 DEF WalkInv

\* The page read shows the untied jobs at its places; after the last page the others are beyond it.
LEMMA WalkReads ==
  ASSUME WalkInv, Read
  PROVE  WalkInv'
<1> DEFINE F    == Found(query)
           base == (at - 1) * query.size
           gone == {n \in standing \ seen' : Untied(n, query.sort)}
           left == {n \in gone : base + query.size <= Place(n, F, query.sort)}
<1>1. reader = "reading" /\ UNCHANGED <<listed, query, total, standing, slips>>
  BY DEF Read
<1>2. PICK s \in Orders(F, query.sort) : seen' = seen \union Range(PageOf(s, at, query))
  BY DEF Read
<1>3. /\ F \in SUBSET (DOMAIN Catalogue) /\ IsFiniteSet(F) /\ Cardinality(F) \in Nat
      /\ Overlooked \in SUBSET F /\ IsFiniteSet(Overlooked) /\ Cardinality(Overlooked) \in Nat
      /\ query.size \in Nat \ {0} /\ query.sort \in Sorts /\ base \in Nat
  BY <1>1, FiniteWalk
<1>4. /\ query \in Queries /\ at \in Nat \ {0} /\ slips \in Nat /\ standing \subseteq F
      /\ total \in Nat /\ Cardinality(Overlooked) + Excess <= slips
  BY <1>1 DEF WalkInv
<1>5. F = Found(query)'
  BY <1>1 DEF Found
<1>6. \A n : Place(n, F, query.sort) \in Nat
  BY <1>3, PlaceGrows
<1>7. at * query.size = base + query.size
  BY <1>3, <1>4
<1> HIDE DEF base, F
<1>8. \A n \in gone : n \in Overlooked \/ n \in left
  <2>1. SUFFICES ASSUME NEW n \in gone, base <= Place(n, F, query.sort), Place(n, F, query.sort) < base + query.size
                 PROVE  FALSE
    BY <1>1, <1>2, <1>3, <1>6 DEF Overlooked, base, F
  <2> DEFINE k == Place(n, F, query.sort) + 1
  <2>2. n \in F /\ Untied(n, query.sort) /\ n \notin seen'
    BY <1>4
  <2>3. k \in 1..Cardinality(F) /\ s[k] = n
    BY <1>2, <1>3, <2>2, InItsPlace
  <2>4. s \in [1..Cardinality(F) -> F]
    BY <1>2 DEF Orders, SetToSeqs
  <2>5. base < k /\ k <= base + query.size
    BY <1>3, <1>6, <2>1
  <2> HIDE DEF k
  <2>6. s[k] \in Range(PageOf(s, at, query))
    BY <1>3, <1>4, <2>3, <2>4, <2>5, PageShows DEF base
  <2> QED
    BY <1>2, <2>2, <2>3, <2>6
<1>9. CASE at < TotalPages(total, query)
  <2>1. reader' = "counting" /\ at' = at + 1
    BY <1>9 DEF Read
  <2>2. (at' - 1) * query'.size = base + query.size
    BY <1>1, <1>4, <1>7, <2>1
  <2>3. Overlooked' \in SUBSET Overlooked
    <3>1. Overlooked' = {n \in gone : Place(n, F, query.sort) < base + query.size}
      BY <1>1, <1>5, <2>2 DEF Overlooked
    <3>2. \A n \in Overlooked' : n \notin left
      BY <1>3, <1>6, <3>1
    <3> QED
      BY <1>8, <3>1, <3>2
  <2>4. Cardinality(Overlooked') <= Cardinality(Overlooked) /\ Cardinality(Overlooked') \in Nat
    BY <1>3, <2>3, PartCounted
  <2>5. Excess \in Nat
    BY <1>3, <1>4 DEF Excess, F
  <2>6. Cardinality(Overlooked)' <= slips'
    BY <1>1, <1>3, <1>4, <2>4, <2>5
  <2>7. WalkComplete'
    BY <2>1 DEF WalkComplete
  <2> QED
    BY <1>1, <1>4, <1>5, <2>1, <2>6, <2>7 DEF WalkInv
<1>10. CASE ~(at < TotalPages(total, query))
  <2>1. reader' = "done" /\ at' = at
    BY <1>10 DEF Read
  <2>2. total <= base + query.size
    BY <1>3, <1>4, <1>7, <1>10, PagesHoldAll
  <2>3. Cardinality(left) <= Excess /\ Excess \in Nat /\ IsFiniteSet(left)
    <3>1. left \in SUBSET F /\ base + query.size \in Nat
      BY <1>3, <1>4
    <3>2. IsFiniteSet(left) /\ Cardinality(left) \in Nat
      BY <1>3, <3>1, PartCounted
    <3>3. Excess \in Nat /\ (Cardinality(F) > total => Excess = Cardinality(F) - total)
      BY <1>3, <1>4 DEF Excess, F
    <3>4. CASE left = {}
      BY <3>3, <3>4, FS_EmptySet
    <3>5. CASE left # {}
      <4>1. \A n \in left : Untied(n, query.sort) /\ base + query.size <= Place(n, F, query.sort)
        OBVIOUS
      <4> HIDE DEF left
      <4>2. base + query.size < Cardinality(F) /\ Cardinality(left) <= Cardinality(F) - (base + query.size)
        BY <1>3, <3>1, <3>5, <4>1, PlacesLeft
      <4> QED
        BY <1>3, <1>4, <2>2, <3>1, <3>2, <3>3, <4>2
    <3> QED
      BY <3>2, <3>3, <3>4, <3>5
  <2>4. gone \in SUBSET (Overlooked \union left)
    BY <1>8
  <2> HIDE DEF left, gone
  <2>5. /\ IsFiniteSet(Overlooked \union left) /\ Cardinality(left) \in Nat
        /\ Cardinality(Overlooked \union left) <= Cardinality(Overlooked) + Cardinality(left)
    <3>1. /\ IsFiniteSet(Overlooked \union left)
          /\ Cardinality(Overlooked \union left) =
               Cardinality(Overlooked) + Cardinality(left) - Cardinality(Overlooked \intersect left)
      BY <1>3, <2>3, FS_Union
    <3>2. Cardinality(Overlooked \intersect left) \in Nat
      BY <1>3, <2>3, FS_Intersection, FS_CardinalityType
    <3> QED
      BY <1>3, <2>3, <3>1, <3>2, FS_CardinalityType
  <2>6. Cardinality(gone) <= Cardinality(Overlooked \union left) /\ Cardinality(gone) \in Nat
        /\ Cardinality(Overlooked \union left) \in Nat
    BY <2>4, <2>5, PartCounted
  <2>7. Cardinality(gone) <= slips
    BY <1>3, <1>4, <2>3, <2>5, <2>6
  <2>8. WalkComplete'
    BY <1>1, <2>7 DEF WalkComplete, gone, Untied
  <2> QED
    BY <1>1, <1>4, <1>5, <2>1, <2>8 DEF WalkInv
<1> QED
  BY <1>9, <1>10

\* A job published moves others down only, and makes one more than was counted at most.
LEMMA WalkGrows ==
  ASSUME WalkInv, NEW c \in DOMAIN Catalogue, Publish(c)
  PROVE  WalkInv'
<1> DEFINE F == Found(query)
           G == Found(query)'
<1>1. /\ reader \in {"counting", "reading"} /\ listed' = listed \union {c}
      /\ slips' = IF reader = "reading" THEN slips + 1 ELSE slips
      /\ UNCHANGED <<reader, query, at, total, seen, standing>>
  BY DEF Publish
<1>2. /\ F \in SUBSET (DOMAIN Catalogue) /\ IsFiniteSet(F) /\ Cardinality(F) \in Nat
      /\ Overlooked \in SUBSET F /\ IsFiniteSet(Overlooked) /\ Cardinality(Overlooked) \in Nat
      /\ query.size \in Nat \ {0} /\ query.sort \in Sorts /\ (at - 1) * query.size \in Nat
  BY <1>1, FiniteWalk
<1>3. query \in Queries /\ at \in Nat \ {0} /\ slips \in Nat /\ standing \subseteq F
  BY <1>1 DEF WalkInv
<1>4. F \in SUBSET G /\ G \in SUBSET (F \union {c}) /\ IsFiniteSet(G) /\ Cardinality(G) \in Nat
      /\ Cardinality(G) <= Cardinality(F) + 1
  <2>1. F \in SUBSET G /\ G \in SUBSET (F \union {c})
    BY <1>1 DEF Found
  <2>2. IsFiniteSet(F \union {c}) /\ Cardinality(F \union {c}) \in {Cardinality(F), Cardinality(F) + 1}
    BY <1>2, FS_AddElement
  <2> HIDE DEF F, G
  <2> QED
    BY <1>2, <2>1, <2>2, PartCounted
<1>5. Overlooked' \in SUBSET Overlooked
  <2> HIDE DEF F, G
  <2>1. \A n : /\ Place(n, F, query.sort) \in Nat /\ Place(n, G, query.sort) \in Nat
               /\ Place(n, F, query.sort) <= Place(n, G, query.sort)
    BY <1>4, PlaceGrows
  <2>2. \A n : Place(n, G, query.sort) < (at - 1) * query.size => Place(n, F, query.sort) < (at - 1) * query.size
    BY <1>2, <2>1
  <2> QED
    BY <1>1, <2>2 DEF Overlooked, F, G
<1>6. Cardinality(Overlooked') <= Cardinality(Overlooked) /\ Cardinality(Overlooked') \in Nat
  BY <1>2, <1>5, PartCounted
<1>7. listed' \subseteq DOMAIN Catalogue /\ standing' \subseteq Found(query)'
  BY <1>1, <1>3, <1>4 DEF WalkInv
<1>8. WalkComplete'
  BY <1>1 DEF WalkComplete
<1>9. CASE reader = "counting"
  <2>1. Cardinality(Overlooked)' <= slips'
    BY <1>1, <1>2, <1>3, <1>6, <1>9 DEF WalkInv
  <2> QED
    BY <1>1, <1>3, <1>7, <1>8, <1>9, <2>1 DEF WalkInv
<1>10. CASE reader = "reading"
  <2>1. total \in Nat /\ Cardinality(Overlooked) + Excess <= slips
    BY <1>10 DEF WalkInv
  <2>2. Excess \in Nat /\ Excess' \in Nat /\ Excess' <= Excess + 1
    <3>1. Excess = IF Cardinality(F) > total THEN Cardinality(F) - total ELSE 0
      BY DEF Excess
    <3>2. Excess' = IF Cardinality(G) > total THEN Cardinality(G) - total ELSE 0
      BY <1>1 DEF Excess
    <3> HIDE DEF F, G
    <3> QED
      BY <1>2, <1>4, <2>1, <3>1, <3>2
  <2>3. Cardinality(Overlooked)' + Excess' <= slips'
    BY <1>1, <1>2, <1>3, <1>6, <1>10, <2>1, <2>2
  <2> QED
    BY <1>1, <1>3, <1>7, <1>8, <1>10, <2>1, <2>3 DEF WalkInv
<1> QED
  BY <1>1, <1>9, <1>10

\* A job withdrawn moves one untied job at most to a page read before.
LEMMA WalkShrinks ==
  ASSUME WalkInv, NEW c \in DOMAIN Catalogue, Withdraw(c)
  PROVE  WalkInv'
<1> DEFINE F    == Found(query)
           G    == Found(query)'
           base == (at - 1) * query.size
           edge == {n \in F : Untied(n, query.sort) /\ Place(n, F, query.sort) = base}
<1>1. /\ reader \in {"counting", "reading"} /\ listed' = listed \ {c} /\ standing' = standing \ {c}
      /\ slips' = slips + 1
      /\ UNCHANGED <<reader, query, at, total, seen>>
  BY DEF Withdraw
<1>2. /\ F \in SUBSET (DOMAIN Catalogue) /\ IsFiniteSet(F) /\ Cardinality(F) \in Nat
      /\ Overlooked \in SUBSET F /\ IsFiniteSet(Overlooked) /\ Cardinality(Overlooked) \in Nat
      /\ query.size \in Nat \ {0} /\ query.sort \in Sorts /\ base \in Nat
  BY <1>1, FiniteWalk
<1>3. query \in Queries /\ at \in Nat \ {0} /\ slips \in Nat /\ standing \subseteq F
  BY <1>1 DEF WalkInv
<1>4. G = F \ {c} /\ IsFiniteSet(G) /\ Cardinality(G) \in Nat /\ Cardinality(G) <= Cardinality(F)
  <2>1. G = F \ {c}
    BY <1>1 DEF Found
  <2> HIDE DEF F, G
  <2>2. G \in SUBSET F
    BY <2>1
  <2> QED
    BY <1>2, <2>1, <2>2, PartCounted
<1>5. Overlooked' \in SUBSET (Overlooked \union edge)
  <2>1. \A n : Place(n, F, query.sort) \in Nat
    BY <1>2, PlaceGrows
  <2>2. \A n : Place(n, G, query.sort) \in {Place(n, F, query.sort), Place(n, F, query.sort) - 1}
    <3> HIDE DEF F, G
    <3> QED
      BY <1>2, <1>4, PlaceAfterOneLeft
  <2>3. Overlooked' = {n \in (standing \ {c}) \ seen : Untied(n, query.sort) /\ Place(n, G, query.sort) < base}
    BY <1>1 DEF Overlooked
  <2> HIDE DEF G
  <2>4. \A n : Place(n, G, query.sort) < base => Place(n, F, query.sort) < base \/ Place(n, F, query.sort) = base
    <3> HIDE DEF base, F
    <3> QED
      BY <1>2, <2>1, <2>2
  <2> QED
    BY <1>3, <2>3, <2>4 DEF Overlooked
<1>6. \E x : edge \subseteq {x}
  <2>1. \A a, b \in edge : a = b
    <3> HIDE DEF F, base
    <3> QED
      BY <1>2, OwnPlace
  <2> HIDE DEF edge
  <2> QED
    BY <2>1
<1>7. Cardinality(Overlooked') \in Nat /\ Cardinality(Overlooked') <= Cardinality(Overlooked) + 1
  <2>1. PICK x : edge \subseteq {x}
    BY <1>6
  <2>2. Overlooked' \in SUBSET (Overlooked \union {x})
    BY <1>5, <2>1
  <2> HIDE DEF edge
  <2>3. /\ IsFiniteSet(Overlooked \union {x})
        /\ Cardinality(Overlooked \union {x}) \in {Cardinality(Overlooked), Cardinality(Overlooked) + 1}
    BY <1>2, FS_AddElement
  <2>4. Cardinality(Overlooked') \in Nat /\ Cardinality(Overlooked') <= Cardinality(Overlooked \union {x})
    BY <2>2, <2>3, PartCounted
  <2> QED
    BY <1>2, <2>3, <2>4
<1>8. listed' \subseteq DOMAIN Catalogue /\ standing' \subseteq Found(query)'
  BY <1>1, <1>3, <1>4 DEF WalkInv
<1>9. WalkComplete'
  BY <1>1 DEF WalkComplete
<1>10. CASE reader = "counting"
  <2>1. Cardinality(Overlooked)' <= slips'
    BY <1>1, <1>2, <1>3, <1>7, <1>10 DEF WalkInv
  <2> QED
    BY <1>1, <1>3, <1>8, <1>9, <1>10, <2>1 DEF WalkInv
<1>11. CASE reader = "reading"
  <2>1. total \in Nat /\ Cardinality(Overlooked) + Excess <= slips
    BY <1>11 DEF WalkInv
  <2>2. Excess \in Nat /\ Excess' \in Nat /\ Excess' <= Excess
    <3>1. Excess = IF Cardinality(F) > total THEN Cardinality(F) - total ELSE 0
      BY DEF Excess
    <3>2. Excess' = IF Cardinality(G) > total THEN Cardinality(G) - total ELSE 0
      BY <1>1 DEF Excess
    <3> HIDE DEF F, G
    <3> QED
      BY <1>2, <1>4, <2>1, <3>1, <3>2
  <2>3. Cardinality(Overlooked)' + Excess' <= slips'
    BY <1>1, <1>2, <1>3, <1>7, <2>1, <2>2
  <2> QED
    BY <1>1, <1>3, <1>8, <1>9, <1>11, <2>1, <2>3 DEF WalkInv
<1> QED
  BY <1>1, <1>10, <1>11

\* A step of no part of it changes nothing.
LEMMA WalkStutters ==
  ASSUME WalkInv, UNCHANGED listingVars
  PROVE  WalkInv'
BY DEF WalkInv, WalkComplete, Overlooked, Excess, Found, listingVars

\* Whoever follows the pages of a search to the last one has seen every job that matched all
\* along, but for as many as the list changed behind the reader's back, and ties: for every
\* catalogue, every query and every page size (search.py: total_pages, offset, the order, the
\* count over the join).
THEOREM EveryPageRead == ListingSpec => []WalkComplete
<1>1. ListingInit => WalkInv
  BY DEF ListingInit, WalkInv, WalkComplete
<1>2. WalkInv /\ [ListingNext]_listingVars => WalkInv'
  BY WalkBegins, WalkCounts, WalkReads, WalkGrows, WalkShrinks, WalkStutters DEF ListingNext
<1>3. WalkInv => WalkComplete
  BY DEF WalkInv
<1> QED
  BY <1>1, <1>2, <1>3, PTL DEF ListingSpec
-----------------------------------------------------------------------------
(* The lists beside the search.                                            *)

\* The newest first: some list has all the jobs of a set in this order.
LEMMA NewestInOrder ==
  ASSUME NEW S \in SUBSET (DOMAIN Catalogue)
  PROVE  /\ Orders(S, "newest") # {} /\ IsFiniteSet(S) /\ Cardinality(S) \in Nat
         /\ \A s \in Orders(S, "newest") : s \in Bijection(1..Cardinality(S), S)
<1> DEFINE R == {e \in S \X S : Before(e[1], e[2], "newest")}
           s == InOrder(S, R)
           n == Cardinality(S)
<1>1. IsFiniteSet(S) /\ n \in Nat
  BY ListingAssumption, FS_Subset, FS_CardinalityType
<1>2. \A a, b \in DOMAIN Catalogue : ~Tied(a, b, "newest")
  <2> SUFFICES ASSUME NEW a \in DOMAIN Catalogue, NEW b \in DOMAIN Catalogue PROVE ~Tied(a, b, "newest")
    OBVIOUS
  <2>1. SortKey(a, "newest")[3] = a /\ SortKey(b, "newest")[3] = b
    BY DEF SortKey
  <2> QED
    BY <2>1 DEF Tied
<1>3. \A a, b \in S : <<a, b>> \in R <=> Before(a, b, "newest")
  OBVIOUS
<1>4. LinearOn(R, S)
  <2>1. \A a \in S : ~Before(a, a, "newest")
    BY BeforeIsOrder DEF Sorts
  <2>2. \A a, b \in S : a # b => Before(a, b, "newest") \/ Before(b, a, "newest")
    BY <1>2, BeforeIsOrder DEF Sorts
  <2>3. \A a, b, c \in S : Before(a, b, "newest") /\ Before(b, c, "newest") => Before(a, c, "newest")
    BY BeforeIsOrder DEF Sorts
  <2> HIDE DEF R
  <2> QED
    BY <1>3, <2>1, <2>2, <2>3 DEF LinearOn
<1>5. /\ s \in [1..n -> S]
      /\ \A k, m \in 1..n : k < m => <<s[k], s[m]>> \in R
  <2> HIDE DEF R
  <2> QED
    BY <1>1, <1>4, InOrderIs
<1> HIDE DEF R, s
<1>6. \A k, m \in 1..n : k # m => s[k] # s[m]
  <2> SUFFICES ASSUME NEW k \in 1..n, NEW m \in 1..n, k < m PROVE s[k] # s[m]
    BY <1>1
  <2> QED
    BY <1>4, <1>5 DEF LinearOn
<1>7. \A k, m \in DOMAIN s : k < m => ~Before(s[m], s[k], "newest")
  <2> SUFFICES ASSUME NEW k \in DOMAIN s, NEW m \in DOMAIN s, k < m PROVE ~Before(s[m], s[k], "newest")
    OBVIOUS
  <2>1. k \in 1..n /\ m \in 1..n /\ s[k] \in S /\ s[m] \in S
    BY <1>5
  <2>2. Before(s[k], s[m], "newest")
    BY <1>3, <1>5, <2>1
  <2> QED
    BY <2>1, <2>2, BeforeIsOrder DEF Sorts
<1>8. s \in Orders(S, "newest")
  BY <1>5, <1>6, <1>7 DEF Orders, SetToSeqs
<1>9. ASSUME NEW r \in Orders(S, "newest") PROVE r \in Bijection(1..n, S)
  <2>1. r \in [1..n -> S] /\ \A i, j \in 1..n : i # j => r[i] # r[j]
    BY DEF Orders, SetToSeqs
  <2>2. r \in Injection(1..n, S)
    BY <2>1 DEF Injection, IsInjective
  <2>3. IsFiniteSet(1..n) /\ Cardinality(1..n) = n
    <3>1. 1 \in Int /\ n \in Int
      BY <1>1
    <3> HIDE DEF n
    <3>2. IsFiniteSet(1..n) /\ Cardinality(1..n) = IF 1 > n THEN 0 ELSE n - 1 + 1
      BY <3>1, FS_Interval
    <3> QED
      BY <1>1, <3>2
  <2>4. r \in Surjection(1..n, S)
    BY <1>1, <2>2, <2>3, FS_Injection
  <2> QED
    BY <2>2, <2>4 DEF Bijection
<1> QED
  BY <1>1, <1>8, <1>9 DEF n

\* A list without repetitions, of members of S.
ListOf(r, S) ==
  /\ r \in Seq(S) /\ Len(r) \in Nat
  /\ \A k, m \in 1..Len(r) : r[k] = r[m] => k = m

\* The start of a list is a list, of as many at most as are asked for.
LEMMA StartIs ==
  ASSUME NEW S, NEW r, ListOf(r, S), NEW limit \in Nat
  PROVE  LET u == UpTo(limit, r) IN
         /\ ListOf(u, S) /\ Len(u) = (IF Len(r) > limit THEN limit ELSE Len(r))
         /\ \A k \in 1..Len(u) : u[k] = r[k] /\ k \in 1..Len(r)
<1> DEFINE n == IF Len(r) > limit THEN limit ELSE Len(r)
           u == SubSeq(r, 1, n)
<1>1. r \in Seq(S) /\ Len(r) \in Nat /\ \A k, m \in 1..Len(r) : r[k] = r[m] => k = m
  BY DEF ListOf
<1>2. n \in Nat /\ n <= Len(r) /\ n <= limit
  BY <1>1
<1>3. UpTo(limit, r) = u
  BY DEF UpTo
<1> HIDE DEF n
<1>4. \A i \in 1..n : r[i] \in S
  BY <1>1, <1>2, LenProperties
<1>5. /\ u \in Seq(S) /\ Len(u) = IF 1 <= n THEN n - 1 + 1 ELSE 0
      /\ \A i \in 1..(n - 1 + 1) : u[i] = r[1 + i - 1]
  BY <1>1, <1>2, <1>4, SubSeqProperties
<1> HIDE DEF u
<1>6. Len(u) = n /\ \A k \in 1..Len(u) : u[k] = r[k] /\ k \in 1..Len(r)
  BY <1>1, <1>2, <1>5
<1>7. ListOf(u, S)
  BY <1>1, <1>2, <1>5, <1>6 DEF ListOf
<1> QED
  BY <1>3, <1>6, <1>7 DEF n

\* The first page of the newest: jobs found, each once, and all of them if they fit.
LEMMA NewestAre ==
  ASSUME NEW f, f.size \in Nat, Found(f) \subseteq DOMAIN Catalogue
  PROVE  /\ ListOf(Newest(f), Found(f))
         /\ Cardinality(Found(f)) <= f.size => \A n \in Found(f) : \E k \in 1..Len(Newest(f)) : Newest(f)[k] = n
<1> DEFINE S == Found(f)
           c == Cardinality(S)
           s == CHOOSE r \in Orders(S, "newest") : TRUE
<1>1. c \in Nat /\ s \in Bijection(1..c, S)
  BY NewestInOrder
<1>2. Newest(f) = UpTo(f.size, SubSeq(s, (1 - 1) * f.size + 1, Len(s)))
  BY DEF Newest, PageOf
<1> HIDE DEF s, c
<1>3. /\ s \in [1..c -> S] /\ (\A k, m \in 1..c : s[k] = s[m] => k = m)
      /\ \A n \in S : \E k \in 1..c : s[k] = n
  BY <1>1 DEF Bijection, Injection, Surjection, IsInjective
<1>4. Len(s) = c /\ s \in Seq(S)
  BY <1>1, <1>3, SeqDef, LenProperties
<1>5. (1 - 1) * f.size + 1 = 1
  OBVIOUS
<1> DEFINE r == SubSeq(s, 1, c)
<1>6. /\ r \in Seq(S) /\ Len(r) = c /\ \A k \in 1..c : r[k] = s[k]
  <2>1. \A i \in 1..c : s[i] \in S
    BY <1>3
  <2>2. /\ r \in Seq(S) /\ Len(r) = IF 1 <= c THEN c - 1 + 1 ELSE 0
        /\ \A i \in 1..(c - 1 + 1) : r[i] = s[1 + i - 1]
    BY <1>1, <1>4, <2>1, SubSeqProperties
  <2> HIDE DEF r
  <2> QED
    BY <1>1, <2>2
<1>7. Newest(f) = UpTo(f.size, r)
  BY <1>2, <1>4, <1>5
<1> HIDE DEF r
<1>8. ListOf(r, S)
  BY <1>1, <1>3, <1>6 DEF ListOf
<1>9. /\ ListOf(Newest(f), S) /\ Len(Newest(f)) = (IF c > f.size THEN f.size ELSE c)
      /\ \A k \in 1..Len(Newest(f)) : Newest(f)[k] = r[k]
  BY <1>6, <1>7, <1>8, StartIs
<1>10. ASSUME c <= f.size, NEW n \in S PROVE \E k \in 1..Len(Newest(f)) : Newest(f)[k] = n
  <2>1. Len(Newest(f)) = c
    BY <1>1, <1>9, <1>10
  <2> QED
    BY <1>3, <1>6, <1>9, <2>1
<1> QED
  BY <1>9, <1>10 DEF c
\* Two lists that have nothing in common follow one another in a list.
LEMMA JoinedIs ==
  ASSUME NEW S, NEW a, NEW b, ListOf(a, S), ListOf(b, S),
         \A k \in 1..Len(b), m \in 1..Len(a) : a[m] # b[k]
  PROVE  /\ ListOf(a \o b, S)
         /\ \A m \in 1..Len(a) : m \in 1..Len(a \o b) /\ (a \o b)[m] = a[m]
<1> DEFINE c == a \o b
<1>1. /\ a \in Seq(S) /\ Len(a) \in Nat /\ \A k, m \in 1..Len(a) : a[k] = a[m] => k = m
      /\ b \in Seq(S) /\ Len(b) \in Nat /\ \A k, m \in 1..Len(b) : b[k] = b[m] => k = m
  BY DEF ListOf
<1>2. /\ c \in Seq(S) /\ Len(c) = Len(a) + Len(b)
      /\ \A i \in 1..(Len(a) + Len(b)) : c[i] = IF i <= Len(a) THEN a[i] ELSE b[i - Len(a)]
  BY <1>1, ConcatProperties
<1> HIDE DEF c
<1>3. \A m \in 1..Len(a) : m \in 1..Len(c) /\ c[m] = a[m]
  BY <1>1, <1>2
<1>4. ASSUME NEW i \in 1..Len(c)
      PROVE  (i \in 1..Len(a) /\ c[i] = a[i]) \/ (i - Len(a) \in 1..Len(b) /\ c[i] = b[i - Len(a)])
  BY <1>1, <1>2
<1>5. ASSUME NEW k \in 1..Len(c), NEW m \in 1..Len(c), c[k] = c[m] PROVE k = m
  <2>1. CASE k \in 1..Len(a) /\ c[k] = a[k] /\ m \in 1..Len(a) /\ c[m] = a[m]
    BY <1>1, <1>5, <2>1
  <2>2. CASE /\ k - Len(a) \in 1..Len(b) /\ c[k] = b[k - Len(a)]
             /\ m - Len(a) \in 1..Len(b) /\ c[m] = b[m - Len(a)]
    <3>1. k - Len(a) = m - Len(a)
      BY <1>1, <1>5, <2>2
    <3>2. k \in Int /\ m \in Int
      BY <1>1, <1>2
    <3> QED
      BY <1>1, <3>1, <3>2
  <2>3. CASE k \in 1..Len(a) /\ c[k] = a[k] /\ m - Len(a) \in 1..Len(b) /\ c[m] = b[m - Len(a)]
    BY <1>5, <2>3
  <2>4. CASE m \in 1..Len(a) /\ c[m] = a[m] /\ k - Len(a) \in 1..Len(b) /\ c[k] = b[k - Len(a)]
    BY <1>5, <2>4
  <2> QED
    BY <1>4, <2>1, <2>2, <2>3, <2>4
<1>6. ListOf(c, S)
  BY <1>1, <1>2, <1>5 DEF ListOf
<1> QED
  BY <1>3, <1>6 DEF c

\* A list of some jobs is one of more.
LEMMA ListWidens ==
  ASSUME NEW S, NEW T, S \subseteq T, NEW r, ListOf(r, S)
  PROVE  ListOf(r, T)
<1>1. r \in Seq(S) /\ Len(r) \in Nat
  BY DEF ListOf
<1>2. r \in [1..Len(r) -> S]
  BY <1>1, LenProperties
<1>3. r \in [1..Len(r) -> T]
  BY <1>2
<1>4. r \in Seq(T)
  BY <1>1, <1>3, SeqDef
<1> QED
  BY <1>4 DEF ListOf

\* The shortlist holds listed jobs, each once, and all that suit the profile if they fit.
LEMMA ShortlistIs ==
  ASSUME listed \subseteq DOMAIN Catalogue, NEW p
  PROVE  /\ ListOf(Shortlist(p), listed)
         /\ Cardinality(Found(Preferred(p))) <= ShortlistSize =>
              \A n \in Found(Preferred(p)) : \E k \in 1..Len(Shortlist(p)) : Shortlist(p)[k] = n
<1> DEFINE a == Newest(Preferred(p))
           b == Newest(Anything)
           P == {i \in DOMAIN b : ~Contains(a, b[i])}
           c == Selected(b, P)
<1>1. ShortlistSize \in Nat
  BY ListingAssumption
<1>2. Preferred(p).size = ShortlistSize /\ Anything.size = ShortlistSize
  BY DEF Preferred, Anything
<1>3. Found(Preferred(p)) \subseteq listed /\ Found(Anything) \subseteq listed
  BY DEF Found
<1>4. /\ ListOf(a, listed) /\ ListOf(b, listed)
      /\ Cardinality(Found(Preferred(p))) <= ShortlistSize =>
           \A n \in Found(Preferred(p)) : \E k \in 1..Len(a) : a[k] = n
  BY <1>1, <1>2, <1>3, NewestAre, ListWidens
<1>5. Shortlist(p) = IF Len(a) < Widen THEN a \o c ELSE a
  BY DEF Shortlist
<1> HIDE DEF a, b
<1>6. /\ b \in Seq(listed) /\ Len(b) \in Nat /\ DOMAIN b = 1..Len(b)
      /\ \A k, m \in 1..Len(b) : b[k] = b[m] => k = m
  BY <1>4, LenProperties DEF ListOf
<1>7. P \in SUBSET (DOMAIN b)
  OBVIOUS
<1>8. /\ c \in Seq(listed) /\ \E f : Takes(f, c, b, P)
  <2> HIDE DEF P
  <2> QED
    BY <1>6, <1>7, SelectedIs
<1> HIDE DEF c
<1>9. PICK f : Takes(f, c, b, P)
  BY <1>8
<1>10. /\ f \in [1..Len(c) -> P] /\ Len(c) \in Nat
       /\ \A k \in 1..Len(c) : c[k] = b[f[k]]
       /\ \A k, m \in 1..Len(c) : k < m => f[k] < f[m]
  <2> HIDE DEF P
  <2> QED
    BY <1>8, <1>9, LenProperties DEF Takes
<1>11. ListOf(c, listed)
  <2>1. ASSUME NEW k \in 1..Len(c), NEW m \in 1..Len(c), k < m PROVE c[k] # c[m]
    <3>1. f[k] \in 1..Len(b) /\ f[m] \in 1..Len(b) /\ f[k] < f[m]
      BY <1>6, <1>10, <2>1
    <3> QED
      BY <1>6, <1>10, <3>1
  <2>2. \A k, m \in 1..Len(c) : c[k] = c[m] => k = m
    BY <1>10, <2>1
  <2> QED
    BY <1>8, <1>10, <2>2 DEF ListOf
<1>12. \A k \in 1..Len(c), m \in 1..Len(a) : a[m] # c[k]
  <2> SUFFICES ASSUME NEW k \in 1..Len(c) PROVE \A m \in 1..Len(a) : a[m] # c[k]
    OBVIOUS
  <2>1. f[k] \in P /\ c[k] = b[f[k]]
    BY <1>10
  <2> QED
    BY <2>1 DEF Contains
<1>13. /\ ListOf(a \o c, listed)
       /\ \A m \in 1..Len(a) : m \in 1..Len(a \o c) /\ (a \o c)[m] = a[m]
  BY <1>4, <1>11, <1>12, JoinedIs
<1>14. CASE Len(a) < Widen
  <2>1. Shortlist(p) = a \o c
    BY <1>5, <1>14
  <2> QED
    BY <1>4, <1>13, <2>1
<1>15. CASE ~(Len(a) < Widen)
  BY <1>4, <1>5, <1>15
<1> QED
  BY <1>14, <1>15
-----------------------------------------------------------------------------
(* Scores.                                                                 *)

\* A share of the points there are is at most all of them.
LEMMA ShareIs ==
  ASSUME NEW n \in Nat, NEW m \in Nat \ {0}
  PROVE  (3000 * n) \div m \in Nat
<1>1. 3000 * n \in Nat
  BY SMT
<1> DEFINE x == 3000 * n
<1> HIDE DEF x
<1>2. x \div m \in Nat
  BY <1>1, SMT DEF x
<1> QED
  BY <1>2 DEF x

\* No part of a score has more than its weight.
LEMMA PartsOfScore ==
  ASSUME NEW j, IsFiniteSet(j.skills), NEW p
  PROVE  /\ SkillPoints(j, p) \in 0..3000 /\ CategoryPoints(j, p) \in 0..1800
         /\ LocationPoints(j, p) \in 0..1500 /\ RemotePoints(j, p) \in 0..800 /\ SalaryPoints(j, p) \in 0..700
<1>1. SkillPoints(j, p) \in 0..3000
  <2> DEFINE most  == IF Cardinality(j.skills) > 8 THEN 8 ELSE Cardinality(j.skills)
             n     == Cardinality(p.skills \intersect j.skills)
             share == (3000 * n) \div most
  <2>1. SkillPoints(j, p) = IF p.skills = {} \/ j.skills = {} THEN 750 ELSE IF share > 3000 THEN 3000 ELSE share
    BY SMT DEF SkillPoints
  <2>2. CASE p.skills = {} \/ j.skills = {}
    <3>1. SkillPoints(j, p) = 750
      <4> HIDE DEF share
      <4> QED
        BY <2>1, <2>2, Zenon
    <3>2. 750 \in 0..3000
      BY SMT
    <3> QED
      BY ONLY <3>1, <3>2
  <2>3. CASE ~(p.skills = {} \/ j.skills = {})
    <3>1. Cardinality(j.skills) \in Nat \ {0}
      BY <2>3, FS_CardinalityType, FS_EmptySet
    <3>2. n \in Nat
      BY FS_Subset, FS_CardinalityType
    <3>3. most \in Nat \ {0}
      BY <3>1, SMT
    <3>4. share \in Nat
      <4> HIDE DEF most, n
      <4> QED
        BY <3>2, <3>3, ShareIs
    <3> DEFINE capped == IF share > 3000 THEN 3000 ELSE share
    <3>5. capped \in 0..3000
      <4> HIDE DEF share
      <4> QED
        BY <3>4, SMT
    <3>6. SkillPoints(j, p) = capped
      <4> HIDE DEF share
      <4> QED
        BY <2>1, <2>3, Zenon
    <3> HIDE DEF capped
    <3> QED
      BY ONLY <3>5, <3>6, SMT
  <2> QED
    BY <2>2, <2>3
<1>2. CategoryPoints(j, p) \in {540, 1800, 1080, 0}
  BY DEF CategoryPoints
<1>3. LocationPoints(j, p) \in {600, 1500, 1050, 1275, 0}
  BY SMT DEF LocationPoints
<1>4. RemotePoints(j, p) \in {800, 0, 320, 240, 400}
  BY DEF RemotePoints
<1>5. SalaryPoints(j, p) \in {280, 700, 420, 0}
  BY SMT DEF SalaryPoints
<1> HIDE DEF SkillPoints, CategoryPoints, LocationPoints, RemotePoints, SalaryPoints
<1> QED
  BY <1>1, <1>2, <1>3, <1>4, <1>5, SMT

\* How close two levels are is a percentage.
LEMMA AffinityIs ==
  ASSUME NEW a, NEW b
  PROVE  Affinity(a, b) \in {100, 70, 35, 10, 50}
BY DEF Affinity

\* A score is between nothing and a hundred points.
LEMMA ScoreIs ==
  ASSUME NEW n \in DOMAIN Catalogue, NEW p
  PROVE  MatchScore(Catalogue[n], p) \in TenThousandths
<1> DEFINE j      == Catalogue[n]
           level  == IF p.level # None /\ j.experience # "unknown" THEN 12 * Affinity(p.level, j.experience) ELSE 480
           age    == Today - j.posted
           fresh  == IF age >= 30 THEN 0 ELSE IF age < 0 THEN 600 ELSE 600 - 20 * age
           a == SkillPoints(j, p)
           b == CategoryPoints(j, p)
           c == LocationPoints(j, p)
           d == RemotePoints(j, p)
           e == SalaryPoints(j, p)
<1>1. /\ j.posted \in Int /\ j.quality \in 0..100 /\ IsFiniteSet(j.skills)
      /\ Today \in Int
  BY ListingAssumption, NormalizerAssumption
<1>2. MatchScore(j, p) = a + b + c + d + e + level + fresh + 4 * j.quality
  BY SMT DEF MatchScore
<1> HIDE DEF j
<1>3. a \in 0..3000 /\ b \in 0..1800 /\ c \in 0..1500 /\ d \in 0..800 /\ e \in 0..700
  BY <1>1, PartsOfScore, SMT
<1>4. level \in 0..1200
  <2>1. Affinity(p.level, j.experience) \in {100, 70, 35, 10, 50}
    BY AffinityIs
  <2> DEFINE x == Affinity(p.level, j.experience)
  <2> HIDE DEF x
  <2>2. 12 * x \in 0..1200
    BY <2>1, SMT DEF x
  <2> QED
    BY <2>2, SMT DEF x
<1>5. fresh \in 0..600
  <2>1. age \in Int
    BY <1>1
  <2> HIDE DEF age
  <2> QED
    BY <2>1, SMT
<1> HIDE DEF level, fresh, a, b, c, d, e
<1>6. a + b + c + d + e + level + fresh + 4 * j.quality \in TenThousandths
  <2> DEFINE quality == j.quality
  <2>1. quality \in 0..100
    BY <1>1
  <2> HIDE DEF quality
  <2>2. a + b + c + d + e \in 0..7800
    BY <1>3, SMT
  <2> DEFINE sum == a + b + c + d + e
  <2> HIDE DEF sum
  <2>3. sum \in 0..7800
    BY <2>2 DEF sum
  <2>4. sum + level + fresh + 4 * quality \in TenThousandths
    BY <1>4, <1>5, <2>1, <2>3, SMT DEF TenThousandths
  <2> QED
    BY <2>4 DEF quality, sum
<1>7. MatchScore(j, p) \in TenThousandths
  BY <1>2, <1>6, SMT
<1> QED
  BY <1>7 DEF j
-----------------------------------------------------------------------------
(* A feed.                                                                 *)

\* The best first: jobs of the list, each once, and any that is left out has no higher a score.
LEMMA BestFirstIs ==
  ASSUME listed \subseteq DOMAIN Catalogue, NEW s, ListOf(s, listed), NEW p
  PROVE  LET r == BestFirst(s, p) IN
         /\ ListOf(r, listed)
         /\ \A i \in 1..Len(s) :
              \/ \E k \in 1..Len(r) : r[k] = s[i]
              \/ \A k \in 1..Len(r) : MatchScore(Catalogue[s[i]], p) <= MatchScore(Catalogue[r[k]], p)
<1> DEFINE D == DOMAIN s
           score(i) == MatchScore(Catalogue[s[i]], p)
           better == {e \in D \X D : score(e[1]) > score(e[2]) \/ (score(e[1]) = score(e[2]) /\ e[1] < e[2])}
           order == InOrder(D, better)
           q == [k \in DOMAIN order |-> s[order[k]]]
           r == BestFirst(s, p)
           n == Len(s)
<1>1. s \in Seq(listed) /\ n \in Nat /\ D = 1..n /\ \A k, m \in 1..n : s[k] = s[m] => k = m
  BY LenProperties DEF ListOf
<1>2. IsFiniteSet(D) /\ Cardinality(D) = n
  <2>1. 1 \in Int /\ n \in Int
    BY <1>1
  <2> HIDE DEF n
  <2>2. IsFiniteSet(1..n) /\ Cardinality(1..n) = IF 1 > n THEN 0 ELSE n - 1 + 1
    BY <2>1, FS_Interval
  <2> HIDE DEF D
  <2> QED
    BY <1>1, <2>2
<1>3. \A i \in D : s[i] \in listed /\ score(i) \in Int
  <2> SUFFICES ASSUME NEW i \in D PROVE s[i] \in listed /\ score(i) \in Int
    OBVIOUS
  <2>1. s[i] \in listed
    BY <1>1
  <2>2. score(i) \in TenThousandths
    BY <2>1, ScoreIs
  <2>3. \A x \in TenThousandths : x \in Int
    BY SMT DEF TenThousandths
  <2> HIDE DEF score
  <2> QED
    BY <2>1, <2>2, <2>3
<1>4. r = UpTo(FeedSize, q)
  BY DEF BestFirst
<1> HIDE DEF score, r
<1>5. \A i, j \in D : <<i, j>> \in better <=> score(i) > score(j) \/ (score(i) = score(j) /\ i < j)
  OBVIOUS
<1>6. \A i \in D : i \in Int
  BY <1>1
<1>7. LinearOn(better, D)
  <2> HIDE DEF better, D
  <2>1. \A i \in D : <<i, i>> \notin better
    BY <1>3, <1>5, <1>6
  <2>2. \A i, j \in D : i # j => <<i, j>> \in better \/ <<j, i>> \in better
    BY <1>3, <1>5, <1>6
  <2>3. \A i, j, k \in D : <<i, j>> \in better /\ <<j, k>> \in better => <<i, k>> \in better
    BY <1>3, <1>5, <1>6
  <2> QED
    BY <2>1, <2>2, <2>3 DEF LinearOn
<1>8. /\ order \in [1..n -> D]
      /\ \A i \in D : \E k \in 1..n : order[k] = i
      /\ \A k, m \in 1..n : k < m => <<order[k], order[m]>> \in better
  <2> HIDE DEF better, D
  <2>1. /\ order \in [1..Cardinality(D) -> D]
        /\ \A i \in D : \E k \in 1..Cardinality(D) : order[k] = i
        /\ \A k, m \in 1..Cardinality(D) : k < m => <<order[k], order[m]>> \in better
    BY <1>2, <1>7, InOrderIs
  <2> HIDE DEF order, n
  <2> QED
    BY <1>2, <2>1
<1> HIDE DEF order, better
<1>9. \A k, m \in 1..n : order[k] = order[m] => k = m
  <2> SUFFICES ASSUME NEW k \in 1..n, NEW m \in 1..n, k < m PROVE order[k] # order[m]
    BY <1>1
  <2>1. <<order[k], order[m]>> \in better /\ order[k] \in D
    BY <1>8
  <2> HIDE DEF D
  <2> QED
    BY <1>7, <2>1 DEF LinearOn
<1>10. q \in [1..n -> listed] /\ \A k \in 1..n : q[k] = s[order[k]]
  BY <1>3, <1>8
<1> HIDE DEF q
<1>11. q \in Seq(listed) /\ Len(q) = n
  BY <1>1, <1>10, SeqDef, LenProperties
<1>12. ListOf(q, listed)
  <2>1. \A k, m \in 1..n : q[k] = q[m] => k = m
    <3> SUFFICES ASSUME NEW k \in 1..n, NEW m \in 1..n, q[k] = q[m] PROVE k = m
      OBVIOUS
    <3>1. order[k] \in 1..n /\ order[m] \in 1..n /\ s[order[k]] = s[order[m]]
      BY <1>1, <1>8, <1>10
    <3>2. order[k] = order[m]
      BY <1>1, <3>1
    <3> QED
      BY <1>9, <3>2
  <2> QED
    BY <1>1, <1>11, <2>1 DEF ListOf
<1>13. /\ ListOf(r, listed) /\ Len(r) \in Nat
       /\ \A k \in 1..Len(r) : r[k] = q[k] /\ k \in 1..n
       /\ Len(r) <= n
  <2>1. FeedSize \in Nat
    BY ListingAssumption
  <2>2. /\ ListOf(r, listed) /\ Len(r) = (IF n > FeedSize THEN FeedSize ELSE n)
        /\ \A k \in 1..Len(r) : r[k] = q[k] /\ k \in 1..n
    BY <1>4, <1>11, <1>12, <2>1, StartIs
  <2> QED
    BY <1>1, <2>1, <2>2
<1>14. ASSUME NEW i \in 1..n, ~\E k \in 1..Len(r) : r[k] = s[i], NEW m \in 1..Len(r)
       PROVE  score(i) <= MatchScore(Catalogue[r[m]], p)
  <2>1. PICK k \in 1..n : order[k] = i
    BY <1>1, <1>8
  <2>2. k \notin 1..Len(r)
    BY <1>10, <1>13, <1>14, <2>1
  <2>3. m \in 1..n /\ m < k
    BY <1>1, <1>13, <2>2
  <2>4. <<order[m], order[k]>> \in better /\ order[m] \in D /\ order[k] \in D
    BY <1>8, <2>3
  <2>5. score(order[m]) >= score(i)
    <3> HIDE DEF D
    <3> QED
      BY <1>3, <1>5, <2>1, <2>4
  <2>6. r[m] = s[order[m]]
    BY <1>10, <1>13, <2>3
  <2>7. score(order[m]) = MatchScore(Catalogue[r[m]], p)
    BY <2>6 DEF score
  <2>8. score(order[m]) \in Int /\ score(i) \in Int
    BY <1>1, <1>3, <2>4
  <2> QED
    BY <2>5, <2>7, <2>8
<1> QED
  BY <1>13, <1>14 DEF r, n, score

\* A feed holds listed jobs, each once, and none that scores below one it leaves out.
LEMMA FeedIs ==
  ASSUME listed \subseteq DOMAIN Catalogue, NEW p
  PROVE  FeedFits(Feed(p), p)
<1> DEFINE s == Shortlist(p)
           r == Feed(p)
<1>1. /\ ListOf(s, listed)
      /\ Cardinality(Found(Preferred(p))) <= ShortlistSize =>
           \A n \in Found(Preferred(p)) : \E k \in 1..Len(s) : s[k] = n
  BY ShortlistIs
<1>2. r = BestFirst(s, p)
  BY DEF Feed
<1> HIDE DEF r, s
<1>3. /\ ListOf(r, listed)
      /\ \A i \in 1..Len(s) :
           \/ \E k \in 1..Len(r) : r[k] = s[i]
           \/ \A k \in 1..Len(r) : MatchScore(Catalogue[s[i]], p) <= MatchScore(Catalogue[r[k]], p)
  BY <1>1, <1>2, BestFirstIs
<1>4. /\ r \in [1..Len(r) -> listed] /\ Len(r) \in Nat /\ DOMAIN r = 1..Len(r)
      /\ \A k, m \in 1..Len(r) : r[k] = r[m] => k = m
  BY <1>3, LenProperties DEF ListOf
<1>5. Range(r) \subseteq listed /\ \A n \in Range(r) : \E k \in 1..Len(r) : r[k] = n
  BY <1>4 DEF Range
<1>6. Cardinality(Range(r)) = Len(r)
  <2> DEFINE c == Len(r)
             D == 1..c
  <2>1. IsFiniteSet(D) /\ Cardinality(D) = c
    <3>1. c \in Nat
      BY <1>4
    <3> HIDE DEF c
    <3>2. 1 \in Int /\ c \in Int
      BY <3>1
    <3>3. IsFiniteSet(1..c) /\ Cardinality(1..c) = IF 1 > c THEN 0 ELSE c - 1 + 1
      BY <3>2, FS_Interval
    <3> QED
      BY <3>1, <3>3
  <2>2. r \in Bijection(D, Range(r))
    BY <1>4 DEF Range, Bijection, Injection, Surjection, IsInjective
  <2> HIDE DEF D
  <2>3. Cardinality(D) = Cardinality(Range(r))
    BY <2>1, <2>2, FS_Bijection DEF ExistsBijection
  <2> QED
    BY <2>1, <2>3
<1>7. \A n \in Range(r) : MatchScore(Catalogue[n], p) \in TenThousandths
  BY <1>5, ScoreIs
<1>8. ASSUME NEW n \in Found(Preferred(p)) \ Range(r), NEW m \in Range(r),
             Cardinality(Found(Preferred(p))) <= ShortlistSize
      PROVE  MatchScore(Catalogue[n], p) <= MatchScore(Catalogue[m], p)
  <2>1. PICK i \in 1..Len(s) : s[i] = n
    BY <1>1, <1>8
  <2>2. ~\E k \in 1..Len(r) : r[k] = s[i]
    BY <1>4, <1>8, <2>1 DEF Range
  <2>3. PICK k \in 1..Len(r) : r[k] = m
    BY <1>5
  <2> QED
    BY <1>3, <2>1, <2>2, <2>3
<1> QED
  BY <1>5, <1>6, <1>7, <1>8 DEF FeedFits, r

-----------------------------------------------------------------------------
(* Facets and landing pages.                                               *)

\* The jobs a facet counts are those a search by its value finds.
LEMMA FacetIsTotal ==
  /\ \A v \in DOMAIN Facet(Anything, "category") :
       Facet(Anything, "category")[v] = Total([Anything EXCEPT !.categories = {v}])
  /\ \A v \in DOMAIN Facet(Anything, "city") :
       Facet(Anything, "city")[v] = Total([Anything EXCEPT !.cities = {v}])
<1> DEFINE bare(column) == {n \in listed : Matches(Catalogue[n], [Anything EXCEPT !.skills = {}])
                                           /\ Catalogue[n][column] # None}
<1>1. /\ Facet(Anything, "category") =
           [v \in {Catalogue[n]["category"] : n \in bare("category")} |->
              Cardinality({n \in bare("category") : Catalogue[n]["category"] = v})]
      /\ Facet(Anything, "city") =
           [v \in {Catalogue[n]["city"] : n \in bare("city")} |->
              Cardinality({n \in bare("city") : Catalogue[n]["city"] = v})]
  BY DEF Facet
<1>2. \A n \in listed : Matches(Catalogue[n], [Anything EXCEPT !.skills = {}])
  BY DEF Matches, Anything
<1>3. ASSUME NEW v, v # None
      PROVE  /\ Total([Anything EXCEPT !.categories = {v}]) = Cardinality({n \in listed : Catalogue[n].category = v})
             /\ Total([Anything EXCEPT !.cities = {v}]) = Cardinality({n \in listed : Catalogue[n].city = v})
  BY DEF Total, Found, Matches, Anything
<1>4. ASSUME NEW v, v # None
      PROVE  /\ {n \in bare("category") : Catalogue[n]["category"] = v} = {n \in listed : Catalogue[n].category = v}
             /\ {n \in bare("city") : Catalogue[n]["city"] = v} = {n \in listed : Catalogue[n].city = v}
  BY <1>2, <1>4
<1>5. /\ \A v \in {Catalogue[n]["category"] : n \in bare("category")} : v # None
      /\ \A v \in {Catalogue[n]["city"] : n \in bare("city")} : v # None
  OBVIOUS
<1> HIDE DEF bare
<1>6. /\ \A v \in DOMAIN Facet(Anything, "category") :
           v # None /\ Facet(Anything, "category")[v]
                         = Cardinality({n \in bare("category") : Catalogue[n]["category"] = v})
      /\ \A v \in DOMAIN Facet(Anything, "city") :
           v # None /\ Facet(Anything, "city")[v] = Cardinality({n \in bare("city") : Catalogue[n]["city"] = v})
  BY <1>1, <1>5
<1>7. ASSUME NEW v \in DOMAIN Facet(Anything, "category")
      PROVE  Facet(Anything, "category")[v] = Total([Anything EXCEPT !.categories = {v}])
  <2>1. v # None /\ Facet(Anything, "category")[v] = Cardinality({n \in bare("category") : Catalogue[n]["category"] = v})
    BY <1>6
  <2>2. {n \in bare("category") : Catalogue[n]["category"] = v} = {n \in listed : Catalogue[n].category = v}
    BY <1>4, <2>1
  <2>3. Total([Anything EXCEPT !.categories = {v}]) = Cardinality({n \in listed : Catalogue[n].category = v})
    BY <1>3, <2>1
  <2> QED
    BY <2>1, <2>2, <2>3
<1>8. ASSUME NEW v \in DOMAIN Facet(Anything, "city")
      PROVE  Facet(Anything, "city")[v] = Total([Anything EXCEPT !.cities = {v}])
  <2>1. v # None /\ Facet(Anything, "city")[v] = Cardinality({n \in bare("city") : Catalogue[n]["city"] = v})
    BY <1>6
  <2>2. {n \in bare("city") : Catalogue[n]["city"] = v} = {n \in listed : Catalogue[n].city = v}
    BY <1>4, <2>1
  <2>3. Total([Anything EXCEPT !.cities = {v}]) = Cardinality({n \in listed : Catalogue[n].city = v})
    BY <1>3, <2>1
  <2> QED
    BY <2>1, <2>2, <2>3
<1> QED
  BY <1>7, <1>8
\* A landing page has jobs to show, and what a facet counts is found: for every catalogue,
\* whatever of it is listed, and every profile that asks for a feed.
THEOREM ListsOfAnyCatalogueAgree == ListingSpec => []ListsAgree
<1> DEFINE ListedInv == listed \subseteq DOMAIN Catalogue
<1>1. ListingInit => ListedInv
  BY DEF ListingInit
<1>2. ListedInv /\ [ListingNext]_listingVars => ListedInv'
  BY DEF ListingNext, listingVars, Search, Count, Read, Publish, Withdraw
<1>3. ListedInv => ListsAgree
  <2> SUFFICES ASSUME ListedInv PROVE ListsAgree
    OBVIOUS
  <2>1. \A v \in Landing("city") : Total([Anything EXCEPT !.cities = {v}]) >= 3
    BY FacetIsTotal DEF Landing
  <2>2. \A p \in Profiles : FeedFits(Feed(p), p)
    BY FeedIs
  <2> QED
    BY <2>1, <2>2, FacetIsTotal DEF ListsAgree
<1> QED
  BY <1>1, <1>2, <1>3, PTL DEF ListingSpec
===============================================================================
