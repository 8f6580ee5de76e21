--------------------------- MODULE Posting_proofs ---------------------------
(***************************************************************************)
(* Proofs about Posting, for every set of versions a source may send and   *)
(* every catalogue of stored jobs: what the stages make of a posting, its  *)
(* classification, its quality, and the search for a duplicate.            *)
(*                                                                         *)
(* The stages are functions of one posting, so most of this is about the   *)
(* operators of Normalizer, Classifier and Assessment, and the sorting and *)
(* selecting of Ordering they rest on; the invariant only says which       *)
(* version the job at hand was made of.                                    *)
(***************************************************************************)
EXTENDS Posting, FiniteSetTheorems, SequenceTheorems, WellFoundedInduction, TLAPS

\* A set of numbers that is not empty has a least one.
LEMMA LeastNumber ==
  ASSUME NEW S \in SUBSET Nat, S # {}
  PROVE  \E x \in S : \A y \in S : x <= y
<1>1. PICK x \in S : \A y \in S : <<y, x>> \notin OpToRel(<, Nat)
  BY NatLessThanWellFounded, WFMin
<1>2. \A y \in S : ~(y < x)
  BY <1>1 DEF OpToRel
<1> QED
  BY <1>2

\* Min of some numbers is one of them, and none is less.
LEMMA MinIsLeast ==
  ASSUME NEW S \in SUBSET Nat, S # {}
  PROVE  Min(S) \in S /\ \A y \in S : Min(S) <= y
BY LeastNumber DEF Min

\* The first name that a table has, if it has any.
LEMMA LookupFinds ==
  ASSUME NEW T, NEW table, NEW names \in Seq(T)
  PROVE  \/ Lookup(table, names) = None /\ \A i \in DOMAIN names : names[i] \notin DOMAIN table
         \/ \E i \in DOMAIN names : names[i] \in DOMAIN table /\ Lookup(table, names) = table[names[i]]
<1> DEFINE known == {i \in DOMAIN names : names[i] \in DOMAIN table}
<1>1. known \in SUBSET Nat
  BY LenProperties
<1>2. Lookup(table, names) = IF known = {} THEN None ELSE table[names[Min(known)]]
  BY DEF Lookup
<1>3. CASE known = {}
  BY <1>2, <1>3
<1>4. CASE known # {}
  <2>1. Min(known) \in known
    BY <1>1, <1>4, MinIsLeast
  <2> QED
    BY <1>2, <1>4, <2>1
<1> QED
  BY <1>3, <1>4

\* A job is remote where its mode is, or where the source says so of a hybrid one.
LEMMA RemoteAgrees ==
  ASSUME NEW location, location.is_remote = (location.work_mode = "remote"), NEW hint \in BOOLEAN
  PROVE  StageWorkMode(location, hint).is_remote
           <=> StageWorkMode(location, hint).work_mode = "remote"
               \/ (StageWorkMode(location, hint).work_mode = "hybrid" /\ hint)
BY DEF StageWorkMode

\* The words of a pattern are the value of some row of the table.
LEMMA FirstMatchFinds ==
  ASSUME NEW T, NEW patterns \in Seq(T), NEW text
  PROVE  FirstMatch(patterns, text) = None \/ \E i \in DOMAIN patterns : FirstMatch(patterns, text) = patterns[i][1]
<1> DEFINE hits == {i \in DOMAIN patterns : patterns[i][2] \intersect text # {}}
<1>1. hits \in SUBSET Nat
  BY LenProperties
<1>2. FirstMatch(patterns, text) = IF hits = {} THEN None ELSE patterns[Min(hits)][1]
  BY DEF FirstMatch
<1>3. CASE hits = {}
  BY <1>2, <1>3
<1>4. CASE hits # {}
  <2>1. Min(hits) \in hits
    BY <1>1, <1>4, MinIsLeast
  <2> QED
    BY <1>2, <1>4, <2>1
<1> QED
  BY <1>3, <1>4

\* The amounts of a text are numbers of it, no less than a hundred.
LEMMA AmountsOfText ==
  ASSUME NEW numbers \in Seq(Int)
  PROVE  LET a == AmountRange(numbers) IN
         /\ a = <<a[1], a[2]>>
         /\ a[1] = None \/ (a[1] \in Int /\ a[1] >= 100)
         /\ a[2] = None \/ (a[2] \in Int /\ a[2] >= 100)
<1> DEFINE amounts     == {i \in DOMAIN numbers : numbers[i] >= 100 /\ numbers[i] \notin 1900..2099}
           later       == {i \in amounts : \E j \in amounts : j < i}
           first(some) == IF some = {} THEN None ELSE numbers[Min(some)]
<1>1. AmountRange(numbers) = <<first(amounts), first(later)>>
  BY DEF AmountRange
<1>2. amounts \in SUBSET Nat /\ later \in SUBSET amounts
  <2>1. DOMAIN numbers \in SUBSET Nat
    BY LenProperties
  <2>2. amounts \in SUBSET (DOMAIN numbers)
    OBVIOUS
  <2> HIDE DEF amounts
  <2> QED
    BY <2>1, <2>2
<1>3. ASSUME NEW some \in SUBSET amounts PROVE first(some) = None \/ (first(some) \in Int /\ first(some) >= 100)
  <2>1. CASE some = {}
    BY <2>1
  <2>2. CASE some # {}
    <3>1. Min(some) \in some
      <4>1. some \in SUBSET Nat
        BY <1>2
      <4> HIDE DEF amounts
      <4> QED
        BY <2>2, <4>1, MinIsLeast
    <3>2. Min(some) \in amounts
      BY <3>1
    <3>3. Min(some) \in DOMAIN numbers /\ numbers[Min(some)] >= 100
      BY <3>2
    <3>4. numbers[Min(some)] \in Int
      BY <3>3, LenProperties
    <3> QED
      BY <2>2, <3>3, <3>4
  <2> QED
    BY <2>1, <2>2
<1> HIDE DEF first
<1>4. first(amounts) = None \/ (first(amounts) \in Int /\ first(amounts) >= 100)
  BY <1>3
<1>5. first(later) = None \/ (first(later) \in Int /\ first(later) >= 100)
  BY <1>2, <1>3
<1> QED
  BY <1>1, <1>4, <1>5

\* An amount is absent or above zero.
Amounts == (Nat \ {0}) \union {None}

\* A range in order keeps its order, and is given a currency and a period.
LEMMA SalaryOfRange ==
  ASSUME NEW lo \in Amounts, NEW hi \in Amounts, lo # None /\ hi # None => lo <= hi,
         NEW currency, NEW period
  PROVE  LET n == Salary(<<lo, hi>>, currency, period) IN
         /\ n.min \in Amounts /\ n.max \in Amounts
         /\ n.min # None /\ n.max # None => n.min <= n.max
         /\ n.min # None \/ n.max # None => n.currency # None /\ n.period # None
<1> DEFINE c == NoneOr(currency, "PKR")
           p == NoneOr(period, DefaultPeriod(c, NoneOr(hi, lo)))
           n == Salary(<<lo, hi>>, currency, period)
<1>1. None # "PKR" /\ None # "month" /\ None # "year" /\ None \in Amounts
  BY NormalizerAssumption DEF Amounts, Currencies, Periods
<1>2. c # None
  BY <1>1 DEF NoneOr
<1> HIDE DEF c
<1>3. p # None
  <2>1. DefaultPeriod(c, NoneOr(hi, lo)) \in {"month", "year"}
    BY SMT DEF DefaultPeriod
  <2> QED
    BY <1>1, <2>1 DEF NoneOr
<1> HIDE DEF p, n
<1>4. \/ n = [min |-> None, max |-> None, currency |-> currency, period |-> period]
      \/ n = [min |-> None, max |-> None, currency |-> None, period |-> None]
      \/ n = [min |-> lo, max |-> hi, currency |-> c, period |-> p]
  BY SMT DEF Salary, n, c, p
<1>5. /\ n.min \in Amounts /\ n.max \in Amounts
      /\ n.min # None /\ n.max # None => n.min <= n.max
      /\ n.min # None \/ n.max # None => n.currency # None /\ n.period # None
  BY <1>1, <1>2, <1>3, <1>4
<1> QED
  BY <1>5 DEF n

\* A salary is a range of amounts in order, with a currency and a period.
LEMMA SalaryInOrder ==
  ASSUME NEW s, s.min \in Int \union {None}, s.max \in Int \union {None}, s.numbers \in Seq(Int)
  PROVE  LET n == NormalizeSalary(s) IN
         /\ n.min \in Amounts /\ n.max \in Amounts
         /\ n.min # None /\ n.max # None => n.min <= n.max
         /\ n.min # None \/ n.max # None => n.currency # None /\ n.period # None
<1> DEFINE given    == <<Coerce(s.min), Coerce(s.max)>>
           found    == IF given = <<None, None>> THEN AmountRange(s.numbers) ELSE given
           currency == NoneOr(FirstMatch(CurrencyPatterns, s.stated), FirstMatch(CurrencyPatterns, s.words))
           period   == NoneOr(FirstMatch(PeriodPatterns, s.stated), FirstMatch(PeriodPatterns, s.words))
<1>1. Coerce(s.min) \in Amounts /\ Coerce(s.max) \in Amounts
  BY DEF Coerce, Amounts
<1>2. found[1] \in Amounts /\ found[2] \in Amounts
  <2>1. CASE given = <<None, None>>
    <3>1. found = AmountRange(s.numbers)
      BY <2>1
    <3> HIDE DEF found
    <3> QED
      BY <3>1, AmountsOfText DEF Amounts
  <2>2. CASE given # <<None, None>>
    BY <1>1, <2>2
  <2> QED
    BY <2>1, <2>2
<1>3. NormalizeSalary(s) = Salary(Ordered(found[1], found[2]), currency, period)
  BY DEF NormalizeSalary
<1> HIDE DEF given, found, currency, period
<1>4. PICK lo \in Amounts, hi \in Amounts :
        Ordered(found[1], found[2]) = <<lo, hi>> /\ (lo # None /\ hi # None => lo <= hi)
  <2>1. None \notin Int
    BY NormalizerAssumption
  <2>2. CASE found[1] # None /\ found[2] # None /\ found[1] > found[2]
    BY <1>2, <2>1, <2>2 DEF Ordered, Amounts
  <2>3. CASE ~(found[1] # None /\ found[2] # None /\ found[1] > found[2])
    <3>1. Ordered(found[1], found[2]) = <<found[1], found[2]>>
      BY <2>3 DEF Ordered
    <3>2. found[1] # None /\ found[2] # None => found[1] <= found[2]
      BY <1>2, <2>1, <2>3 DEF Amounts
    <3> QED
      BY <1>2, <3>1, <3>2
  <2> QED
    BY <2>2, <2>3
<1> QED
  BY <1>3, <1>4, SalaryOfRange

\* What the description or the source says of the salary is normalised.
LEMMA StageSalaryInOrder ==
  ASSUME NEW sent, IsPosting(sent)
  PROVE  LET n == StageSalary(sent) IN
         /\ n.min \in Amounts /\ n.max \in Amounts
         /\ n.min # None /\ n.max # None => n.min <= n.max
         /\ n.min # None \/ n.max # None => n.currency # None /\ n.period # None
<1> DEFINE text == IF sent.salary.text # None THEN sent.salary.text
                   ELSE IF "salary" \in sent.description THEN [words |-> sent.description, numbers |-> sent.described]
                   ELSE [words |-> {}, numbers |-> <<>>]
           s    == [min |-> sent.salary.min, max |-> sent.salary.max, stated |-> sent.salary.stated,
                    words |-> text.words, numbers |-> text.numbers]
<1>1. text.numbers \in Seq(Int)
  <2>1. /\ sent.salary.text # None => sent.salary.text.numbers \in Seq(Int)
        /\ sent.described \in Seq(Int)
    BY DEF IsPosting
  <2>2. CASE sent.salary.text # None
    BY <2>1, <2>2
  <2>3. CASE sent.salary.text = None /\ "salary" \in sent.description
    BY <2>1, <2>3
  <2>4. CASE sent.salary.text = None /\ "salary" \notin sent.description
    <3>1. text = [words |-> {}, numbers |-> <<>>]
      BY <2>4
    <3> HIDE DEF text
    <3> QED
      BY <3>1
  <2> QED
    BY <2>2, <2>3, <2>4
<1>2. sent.salary.min \in Int \union {None} /\ sent.salary.max \in Int \union {None}
  BY DEF IsPosting
<1>3. StageSalary(sent) = NormalizeSalary(s)
  BY DEF StageSalary
<1>4. s.min \in Int \union {None} /\ s.max \in Int \union {None} /\ s.numbers \in Seq(Int)
  BY <1>1, <1>2
<1> HIDE DEF s
<1> QED
  BY <1>3, <1>4, SalaryInOrder

\* A city found lies in the province found, unless a part of the text names another province.
LEMMA ProvinceFits ==
  ASSUME NEW sent, IsPosting(sent), FindCity(sent.place) # None
  PROVE  \/ FindProvince(sent.place) = ProvinceOfCity[FindCity(sent.place)]
         \/ FindProvince(sent.place) \in
              {ProvinceOf[p] : p \in Range(sent.place.parts) \intersect DOMAIN ProvinceOf}
<1> DEFINE place == sent.place
           names == <<place.whole>> \o place.parts
           inside == [n \in place.within \intersect DOMAIN CityOf |-> CityOf[n]]
           city  == FindCity(place)
           named == Lookup(ProvinceOf, names)
<1>1. /\ names \in Seq({place.whole} \union Range(place.parts))
      /\ \A i \in DOMAIN names : names[i] = place.whole \/ names[i] \in Range(place.parts)
  <2> DEFINE T == {place.whole} \union Range(place.parts)
  <2>1. place.parts \in Seq(STRING)
    BY DEF IsPosting
  <2>2. place.parts \in Seq(T)
    <3>1. place.parts \in [1..Len(place.parts) -> T] /\ Len(place.parts) \in Nat
      BY <2>1, LenProperties DEF Range
    <3> QED
      BY <3>1, SeqDef
  <2>3. <<place.whole>> \in Seq(T)
    OBVIOUS
  <2>4. names \in Seq(T)
    BY <2>2, <2>3, ConcatProperties
  <2>5. \A i \in DOMAIN names : names[i] \in T
    BY <2>4, LenProperties
  <2> QED
    BY <2>4, <2>5
<1>2. FindProvince(place) = NoneOr(named, IF city # None THEN ProvinceOfCity[city] ELSE None)
  BY DEF FindProvince
<1>3. CASE named = None
  BY <1>2, <1>3 DEF NoneOr
<1>4. CASE \E p \in Range(place.parts) : p \in DOMAIN ProvinceOf /\ named = ProvinceOf[p] /\ named # None
  BY <1>2, <1>4 DEF NoneOr
<1>5. CASE place.whole \in DOMAIN ProvinceOf /\ named = ProvinceOf[place.whole] /\ named # None
  <2>1. (Range(place.parts) \union place.within) \intersect DOMAIN CityOf \subseteq {place.whole}
    BY <1>5 DEF IsPosting
  <2>2. city = NoneOr(Lookup(CityOf, names), Lookup(inside, CityScan))
    BY DEF FindCity
  <2>3. Lookup(CityOf, names) = None \/ (place.whole \in DOMAIN CityOf /\ Lookup(CityOf, names) = CityOf[place.whole])
    BY <1>1, <2>1, LookupFinds
  <2>4. Lookup(inside, CityScan) = None \/ (place.whole \in DOMAIN CityOf /\ Lookup(inside, CityScan) = CityOf[place.whole])
    <3>1. CityScan \in Seq({"karachi", "lahore", "islamabad"}) /\ DOMAIN inside = place.within \intersect DOMAIN CityOf
      BY DEF CityScan
    <3>2. \A n \in DOMAIN inside : n = place.whole /\ n \in DOMAIN CityOf /\ inside[n] = CityOf[n]
      BY <2>1
    <3> HIDE DEF inside
    <3> QED
      BY <3>1, <3>2, LookupFinds
  <2>5. city # None
    OBVIOUS
  <2>6. place.whole \in DOMAIN CityOf /\ city = CityOf[place.whole]
    <3> HIDE DEF city, names, inside
    <3> QED
      BY <2>2, <2>3, <2>4, <2>5 DEF NoneOr
  <2>7. ProvinceOf[place.whole] = ProvinceOfCity[CityOf[place.whole]]
    <3>1. place.whole \in {"punjab", "sindh", "islamabad"} /\ place.whole \in {"lahore", "lhr", "karachi", "islamabad"}
      BY <1>5, <2>6 DEF ProvinceOf, CityOf
    <3>2. place.whole = "islamabad"
      BY <3>1
    <3>3. ProvinceOf["islamabad"] = ProvinceOfCity[CityOf["islamabad"]]
      BY DEF ProvinceOf, CityOf, ProvinceOfCity
    <3> QED
      BY <3>2, <3>3
  <2>8. FindProvince(place) = named
    BY <1>2, <1>5 DEF NoneOr
  <2> QED
    BY <1>5, <2>6, <2>7, <2>8
<1>6. named = None \/ \E i \in DOMAIN names : names[i] \in DOMAIN ProvinceOf /\ named = ProvinceOf[names[i]]
  <2> HIDE DEF names
  <2> QED
    BY <1>1, LookupFinds
<1> QED
  BY <1>1, <1>3, <1>4, <1>5, <1>6

\* The fields of a normalised posting agree.
LEMMA NormalizedAgrees ==
  ASSUME NEW sent, IsPosting(sent)
  PROVE  LET n == Normalized(sent) IN
         /\ n.mode.is_remote <=> n.mode.work_mode = "remote" \/ (n.mode.work_mode = "hybrid" /\ sent.remote)
         /\ n.salary.min \in Amounts /\ n.salary.max \in Amounts
         /\ n.salary.min # None /\ n.salary.max # None => n.salary.min <= n.salary.max
         /\ n.salary.min # None \/ n.salary.max # None => n.salary.currency # None /\ n.salary.period # None
         /\ n.place.city # None =>
              \/ n.place.province = ProvinceOfCity[n.place.city]
              \/ n.place.province \in {ProvinceOf[p] : p \in Range(sent.place.parts) \intersect DOMAIN ProvinceOf}
<1> DEFINE n == Normalized(sent)
           heading == Range(sent.title) \union sent.tags \union sent.description
           location == NormalizeLocation(sent.place, heading)
<1>1. n.mode = StageWorkMode(location, sent.remote) /\ n.salary = StageSalary(sent) /\ n.place = location
  BY DEF Normalized
<1>2. /\ location.is_remote = (location.work_mode = "remote")
      /\ location.city = FindCity(sent.place) /\ location.province = FindProvince(sent.place)
  BY DEF NormalizeLocation
<1>3. sent.remote \in BOOLEAN
  BY DEF IsPosting
<1> HIDE DEF n, location
<1>4. n.mode.is_remote <=> n.mode.work_mode = "remote" \/ (n.mode.work_mode = "hybrid" /\ sent.remote)
  BY <1>1, <1>2, <1>3, RemoteAgrees
<1>5. n.place.city # None =>
        \/ n.place.province = ProvinceOfCity[n.place.city]
        \/ n.place.province \in {ProvinceOf[p] : p \in Range(sent.place.parts) \intersect DOMAIN ProvinceOf}
  BY <1>1, <1>2, ProvinceFits
<1> QED
  BY <1>1, <1>4, <1>5, StageSalaryInOrder DEF n
-----------------------------------------------------------------------------
(* Sorting and selecting.                                                  *)

\* R orders the members of S: of any two one comes before the other.
LinearOn(R, S) ==
  /\ \A x \in S : <<x, x>> \notin R
  /\ \A x, y \in S : x # y => <<x, y>> \in R \/ <<y, x>> \in R
  /\ \A x, y, z \in S : <<x, y>> \in R /\ <<y, z>> \in R => <<x, z>> \in R

\* Every member of a finite set has a number of its own, which is how many come before it.
LEMMA RanksAreDistinct ==
  ASSUME NEW S, IsFiniteSet(S), NEW R, LinearOn(R, S)
  PROVE  LET rank == [x \in S |-> Cardinality({y \in S : <<y, x>> \in R})] IN
         /\ rank \in Bijection(S, 0..(Cardinality(S) - 1))
         /\ \A x, y \in S : <<x, y>> \in R <=> rank[x] < rank[y]
<1> DEFINE before(x) == {y \in S : <<y, x>> \in R}
           rank == [x \in S |-> Cardinality(before(x))]
           n == Cardinality(S)
           T == 0..(n - 1)
<1>1. n \in Nat
  BY FS_CardinalityType
<1>2. ASSUME NEW x \in S PROVE IsFiniteSet(before(x)) /\ Cardinality(before(x)) \in T
  <2>1. before(x) \subseteq S \ {x}
    BY DEF LinearOn
  <2>2. IsFiniteSet(S \ {x}) /\ Cardinality(S \ {x}) = n - 1
    BY FS_RemoveElement
  <2> HIDE DEF before
  <2>3. IsFiniteSet(before(x)) /\ Cardinality(before(x)) <= n - 1 /\ Cardinality(before(x)) \in Nat
    BY <2>1, <2>2, FS_Subset, FS_CardinalityType
  <2> QED
    BY <1>1, <2>3
<1>3. ASSUME NEW x \in S, NEW y \in S, <<x, y>> \in R PROVE Cardinality(before(x)) < Cardinality(before(y))
  <2>1. before(x) \union {x} \subseteq before(y)
    BY <1>3 DEF LinearOn
  <2>2. x \notin before(x)
    BY DEF LinearOn
  <2>3. Cardinality(before(x) \union {x}) = Cardinality(before(x)) + 1
    <3>1. IsFiniteSet(before(x))
      BY <1>2
    <3> HIDE DEF before
    <3> QED
      BY <2>2, <3>1, FS_AddElement
  <2>4. Cardinality(before(x) \union {x}) <= Cardinality(before(y))
    <3>1. IsFiniteSet(before(y))
      BY <1>2
    <3> HIDE DEF before
    <3> QED
      BY <2>1, <3>1, FS_Subset
  <2>5. Cardinality(before(x)) \in Nat /\ Cardinality(before(y)) \in Nat
    <3>1. Cardinality(before(x)) \in T /\ Cardinality(before(y)) \in T
      BY <1>2
    <3> HIDE DEF before
    <3> QED
      BY <1>1, <3>1
  <2> HIDE DEF before
  <2> QED
    BY <2>3, <2>4, <2>5
<1>4. rank \in [S -> T]
  <2> HIDE DEF before, T
  <2> QED
    BY <1>2
<1>5. \A x, y \in S : <<x, y>> \in R <=> rank[x] < rank[y]
  <2> SUFFICES ASSUME NEW x \in S, NEW y \in S PROVE <<x, y>> \in R <=> rank[x] < rank[y]
    OBVIOUS
  <2>1. rank[x] = Cardinality(before(x)) /\ rank[y] = Cardinality(before(y))
    OBVIOUS
  <2>2. rank[x] \in Nat /\ rank[y] \in Nat
    BY <1>1, <1>4
  <2> HIDE DEF before, rank
  <2>3. CASE <<x, y>> \in R
    BY <1>3, <2>1, <2>3
  <2>4. CASE <<x, y>> \notin R
    <3>1. x = y \/ <<y, x>> \in R
      BY <2>4 DEF LinearOn
    <3>2. rank[x] = rank[y] \/ rank[y] < rank[x]
      BY <1>3, <2>1, <3>1
    <3> QED
      BY <2>2, <2>4, <3>2
  <2> QED
    BY <2>3, <2>4
<1>6. rank \in Injection(S, T)
  <2>1. \A x, y \in S : rank[x] = rank[y] => x = y
    <3> HIDE DEF before, rank
    <3> SUFFICES ASSUME NEW x \in S, NEW y \in S, rank[x] = rank[y], x # y PROVE FALSE
      OBVIOUS
    <3>1. rank[x] < rank[y] \/ rank[y] < rank[x]
      BY <1>5 DEF LinearOn
    <3>2. rank[x] \in Nat
      BY <1>1, <1>4
    <3> QED
      BY <3>1, <3>2
  <2> HIDE DEF rank, T
  <2> QED
    BY <1>4, <2>1 DEF Injection, IsInjective
<1>7. IsFiniteSet(T) /\ Cardinality(T) = n
  <2>1. 0 \in Int /\ n - 1 \in Int
    BY <1>1
  <2> HIDE DEF n
  <2>2. IsFiniteSet(0..(n - 1)) /\ Cardinality(0..(n - 1)) = IF 0 > n - 1 THEN 0 ELSE (n - 1) - 0 + 1
    BY <2>1, FS_Interval
  <2> QED
    BY <1>1, <2>2
<1>8. rank \in Surjection(S, T)
  <2> HIDE DEF rank, T
  <2> QED
    BY <1>6, <1>7, FS_Injection
<1> HIDE DEF rank, T
<1>9. rank \in Bijection(S, T)
  BY <1>6, <1>8 DEF Bijection
<1> QED
  BY <1>5, <1>9 DEF rank, T

\* A set in order has every member once, the earlier before the later.
LEMMA InOrderIs ==
  ASSUME NEW S, IsFiniteSet(S), NEW R, LinearOn(R, S)
  PROVE  LET s == InOrder(S, R)
             n == Cardinality(S) IN
         /\ n \in Nat /\ s \in [1..n -> S]
         /\ \A x \in S : \E k \in 1..n : s[k] = x
         /\ \A k, m \in 1..n : k < m => <<s[k], s[m]>> \in R
<1> DEFINE rank == [x \in S |-> Cardinality({y \in S : <<y, x>> \in R})]
           s == InOrder(S, R)
           n == Cardinality(S)
<1>1. n \in Nat
  BY FS_CardinalityType
<1>2. /\ rank \in Bijection(S, 0..(n - 1))
      /\ \A x, y \in S : <<x, y>> \in R <=> rank[x] < rank[y]
  BY RanksAreDistinct
<1>3. \A k \in 1..n : /\ s[k] = CHOOSE x \in S : Cardinality({y \in S : <<y, x>> \in R}) = k - 1
                      /\ s[k] = CHOOSE x \in S : rank[x] = k - 1
  <2>1. ASSUME NEW k \in 1..n PROVE s[k] = CHOOSE x \in S : Cardinality({y \in S : <<y, x>> \in R}) = k - 1
    BY DEF InOrder
  <2>2. ASSUME NEW k \in 1..n PROVE s[k] = CHOOSE x \in S : rank[x] = k - 1
    <3>1. \A x \in S : rank[x] = Cardinality({y \in S : <<y, x>> \in R})
      OBVIOUS
    <3> HIDE DEF rank, s
    <3> QED
      BY <2>1, <3>1
  <2> HIDE DEF rank, s
  <2> QED
    BY <2>1, <2>2
<1> HIDE DEF rank, n, s
<1>4. /\ \A x \in S : rank[x] \in 0..(n - 1)
      /\ \A x, y \in S : rank[x] = rank[y] => x = y
      /\ \A i \in 0..(n - 1) : \E x \in S : rank[x] = i
  BY <1>2 DEF Bijection, Injection, Surjection, IsInjective
<1>5. \A k \in 1..n : s[k] \in S /\ rank[s[k]] = k - 1
  <2> SUFFICES ASSUME NEW k \in 1..n PROVE s[k] \in S /\ rank[s[k]] = k - 1
    OBVIOUS
  <2>1. k - 1 \in 0..(n - 1)
    BY <1>1
  <2>2. \E x \in S : rank[x] = k - 1
    BY <1>4, <2>1
  <2> QED
    BY <1>3, <2>2
<1>6. s \in [1..n -> S]
  <2>1. \A k \in 1..n : (CHOOSE x \in S : Cardinality({y \in S : <<y, x>> \in R}) = k - 1) \in S
    BY <1>3, <1>5
  <2> QED
    BY <2>1 DEF s, n, InOrder
<1>7. \A x \in S : \E k \in 1..n : s[k] = x
  <2> SUFFICES ASSUME NEW x \in S PROVE \E k \in 1..n : s[k] = x
    OBVIOUS
  <2>1. rank[x] \in 0..(n - 1)
    BY <1>4
  <2>2. rank[x] + 1 \in 1..n /\ (rank[x] + 1) - 1 = rank[x]
    BY <1>1, <2>1
  <2>3. s[rank[x] + 1] \in S /\ rank[s[rank[x] + 1]] = rank[x]
    BY <1>5, <2>2
  <2> QED
    BY <1>4, <2>2, <2>3
<1>8. \A k, m \in 1..n : k < m => <<s[k], s[m]>> \in R
  <2> SUFFICES ASSUME NEW k \in 1..n, NEW m \in 1..n, k < m PROVE <<s[k], s[m]>> \in R
    OBVIOUS
  <2>1. rank[s[k]] < rank[s[m]]
    BY <1>1, <1>5
  <2> QED
    BY <1>2, <1>5, <2>1
<1> QED
  BY <1>1, <1>6, <1>7, <1>8 DEF n, s

\* The elements of r are those of s at the positions in P, which f gives in their order.
Takes(f, r, s, P) ==
  /\ f \in [1..Len(r) -> P]
  /\ \A k \in 1..Len(r) : r[k] = s[f[k]]
  /\ \A i \in P : \E k \in 1..Len(r) : f[k] = i
  /\ \A k, m \in 1..Len(r) : k < m => f[k] < f[m]

\* What is selected of a sequence are its elements at those positions, in their order.
LEMMA SelectedIs ==
  ASSUME NEW T, NEW s \in Seq(T), NEW P \in SUBSET (DOMAIN s)
  PROVE  LET r == Selected(s, P) IN
         /\ r \in Seq(T) /\ Len(r) = Cardinality(P) /\ Len(r) <= Len(s)
         /\ \E f : Takes(f, r, s, P)
<1> DEFINE R == {p \in P \X P : p[1] < p[2]}
           f == InOrder(P, R)
           n == Cardinality(P)
           r == Selected(s, P)
<1>1. P \in SUBSET Nat /\ IsFiniteSet(P) /\ n <= Len(s)
  <2>1. Len(s) \in Nat /\ DOMAIN s = 1..Len(s)
    BY LenProperties
  <2>2. IsFiniteSet(1..Len(s)) /\ Cardinality(1..Len(s)) = Len(s)
    <3>1. 1 \in Int /\ Len(s) \in Int /\ (1 > Len(s) <=> Len(s) = 0)
      BY <2>1
    <3>2. IsFiniteSet(1..Len(s)) /\ Cardinality(1..Len(s)) = IF 1 > Len(s) THEN 0 ELSE Len(s) - 1 + 1
      BY <3>1, FS_Interval
    <3> QED
      BY <2>1, <3>1, <3>2
  <2> QED
    BY <2>1, <2>2, FS_Subset
<1>2. \A x, y \in P : <<x, y>> \in R <=> x < y
  OBVIOUS
<1> HIDE DEF R
<1>3. LinearOn(R, P)
  BY <1>1, <1>2 DEF LinearOn
<1>4. /\ n \in Nat /\ f \in [1..n -> P]
      /\ \A i \in P : \E k \in 1..n : f[k] = i
      /\ \A k, m \in 1..n : k < m => <<f[k], f[m]>> \in R
  BY <1>1, <1>3, InOrderIs
<1>5. r = [k \in DOMAIN f |-> s[f[k]]]
  BY DEF Selected, R
<1> HIDE DEF f, n, r
<1>6. r \in [1..n -> T]
  <2>1. \A k \in 1..n : s[f[k]] \in T
    BY <1>4, LenProperties
  <2> QED
    BY <1>4, <1>5, <2>1
<1>7. r \in Seq(T) /\ Len(r) = n
  BY <1>4, <1>6, SeqDef, LenProperties
<1>8. \A k, m \in 1..n : k < m => f[k] < f[m]
  BY <1>2, <1>4
<1>9. Takes(f, r, s, P)
  BY <1>4, <1>5, <1>7, <1>8 DEF Takes
<1> QED
  BY <1>1, <1>7, <1>9 DEF n, r

\* f holds the state of a loop over the numbers to n after each of them.
Loops(f, n, V, base, step) ==
  /\ f \in [0..n -> V] /\ f[0] = base
  /\ \A i \in 1..n : f[i] = step[<<i, f[i - 1]>>]

\* A loop the state of which stays in V has a value after each of its steps.
LEMMA LoopExists ==
  ASSUME NEW n \in Nat, NEW V, NEW base \in V, NEW step \in [(1..n) \X V -> V]
  PROVE  \E f : Loops(f, n, V, base, step)
<1> DEFINE N == 0..n
           upTo(m, f) == f \in [0..m -> V] /\ f[0] = base /\ \A i \in 1..m : f[i] = step[<<i, f[i - 1]>>]
           fails == {m \in N : ~\E f : upTo(m, f)}
<1>1. fails = {}
  <2> SUFFICES ASSUME fails # {} PROVE FALSE
    OBVIOUS
  <2>1. PICK m \in fails : \A k \in fails : m <= k
    <3>1. fails \in SUBSET Nat
      OBVIOUS
    <3> HIDE DEF fails
    <3> QED
      BY <3>1, LeastNumber
  <2>2. m # 0
    <3>1. upTo(0, [i \in 0..0 |-> base])
      OBVIOUS
    <3> QED
      BY <2>1, <3>1
  <2>3. m \in Nat /\ m - 1 \in N /\ m - 1 \notin fails /\ m \in 1..n
    <3>1. m \in N
      BY <2>1
    <3>2. m \in Nat /\ m - 1 \in N /\ m \in 1..n /\ ~(m <= m - 1)
      BY <2>2, <3>1
    <3> HIDE DEF fails
    <3> QED
      BY <2>1, <3>2
  <2>4. PICK f : upTo(m - 1, f)
    BY <2>3
  <2>5. upTo(m, [i \in 0..m |-> IF i = m THEN step[<<m, f[m - 1]>>] ELSE f[i]])
    <3> DEFINE g == [i \in 0..m |-> IF i = m THEN step[<<m, f[m - 1]>>] ELSE f[i]]
    <3>1. m - 1 \in 0..(m - 1) /\ \A i \in 0..m : i # m => i \in 0..(m - 1)
      BY <2>2, <2>3
    <3>2. \A i \in 0..m : g[i] \in V
      BY <2>3, <2>4, <3>1
    <3>3. g[0] = base
      BY <2>2, <2>3, <2>4
    <3>4. ASSUME NEW i \in 1..m PROVE g[i] = step[<<i, g[i - 1]>>]
      <4>1. i - 1 \in 0..(m - 1) /\ i - 1 # m /\ i - 1 \in 0..m /\ i \in 0..m
        BY <2>3
      <4>2. CASE i = m
        <5>1. g[i] = step[<<m, f[m - 1]>>] /\ g[i - 1] = f[m - 1]
          BY <4>1, <4>2
        <5> QED
          BY <4>2, <5>1
      <4>3. CASE i # m
        <5>1. i \in 1..(m - 1)
          BY <2>3, <4>3
        <5> QED
          BY <2>3, <2>4, <4>1, <4>3, <5>1
      <4> QED
        BY <4>2, <4>3
    <3> QED
      BY <3>2, <3>3, <3>4
  <2> HIDE DEF upTo
  <2> QED
    BY <2>1, <2>5
<1>2. PICK f : upTo(n, f)
  <2> HIDE DEF upTo
  <2> QED
    BY <1>1
<1> QED
  BY <1>2 DEF Loops

\* A sum is added up number by number.
LEMMA SumIsNumber ==
  ASSUME NEW s \in Seq(Nat)
  PROVE  SumOf(s) \in Nat
<1> DEFINE N == 0..Len(s)
           Adds(f) == f = [i \in N |-> IF i = 0 THEN 0 ELSE f[i - 1] + s[i]]
           step == [p \in (1..Len(s)) \X Nat |-> p[2] + s[p[1]]]
<1>1. Len(s) \in Nat /\ \A i \in 1..Len(s) : s[i] \in Nat
  BY LenProperties
<1>2. step \in [(1..Len(s)) \X Nat -> Nat]
  BY <1>1
<1>3. PICK f \in [N -> Nat] : f[0] = 0 /\ \A i \in 1..Len(s) : f[i] = step[<<i, f[i - 1]>>]
  <2>1. 0 \in Nat
    OBVIOUS
  <2> HIDE DEF step
  <2>2. \E f : Loops(f, Len(s), Nat, 0, step)
    BY <1>1, <1>2, <2>1, LoopExists
  <2> QED
    BY <2>2 DEF Loops
<1>4. Adds(f)
  <2>1. \A i \in N : i # 0 => i \in 1..Len(s) /\ i - 1 \in N
    BY <1>1
  <2>2. \A i \in 1..Len(s) : f[i] = f[i - 1] + s[i]
    <3> SUFFICES ASSUME NEW i \in 1..Len(s) PROVE f[i] = f[i - 1] + s[i]
      OBVIOUS
    <3>1. f[i - 1] \in Nat
      BY <1>1, <1>3
    <3>2. <<i, f[i - 1]>> \in (1..Len(s)) \X Nat
      BY <3>1
    <3> QED
      BY <1>3, <3>2
  <2> QED
    BY <1>3, <2>1, <2>2
<1> DEFINE sum == CHOOSE g : Adds(g)
<1>5. Adds(sum)
  <2> HIDE DEF Adds
  <2> QED
    BY <1>4
<1>6. \A i \in N : sum[i] = IF i = 0 THEN 0 ELSE sum[i - 1] + s[i]
  <2> HIDE DEF sum
  <2> QED
    BY <1>5
<1>7. SumOf(s) = sum[Len(s)]
  BY DEF SumOf
<1> HIDE DEF sum
<1> DEFINE wrong == {i \in N : sum[i] \notin Nat}
<1>8. wrong = {}
  <2> SUFFICES ASSUME wrong # {} PROVE FALSE
    OBVIOUS
  <2>1. PICK m \in wrong : \A k \in wrong : m <= k
    <3>1. wrong \in SUBSET Nat
      BY <1>1
    <3> HIDE DEF wrong
    <3> QED
      BY <3>1, LeastNumber
  <2>2. m # 0
    BY <1>1, <1>6, <2>1
  <2>3. m \in N /\ m - 1 \in N /\ m - 1 \notin wrong /\ m \in 1..Len(s)
    <3>1. m \in N
      BY <2>1
    <3>2. m - 1 \in N /\ m \in 1..Len(s) /\ ~(m <= m - 1)
      BY <1>1, <2>2, <3>1
    <3> HIDE DEF wrong
    <3> QED
      BY <2>1, <3>1, <3>2
  <2>4. sum[m - 1] \in Nat /\ s[m] \in Nat
    BY <1>1, <2>3
  <2>5. sum[m] \in Nat
    BY <1>6, <2>2, <2>3, <2>4
  <2> QED
    BY <2>1, <2>5
<1> QED
  BY <1>1, <1>7, <1>8
-----------------------------------------------------------------------------
(* The classifier.                                                         *)

Labels == DOMAIN Rules \union {"other"}

\* The categories are those of the order, each once.
LEMMA CategoriesOrdered ==
  /\ CategoryOrder \in Seq(DOMAIN Rules) /\ Len(CategoryOrder) = 6
  /\ \A c \in DOMAIN Rules : \E i \in DOMAIN CategoryOrder : CategoryOrder[i] = c
  /\ \A i, j \in DOMAIN CategoryOrder : CategoryOrder[i] = CategoryOrder[j] => i = j
  /\ IsFiniteSet(DOMAIN Rules)
<1>1. DOMAIN Rules = {"software_engineering", "ai_ml", "accounting", "hr", "government", "internships"}
  BY DEF Rules
<1>2. /\ CategoryOrder \in Seq(DOMAIN Rules) /\ Len(CategoryOrder) = 6
      /\ \A i, j \in DOMAIN CategoryOrder : CategoryOrder[i] = CategoryOrder[j] => i = j
  BY <1>1 DEF CategoryOrder
<1>3. \A c \in DOMAIN Rules : \E i \in DOMAIN CategoryOrder : CategoryOrder[i] = c
  <2>1. /\ CategoryOrder[1] = "software_engineering" /\ CategoryOrder[2] = "ai_ml"
        /\ CategoryOrder[3] = "accounting" /\ CategoryOrder[4] = "hr"
        /\ CategoryOrder[5] = "government" /\ CategoryOrder[6] = "internships"
    BY DEF CategoryOrder
  <2>2. {1, 2, 3, 4, 5, 6} \subseteq DOMAIN CategoryOrder
    BY DEF CategoryOrder
  <2> QED
    BY <1>1, <2>1, <2>2
<1>4. IsFiniteSet(DOMAIN Rules)
  <2>1. DOMAIN CategoryOrder = 1..6 /\ CategoryOrder \in [1..6 -> DOMAIN Rules]
    BY <1>2, LenProperties
  <2>2. CategoryOrder \in Surjection(1..6, DOMAIN Rules)
    BY <1>3, <2>1 DEF Surjection
  <2>3. IsFiniteSet(1..6)
    <3>1. 1 \in Int /\ 6 \in Int
      OBVIOUS
    <3> QED
      BY ONLY <3>1, FS_Interval
  <2> QED
    BY <2>2, <2>3, FS_Surjection
<1> QED
  BY <1>2, <1>3, <1>4

\* A category has one rule or two, the weights of which are numbers.
LEMMA RuleWeights ==
  ASSUME NEW c \in DOMAIN Rules
  PROVE  \/ \E r : Rules[c] = <<r>> /\ r[2] \in Nat
         \/ \E r, s : Rules[c] = <<r, s>> /\ r[2] \in Nat /\ s[2] \in Nat
<1>1. c \in {"software_engineering", "ai_ml", "accounting", "hr", "government", "internships"}
  BY DEF Rules
<1>2. /\ Rules["software_engineering"] = << <<"software engineer", 6>>, <<"api", 2>> >>
      /\ Rules["ai_ml"] = << <<"machine learning", 7>>, <<"nlp", 5>> >>
      /\ Rules["accounting"] = << <<"accountant", 7>>, <<"audit", 5>> >>
      /\ Rules["hr"] = << <<"recruiter", 6>> >>
      /\ Rules["government"] = << <<"ministry of", 6>>, <<"nts", 5>> >>
      /\ Rules["internships"] = << <<"internship", 8>>, <<"intern", 6>> >>
  BY DEF Rules
<1>3. CASE c = "hr"
  <2>1. <<"recruiter", 6>>[2] \in Nat
    OBVIOUS
  <2> QED
    BY <1>2, <1>3, <2>1
<1>4. CASE c # "hr"
  <2>1. /\ <<"software engineer", 6>>[2] \in Nat /\ <<"api", 2>>[2] \in Nat
        /\ <<"machine learning", 7>>[2] \in Nat /\ <<"nlp", 5>>[2] \in Nat
        /\ <<"accountant", 7>>[2] \in Nat /\ <<"audit", 5>>[2] \in Nat
        /\ <<"ministry of", 6>>[2] \in Nat /\ <<"nts", 5>>[2] \in Nat
        /\ <<"internship", 8>>[2] \in Nat /\ <<"intern", 6>>[2] \in Nat
    OBVIOUS
  <2> QED
    BY <1>1, <1>2, <1>4, <2>1
<1> QED
  BY <1>3, <1>4

\* Scores are numbers, and a category has one for its keywords or for the hint.
LEMMA ScoresAreNumbers ==
  ASSUME NEW t, NEW hint
  PROVE  /\ Scores(t, hint) \in [DOMAIN Rules -> Nat]
         /\ \A c \in DOMAIN Rules : /\ KeywordScore(c, t) \in Nat
                                    /\ Scores(t, hint)[c] > 0 => KeywordScore(c, t) > 0 \/ c = hint
<1>1. \A c \in DOMAIN Rules : KeywordScore(c, t) \in Nat
  <2> SUFFICES ASSUME NEW c \in DOMAIN Rules PROVE KeywordScore(c, t) \in Nat
    OBVIOUS
  <2>0. \/ \E r : Rules[c] = <<r>> /\ r[2] \in Nat
        \/ \E r, s : Rules[c] = <<r, s>> /\ r[2] \in Nat /\ s[2] \in Nat
    BY RuleWeights
  <2>1. \E n \in Nat : DOMAIN Rules[c] = 1..n
    <3>1. (\E r : Rules[c] = <<r>>) => DOMAIN Rules[c] = 1..1
      OBVIOUS
    <3>2. (\E r, s : Rules[c] = <<r, s>>) => DOMAIN Rules[c] = 1..2
      OBVIOUS
    <3>3. 1 \in Nat /\ 2 \in Nat
      OBVIOUS
    <3> QED
      BY <2>0, <3>1, <3>2, <3>3
  <2>2. \A i \in DOMAIN Rules[c] : Rules[c][i][2] \in Nat
    BY <2>0
  <2>3. \A i \in DOMAIN Rules[c] : Evidence(Rules[c][i], t) \in Nat
    BY <2>2 DEF Evidence
  <2>4. [i \in DOMAIN Rules[c] |-> Evidence(Rules[c][i], t)] \in Seq(Nat)
    BY <2>1, <2>3, SeqDef
  <2> QED
    BY <2>4, SumIsNumber DEF KeywordScore
<1> QED
  BY <1>1 DEF Scores

\* The position of a category with keywords is its own; what has none is last.
LEMMA PositionIs ==
  ASSUME NEW t, NEW c \in DOMAIN Rules
  PROVE  /\ Position(c, t) \in 1..7
         /\ KeywordScore(c, t) = 0 => Position(c, t) = 7
         /\ KeywordScore(c, t) # 0 => Position(c, t) \in 1..6 /\ CategoryOrder[Position(c, t)] = c
<1>1. DOMAIN CategoryOrder = 1..6 /\ Len(CategoryOrder) = 6
  BY CategoriesOrdered, LenProperties
<1>2. CASE KeywordScore(c, t) = 0
  BY <1>1, <1>2 DEF Position
<1>3. CASE KeywordScore(c, t) # 0
  <2>1. Position(c, t) = CHOOSE i \in DOMAIN CategoryOrder : CategoryOrder[i] = c
    BY <1>3 DEF Position
  <2>2. \E i \in DOMAIN CategoryOrder : CategoryOrder[i] = c
    BY CategoriesOrdered
  <2>3. Position(c, t) \in DOMAIN CategoryOrder /\ CategoryOrder[Position(c, t)] = c
    BY <2>1, <2>2
  <2> QED
    BY <1>1, <1>3, <2>3
<1> QED
  BY <1>2, <1>3

\* The categories with a score, the best first.
LEMMA RankedIs ==
  ASSUME NEW t, NEW hint
  PROVE  Ranked(t, hint) \in Seq(DOMAIN Rules)
<1> DEFINE s == Scores(t, hint)
           found == {c \in DOMAIN s : s[c] > 0}
           before(a, b) == s[a] > s[b] \/ (s[a] = s[b] /\ Position(a, t) < Position(b, t))
           R == {p \in found \X found : before(p[1], p[2])}
<1>1. s \in [DOMAIN Rules -> Nat]
  BY ScoresAreNumbers
<1>2. found \in SUBSET (DOMAIN Rules) /\ IsFiniteSet(found)
  <2>1. found \in SUBSET (DOMAIN Rules)
    BY <1>1
  <2> HIDE DEF found
  <2> QED
    BY <2>1, CategoriesOrdered, FS_Subset
<1>3. \A a, b \in found : <<a, b>> \in R <=> before(a, b)
  <2> HIDE DEF before, found
  <2> QED
    OBVIOUS
<1>4. \A a \in found : s[a] \in Nat /\ Position(a, t) \in 1..7
  BY <1>1, <1>2, PositionIs
<1>5. \A a, b \in found : a # b => Position(a, t) # Position(b, t)
  <2> SUFFICES ASSUME NEW a \in found, NEW b \in found, Position(a, t) = Position(b, t) PROVE a = b
    OBVIOUS
  <2>1. a \in DOMAIN Rules /\ b \in DOMAIN Rules /\ s[a] > 0 /\ s[b] > 0
    BY <1>2
  <2>2. CASE KeywordScore(a, t) = 0 /\ KeywordScore(b, t) = 0
    BY <2>1, <2>2, ScoresAreNumbers
  <2>3. CASE ~(KeywordScore(a, t) = 0 /\ KeywordScore(b, t) = 0)
    <3>1. KeywordScore(a, t) # 0 /\ KeywordScore(b, t) # 0
      BY <2>1, <2>3, PositionIs
    <3> QED
      BY <2>1, <3>1, PositionIs
  <2> QED
    BY <2>2, <2>3
<1> HIDE DEF R, s, found
<1>6. LinearOn(R, found)
  <2>1. \A x \in found : <<x, x>> \notin R
    BY <1>3, <1>4
  <2>2. \A x, y \in found : x # y => <<x, y>> \in R \/ <<y, x>> \in R
    BY <1>3, <1>4, <1>5
  <2>3. ASSUME NEW x \in found, NEW y \in found, NEW z \in found, <<x, y>> \in R, <<y, z>> \in R
        PROVE  <<x, z>> \in R
    <3>1. before(x, y) /\ before(y, z)
      BY <1>3, <2>3
    <3>2. before(x, z)
      BY <1>4, <3>1
    <3> HIDE DEF before
    <3> QED
      BY <1>3, <3>2
  <2> QED
    BY <2>1, <2>2, <2>3 DEF LinearOn
<1>7. Ranked(t, hint) = InOrder(found, R)
  BY DEF Ranked, R, s, found
<1>8. \E n \in Nat : Ranked(t, hint) \in [1..n -> found]
  BY <1>2, <1>6, <1>7, InOrderIs
<1>9. Ranked(t, hint) \in Seq(found)
  BY <1>8, SeqDef
<1>10. \A q \in Seq(found) : q \in Seq(DOMAIN Rules)
  <2> SUFFICES ASSUME NEW q \in Seq(found) PROVE q \in Seq(DOMAIN Rules)
    OBVIOUS
  <2>1. Len(q) \in Nat /\ DOMAIN q = 1..Len(q) /\ \A i \in 1..Len(q) : q[i] \in found
    BY LenProperties
  <2>2. q \in [1..Len(q) -> found]
    BY LenProperties
  <2>3. q \in [1..Len(q) -> DOMAIN Rules]
    BY <1>2, <2>2
  <2> QED
    BY <2>1, <2>3, SeqDef
<1> QED
  BY <1>9, <1>10

\* A confidence is a number of thousandths, below one.
LEMMA ConfidenceIs ==
  ASSUME NEW top \in Nat, NEW next \in Nat
  PROVE  Confidence(top, next) \in 0..990
<1> DEFINE margin    == IF next > top THEN 0 ELSE top - next
           magnitude == IF top > 240 THEN 240 ELSE top
           exact     == 350 * 240 * margin + 650 * magnitude * top
           rounded   == (2 * exact + 240 * top) \div (480 * top)
<1>1. margin \in Nat /\ magnitude \in Nat
  OBVIOUS
<1> HIDE DEF margin, magnitude
<1>2. magnitude * top \in Nat
  BY <1>1
<1>3. 650 * magnitude * top = 650 * (magnitude * top)
  BY <1>1
<1>4. exact \in Nat
  BY <1>1, <1>2, <1>3
<1> HIDE DEF exact
<1>5. CASE top = 0
  BY <1>5 DEF Confidence
<1>6. CASE top # 0
  <2>1. 2 * exact + 240 * top \in Nat /\ 480 * top \in Nat \ {0}
    BY <1>4, <1>6
  <2>2. rounded \in Nat
    <3>1. \A a \in Nat, d \in Nat \ {0} : a \div d \in Nat
      OBVIOUS
    <3> QED
      BY <2>1, <3>1
  <2>3. Confidence(top, next) = IF rounded > 990 THEN 990 ELSE rounded
    BY <1>6 DEF Confidence, exact, margin, magnitude
  <2> HIDE DEF rounded
  <2> QED
    BY <2>2, <2>3
<1> QED
  BY <1>5, <1>6

\* The first of a sequence.
LEMMA FewerIs ==
  ASSUME NEW T, NEW s \in Seq(T), NEW n \in Nat
  PROVE  /\ Fewer(n, s) \in Seq(T) /\ Len(Fewer(n, s)) <= n
         /\ \A k \in 1..Len(s) : k <= n => k \in 1..Len(Fewer(n, s)) /\ Fewer(n, s)[k] = s[k]
<1> DEFINE m == IF Len(s) > n THEN n ELSE Len(s)
<1>1. Len(s) \in Nat
  BY LenProperties
<1>2. m \in Nat /\ m <= Len(s) /\ m <= n
  BY <1>1
<1>3. Fewer(n, s) = SubSeq(s, 1, m)
  BY DEF Fewer
<1>4. /\ SubSeq(s, 1, m) \in Seq(T) /\ Len(SubSeq(s, 1, m)) = m
      /\ \A k \in 1..m : SubSeq(s, 1, m)[k] = s[k]
  <2>1. \A k \in 1..m : s[k] \in T
    BY <1>1, <1>2, LenProperties
  <2>2. 1 \in 1..(Len(s) + 1) /\ m \in 0..Len(s)
    BY <1>1, <1>2
  <2> HIDE DEF m
  <2> QED
    BY <1>1, <1>2, <2>1, <2>2, SubSeqProperties
<1>5. \A k \in 1..Len(s) : k <= n => k \in 1..m
  BY <1>1
<1> HIDE DEF m
<1> QED
  BY <1>2, <1>3, <1>4, <1>5

\* Where a flag is found: it is the category or one of the first four others.
Shows(label, flag) ==
  label.category = flag \/ \E k \in 1..Len(label.secondary) : k <= 4 /\ label.secondary[k] = flag

IsLabel(label) ==
  /\ label.category \in Labels /\ label.secondary \in Seq(Labels) /\ label.confidence \in 0..990

ShowsFlags(label, flags) ==
  /\ "internships" \in flags => Shows(label, "internships")
  /\ "government" \in flags /\ "internships" \notin flags => Shows(label, "government")

\* A flag that is not the category is added to at most three others.
LEMMA FlaggedIs ==
  ASSUME NEW s \in Seq(Labels), Len(s) <= 3, NEW category, NEW flags
  PROVE  LET r == Flagged(s, category, flags) IN
         /\ r \in Seq(Labels)
         /\ "internships" \in flags =>
              category = "internships" \/ \E k \in 1..Len(r) : k <= 4 /\ r[k] = "internships"
         /\ "government" \in flags /\ "internships" \notin flags =>
              category = "government" \/ \E k \in 1..Len(r) : k <= 4 /\ r[k] = "government"
<1> DEFINE with(q, c) == IF c \in flags /\ c # category /\ ~Contains(q, c) THEN Append(q, c) ELSE q
           q == with(s, "internships")
           r == with(q, "government")
<1>1. "internships" \in Labels /\ "government" \in Labels
  BY DEF Labels, Rules
<1>2. Flagged(s, category, flags) = r
  BY DEF Flagged
<1>3. Len(s) \in Nat
  BY LenProperties
<1>4. /\ q \in Seq(Labels)
      /\ "internships" \in flags => category = "internships" \/ \E k \in 1..Len(q) : k <= 4 /\ q[k] = "internships"
      /\ "internships" \notin flags => q = s
  <2>1. CASE "internships" \in flags /\ "internships" # category /\ ~Contains(s, "internships")
    <3>1. q = Append(s, "internships")
      BY <2>1
    <3> HIDE DEF q
    <3>2. q \in Seq(Labels) /\ Len(q) = Len(s) + 1 /\ q[Len(q)] = "internships"
      BY <1>1, <3>1, AppendProperties
    <3>3. Len(q) \in 1..Len(q) /\ Len(q) <= 4
      BY <1>3, <3>2
    <3> QED
      BY <2>1, <3>2, <3>3
  <2>2. CASE "internships" \in flags /\ "internships" # category /\ Contains(s, "internships")
    <3>1. q = s
      BY <2>2
    <3>2. PICK k \in 1..Len(s) : s[k] = "internships"
      BY <2>2 DEF Contains
    <3>3. k <= 4
      BY <1>3
    <3> HIDE DEF q
    <3> QED
      BY <2>2, <3>1, <3>2, <3>3
  <2>3. CASE ~("internships" \in flags /\ "internships" # category)
    BY <2>3
  <2> QED
    BY <2>1, <2>2, <2>3
<1> HIDE DEF q
<1>5. /\ r \in Seq(Labels)
      /\ Len(r) >= Len(q) /\ \A k \in 1..Len(q) : r[k] = q[k]
  <2>1. q \in Seq(Labels) /\ Len(q) \in Nat
    BY <1>4, LenProperties
  <2>2. CASE r = q
    BY <2>1, <2>2
  <2>3. CASE r = Append(q, "government")
    <3> HIDE DEF r
    <3> QED
      BY <1>1, <2>1, <2>3, AppendProperties
  <2> QED
    BY <2>2, <2>3
<1>6. "government" \in flags /\ "internships" \notin flags =>
        category = "government" \/ \E k \in 1..Len(r) : k <= 4 /\ r[k] = "government"
  <2> SUFFICES ASSUME "government" \in flags, "internships" \notin flags, category # "government"
               PROVE  \E k \in 1..Len(r) : k <= 4 /\ r[k] = "government"
    OBVIOUS
  <2>1. q = s
    BY <1>4
  <2>2. CASE Contains(s, "government")
    <3>1. r = s
      BY <2>1, <2>2
    <3>2. PICK k \in 1..Len(s) : s[k] = "government"
      BY <2>2 DEF Contains
    <3>3. k <= 4
      BY <1>3
    <3> HIDE DEF r
    <3> QED
      BY <3>1, <3>2, <3>3
  <2>3. CASE ~Contains(s, "government")
    <3>1. r = Append(s, "government")
      BY <2>1, <2>3
    <3> HIDE DEF r
    <3>2. Len(r) = Len(s) + 1 /\ r[Len(r)] = "government"
      BY <1>1, <3>1, AppendProperties
    <3>3. Len(r) \in 1..Len(r) /\ Len(r) <= 4
      BY <1>3, <3>2
    <3> QED
      BY <3>2, <3>3
  <2> QED
    BY <2>2, <2>3
<1> HIDE DEF r
<1>7. "internships" \in flags => category = "internships" \/ \E k \in 1..Len(r) : k <= 4 /\ r[k] = "internships"
  <2>1. Len(q) \in Nat /\ Len(r) \in Nat
    BY <1>4, <1>5, LenProperties
  <2>2. \A k \in 1..Len(q) : k \in 1..Len(r) /\ r[k] = q[k]
    BY <1>5, <2>1
  <2> QED
    BY <1>4, <2>2
<1> QED
  BY <1>2, <1>5, <1>6, <1>7

\* The label the scores give is one, with the flags.
LEMMA LabelledIs ==
  ASSUME NEW scores \in [DOMAIN Rules -> Nat], NEW ranked \in Seq(DOMAIN Rules), NEW best \in Labels,
         NEW flags
  PROVE  LET l == Labelled(scores, ranked, best, flags) IN
         IsLabel(l) /\ ShowsFlags(l, flags) /\ l = [category |-> l.category, secondary |-> l.secondary, confidence |-> l.confidence]
<1> DEFINE top      == IF best = "other" THEN 0 ELSE scores[best]
           category == IF best = "other" THEN FallBack(flags) ELSE best
           places   == {i \in DOMAIN ranked : ranked[i] # category}
           others   == Selected(ranked, places)
           strong   == {i \in DOMAIN others : scores[others[i]] >= 40 /\ 5 * scores[others[i]] >= 2 * top}
           few      == Fewer(3, Selected(others, strong))
           next     == IF others = <<>> THEN 0 ELSE scores[Head(others)]
           l        == Labelled(scores, ranked, best, flags)
<1>1. top \in Nat /\ category \in Labels
  <2>1. FallBack(flags) \in Labels
    BY DEF FallBack, Labels, Rules
  <2> HIDE DEF Rules
  <2> QED
    BY <2>1 DEF Labels
<1>2. others \in Seq(DOMAIN Rules)
  <2>1. places \in SUBSET (DOMAIN ranked)
    OBVIOUS
  <2> HIDE DEF places
  <2> QED
    BY <2>1, SelectedIs
<1>3. l = [category |-> category, secondary |-> Flagged(few, category, flags), confidence |-> Confidence(top, next)]
  BY DEF Labelled
<1> HIDE DEF top, category, others, l
<1>4. few \in Seq(DOMAIN Rules) /\ Len(few) <= 3
  <2>1. strong \in SUBSET (DOMAIN others)
    OBVIOUS
  <2> HIDE DEF strong
  <2>2. Selected(others, strong) \in Seq(DOMAIN Rules)
    BY <1>2, <2>1, SelectedIs
  <2>3. 3 \in Nat
    OBVIOUS
  <2> QED
    BY <2>2, <2>3, FewerIs
<1>5. next \in Nat
  <2>1. others # <<>> => Head(others) \in DOMAIN Rules
    BY <1>2, HeadTailProperties
  <2> QED
    BY <2>1
<1> HIDE DEF few, next
<1>6. few \in Seq(Labels)
  <2>1. few \in [1..Len(few) -> DOMAIN Rules] /\ Len(few) \in Nat
    BY <1>4, LenProperties
  <2>2. few \in [1..Len(few) -> Labels]
    BY <2>1 DEF Labels
  <2> QED
    BY <2>1, <2>2, SeqDef
<1>7. Confidence(top, next) \in 0..990
  BY <1>1, <1>5, ConfidenceIs
<1>8. l.category = category /\ l.secondary = Flagged(few, category, flags) /\ l.confidence = Confidence(top, next)
  BY <1>3
<1>9. IsLabel(l)
  BY <1>1, <1>4, <1>6, <1>7, <1>8, FlaggedIs DEF IsLabel
<1>10. ShowsFlags(l, flags)
  BY <1>4, <1>6, <1>8, FlaggedIs DEF ShowsFlags, Shows
<1>11. l = [category |-> l.category, secondary |-> l.secondary, confidence |-> l.confidence]
  BY <1>3, <1>8
<1> QED
  BY <1>9, <1>10, <1>11 DEF l

\* A label that is not trusted gives way to the flag.
LEMMA TrustedIs ==
  ASSUME NEW l, IsLabel(l), NEW flags, ShowsFlags(l, flags),
         l = [category |-> l.category, secondary |-> l.secondary, confidence |-> l.confidence]
  PROVE  LET r == Trusted(l, flags) IN
         /\ IsLabel(r) /\ ShowsFlags(r, flags)
         /\ r.category \notin CrossCutting \union {"other"} => r.confidence >= 300
<1> DEFINE instead == FallBack(flags)
           hinted  == IF instead = "other" /\ ~Contains(l.secondary, l.category)
                      THEN <<l.category>> \o l.secondary ELSE l.secondary
           few     == Fewer(3, Selected(hinted, {i \in DOMAIN hinted : hinted[i] # instead}))
           r       == Trusted(l, flags)
<1>1. CASE ~(l.confidence < 300 /\ l.category # "other")
  <2>1. r = l
    BY <1>1 DEF Trusted
  <2>2. l.category # "other" => l.confidence >= 300
    <3>1. l.confidence \in 0..990
      BY DEF IsLabel
    <3> QED
      BY <1>1, <3>1
  <2> HIDE DEF r
  <2> QED
    BY <2>1, <2>2 DEF r
<1>2. CASE l.confidence < 300 /\ l.category # "other"
  <2>1. r = [l EXCEPT !.category = instead, !.secondary = few]
    BY <1>2 DEF Trusted
  <2>2. instead \in Labels /\ instead \in CrossCutting \union {"other"}
    BY DEF FallBack, Labels, Rules, CrossCutting
  <2>3. few \in Seq(Labels)
    <3>1. hinted \in Seq(Labels)
      <4>1. l.secondary \in Seq(Labels) /\ <<l.category>> \in Seq(Labels)
        BY DEF IsLabel
      <4> QED
        BY <4>1, ConcatProperties
    <3> HIDE DEF hinted
    <3> DEFINE rest == {i \in DOMAIN hinted : hinted[i] # instead}
    <3>2. rest \in SUBSET (DOMAIN hinted)
      OBVIOUS
    <3> HIDE DEF rest
    <3>3. Selected(hinted, rest) \in Seq(Labels)
      BY <3>1, <3>2, SelectedIs
    <3>4. 3 \in Nat
      OBVIOUS
    <3> QED
      BY <3>3, <3>4, FewerIs DEF rest
  <2> HIDE DEF few, r
  <2>4. r.category = instead /\ r.secondary = few /\ r.confidence = l.confidence
    BY <2>1
  <2>5. /\ "internships" \in flags => instead = "internships"
        /\ "government" \in flags /\ "internships" \notin flags => instead = "government"
    BY DEF FallBack
  <2>6. IsLabel(r)
    BY <2>2, <2>3, <2>4 DEF IsLabel
  <2>7. ShowsFlags(r, flags)
    BY <2>4, <2>5 DEF ShowsFlags, Shows
  <2> QED
    BY <2>2, <2>4, <2>6, <2>7 DEF r
<1> QED
  BY <1>1, <1>2

\* What the classifier says of any posting: a label with its flags among the first four others.
LEMMA ClassIs ==
  ASSUME NEW t, NEW hint, NEW employment, NEW experience
  PROVE  LET c     == Classify(t, hint, employment, experience)
             found == {c.category} \union Range(c.secondary) IN
         /\ IsLabel(c) /\ Len(c.secondary) <= 4
         /\ c.is_internship \in BOOLEAN /\ c.is_government \in BOOLEAN
         /\ c.is_internship => "internships" \in found
         /\ c.is_government => "government" \in found \/ c.is_internship
         /\ c.category \notin CrossCutting \union {"other"} => c.confidence >= 300
<1> DEFINE scores == Scores(t, hint)
           ranked == Ranked(t, hint)
           flags  == Flags(t, hint, employment, experience)
           best   == TopCategory(scores, ranked)
           first  == Labelled(scores, ranked, best, flags)
           label  == Trusted(first, flags)
           c      == Classify(t, hint, employment, experience)
<1>1. scores \in [DOMAIN Rules -> Nat] /\ ranked \in Seq(DOMAIN Rules)
  BY ScoresAreNumbers, RankedIs
<1>2. c.category = label.category /\ c.secondary = Kept(label.secondary) /\ c.confidence = label.confidence
  BY DEF Classify, Classified
<1>3. c.is_internship = ("internships" \in flags) /\ c.is_government = ("government" \in flags)
  BY DEF Classify, Classified
<1> HIDE DEF c, flags, scores, ranked
<1>4. best \in Labels
  <2> DEFINE places == {i \in DOMAIN ranked : ranked[i] \notin CrossCutting}
             functional == Selected(ranked, places)
  <2>1. places \in SUBSET (DOMAIN ranked)
    OBVIOUS
  <2>2. best = IF functional # <<>> /\ scores[Head(functional)] >= 40 THEN Head(functional)
               ELSE IF ranked = <<>> THEN "other" ELSE Head(ranked)
    BY DEF TopCategory
  <2> HIDE DEF places
  <2>3. functional \in Seq(DOMAIN Rules)
    BY <1>1, <2>1, SelectedIs
  <2> HIDE DEF functional, best
  <2>4. /\ functional # <<>> => Head(functional) \in DOMAIN Rules
        /\ ranked # <<>> => Head(ranked) \in DOMAIN Rules
    BY <1>1, <2>3, HeadTailProperties
  <2> QED
    BY <2>2, <2>4 DEF Labels
<1> HIDE DEF best
<1>5. /\ IsLabel(first) /\ ShowsFlags(first, flags)
      /\ first = [category |-> first.category, secondary |-> first.secondary, confidence |-> first.confidence]
  BY <1>1, <1>4, LabelledIs
<1> HIDE DEF first
<1>6. /\ IsLabel(label) /\ ShowsFlags(label, flags)
      /\ label.category \notin CrossCutting \union {"other"} => label.confidence >= 300
  BY <1>5, TrustedIs
<1> HIDE DEF label
<1>7. /\ c.secondary \in Seq(Labels) /\ Len(c.secondary) <= 4
      /\ \A k \in 1..Len(label.secondary) : k <= 4 =>
           k \in 1..Len(c.secondary) /\ c.secondary[k] = label.secondary[k]
  <2>1. label.secondary \in Seq(Labels) /\ 4 \in Nat
    BY <1>6 DEF IsLabel
  <2>2. c.secondary = Fewer(4, label.secondary)
    BY <1>2 DEF Kept
  <2> QED
    BY <2>1, <2>2, FewerIs
<1>8. \A flag : Shows(label, flag) => flag \in {c.category} \union Range(c.secondary)
  <2> SUFFICES ASSUME NEW flag, Shows(label, flag), c.category # flag PROVE flag \in Range(c.secondary)
    OBVIOUS
  <2>1. PICK k \in 1..Len(label.secondary) : k <= 4 /\ label.secondary[k] = flag
    BY <1>2 DEF Shows
  <2>2. k \in DOMAIN c.secondary /\ c.secondary[k] = flag
    BY <1>7, <2>1, LenProperties
  <2> QED
    BY <2>2 DEF Range
<1>9. IsLabel(c)
  BY <1>2, <1>6, <1>7 DEF IsLabel
<1>10. c.is_internship \in BOOLEAN /\ c.is_government \in BOOLEAN
  BY <1>3
<1>11. /\ c.is_internship => "internships" \in {c.category} \union Range(c.secondary)
       /\ c.is_government => "government" \in {c.category} \union Range(c.secondary) \/ c.is_internship
  BY <1>3, <1>6, <1>8 DEF ShowsFlags
<1>12. c.category \notin CrossCutting \union {"other"} => c.confidence >= 300
  BY <1>2, <1>6
<1> QED
  BY <1>7, <1>9, <1>10, <1>11, <1>12 DEF c
-----------------------------------------------------------------------------
(* The way of a posting.                                                   *)

\* The classification is put into the job and changes nothing else of it.
LEMMA NormalizedJobIs ==
  ASSUME NEW r
  PROVE  LET j == NormalizedJob(r)
             n == Normalized(r) IN
         /\ j.mode = n.mode /\ j.salary = n.salary /\ j.place = n.place
         /\ j.key = n.key /\ j.company = n.company /\ j.words = n.words
         /\ j.posted = n.posted /\ j.length = n.length
         /\ j.class = Classify(Words(n, r), r.hint, n.employment, n.experience)
<1> DEFINE n == Normalized(r)
           fields == {"title", "key", "company", "place", "mode", "employment", "experience", "salary",
                      "posted", "deadline", "skills", "requirements", "responsibilities", "source", "id",
                      "url", "website", "words", "length", "class"}
<1>1. DOMAIN n = fields
  BY DEF Normalized
<1>2. NormalizedJob(r) = [n EXCEPT !.class = Classify(Words(n, r), r.hint, n.employment, n.experience)]
  BY DEF NormalizedJob, WithClass
<1> HIDE DEF n
<1> QED
  BY <1>1, <1>2 DEF n

\* What holds of a posting at each stage of its way.
PostInv ==
  /\ stage \in {"waiting", "fetched", "normalized"} /\ fetched \in 0..MaxVersions
  /\ raw \in Versions \union {None}
  /\ stage # "waiting" => raw \in Versions
  /\ stage = "normalized" => job = NormalizedJob(raw)
  /\ ClassificationTogether

LEMMA PostingBegins == PostingInit => PostInv
BY PostingAssumption DEF PostingInit, PostInv, ClassificationTogether

\* The columns of the classification are always written.
LEMMA ClassRefreshed ==
  ASSUME NEW old, NEW n, NEW quality, NEW status, n.class.category # None, n.class.confidence # None,
         n.class.is_internship # None, n.class.is_government # None
  PROVE  LET new == Refreshed(old, Columns(n, quality, status)) IN
         /\ new.category = n.class.category /\ new.confidence = n.class.confidence
         /\ new.is_internship = n.class.is_internship /\ new.is_government = n.class.is_government
<1> DEFINE c   == Columns(n, quality, status)
           kept(f) == IF f \in ListColumns THEN c[f] = <<>> ELSE c[f] = None
<1>1. {"category", "confidence", "is_internship", "is_government"} \subseteq DOMAIN c
  BY DEF Columns
<1>2. /\ c["category"] = n.class.category /\ c["confidence"] = n.class.confidence
      /\ c["is_internship"] = n.class.is_internship /\ c["is_government"] = n.class.is_government
  BY DEF Columns
<1>3. {"category", "confidence", "is_internship", "is_government"} \intersect ListColumns = {}
  BY DEF ListColumns
<1>4. Refreshed(old, c) = [f \in DOMAIN c |-> IF kept(f) THEN old[f] ELSE c[f]]
  BY DEF Refreshed
<1> HIDE DEF c
<1>5. ~kept("category") /\ ~kept("confidence") /\ ~kept("is_internship") /\ ~kept("is_government")
  BY <1>2, <1>3
<1> HIDE DEF kept
<1> QED
  BY <1>1, <1>2, <1>4, <1>5 DEF c

\* The classification of a normalised posting is one, and none of it is absent.
LEMMA ClassPresent ==
  ASSUME NEW r
  PROVE  LET c == NormalizedJob(r).class IN
         c.category # None /\ c.confidence # None /\ c.is_internship # None /\ c.is_government # None
<1> DEFINE c == NormalizedJob(r).class
<1>1. c.category \in Labels /\ c.confidence \in 0..990 /\ c.is_internship \in BOOLEAN /\ c.is_government \in BOOLEAN
  <2>1. PICK t, hint, employment, experience : c = Classify(t, hint, employment, experience)
    BY NormalizedJobIs
  <2> HIDE DEF c
  <2>2. IsLabel(c) /\ c.is_internship \in BOOLEAN /\ c.is_government \in BOOLEAN
    BY <2>1, ClassIs
  <2> QED
    BY <2>2 DEF IsLabel
<1>2. None \notin Labels /\ None \notin Int /\ None \notin BOOLEAN
  BY PostingAssumption, NormalizerAssumption DEF Labels
<1> HIDE DEF c
<1> QED
  BY <1>1, <1>2 DEF c

LEMMA PostingGoesOn ==
  ASSUME PostInv, [PostingNext]_postingVars
  PROVE  PostInv'
<1> USE DEF PostInv
<1>1. CASE Fetch
  BY <1>1, PostingAssumption DEF Fetch, ClassificationTogether
<1>2. CASE Normalize
  BY <1>2 DEF Normalize, ClassificationTogether
<1>3. CASE Reject
  BY <1>3 DEF Reject, ClassificationTogether
<1>4. CASE Create
  <2>1. /\ row' = Columns(job, QualityOf(job), Status(job)) /\ job' = job /\ stage' = "waiting"
        /\ raw' = raw /\ fetched' = fetched
    BY <1>4 DEF Create
  <2>2. ClassificationTogether'
    BY <2>1 DEF ClassificationTogether, Columns
  <2> QED
    BY <2>1, <2>2
<1>5. CASE Update
  <2>1. /\ row' = Refreshed(row, Columns(job, QualityOf(job), Reactivated(row.status, job)))
        /\ job' = job /\ stage' = "waiting" /\ raw' = raw /\ fetched' = fetched
    BY <1>5 DEF Update
  <2>2. job = NormalizedJob(raw)
    BY <1>5 DEF Update
  <2>3. ClassificationTogether'
    BY <2>1, <2>2, ClassPresent, ClassRefreshed DEF ClassificationTogether
  <2> QED
    BY <2>1, <2>3
<1>6. CASE UNCHANGED postingVars
  BY <1>6 DEF postingVars, ClassificationTogether
<1> QED
  BY <1>1, <1>2, <1>3, <1>4, <1>5, <1>6 DEF PostingNext

THEOREM PostingInvariant == PostingSpec => []PostInv
<1>1. PostInv /\ [PostingNext]_postingVars => PostInv'
  BY PostingGoesOn
<1> QED
  BY <1>1, PostingBegins, PTL DEF PostingSpec

\* Whatever mixture of structured fields, hints and free text a posting is, the fields a search
\* filters on agree.
THEOREM FieldsOfAnyPostingAgree == PostingSpec => []FieldsAgree
<1>1. PostInv => FieldsAgree
  <2> SUFFICES ASSUME PostInv, stage = "normalized" PROVE FieldsAgree
    BY DEF FieldsAgree
  <2>1. raw \in Versions /\ job = NormalizedJob(raw)
    BY DEF PostInv
  <2>2. IsPosting(raw)
    BY <2>1, PostingAssumption
  <2>3. job.mode = Normalized(raw).mode /\ job.salary = Normalized(raw).salary /\ job.place = Normalized(raw).place
    BY <2>1, NormalizedJobIs
  <2> QED
    BY <2>2, <2>3, NormalizedAgrees DEF FieldsAgree
<1> QED
  BY <1>1, PostingInvariant, PTL

\* Whatever the words of a posting score, its flags are found under their categories.
THEOREM AnyFlagFound == PostingSpec => []FlagsFound
<1>1. PostInv => FlagsFound
  <2> SUFFICES ASSUME PostInv, stage = "normalized" PROVE FlagsFound
    BY DEF FlagsFound
  <2>1. job = NormalizedJob(raw)
    BY DEF PostInv
  <2>2. PICK t, hint, employment, experience : job.class = Classify(t, hint, employment, experience)
    BY <2>1, NormalizedJobIs
  <2> QED
    BY <2>2, ClassIs DEF FlagsFound
<1> QED
  BY <1>1, PostingInvariant, PTL

\* Whichever version comes after which, the label of a row and what goes with it are of the same.
THEOREM ClassificationOfOneVersion == PostingSpec => []ClassificationTogether
<1>1. PostInv => ClassificationTogether
  BY DEF PostInv
<1> QED
  BY <1>1, PostingInvariant, PTL
-----------------------------------------------------------------------------
(* How alike two postings are.                                             *)

Parts == 0..1000

\* A comparison gives a part of a thousand, the same from both sides.
LEMMA AlikeIs ==
  ASSUME NEW unknown \in Parts, NEW a, NEW b, IsSimilarity(a, b)
  PROVE  AlikeOr(unknown, a, b) \in Parts /\ AlikeOr(unknown, a, b) = AlikeOr(unknown, b, a)
BY DEF AlikeOr, IsSimilarity, Parts

LEMMA CompanySignalIs ==
  ASSUME NEW a, NEW b, IsSimilarity(a, b)
  PROVE  CompanySignal(a, b) \in Parts /\ CompanySignal(a, b) = CompanySignal(b, a)
<1>1. 500 \in Parts /\ 950 \in Parts
  BY DEF Parts
<1>2. AlikeOr(500, a, b) \in Parts /\ AlikeOr(500, a, b) = AlikeOr(500, b, a)
  BY <1>1, AlikeIs
<1> QED
  BY <1>1, <1>2 DEF CompanySignal

\* A quotient of two amounts, of which the smaller is divided.
LEMMA RatioIs ==
  ASSUME NEW low \in Nat \ {0}, NEW high \in Nat \ {0}, low <= high
  PROVE  (1000 * low) \div high \in Parts
<1>1. \A x \in Nat, d \in Nat \ {0} : x \div d \in Nat
  OBVIOUS
<1>2. 1000 * low \in Nat /\ 1000 * low <= 1000 * high
  OBVIOUS
<1>3. \A x \in Nat, d \in Nat \ {0} : x <= 1000 * d => x \div d <= 1000
  OBVIOUS
<1>4. (1000 * low) \div high \in Nat /\ (1000 * low) \div high <= 1000
  BY <1>1, <1>2, <1>3
<1> QED
  BY <1>4 DEF Parts

LEMMA SalarySignalIs ==
  ASSUME NEW a, NEW b, {a.min, a.max, b.min, b.max} \subseteq Amounts
  PROVE  SalarySignal(a, b) \in Parts /\ SalarySignal(a, b) = SalarySignal(b, a)
<1> DEFINE x == NoneOr(a.max, a.min)
           y == NoneOr(b.max, b.min)
           S(u, v) == LET low == IF u < v THEN u ELSE v
                          high == IF u < v THEN v ELSE u
                      IN IF u = None \/ v = None THEN 500 ELSE (1000 * low) \div high
<1>1. x \in Amounts /\ y \in Amounts
  BY DEF NoneOr
<1>2. SalarySignal(a, b) = S(x, y) /\ SalarySignal(b, a) = S(y, x)
  BY DEF SalarySignal
<1> HIDE DEF x, y
<1>3. CASE x = None \/ y = None
  BY <1>2, <1>3 DEF Parts
<1>4. CASE x # None /\ y # None
  <2>1. x \in Nat \ {0} /\ y \in Nat \ {0}
    BY <1>1, <1>4 DEF Amounts
  <2>2. CASE x < y
    <3>1. S(x, y) = (1000 * x) \div y /\ S(y, x) = (1000 * x) \div y
      BY <1>4, <2>1, <2>2
    <3> QED
      BY <1>2, <2>1, <2>2, <3>1, RatioIs
  <2>3. CASE ~(x < y)
    <3>1. S(x, y) = (1000 * y) \div x /\ S(y, x) = (1000 * y) \div x
      BY <1>4, <2>1, <2>3
    <3>2. y <= x
      BY <2>1, <2>3
    <3> QED
      BY <1>2, <2>1, <3>1, <3>2, RatioIs
  <2> QED
    BY <2>2, <2>3
<1> QED
  BY <1>3, <1>4

LEMMA RecencySignalIs ==
  ASSUME NEW a \in Int \union {None}, NEW b \in Int \union {None}
  PROVE  RecencySignal(a, b) \in Parts /\ RecencySignal(a, b) = RecencySignal(b, a)
<1> DEFINE days(u, v) == IF u > v THEN u - v ELSE v - u
<1>1. CASE a = None \/ b = None
  BY <1>1 DEF RecencySignal, Parts
<1>2. CASE a # None /\ b # None
  <2>1. days(a, b) = days(b, a)
    BY <1>2
  <2>2. RecencySignal(a, b) = RecencySignal(b, a)
    BY <1>2, <2>1 DEF RecencySignal
  <2>3. RecencySignal(a, b) \in {1000, 850, 600, 300, 100}
    BY <1>2 DEF RecencySignal
  <2> QED
    BY <2>2, <2>3 DEF Parts
<1> QED
  BY <1>1, <1>2

\* The score of a pair is the same from both sides, and 10000 at most.
LEMMA ScorePairIs ==
  ASSUME NEW a, NEW b, IsCandidate(a), IsCandidate(b), Comparable(a, b)
  PROVE  ScorePair(a, b) \in TenThousandths /\ ScorePair(a, b) = ScorePair(b, a)
<1> DEFINE key(x, y)   == IF x.key = <<>> \/ y.key = <<>> THEN 0 ELSE AlikeOr(0, x.key, y.key)
           words(x, y) == IF x.length > 120 /\ y.length > 120 THEN AlikeOr(500, x.words, y.words) ELSE 500
<1>1. 0 \in Parts /\ 500 \in Parts
  BY DEF Parts
<1>2. key(a, b) \in Parts /\ key(a, b) = key(b, a)
  BY <1>1, AlikeIs DEF Comparable
<1>3. words(a, b) \in Parts /\ words(a, b) = words(b, a)
  BY <1>1, AlikeIs DEF Comparable
<1>4. /\ CompanySignal(a.company, b.company) \in Parts
      /\ CompanySignal(a.company, b.company) = CompanySignal(b.company, a.company)
  BY CompanySignalIs DEF Comparable
<1>5. /\ AlikeOr(500, a.place.city, b.place.city) \in Parts
      /\ AlikeOr(500, a.place.city, b.place.city) = AlikeOr(500, b.place.city, a.place.city)
  BY <1>1, AlikeIs DEF Comparable
<1>6. SalarySignal(a.salary, b.salary) \in Parts /\ SalarySignal(a.salary, b.salary) = SalarySignal(b.salary, a.salary)
  BY SalarySignalIs DEF IsCandidate, Amounts
<1>7. RecencySignal(a.posted, b.posted) \in Parts /\ RecencySignal(a.posted, b.posted) = RecencySignal(b.posted, a.posted)
  BY RecencySignalIs DEF IsCandidate
<1>8. ASSUME NEW x, NEW y
      PROVE  ScorePair(x, y) = (34 * key(x, y) + 26 * CompanySignal(x.company, y.company)
                                + 14 * AlikeOr(500, x.place.city, y.place.city) + 16 * words(x, y)
                                + 5 * SalarySignal(x.salary, y.salary) + 5 * RecencySignal(x.posted, y.posted)) \div 10
  BY Zenon DEF ScorePair
<1> HIDE DEF key, words
<1>9. ScorePair(a, b) = ScorePair(b, a)
  BY <1>2, <1>3, <1>4, <1>5, <1>6, <1>7, <1>8
<1>11. ScorePair(a, b) \in TenThousandths
  <2>1. PICK p \in Parts, q \in Parts, r \in Parts, s \in Parts, t \in Parts, u \in Parts :
          ScorePair(a, b) = (34 * p + 26 * q + 14 * r + 16 * s + 5 * t + 5 * u) \div 10
    <3> USE <1>2, <1>3, <1>4, <1>5, <1>6, <1>7
    <3> WITNESS key(a, b) \in Parts, CompanySignal(a.company, b.company) \in Parts,
                AlikeOr(500, a.place.city, b.place.city) \in Parts, words(a, b) \in Parts,
                SalarySignal(a.salary, b.salary) \in Parts, RecencySignal(a.posted, b.posted) \in Parts
    <3> QED
      BY ONLY <1>8
  <2> DEFINE sum == 34 * p + 26 * q + 14 * r + 16 * s + 5 * t + 5 * u
  <2>2. sum \in Nat /\ sum <= 100000
    BY SMT DEF Parts
  <2> HIDE DEF sum
  <2>3. sum \div 10 \in TenThousandths
    <3>1. sum \div 10 \in Nat /\ sum \div 10 <= 10000
      BY SMT, <2>2
    <3>2. \A x \in Nat : x <= 10000 => x \in TenThousandths
      BY SMT DEF TenThousandths
    <3> QED
      BY ONLY <3>1, <3>2
  <2>4. ScorePair(a, b) = sum \div 10
    BY <2>1 DEF sum
  <2> QED
    BY ONLY <2>3, <2>4
<1> QED
  BY <1>9, <1>11
-----------------------------------------------------------------------------
(* The search for a duplicate.                                             *)

\* v is the best verdict on the first n rows: none scores above it, none before it as much.
BestOf(candidate, rows, n, v) ==
  /\ v.confidence \in TenThousandths
  /\ \A i \in 1..n : ScorePair(candidate, rows[i]) <= v.confidence
  /\ v = NoVerdict \/ \E k \in 1..n : /\ v.row = rows[k]
                                      /\ \A i \in 1..(k - 1) : ScorePair(candidate, rows[i]) < v.confidence

\* The search keeps the best row, and of the best ones the first.
LEMMA SearchFindsBest ==
  ASSUME NEW candidate, NEW T, NEW rows \in Seq(T),
         \A i \in DOMAIN rows : ScorePair(candidate, rows[i]) \in TenThousandths
  PROVE  LET v    == FindDuplicate(candidate, rows)
             same == {i \in DOMAIN rows : Identical(candidate, rows[i])} IN
         /\ same # {} => v.confidence = 10000 /\ \E i \in same : v.row = rows[i]
         /\ same = {} => BestOf(candidate, rows, Len(rows), v)
<1> DEFINE n == Len(rows)
           N == 0..n
           score(i) == ScorePair(candidate, rows[i])
           found(i) == [confidence |-> score(i), row |-> rows[i]]
           Searches(f) == f = [i \in 0..Len(rows) |->
                                 IF i = 0 THEN NoVerdict
                                 ELSE IF ScorePair(candidate, rows[i]) > f[i - 1].confidence
                                 THEN [confidence |-> ScorePair(candidate, rows[i]), row |-> rows[i]] ELSE f[i - 1]]
           V == {NoVerdict} \union {found(i) : i \in 1..n}
           step == [p \in (1..n) \X V |-> IF score(p[1]) > p[2].confidence THEN found(p[1]) ELSE p[2]]
           best == CHOOSE f : Searches(f)
           same == {i \in DOMAIN rows : Identical(candidate, rows[i])}
           v == FindDuplicate(candidate, rows)
<1>1. n \in Nat /\ DOMAIN rows = 1..n
  BY LenProperties
<1>2. v = IF same # {} THEN [confidence |-> 10000, row |-> rows[Min(same)]] ELSE best[n]
  BY DEF FindDuplicate
<1> HIDE DEF v, n
<1>3. step \in [(1..n) \X V -> V] /\ NoVerdict \in V
  <2>1. \A i \in 1..n : found(i) \in V
    OBVIOUS
  <2> HIDE DEF found, score, V
  <2>2. \A p \in (1..n) \X V : (IF score(p[1]) > p[2].confidence THEN found(p[1]) ELSE p[2]) \in V
    BY <2>1
  <2> QED
    BY <2>2 DEF V
<1>4. PICK f \in [N -> V] : f[0] = NoVerdict /\ \A i \in 1..n : f[i] = step[<<i, f[i - 1]>>]
  <2> HIDE DEF step, V
  <2>1. \E f : Loops(f, n, V, NoVerdict, step)
    BY <1>1, <1>3, LoopExists
  <2> QED
    BY <2>1 DEF Loops
<1>5. Searches(f)
  <2>1. \A i \in N : i # 0 => i \in 1..n /\ i - 1 \in N
    BY <1>1
  <2>2. \A i \in 1..n : f[i] = IF score(i) > f[i - 1].confidence THEN found(i) ELSE f[i - 1]
    <3> SUFFICES ASSUME NEW i \in 1..n
                 PROVE  f[i] = IF score(i) > f[i - 1].confidence THEN found(i) ELSE f[i - 1]
      OBVIOUS
    <3>1. i - 1 \in N
      BY <1>1
    <3> HIDE DEF found, score, V
    <3>2. <<i, f[i - 1]>> \in (1..n) \X V
      BY <1>4, <3>1
    <3> QED
      BY <1>4, <3>2
  <2> HIDE DEF V
  <2>3. f = [i \in N |-> f[i]]
    BY <1>4
  <2>4. \A i \in N : f[i] = IF i = 0 THEN NoVerdict ELSE IF score(i) > f[i - 1].confidence THEN found(i) ELSE f[i - 1]
    <3> HIDE DEF found, score
    <3> QED
      BY <1>4, <2>1, <2>2
  <2> QED
    BY <2>3, <2>4 DEF n
<1>6. Searches(best)
  <2> HIDE DEF Searches
  <2> QED
    BY <1>5
<1>7. /\ best[0] = NoVerdict
      /\ \A i \in 1..n : best[i] = IF score(i) > best[i - 1].confidence THEN found(i) ELSE best[i - 1]
  <2> HIDE DEF best
  <2>1. 0 \in N /\ \A i \in 1..n : i \in N /\ i # 0
    BY <1>1
  <2> QED
    BY <1>6, <2>1 DEF n
<1> HIDE DEF best
<1> DEFINE wrong == {i \in N : ~BestOf(candidate, rows, i, best[i])}
<1>8. wrong = {}
  <2> SUFFICES ASSUME wrong # {} PROVE FALSE
    OBVIOUS
  <2>1. PICK m \in wrong : \A k \in wrong : m <= k
    <3>1. wrong \in SUBSET Nat
      BY <1>1
    <3> HIDE DEF wrong
    <3> QED
      BY <3>1, LeastNumber
  <2>2. m # 0
    <3>1. best[0] = NoVerdict /\ NoVerdict.confidence = 0 /\ 0 \in TenThousandths
      BY <1>7, SMT DEF NoVerdict, TenThousandths
    <3>2. \A i \in 1..0 : FALSE
      OBVIOUS
    <3>3. BestOf(candidate, rows, 0, best[0])
      BY <3>1, <3>2 DEF BestOf
    <3> QED
      BY <2>1, <3>3
  <2>3. m \in Nat /\ m - 1 \in N /\ m - 1 \notin wrong /\ m \in 1..n
    <3>1. m \in N
      BY <2>1
    <3>2. m \in Nat /\ m - 1 \in N /\ m \in 1..n /\ ~(m <= m - 1)
      BY <1>1, <2>2, <3>1
    <3> HIDE DEF wrong
    <3> QED
      BY <2>1, <3>2
  <2> DEFINE p == best[m - 1]
  <2>4. BestOf(candidate, rows, m - 1, p)
    BY <2>3
  <2>5. best[m] = IF score(m) > p.confidence THEN found(m) ELSE p
    BY <1>7, <2>3
  <2>6. /\ \A i \in 1..n : score(i) \in TenThousandths
        /\ p.confidence \in TenThousandths
    BY <1>1, <2>4 DEF BestOf
  <2>7. \A x \in TenThousandths : x \in Nat
    BY SMT DEF TenThousandths
  <2>8. \A i \in 1..m : i = m \/ i \in 1..(m - 1)
    BY <2>3
  <2>9. \A i \in 1..(m - 1) : i \in 1..n /\ i \in 1..m /\ score(i) <= p.confidence
    <3>1. \A i \in 1..(m - 1) : i \in 1..n /\ i \in 1..m
      BY <1>1, <2>3
    <3> QED
      BY <2>4, <3>1 DEF BestOf
  <2>10. CASE score(m) > p.confidence
    <3>1. best[m].confidence = score(m) /\ best[m].row = rows[m]
      BY <2>5, <2>10
    <3>2. score(m) \in TenThousandths
      BY <1>1, <2>3
    <3>3. \A i \in 1..(m - 1) : score(i) < score(m)
      BY <2>3, <2>6, <2>7, <2>9, <2>10
    <3>4. \A i \in 1..m : score(i) <= score(m)
      BY <2>3, <2>6, <2>7, <2>8, <2>9, <3>3
    <3>5. m \in 1..m
      BY <2>3
    <3>6. BestOf(candidate, rows, m, best[m])
      BY <3>1, <3>2, <3>3, <3>4, <3>5 DEF BestOf
    <3> QED
      BY <2>1, <3>6
  <2>11. CASE ~(score(m) > p.confidence)
    <3>1. best[m] = p
      BY <2>5, <2>11
    <3>2. score(m) <= p.confidence
      BY <2>3, <2>6, <2>7, <2>11
    <3>3. \A i \in 1..m : score(i) <= p.confidence
      BY <2>8, <2>9, <3>2
    <3> HIDE DEF p
    <3>4. p = NoVerdict \/ \E k \in 1..m : /\ p.row = rows[k]
                                           /\ \A i \in 1..(k - 1) : ScorePair(candidate, rows[i]) < p.confidence
      BY <2>4, <2>9 DEF BestOf
    <3>5. BestOf(candidate, rows, m, p)
      BY <2>4, <3>3, <3>4 DEF BestOf
    <3> QED
      BY <2>1, <3>1, <3>5
  <2> QED
    BY <2>10, <2>11
<1>9. ASSUME same # {} PROVE v.confidence = 10000 /\ \E i \in same : v.row = rows[i]
  <2>1. same \in SUBSET Nat
    BY <1>1
  <2> HIDE DEF same
  <2>2. Min(same) \in same
    BY <1>9, <2>1, MinIsLeast
  <2>3. v.confidence = 10000 /\ v.row = rows[Min(same)]
    BY <1>2, <1>9
  <2> QED
    BY <1>9, <2>2, <2>3
<1>10. ASSUME same = {} PROVE BestOf(candidate, rows, Len(rows), v)
  <2>1. BestOf(candidate, rows, n, best[n])
    BY <1>1, <1>8
  <2>2. v = best[n]
    BY <1>2, <1>10
  <2> QED
    BY <1>10, <2>1, <2>2 DEF n
<1> HIDE DEF same
<1> QED
  BY <1>9, <1>10 DEF v, same

\* A normalised posting can be compared with every row.
LEMMA JobComparable ==
  ASSUME NEW r \in Versions
  PROVE  LET j == NormalizedJob(r) IN
         /\ IsCandidate(j)
         /\ \A i \in DOMAIN Stored : /\ ScorePair(j, Stored[i]) \in TenThousandths
                                     /\ ScorePair(j, Stored[i]) = ScorePair(Stored[i], j)
<1> DEFINE n == Normalized(r)
           j == NormalizedJob(r)
<1>1. IsPosting(r)
  BY PostingAssumption
<1>2. n.posted = ParseDate(r.posted) /\ n.length = r.length
  BY DEF Normalized
<1>3. /\ j.salary = n.salary /\ j.place = n.place /\ j.key = n.key /\ j.company = n.company
      /\ j.words = n.words /\ j.posted = n.posted /\ j.length = n.length
  BY NormalizedJobIs
<1>4. n.salary.min \in Amounts /\ n.salary.max \in Amounts
  BY <1>1, NormalizedAgrees
<1>5. \A i \in DOMAIN Stored : IsCandidate(Stored[i]) /\ Comparable(n, Stored[i])
  BY PostingAssumption
<1> HIDE DEF n, j
<1>6. IsCandidate(j)
  BY <1>1, <1>2, <1>3, <1>4 DEF IsCandidate, IsPosting, Amounts
<1>7. \A i \in DOMAIN Stored : Comparable(j, Stored[i])
  BY <1>3, <1>5 DEF Comparable
<1>8. \A i \in DOMAIN Stored : /\ ScorePair(j, Stored[i]) \in TenThousandths
                               /\ ScorePair(j, Stored[i]) = ScorePair(Stored[i], j)
  BY <1>5, <1>6, <1>7, ScorePairIs
<1> QED
  BY <1>6, <1>8 DEF j

\* The candidates are different rows, and every row with the address of the posting is one.
LEMMA CandidatesAre ==
  ASSUME NEW n
  PROVE  LET rows == Candidates(n) IN
         /\ rows \in Seq(Range(Stored))
         /\ \A k \in DOMAIN rows : \E i \in DOMAIN Stored : rows[k] = Stored[i]
         /\ \A k, m \in DOMAIN rows : rows[k] = rows[m] => k = m
         /\ \A i \in DOMAIN Stored : Stored[i].url = n.url => \E k \in DOMAIN rows : rows[k] = Stored[i]
<1> DEFINE P == {i \in DOMAIN Stored :
                   LET r == Stored[i] IN
                   \/ r.fingerprint = Fingerprint(n) \/ r.url = n.url
                   \/ n.company # None /\ r.company # None /\ n.key # <<>> /\ Within(n.company, r.company) /\ r.key = n.key}
           rows == Candidates(n)
<1>1. Stored \in Seq(Range(Stored)) /\ \A i, j \in DOMAIN Stored : Stored[i] = Stored[j] => i = j
  BY PostingAssumption
<1>2. P \in SUBSET (DOMAIN Stored) /\ \A i \in DOMAIN Stored : Stored[i].url = n.url => i \in P
  OBVIOUS
<1>3. rows = Selected(Stored, P)
  BY DEF Candidates
<1> HIDE DEF P, rows
<1>4. rows \in Seq(Range(Stored))
  BY <1>1, <1>2, <1>3, SelectedIs
<1>5. PICK f \in [1..Len(rows) -> P] :
        /\ \A k \in 1..Len(rows) : rows[k] = Stored[f[k]]
        /\ \A i \in P : \E k \in 1..Len(rows) : f[k] = i
        /\ \A k, m \in 1..Len(rows) : k < m => f[k] < f[m]
  <2>1. \E f : Takes(f, rows, Stored, P)
    BY <1>1, <1>2, <1>3, SelectedIs
  <2> QED
    BY <2>1 DEF Takes
<1>6. DOMAIN rows = 1..Len(rows) /\ Len(rows) \in Nat /\ DOMAIN Stored = 1..Len(Stored)
  BY <1>1, <1>4, LenProperties
<1>7. \A k, m \in DOMAIN rows : rows[k] = rows[m] => k = m
  <2> SUFFICES ASSUME NEW k \in DOMAIN rows, NEW m \in DOMAIN rows, rows[k] = rows[m] PROVE k = m
    OBVIOUS
  <2>1. f[k] = f[m] /\ f[k] \in 1..Len(Stored)
    BY <1>1, <1>2, <1>5, <1>6
  <2>2. ~(k < m) /\ ~(m < k)
    BY <1>5, <1>6, <2>1
  <2> QED
    BY <1>6, <2>2
<1>8. \A k \in DOMAIN rows : \E i \in DOMAIN Stored : rows[k] = Stored[i]
  BY <1>2, <1>5, <1>6
<1>9. \A i \in DOMAIN Stored : Stored[i].url = n.url => \E k \in DOMAIN rows : rows[k] = Stored[i]
  BY <1>2, <1>5, <1>6
<1> QED
  BY <1>4, <1>7, <1>8, <1>9 DEF rows

\* Whatever rows there are, the verdict on a new posting names one that no other is better than.
THEOREM VerdictOnAnyPostingIsBest == PostingSpec => []VerdictIsBest
<1>1. PostInv => VerdictIsBest
  <2> SUFFICES ASSUME PostInv, stage = "normalized", row = None PROVE VerdictIsBest
    BY DEF VerdictIsBest
  <2> DEFINE rows == Candidates(job)
             v    == Verdict(job)
             same == {i \in DOMAIN rows : Identical(job, rows[i])}
  <2>1. raw \in Versions /\ job = NormalizedJob(raw)
    BY DEF PostInv
  <2>2. \A i \in DOMAIN Stored : /\ ScorePair(job, Stored[i]) \in TenThousandths
                                 /\ ScorePair(job, Stored[i]) = ScorePair(Stored[i], job)
    BY <2>1, JobComparable
  <2>3. /\ rows \in Seq(Range(Stored))
        /\ \A k \in DOMAIN rows : \E i \in DOMAIN Stored : rows[k] = Stored[i]
        /\ \A k, m \in DOMAIN rows : rows[k] = rows[m] => k = m
        /\ \A i \in DOMAIN Stored : Stored[i].url = job.url => \E k \in DOMAIN rows : rows[k] = Stored[i]
    BY CandidatesAre
  <2>4. v = FindDuplicate(job, rows)
    BY DEF Verdict
  <2> HIDE DEF rows, v
  <2>5. \A i \in DOMAIN rows : /\ ScorePair(job, rows[i]) \in TenThousandths
                               /\ ScorePair(job, rows[i]) = ScorePair(rows[i], job)
    BY <2>2, <2>3
  <2>6. /\ same # {} => v.confidence = 10000 /\ \E i \in same : v.row = rows[i]
        /\ same = {} => BestOf(job, rows, Len(rows), v)
    BY <2>3, <2>4, <2>5, SearchFindsBest
  <2>7. DOMAIN rows = 1..Len(rows) /\ Len(rows) \in Nat
    BY <2>3, LenProperties
  <2>8. ASSUME NEW r \in Range(Stored), r.url = job.url
        PROVE  v.confidence = 10000 /\ Identical(job, v.row)
    <3>1. PICK i \in DOMAIN Stored : r = Stored[i]
      BY DEF Range
    <3>2. PICK k \in DOMAIN rows : rows[k] = r
      BY <2>3, <2>8, <3>1
    <3>3. Identical(job, r)
      BY <2>8, <3>1, PostingAssumption DEF Identical
    <3>4. k \in same
      BY <3>2, <3>3
    <3> QED
      BY <2>6, <3>4
  <2>9. ASSUME NEW r \in Range(rows)
        PROVE  ScorePair(job, r) <= v.confidence /\ ScorePair(job, r) = ScorePair(r, job)
    <3>1. PICK k \in DOMAIN rows : r = rows[k]
      BY DEF Range
    <3>2. ScorePair(job, r) \in TenThousandths /\ ScorePair(job, r) = ScorePair(r, job)
      BY <2>5, <3>1
    <3>3. CASE same # {}
      <4>1. v.confidence = 10000
        BY <2>6, <3>3
      <4>2. \A x \in TenThousandths : x <= 10000
        BY SMT DEF TenThousandths
      <4> QED
        BY <3>2, <4>1, <4>2
    <3>4. CASE same = {}
      BY <2>6, <2>7, <3>1, <3>2, <3>4 DEF BestOf
    <3> QED
      BY <3>3, <3>4
  <2>10. ASSUME NEW i \in DOMAIN rows, NEW j \in DOMAIN rows, i < j, v.row = rows[j], rows[i] # v.row,
                ~Identical(job, v.row)
         PROVE  ScorePair(job, rows[i]) < v.confidence
    <3>1. same = {}
      BY <2>6, <2>10
    <3>2. v # NoVerdict
      <4>1. rows[j] # None
        BY <2>3, PostingAssumption
      <4> QED
        BY <2>10, <4>1 DEF NoVerdict
    <3>3. PICK k \in 1..Len(rows) : /\ v.row = rows[k]
                                    /\ \A h \in 1..(k - 1) : ScorePair(job, rows[h]) < v.confidence
      BY <2>6, <3>1, <3>2 DEF BestOf
    <3>4. k = j
      BY <2>3, <2>7, <2>10, <3>3
    <3>5. i \in 1..(k - 1)
      BY <2>7, <2>10, <3>4
    <3> QED
      BY <3>3, <3>5
  <2> QED
    BY <2>8, <2>9, <2>10 DEF VerdictIsBest, rows, v
<1> QED
  BY <1>1, PostingInvariant, PTL
-----------------------------------------------------------------------------
(* The types.                                                              *)

\* What the description is worth, in percent.
LEMMA DescriptionRatioIs ==
  ASSUME NEW n
  PROVE  DescriptionRatio(n) \in 0..100
<1> DEFINE base == CASE n.length < 80   -> 5
                     [] n.length \in 80..249 -> 35
                     [] n.length \in 250..699 -> 65
                     [] n.length \in 700..5999 -> 100
                     [] OTHER             -> 85
<1>1. base \in {5, 35, 65, 100, 85}
  OBVIOUS
<1> HIDE DEF base
<1>2. base \in Nat
  BY <1>1
<1>3. /\ When(n.requirements # <<>>, 8) \in Nat /\ When(n.responsibilities # <<>>, 8) \in Nat
      /\ When(n.skills # <<>>, 6) \in Nat
  BY DEF When
<1>4. \A x \in Nat : UpTo100(x) \in 0..100
  BY DEF UpTo100
<1>5. base + When(n.requirements # <<>>, 8) + When(n.responsibilities # <<>>, 8) + When(n.skills # <<>>, 6) \in Nat
  BY <1>2, <1>3
<1>6. DescriptionRatio(n) = UpTo100(base + When(n.requirements # <<>>, 8) + When(n.responsibilities # <<>>, 8)
                                         + When(n.skills # <<>>, 6))
  BY DEF DescriptionRatio, base
<1> QED
  BY <1>4, <1>5, <1>6

LEMMA FreshnessRatioIs ==
  ASSUME NEW posted
  PROVE  FreshnessRatio(posted) \in {35, 50, 100, 88, 72, 28, 10}
BY DEF FreshnessRatio

\* The quality of a posting is a number of hundredths, no more than a hundred points.
LEMMA QualityIs ==
  ASSUME NEW n, n.class.confidence \in 0..990, NEW reliability \in Nat, NEW duplicate \in Nat, NEW verified
  PROVE  Quality(n, reliability, duplicate, verified) \in TenThousandths
<1> DEFINE a == UpTo100(reliability)
           b == When(SafeUrl(n.url), IF n.url.scheme = "https" THEN 1500 ELSE 1125)
           c == When(n.company # None, 50) + When(n.website, 25) + When(verified, 25)
           d == DescriptionRatio(n)
           e == When(n.posted # None, 60) + When(n.posted # None /\ n.posted <= Today, 10)
                + When(n.deadline # None /\ n.deadline > Today, 30)
           f == When(n.salary.min # None \/ n.salary.max # None,
                     IF n.salary.min # None /\ n.salary.max # None THEN 800 ELSE 520)
           g == (7 * n.class.confidence + 5) \div 10
           h == FreshnessRatio(n.posted)
           i == UpTo100(duplicate)
           points == 20 * a + b + 12 * c + 18 * d + 10 * e + f + g + 10 * h - 12 * i
<1>1. a \in 0..100 /\ i \in 0..100
  BY SMT DEF UpTo100
<1>2. b \in Nat /\ b <= 1500
  BY SMT DEF When
<1>3. c \in Nat /\ c <= 100
  BY SMT DEF When
<1>4. d \in 0..100
  BY DescriptionRatioIs
<1>5. e \in Nat /\ e <= 100
  BY SMT DEF When
<1>6. f \in Nat /\ f <= 800
  BY SMT DEF When
<1>7. g \in Nat /\ g <= 700
  <2> DEFINE x == n.class.confidence
             y == 7 * x + 5
  <2>0. x \in 0..990
    OBVIOUS
  <2> HIDE DEF x
  <2>1. y \in Nat /\ y <= 7000
    BY SMT, <2>0
  <2> HIDE DEF y
  <2>2. y \div 10 \in Nat /\ y \div 10 <= 700
    BY SMT, <2>1
  <2> QED
    BY ONLY <2>2 DEF x, y
<1>8. h \in Nat /\ h <= 100
  <2>1. h \in {35, 50, 100, 88, 72, 28, 10}
    BY FreshnessRatioIs
  <2> HIDE DEF h
  <2> QED
    BY <2>1
<1>9. Quality(n, reliability, duplicate, verified) = IF points < 0 THEN 0 ELSE points
  BY Zenon DEF Quality
<1> HIDE DEF a, b, c, d, e, f, g, h, i
<1>10. points \in Int /\ points <= 10000
  BY SMT, <1>1, <1>2, <1>3, <1>4, <1>5, <1>6, <1>7, <1>8
<1> HIDE DEF points
<1>11. \A x \in Int : x <= 10000 => (IF x < 0 THEN 0 ELSE x) \in TenThousandths
  BY SMT DEF TenThousandths
<1> QED
  BY <1>9, <1>10, <1>11

\* A posting without errors has a title and an address that can be opened.
LEMMA NoErrors ==
  ASSUME NEW n, Errors(n) = {}
  PROVE  n.title # <<>> /\ SafeUrl(n.url)
<1>1. n.title = <<>> => "title_too_short" \in Errors(n)
  BY DEF Errors
<1>2. ~SafeUrl(n.url) => "invalid_apply_url" \in Errors(n)
  BY DEF Errors
<1> QED
  BY <1>1, <1>2

\* The row of a posting without errors.
RowFits(r) ==
  /\ r.quality \in TenThousandths /\ r.confidence \in 0..990
  /\ r.title # <<>> /\ SafeUrl(r.url) /\ Len(r.secondary) <= 4

\* What is written of a posting without errors fits, also where a column stays as it was.
LEMMA ColumnsFit ==
  ASSUME NEW n, Errors(n) = {}, n.class.confidence \in 0..990, Len(n.class.secondary) <= 4,
         NEW quality \in TenThousandths, NEW status
  PROVE  /\ RowFits(Columns(n, quality, status))
         /\ \A old : RowFits(old) => RowFits(Refreshed(old, Columns(n, quality, status)))
<1> DEFINE c == Columns(n, quality, status)
           kept(f) == IF f \in ListColumns THEN c[f] = <<>> ELSE c[f] = None
<1>1. n.title # <<>> /\ SafeUrl(n.url)
  BY NoErrors
<1>2. /\ c["quality"] = quality /\ c["confidence"] = n.class.confidence /\ c["title"] = n.title
      /\ c["url"] = n.url /\ c["secondary"] = n.class.secondary
      /\ {"quality", "confidence", "title", "url", "secondary"} \subseteq DOMAIN c
  BY DEF Columns
<1>3. \A old : Refreshed(old, c) = [f \in DOMAIN c |-> IF kept(f) THEN old[f] ELSE c[f]]
  BY DEF Refreshed
<1>4. "quality" \notin ListColumns /\ "confidence" \notin ListColumns /\ "url" \notin ListColumns
      /\ "title" \in ListColumns
  BY DEF ListColumns
<1>5. quality # None /\ n.class.confidence # None /\ n.url # None
  <2>1. quality \in Nat
    BY SMT DEF TenThousandths
  <2>2. n.class.confidence \in Int
    <3>1. \A x \in 0..990 : x \in Int
      OBVIOUS
    <3> QED
      BY <3>1
  <2>3. None \notin Int
    BY NormalizerAssumption
  <2>4. n.url # None
    BY <1>1 DEF SafeUrl
  <2> QED
    BY <2>1, <2>2, <2>3, <2>4
<1> HIDE DEF c
<1>6. ~kept("quality") /\ ~kept("confidence") /\ ~kept("url") /\ ~kept("title")
  BY <1>1, <1>2, <1>4, <1>5
<1> HIDE DEF kept
<1>7. RowFits(c)
  BY <1>1, <1>2 DEF RowFits
<1>8. ASSUME NEW old, RowFits(old) PROVE RowFits(Refreshed(old, c))
  <2> DEFINE new == Refreshed(old, c)
  <2>1. /\ new["quality"] = c["quality"] /\ new["confidence"] = c["confidence"]
        /\ new["title"] = c["title"] /\ new["url"] = c["url"]
        /\ new["secondary"] = IF kept("secondary") THEN old["secondary"] ELSE c["secondary"]
    BY <1>2, <1>3, <1>6
  <2> HIDE DEF new
  <2>2. /\ new.quality \in TenThousandths /\ new.confidence \in 0..990
        /\ new.title # <<>> /\ SafeUrl(new.url)
    BY <1>1, <1>2, <2>1
  <2>3. Len(new.secondary) <= 4
    BY <1>2, <1>8, <2>1 DEF RowFits
  <2>4. RowFits(new)
    BY <2>2, <2>3 DEF RowFits
  <2> QED
    BY <2>4 DEF new
<1> QED
  BY <1>7, <1>8 DEF c

\* A verdict is a number of ten-thousandths.
LEMMA VerdictIs ==
  ASSUME NEW r \in Versions
  PROVE  Verdict(NormalizedJob(r)).confidence \in TenThousandths
<1> DEFINE j    == NormalizedJob(r)
           rows == Candidates(j)
           v    == FindDuplicate(j, rows)
           same == {i \in DOMAIN rows : Identical(j, rows[i])}
<1>1. \A i \in DOMAIN Stored : ScorePair(j, Stored[i]) \in TenThousandths
  BY JobComparable
<1>2. rows \in Seq(Range(Stored)) /\ \A k \in DOMAIN rows : \E i \in DOMAIN Stored : rows[k] = Stored[i]
  BY CandidatesAre
<1>3. 0 \in TenThousandths /\ 10000 \in TenThousandths
  BY SMT DEF TenThousandths
<1>4. Verdict(j) = IF row = None THEN v ELSE NoVerdict
  BY DEF Verdict
<1> HIDE DEF j, rows
<1>5. \A k \in DOMAIN rows : ScorePair(j, rows[k]) \in TenThousandths
  BY <1>1, <1>2
<1>6. v.confidence \in TenThousandths
  <2>1. /\ same # {} => v.confidence = 10000
        /\ same = {} => BestOf(j, rows, Len(rows), v)
    BY <1>2, <1>5, SearchFindsBest
  <2> QED
    BY <1>3, <2>1 DEF BestOf
<1> HIDE DEF v
<1>7. Verdict(j).confidence \in TenThousandths
  BY <1>3, <1>4, <1>6 DEF NoVerdict
<1> QED
  BY <1>7 DEF j

\* Every variable stays within its type, and a row is of a posting without errors.
THEOREM PostingTypesHold == PostingSpec => []PostingTypeOK
<1> DEFINE RowInv == row # None => RowFits(row)
<1>1. PostingInit => RowInv
  BY DEF PostingInit
<1>2. PostInv /\ RowInv /\ [PostingNext]_postingVars => RowInv'
  <2> SUFFICES ASSUME PostInv, RowInv, [PostingNext]_postingVars PROVE RowInv'
    OBVIOUS
  <2>1. CASE row' = row
    BY <2>1
  <2>2. CASE Create \/ Update
    <3>1. stage = "normalized" /\ Errors(job) = {}
      BY <2>2 DEF Create, Update
    <3>2. raw \in Versions /\ job = NormalizedJob(raw)
      BY <3>1 DEF PostInv
    <3>3. job.class.confidence \in 0..990 /\ Len(job.class.secondary) <= 4
      <4>1. PICK t, hint, employment, experience : job.class = Classify(t, hint, employment, experience)
        BY <3>2, NormalizedJobIs
      <4>2. IsLabel(job.class) /\ Len(job.class.secondary) <= 4
        BY <4>1, ClassIs
      <4> QED
        BY <4>2 DEF IsLabel
    <3>4. QualityOf(job) \in TenThousandths
      <4>1. Verdict(job).confidence \in TenThousandths
        BY <3>2, VerdictIs
      <4>2. \A x \in TenThousandths : x \div 100 \in Nat
        BY SMT DEF TenThousandths
      <4>3. Reliability \in Nat
        BY PostingAssumption
      <4> QED
        BY <3>3, <4>1, <4>2, <4>3, QualityIs DEF QualityOf
    <3>5. CASE Create
      <4>1. row' = Columns(job, QualityOf(job), Status(job))
        BY <3>5 DEF Create
      <4> QED
        BY <3>1, <3>3, <3>4, <4>1, ColumnsFit
    <3>6. CASE Update
      <4>1. row # None /\ row' = Refreshed(row, Columns(job, QualityOf(job), Reactivated(row.status, job)))
        BY <3>6 DEF Update
      <4> QED
        BY <3>1, <3>3, <3>4, <4>1, ColumnsFit
    <3> QED
      BY <2>2, <3>5, <3>6
  <2> QED
    BY <2>1, <2>2 DEF PostingNext, postingVars, Fetch, Normalize, Reject
<1>3. PostInv /\ RowInv => PostingTypeOK
  <2> SUFFICES ASSUME PostInv, RowInv PROVE PostingTypeOK
    OBVIOUS
  <2>1. ASSUME row # None
        PROVE  /\ row.quality \in TenThousandths /\ row.confidence \in 0..990
               /\ row.title # <<>> /\ SafeUrl(row.url) /\ Len(row.secondary) <= 4
    BY <2>1 DEF RowFits
  <2> QED
    BY <2>1 DEF PostInv, PostingTypeOK
<1> QED
  BY <1>1, <1>2, <1>3, PostingInvariant, PTL DEF PostingSpec

-----------------------------------------------------------------------------
(* The keys of titles and companies.                                       *)

\* A sequence over some words is one over more words.
LEMMA SeqWider ==
  ASSUME NEW T, NEW U, T \subseteq U, NEW s \in Seq(T)
  PROVE  s \in Seq(U)
<1>1. Len(s) \in Nat /\ s \in [1..Len(s) -> T]
  BY LenProperties
<1>2. s \in [1..Len(s) -> U]
  BY <1>1
<1> QED
  BY <1>1, <1>2, SeqDef

\* The members of a set of numbers have one order: two lists of them, each increasing, are one.
Increasing(f, n, P) ==
  /\ f \in [1..n -> P]
  /\ \A i \in P : \E k \in 1..n : f[k] = i
  /\ \A k, m \in 1..n : k < m => f[k] < f[m]

LEMMA IncreasingAgree ==
  ASSUME NEW P \in SUBSET Int, NEW n \in Nat, NEW m \in Nat, NEW f, NEW g,
         Increasing(f, n, P), Increasing(g, m, P)
  PROVE  \A k \in 1..n : k \in 1..m /\ f[k] = g[k]
<1> DEFINE wrong == {k \in 1..n : ~(k \in 1..m /\ f[k] = g[k])}
<1>1. /\ \A k \in 1..n : f[k] \in P /\ f[k] \in Int
      /\ \A k \in 1..m : g[k] \in P /\ g[k] \in Int
      /\ \A i \in P : \E k \in 1..n : f[k] = i
      /\ \A i \in P : \E k \in 1..m : g[k] = i
      /\ \A k, l \in 1..n : k < l => f[k] < f[l]
      /\ \A k, l \in 1..m : k < l => g[k] < g[l]
  BY DEF Increasing
<1>2. wrong = {}
  <2> SUFFICES ASSUME wrong # {} PROVE FALSE
    OBVIOUS
  <2>1. PICK k \in wrong : \A l \in wrong : k <= l
    <3>1. wrong \in SUBSET Nat
      OBVIOUS
    <3> HIDE DEF wrong
    <3> QED
      BY <3>1, LeastNumber
  <2>2. k \in 1..n /\ ~(k \in 1..m /\ f[k] = g[k])
    BY <2>1
  <2>3. \A l \in 1..n : l < k => l \in 1..m /\ f[l] = g[l]
    <3> SUFFICES ASSUME NEW l \in 1..n, l < k PROVE l \notin wrong
      OBVIOUS
    <3>1. ~(k <= l)
      BY <2>2
    <3> HIDE DEF wrong
    <3> QED
      BY <2>1, <3>1
  <2>4. PICK j \in 1..m : g[j] = f[k]
    BY <1>1, <2>2
  <2>5. ~(j < k)
    <3> SUFFICES ASSUME j < k PROVE FALSE
      OBVIOUS
    <3>1. j \in 1..n
      BY <2>2
    <3>2. f[j] = f[k] /\ f[j] < f[k]
      BY <1>1, <2>2, <2>3, <2>4, <3>1
    <3> QED
      BY <1>1, <2>2, <3>1, <3>2
  <2>6. k \in 1..m /\ k < j
    <3>1. k \in 1..m
      BY <2>2, <2>5
    <3>2. j # k
      BY <2>2, <2>4, <3>1
    <3> QED
      BY <2>2, <2>5, <3>1, <3>2
  <2>7. g[k] < f[k]
    BY <1>1, <2>4, <2>6
  <2>8. PICK i \in 1..n : f[i] = g[k]
    BY <1>1, <2>6
  <2>9. i < k
    <3>1. ~(k < i) /\ k # i
      BY <1>1, <2>2, <2>7, <2>8
    <3> QED
      BY <2>2, <3>1
  <2>10. i \in 1..m /\ g[i] = g[k]
    BY <2>3, <2>8, <2>9
  <2> QED
    BY <1>1, <2>6, <2>9, <2>10
<1> QED
  BY <1>2

\* What is selected is known by the positions in their order.
LEMMA SelectedBy ==
  ASSUME NEW T, NEW s \in Seq(T), NEW P \in SUBSET (DOMAIN s), NEW n \in Nat, NEW g, Increasing(g, n, P)
  PROVE  Selected(s, P) = [k \in 1..n |-> s[g[k]]]
<1> DEFINE r == Selected(s, P)
<1>1. P \in SUBSET Int
  BY LenProperties
<1>2. r \in Seq(T) /\ \E f : Takes(f, r, s, P)
  BY SelectedIs
<1> HIDE DEF r
<1>3. PICK f : Takes(f, r, s, P)
  BY <1>2
<1>4. Len(r) \in Nat /\ r = [k \in 1..Len(r) |-> r[k]] /\ Increasing(f, Len(r), P)
  BY <1>2, <1>3, LenProperties DEF Takes, Increasing
<1>5. /\ \A k \in 1..n : k \in 1..Len(r) /\ g[k] = f[k]
      /\ \A k \in 1..Len(r) : k \in 1..n /\ f[k] = g[k]
  BY <1>1, <1>4, IncreasingAgree
<1>6. 1..n = 1..Len(r)
  BY <1>5
<1>7. \A k \in 1..n : r[k] = s[g[k]]
  BY <1>3, <1>5 DEF Takes
<1>8. r = [k \in 1..n |-> s[g[k]]]
  <2>1. r = [k \in 1..n |-> r[k]]
    BY <1>4, <1>6
  <2> QED
    BY <1>7, <2>1
<1> QED
  BY <1>8 DEF r

\* Without words that are noise: a text has none of them, and is the same if it had none before.
LEMMA WithoutIs ==
  ASSUME NEW T, NEW words \in Seq(T), NEW noise
  PROVE  LET r == Without(words, noise) IN
         /\ r \in Seq(T) /\ Len(r) \in Nat /\ Len(r) <= Len(words)
         /\ \A k \in 1..Len(r) : r[k] \notin noise /\ \E i \in 1..Len(words) : r[k] = words[i]
         /\ r = <<>> => \A i \in 1..Len(words) : words[i] \in noise
         /\ (\A i \in 1..Len(words) : words[i] \notin noise) => r = words
<1> DEFINE P == {i \in DOMAIN words : words[i] \notin noise}
           r == Selected(words, P)
<1>1. P \in SUBSET (DOMAIN words)
  OBVIOUS
<1>2. Len(words) \in Nat /\ DOMAIN words = 1..Len(words) /\ words = [i \in 1..Len(words) |-> words[i]]
  BY LenProperties
<1>3. r \in Seq(T) /\ Len(r) <= Len(words) /\ \E f : Takes(f, r, words, P)
  <2> HIDE DEF P
  <2> QED
    BY <1>1, SelectedIs
<1>4. Without(words, noise) = r
  BY DEF Without
<1> HIDE DEF r
<1>5. PICK f : Takes(f, r, words, P)
  BY <1>3
<1>6. /\ \A k \in 1..Len(r) : f[k] \in P /\ r[k] = words[f[k]]
      /\ \A i \in P : \E k \in 1..Len(r) : f[k] = i
  <2> HIDE DEF P
  <2> QED
    BY <1>5 DEF Takes
<1>7. \A k \in 1..Len(r) : r[k] \notin noise /\ \E i \in 1..Len(words) : r[k] = words[i]
  BY <1>2, <1>6
<1>8. ASSUME r = <<>> PROVE \A i \in 1..Len(words) : words[i] \in noise
  <2>1. P = {}
    <3>1. Len(r) = 0
      BY <1>8
    <3>2. 1..Len(r) = {}
      BY <3>1
    <3> HIDE DEF P
    <3> QED
      BY <1>6, <3>2
  <2> QED
    BY <1>2, <2>1
<1>9. ASSUME \A i \in 1..Len(words) : words[i] \notin noise PROVE r = words
  <2> DEFINE g == [k \in 1..Len(words) |-> k]
  <2>1. P = 1..Len(words)
    BY <1>2, <1>9
  <2>2. Increasing(g, Len(words), P)
    <3> HIDE DEF P
    <3> QED
      BY <2>1 DEF Increasing
  <2>3. r = [k \in 1..Len(words) |-> words[g[k]]]
    <3> HIDE DEF P, g
    <3> QED
      BY <1>1, <1>2, <2>2, SelectedBy DEF r
  <2> QED
    BY <1>2, <2>3
<1>10. Len(r) \in Nat
  BY <1>3, LenProperties
<1> QED
  BY <1>3, <1>4, <1>7, <1>8, <1>9, <1>10

\* Words after a text that are no noise stay where they are.
LEMMA WithoutJoined ==
  ASSUME NEW T, NEW a \in Seq(T), NEW b \in Seq(T), NEW noise, \A i \in 1..Len(b) : b[i] \notin noise
  PROVE  Without(a \o b, noise) = Without(a, noise) \o b
<1> DEFINE c == a \o b
           n == Len(a)
           P == {i \in DOMAIN a : a[i] \notin noise}
           Q == {i \in DOMAIN c : c[i] \notin noise}
           r == Selected(a, P)
           m == Len(r)
<1>1. /\ n \in Nat /\ Len(b) \in Nat /\ DOMAIN a = 1..n
      /\ c \in Seq(T) /\ Len(c) = n + Len(b) /\ DOMAIN c = 1..(n + Len(b))
      /\ \A i \in 1..(n + Len(b)) : c[i] = IF i <= n THEN a[i] ELSE b[i - n]
  BY ConcatProperties, LenProperties
<1>2. P \in SUBSET (DOMAIN a) /\ Q \in SUBSET (DOMAIN c)
  OBVIOUS
<1>3. r \in Seq(T) /\ \E f : Takes(f, r, a, P)
  <2> HIDE DEF P
  <2> QED
    BY <1>2, SelectedIs
<1>4. Without(c, noise) = Selected(c, Q) /\ Without(a, noise) = r
  BY DEF Without
<1>5. /\ \A i \in 1..n : i \in Q <=> i \in P
      /\ \A i \in (n + 1)..(n + Len(b)) : i \in Q
      /\ \A i \in Q : i \in 1..n \/ i \in (n + 1)..(n + Len(b))
      /\ P \subseteq 1..n
  <2>1. ASSUME NEW i \in 1..n PROVE i \in DOMAIN c /\ c[i] = a[i]
    BY <1>1
  <2>2. ASSUME NEW i \in (n + 1)..(n + Len(b)) PROVE i \in DOMAIN c /\ c[i] \notin noise
    <3>1. i \in 1..(n + Len(b)) /\ ~(i <= n) /\ i - n \in 1..Len(b)
      BY <1>1
    <3> QED
      BY <1>1, <3>1
  <2>3. ASSUME NEW i \in DOMAIN c PROVE i \in 1..n \/ i \in (n + 1)..(n + Len(b))
    <3>1. i \in 1..(n + Len(b))
      BY <1>1
    <3> QED
      BY <1>1, <3>1
  <2> HIDE DEF c, n
  <2> QED
    BY <1>1, <2>1, <2>2, <2>3
<1> HIDE DEF r, c, P, Q
<1>6. PICK f : Takes(f, r, a, P)
  BY <1>3
<1>7. /\ m \in Nat /\ f \in [1..m -> P] /\ r \in [1..m -> T]
      /\ \A k \in 1..m : r[k] = a[f[k]] /\ f[k] \in 1..n /\ f[k] \in P
      /\ \A i \in P : \E k \in 1..m : f[k] = i
      /\ \A k, l \in 1..m : k < l => f[k] < f[l]
  BY <1>3, <1>5, <1>6, LenProperties DEF Takes
<1> HIDE DEF n, m
<1> DEFINE N == m + Len(b)
           g == [k \in 1..N |-> IF k <= m THEN f[k] ELSE n + (k - m)]
<1>8. N \in Nat /\ \A k \in 1..N : \/ k \in 1..m /\ g[k] = f[k]
                                   \/ k - m \in 1..Len(b) /\ ~(k <= m) /\ g[k] = n + (k - m)
  BY <1>1, <1>7
<1>9. Increasing(g, N, Q)
  <2>1. \A k \in 1..N : g[k] \in Q
    <3> SUFFICES ASSUME NEW k \in 1..N PROVE g[k] \in Q
      OBVIOUS
    <3>1. CASE k \in 1..m /\ g[k] = f[k]
      BY <1>5, <1>7, <3>1
    <3>2. CASE k - m \in 1..Len(b) /\ g[k] = n + (k - m)
      <4>1. n + (k - m) \in (n + 1)..(n + Len(b))
        BY <1>1, <3>2
      <4> QED
        BY <1>5, <3>2, <4>1
    <3> HIDE DEF g
    <3> QED
      BY <1>8, <3>1, <3>2
  <2>2. \A i \in Q : \E k \in 1..N : g[k] = i
    <3> SUFFICES ASSUME NEW i \in Q PROVE \E k \in 1..N : g[k] = i
      OBVIOUS
    <3>1. CASE i \in 1..n
      <4>1. PICK k \in 1..m : f[k] = i
        <5>1. i \in P
          BY <1>5, <3>1
        <5> QED
          BY <1>7, <5>1
      <4>2. k \in 1..N /\ k <= m
        BY <1>1, <1>7
      <4> QED
        BY <4>1, <4>2
    <3>2. CASE i \in (n + 1)..(n + Len(b))
      <4> DEFINE k == m + (i - n)
      <4>1. k \in 1..N /\ ~(k <= m) /\ n + (k - m) = i
        BY <1>1, <1>7, <3>2
      <4> HIDE DEF k, N
      <4>2. g[k] = n + (k - m)
        BY <4>1
      <4> HIDE DEF g
      <4> QED
        BY <4>1, <4>2
    <3> QED
      BY <1>5, <3>1, <3>2
  <2>3. \A k, l \in 1..N : k < l => g[k] < g[l]
    <3> SUFFICES ASSUME NEW k \in 1..N, NEW l \in 1..N, k < l PROVE g[k] < g[l]
      OBVIOUS
    <3>1. CASE l <= m
      <4>1. k \in 1..m /\ l \in 1..m /\ k <= m
        BY <1>7, <1>8, <3>1
      <4> QED
        BY <1>7, <3>1, <4>1
    <3>2. CASE ~(l <= m) /\ k <= m
      <4>1. k \in 1..m /\ f[k] \in 1..n /\ n + (l - m) > n
        BY <1>1, <1>7, <1>8, <3>2
      <4>2. f[k] < n + (l - m)
        BY <1>1, <1>7, <1>8, <4>1
      <4> QED
        BY <3>2, <4>2
    <3>3. CASE ~(l <= m) /\ ~(k <= m)
      BY <1>1, <1>7, <1>8, <3>3
    <3> QED
      BY <3>1, <3>2, <3>3
  <2>4. g \in [1..N -> Q]
    BY <2>1
  <2> HIDE DEF g, N
  <2> QED
    BY <2>2, <2>3, <2>4 DEF Increasing
<1>10. Selected(c, Q) = [k \in 1..N |-> c[g[k]]]
  <2> HIDE DEF g, N
  <2> QED
    BY <1>1, <1>2, <1>8, <1>9, SelectedBy
<1>11. \A k \in 1..N : c[g[k]] = IF k <= m THEN r[k] ELSE b[k - m]
  <2> SUFFICES ASSUME NEW k \in 1..N PROVE c[g[k]] = IF k <= m THEN r[k] ELSE b[k - m]
    OBVIOUS
  <2>1. CASE k \in 1..m /\ g[k] = f[k]
    <3>1. f[k] \in 1..n /\ f[k] <= n /\ f[k] \in 1..(n + Len(b)) /\ k <= m
      BY <1>1, <1>7, <2>1
    <3>2. c[f[k]] = a[f[k]]
      BY <1>1, <3>1
    <3> QED
      BY <1>7, <2>1, <3>1, <3>2
  <2>2. CASE k - m \in 1..Len(b) /\ ~(k <= m) /\ g[k] = n + (k - m)
    <3> DEFINE x == n + (k - m)
    <3>1. x \in 1..(n + Len(b)) /\ ~(x <= n) /\ x - n = k - m
      BY <1>1, <1>7, <2>2
    <3>2. g[k] = x /\ ~(k <= m)
      BY <2>2
    <3> HIDE DEF x, g
    <3>3. c[x] = b[k - m]
      BY <1>1, <3>1
    <3> QED
      BY <3>2, <3>3
  <2> HIDE DEF g, N
  <2> QED
    BY <1>8, <2>1, <2>2
<1>12. /\ r \o b \in Seq(T) /\ Len(r \o b) = N
       /\ \A k \in 1..N : (r \o b)[k] = IF k <= m THEN r[k] ELSE b[k - m]
  BY <1>3, ConcatProperties DEF m
<1>13. r \o b = [k \in 1..N |-> (r \o b)[k]]
  BY <1>12, LenProperties
<1>14. Selected(c, Q) = r \o b
  <2> HIDE DEF g, N
  <2>1. \A k \in 1..N : c[g[k]] = (r \o b)[k]
    BY <1>11, <1>12
  <2>2. [k \in 1..N |-> c[g[k]]] = [k \in 1..N |-> (r \o b)[k]]
    BY <2>1
  <2> QED
    BY <1>10, <1>13, <2>2
<1> QED
  BY <1>4, <1>14 DEF c

\* Max of some numbers up to a bound is one of them, and none is greater.
LEMMA MaxIsGreatest ==
  ASSUME NEW n \in Nat, NEW S \in SUBSET (0..n), S # {}
  PROVE  Max(S) \in S /\ \A y \in S : y <= Max(S)
<1> DEFINE R == {n - x : x \in S}
<1>1. R \in SUBSET Nat /\ R # {}
  <2>1. \A x \in S : n - x \in Nat
    OBVIOUS
  <2>2. PICK x : x \in S
    OBVIOUS
  <2>3. n - x \in R
    BY <2>2
  <2> QED
    BY <2>1, <2>3
<1>2. PICK r \in R : \A q \in R : r <= q
  <2> HIDE DEF R
  <2> QED
    BY <1>1, LeastNumber
<1>3. PICK x \in S : r = n - x
  BY <1>2
<1>4. \A y \in S : x >= y
  <2> SUFFICES ASSUME NEW y \in S PROVE x >= y
    OBVIOUS
  <2>1. n - x <= n - y
    BY <1>2, <1>3
  <2> QED
    BY <2>1
<1>5. Max(S) \in S /\ \A y \in S : Max(S) >= y
  BY <1>3, <1>4 DEF Max
<1> QED
  BY <1>5

\* The words a suffix ends with.
SuffixWords == {"pvt", "ltd", "limited", "technologies", "systems"}

\* The first words of a name.
LEMMA PrefixIs ==
  ASSUME NEW T, NEW name \in Seq(T), NEW l \in 0..Len(name)
  PROVE  LET x == SubSeq(name, 1, l) IN
         /\ x \in Seq(T) /\ Len(x) = l /\ DOMAIN x = 1..l
         /\ \A i \in 1..l : x[i] = name[i]
<1> DEFINE x == SubSeq(name, 1, l)
<1>1. l \in Nat /\ l <= Len(name) /\ Len(name) \in Nat
  BY LenProperties
<1>2. \A i \in 1..l : name[i] \in T
  BY <1>1, LenProperties
<1>3. /\ x \in Seq(T) /\ Len(x) = IF 1 <= l THEN l - 1 + 1 ELSE 0
      /\ \A i \in 1..(l - 1 + 1) : x[i] = name[1 + i - 1]
  BY <1>1, <1>2, SubSeqProperties
<1> HIDE DEF x
<1>4. Len(x) = l /\ \A i \in 1..l : x[i] = name[i]
  BY <1>1, <1>3
<1> QED
  BY <1>3, <1>4, LenProperties DEF x

\* A suffix is of words that are suffixes themselves, and a name that ends with one has a suffix.
LEMMA SuffixLengthIs ==
  ASSUME NEW T, NEW name \in Seq(T)
  PROVE  LET n == SuffixLength(name) IN
         /\ n \in 0..2 /\ n <= Len(name)
         /\ \A i \in 1..Len(name) : i > Len(name) - n => name[i] \in SuffixWords
         /\ n = 0 => name = <<>> \/ name[Len(name)] \notin SuffixWords
<1> DEFINE L == Len(name)
           tail(n) == SubSeq(name, L - n + 1, L)
           S == {0} \union {n \in 1..L : n <= 2 /\ tail(n) \in CompanySuffixes}
           k == Max(S)
<1>1. L \in Nat /\ \A i \in 1..L : name[i] \in T
  BY LenProperties
<1>2. SuffixLength(name) = k
  BY DEF SuffixLength
<1>3. S \in SUBSET (0..2) /\ S # {}
  BY <1>1
<1>4. k \in S /\ \A y \in S : y <= k
  <2>1. 2 \in Nat
    OBVIOUS
  <2> HIDE DEF S
  <2> QED
    BY <1>3, <2>1, MaxIsGreatest
<1>5. ASSUME NEW n \in 1..L
      PROVE  Len(tail(n)) = n /\ \A i \in 1..n : tail(n)[i] = name[L - n + i]
  <2>1. L - n + 1 \in Int /\ L \in Int /\ L - n + 1 >= 1 /\ n \in Nat
    BY <1>1
  <2>2. \A i \in (L - n + 1)..L : name[i] \in T
    BY <1>1, <2>1
  <2>3. /\ Len(tail(n)) = IF L - n + 1 <= L THEN L - (L - n + 1) + 1 ELSE 0
        /\ \A i \in 1..(L - (L - n + 1) + 1) : tail(n)[i] = name[L - n + 1 + i - 1]
    BY <2>1, <2>2, SubSeqProperties
  <2> HIDE DEF tail, L
  <2> QED
    BY <1>1, <2>1, <2>3
<1>6. \A s \in CompanySuffixes : /\ Len(s) \in {1, 2}
                                 /\ \A i \in 1..Len(s) : s[i] \in SuffixWords
  BY DEF CompanySuffixes, SuffixWords
<1>7. \A i \in 1..L : i > L - k => name[i] \in SuffixWords
  <2> SUFFICES ASSUME NEW i \in 1..L, i > L - k PROVE name[i] \in SuffixWords
    OBVIOUS
  <2>1. k # 0 /\ k \in 1..L /\ tail(k) \in CompanySuffixes
    <3>1. k # 0
      <4> HIDE DEF k, S
      <4> QED
        BY <1>1, <1>3, <1>4
    <3> HIDE DEF k, tail
    <3> QED
      BY <1>4, <3>1
  <2> HIDE DEF k, S, tail
  <2>2. i - (L - k) \in 1..k /\ L - k + (i - (L - k)) = i
    BY <1>1, <2>1
  <2>3. tail(k)[i - (L - k)] = name[i] /\ Len(tail(k)) = k
    BY <1>5, <2>1, <2>2
  <2> QED
    BY <1>6, <2>1, <2>2, <2>3
<1>8. ASSUME name # <<>>, name[L] \in SuffixWords PROVE k # 0
  <2>1. L \in Nat /\ 1 \in 1..L
    BY <1>1, <1>8, LenProperties, EmptySeq
  <2>2. Len(tail(1)) = 1 /\ tail(1)[1] = name[L]
    <3>1. L - 1 + 1 = L /\ 1 \in 1..1
      BY <2>1
    <3> HIDE DEF tail, L
    <3>2. Len(tail(1)) = 1 /\ tail(1)[1] = name[L - 1 + 1]
      BY <1>5, <2>1, <3>1
    <3> QED
      BY <3>1, <3>2
  <2>3. tail(1) = <<name[L]>>
    <3>1. tail(1) \in Seq(T)
      <4>1. L - 1 + 1 \in Int /\ L \in Int /\ \A i \in (L - 1 + 1)..L : name[i] \in T
        BY <1>1, <2>1
      <4> QED
        BY <4>1, SubSeqProperties
    <3>2. <<name[L]>> \in Seq(T) /\ Len(<<name[L]>>) = 1 /\ <<name[L]>>[1] = name[L]
      BY <1>1, <2>1
    <3> HIDE DEF tail
    <3> QED
      BY <2>2, <3>1, <3>2, SeqEqual
  <2>4. tail(1) \in CompanySuffixes
    BY <1>8, <2>3 DEF CompanySuffixes, SuffixWords
  <2>5. 1 \in S
    BY <2>1, <2>4
  <2> HIDE DEF S, k
  <2>6. 1 <= k
    BY <1>4, <2>5
  <2> QED
    BY <2>6
<1>9. k \in 0..2 /\ k <= L
  <2> HIDE DEF tail
  <2> QED
    BY <1>1, <1>3, <1>4
<1> QED
  BY <1>2, <1>7, <1>8, <1>9

\* How many words are left of the first l of a name after a turn of the loop.
AfterTurn(name, l) ==
  LET length == SuffixLength(SubSeq(name, 1, l)) IN IF length = l THEN l ELSE l - length

\* No turn changes the first l words of a name any more.
Stripped(name, l) == SuffixLength(SubSeq(name, 1, l)) \in {0, l}

\* A turn takes suffixes off, as long as something is left.
LEMMA TurnIs ==
  ASSUME NEW T, NEW name \in Seq(T), NEW l \in 0..Len(name)
  PROVE  /\ AfterTurn(name, l) \in 0..l /\ (l > 0 => AfterTurn(name, l) > 0)
         /\ Stripped(name, l) => AfterTurn(name, l) = l
         /\ ~Stripped(name, l) => AfterTurn(name, l) < l
         /\ \A i \in 1..l : i > AfterTurn(name, l) => name[i] \in SuffixWords
<1> DEFINE x == SubSeq(name, 1, l)
           n == SuffixLength(x)
<1>1. /\ x \in Seq(T) /\ Len(x) = l /\ \A i \in 1..l : x[i] = name[i]
  BY PrefixIs
<1>2. AfterTurn(name, l) = (IF n = l THEN l ELSE l - n) /\ (Stripped(name, l) <=> n \in {0, l})
  BY DEF AfterTurn, Stripped
<1> HIDE DEF x
<1>3. n \in 0..2 /\ n <= l /\ \A i \in 1..l : i > l - n => x[i] \in SuffixWords
  BY <1>1, SuffixLengthIs
<1> HIDE DEF n
<1>4. l \in Nat
  OBVIOUS
<1>5. /\ AfterTurn(name, l) \in 0..l /\ (l > 0 => AfterTurn(name, l) > 0)
      /\ Stripped(name, l) => AfterTurn(name, l) = l
      /\ ~Stripped(name, l) => AfterTurn(name, l) < l
  BY <1>2, <1>3, <1>4
<1>6. \A i \in 1..l : i > AfterTurn(name, l) => name[i] \in SuffixWords
  <2> SUFFICES ASSUME NEW i \in 1..l, i > AfterTurn(name, l) PROVE name[i] \in SuffixWords
    OBVIOUS
  <2>1. i > l - n
    BY <1>2, <1>3, <1>4
  <2> QED
    BY <1>1, <1>3, <2>1
<1> QED
  BY <1>5, <1>6

\* What is known of the number of words left when a name is stripped: what is gone are words of
\* suffixes, no turn changes the rest any more, and something is left.
LeftIs(name, l) ==
  /\ l \in 0..Len(name) /\ (Len(name) > 0 => l > 0)
  /\ \A i \in 1..Len(name) : i > l => name[i] \in SuffixWords
  /\ Stripped(name, Len(name)) => l = Len(name)

\* The loop ends with such a number, which no turn changes.
LEMMA StripIs ==
  ASSUME NEW T, NEW name \in Seq(T)
  PROVE  \E l \in 0..Len(name) : StripSuffixes(name) = SubSeq(name, 1, l) /\ LeftIs(name, l) /\ Stripped(name, l)
<1> DEFINE L == Len(name)
           N == 0..L
           Turns(f) == f = [turn \in N |-> IF turn = 0 THEN L ELSE AfterTurn(name, f[turn - 1])]
           step == [p \in (1..L) \X N |-> AfterTurn(name, p[2])]
           left == CHOOSE f : Turns(f)
<1>1. L \in Nat /\ L \in N
  BY LenProperties
<1>2. \A l \in N : AfterTurn(name, l) \in N
  <2> SUFFICES ASSUME NEW l \in N PROVE AfterTurn(name, l) \in N
    OBVIOUS
  <2>1. AfterTurn(name, l) \in 0..l
    BY TurnIs
  <2> QED
    BY <1>1, <2>1
<1>3. step \in [(1..L) \X N -> N]
  <2> HIDE DEF N
  <2> QED
    BY <1>2
<1>4. PICK f \in [N -> N] : f[0] = L /\ \A i \in 1..L : f[i] = step[<<i, f[i - 1]>>]
  <2> HIDE DEF step
  <2>1. \E f : Loops(f, L, N, L, step)
    BY <1>1, <1>3, LoopExists
  <2> QED
    BY <2>1 DEF Loops
<1>5. Turns(f)
  <2>1. \A i \in N : i # 0 => i \in 1..L /\ i - 1 \in N
    BY <1>1
  <2>2. \A i \in 1..L : f[i] = AfterTurn(name, f[i - 1])
    <3> SUFFICES ASSUME NEW i \in 1..L PROVE f[i] = AfterTurn(name, f[i - 1])
      OBVIOUS
    <3>1. i - 1 \in N
      BY <1>1
    <3>2. f[i - 1] \in N
      BY <1>4, <3>1
    <3>3. <<i, f[i - 1]>> \in (1..L) \X N
      BY <3>2
    <3> HIDE DEF N
    <3> QED
      BY <1>4, <3>3
  <2> HIDE DEF N
  <2> QED
    BY <1>4, <2>1, <2>2
<1>6. Turns(left)
  <2> HIDE DEF Turns
  <2> QED
    BY <1>5
<1>7. \A i \in N : left[i] = IF i = 0 THEN L ELSE AfterTurn(name, left[i - 1])
  <2> HIDE DEF left
  <2> QED
    BY <1>6
<1>8. StripSuffixes(name) = SubSeq(name, 1, left[L])
  BY DEF StripSuffixes, AfterTurn
<1> HIDE DEF left
<1> DEFINE goes(i) == LeftIs(name, left[i]) /\ (left[i] <= L - i \/ Stripped(name, left[i]))
           wrong == {i \in N : ~goes(i)}
<1>9. goes(0)
  <2>1. left[0] = L
    BY <1>1, <1>7
  <2> QED
    BY <1>1, <2>1 DEF LeftIs
<1>10. ASSUME NEW i \in 1..L, goes(i - 1) PROVE goes(i)
  <2> DEFINE l == left[i - 1]
             r == AfterTurn(name, l)
  <2>1. left[i] = r /\ i \in Nat /\ i - 1 \in Nat
    BY <1>1, <1>7
  <2>2. /\ l \in 0..L /\ (L > 0 => l > 0) /\ (\A k \in 1..L : k > l => name[k] \in SuffixWords)
        /\ Stripped(name, L) => l = L
        /\ l <= L - (i - 1) \/ Stripped(name, l)
    BY <1>10 DEF LeftIs
  <2> HIDE DEF l
  <2>3. /\ r \in 0..l /\ (l > 0 => r > 0)
        /\ Stripped(name, l) => r = l
        /\ ~Stripped(name, l) => r < l
        /\ \A k \in 1..l : k > r => name[k] \in SuffixWords
    BY <2>2, TurnIs
  <2> HIDE DEF r
  <2>4. r \in 0..L /\ (L > 0 => r > 0)
    BY <1>1, <2>2, <2>3
  <2>5. \A k \in 1..L : k > r => name[k] \in SuffixWords
    <3> SUFFICES ASSUME NEW k \in 1..L, k > r PROVE name[k] \in SuffixWords
      OBVIOUS
    <3>1. k > l \/ k \in 1..l
      BY <1>1, <2>2
    <3> QED
      BY <2>2, <2>3, <3>1
  <2>6. Stripped(name, L) => r = L
    BY <2>2, <2>3
  <2>7. r <= L - i \/ Stripped(name, r)
    BY <1>1, <2>1, <2>2, <2>3
  <2> QED
    BY <2>1, <2>4, <2>5, <2>6, <2>7 DEF LeftIs
<1> HIDE DEF goes
<1>11. wrong = {}
  <2> SUFFICES ASSUME wrong # {} PROVE FALSE
    OBVIOUS
  <2>1. PICK i \in wrong : \A k \in wrong : i <= k
    <3>1. wrong \in SUBSET Nat
      BY <1>1
    <3> HIDE DEF wrong
    <3> QED
      BY <3>1, LeastNumber
  <2>2. i \in N /\ ~goes(i) /\ i # 0
    BY <1>9, <2>1
  <2>3. i \in 1..L /\ i - 1 \in N /\ ~(i <= i - 1)
    BY <1>1, <2>2
  <2>4. goes(i - 1)
    <3>1. i - 1 \notin wrong
      <4> HIDE DEF wrong
      <4> QED
        BY <2>1, <2>3
    <3> QED
      BY <2>3, <3>1
  <2> QED
    BY <1>10, <2>2, <2>3, <2>4
<1>12. goes(L)
  BY <1>1, <1>11
<1>13. left[L] \in N /\ LeftIs(name, left[L]) /\ (left[L] <= 0 \/ Stripped(name, left[L]))
  <2>1. LeftIs(name, left[L]) /\ (left[L] <= L - L \/ Stripped(name, left[L]))
    BY <1>12 DEF goes
  <2> QED
    BY <1>1, <2>1 DEF LeftIs
<1>14. Stripped(name, left[L])
  <2>1. CASE left[L] <= 0
    <3>1. left[L] = 0
      BY <1>1, <1>13, <2>1
    <3>2. SubSeq(name, 1, 0) \in Seq(T) /\ Len(SubSeq(name, 1, 0)) = 0
      BY <1>13, <3>1, PrefixIs
    <3>3. SuffixLength(SubSeq(name, 1, 0)) \in 0..2 /\ SuffixLength(SubSeq(name, 1, 0)) <= 0
      BY <3>2, SuffixLengthIs
    <3> QED
      BY <3>1, <3>3 DEF Stripped
  <2> QED
    BY <1>13, <2>1
<1> QED
  BY <1>8, <1>13, <1>14

\* A name that ends in no suffix any more is the same however many suffixes came after it.
LEMMA SuffixesMerge ==
  ASSUME NEW T, NEW name \in Seq(T), NEW s \in Seq(T), name # <<>>,
         \A i \in 1..Len(s) : s[i] \in SuffixWords,
         SuffixLength(StripSuffixes(name)) = 0
  PROVE  StripSuffixes(name \o s) = StripSuffixes(name)
<1> DEFINE more == name \o s
           L == Len(name)
           M == Len(more)
<1>1. /\ L \in Nat /\ L > 0 /\ Len(s) \in Nat
      /\ more \in Seq(T) /\ M = L + Len(s)
      /\ \A i \in 1..M : more[i] = IF i <= L THEN name[i] ELSE s[i - L]
  BY ConcatProperties, LenProperties, EmptySeq
<1>2. PICK l \in 0..L : StripSuffixes(name) = SubSeq(name, 1, l) /\ LeftIs(name, l)
  BY StripIs
<1>3. PICK m \in 0..M : StripSuffixes(more) = SubSeq(more, 1, m) /\ LeftIs(more, m) /\ Stripped(more, m)
  BY <1>1, StripIs
<1> HIDE DEF L, M, more
<1>4. l > 0 /\ l <= L /\ l \in Nat /\ \A i \in 1..L : i > l => name[i] \in SuffixWords
  BY <1>1, <1>2 DEF LeftIs, L
<1>5. m \in Nat /\ m <= M /\ \A i \in 1..M : i > m => more[i] \in SuffixWords
  BY <1>1, <1>3 DEF LeftIs, M
<1>6. name[l] \notin SuffixWords /\ more[l] = name[l] /\ l \in 1..M
  <2> DEFINE x == SubSeq(name, 1, l)
  <2>1. x \in Seq(T) /\ Len(x) = l /\ \A i \in 1..l : x[i] = name[i]
    BY <1>2, PrefixIs DEF L
  <2>2. SuffixLength(x) = 0
    BY <1>2
  <2> HIDE DEF x
  <2>3. x = <<>> \/ x[Len(x)] \notin SuffixWords
    BY <2>1, <2>2, SuffixLengthIs
  <2>4. Len(x) # 0 /\ l \in 1..l
    BY <1>4, <2>1
  <2>5. x[l] = name[l] /\ x[l] \notin SuffixWords
    BY <2>1, <2>3, <2>4
  <2>6. l \in 1..M /\ more[l] = name[l]
    BY <1>1, <1>4
  <2> QED
    BY <2>5, <2>6
<1>7. \A i \in 1..M : i > l => more[i] \in SuffixWords
  <2> SUFFICES ASSUME NEW i \in 1..M, i > l PROVE more[i] \in SuffixWords
    OBVIOUS
  <2>1. CASE i <= L
    BY <1>1, <1>4, <2>1
  <2>2. CASE ~(i <= L)
    <3>1. i - L \in 1..Len(s) /\ more[i] = s[i - L]
      BY <1>1, <2>2
    <3> QED
      BY <3>1
  <2> QED
    BY <2>1, <2>2
<1>8. l <= m
  BY <1>4, <1>5, <1>6
<1>9. ~(l < m)
  <2> SUFFICES ASSUME l < m PROVE FALSE
    OBVIOUS
  <2> DEFINE y == SubSeq(more, 1, m)
             n == SuffixLength(y)
  <2>1. y \in Seq(T) /\ Len(y) = m /\ \A i \in 1..m : y[i] = more[i]
    BY <1>1, <1>3, PrefixIs DEF M
  <2>2. n \in {0, m}
    BY <1>3 DEF Stripped
  <2> HIDE DEF y
  <2>3. /\ n \in 0..2 /\ \A i \in 1..m : i > m - n => y[i] \in SuffixWords
        /\ n = 0 => y = <<>> \/ y[m] \notin SuffixWords
    BY <2>1, SuffixLengthIs
  <2> HIDE DEF n
  <2>4. m \in 1..m /\ m \in 1..M /\ m # 0 /\ l \in 1..m
    BY <1>4, <1>5
  <2>5. y[m] \in SuffixWords
    BY <1>7, <2>1, <2>4
  <2>6. n = m
    BY <2>1, <2>2, <2>3, <2>4, <2>5
  <2>7. y[l] \in SuffixWords
    BY <1>4, <2>3, <2>4, <2>6
  <2> QED
    BY <1>6, <2>1, <2>4, <2>7
<1>10. m = l
  BY <1>4, <1>5, <1>8, <1>9
<1>11. SubSeq(more, 1, l) = SubSeq(name, 1, l)
  <2> DEFINE x == SubSeq(name, 1, l)
             y == SubSeq(more, 1, l)
  <2>1. x \in Seq(T) /\ Len(x) = l /\ \A i \in 1..l : x[i] = name[i]
    BY <1>2, PrefixIs DEF L
  <2>2. y \in Seq(T) /\ Len(y) = l /\ \A i \in 1..l : y[i] = more[i]
    BY <1>1, <1>3, <1>10, PrefixIs DEF M
  <2>3. \A i \in 1..l : more[i] = name[i]
    BY <1>1, <1>4, <1>5, <1>10
  <2> HIDE DEF x, y
  <2>4. \A i \in 1..l : y[i] = x[i]
    BY <2>1, <2>2, <2>3
  <2> QED
    BY <2>1, <2>2, <2>4, SeqEqual
<1> QED
  BY <1>2, <1>3, <1>10, <1>11 DEF more

\* The words of suffixes: none of them is noise of a company name.
LEMMA SuffixesPlain ==
  ASSUME NEW s \in CompanySuffixes
  PROVE  /\ s \in Seq(SuffixWords)
         /\ \A i \in 1..Len(s) : s[i] \in SuffixWords /\ s[i] \notin {"(pvt)"}
<1>1. "(pvt)" \notin SuffixWords
  BY DEF SuffixWords
<1>2. CASE s \in {<<"pvt">>, <<"ltd">>, <<"limited">>, <<"technologies">>, <<"systems">>}
  <2>1. PICK w \in SuffixWords : s = <<w>>
    BY <1>2 DEF SuffixWords
  <2>2. <<w>> \in Seq(SuffixWords) /\ Len(<<w>>) = 1 /\ <<w>>[1] = w
    OBVIOUS
  <2> QED
    BY <1>1, <2>1, <2>2
<1>3. CASE s = <<"pvt", "ltd">>
  <2> DEFINE v == "pvt"
             w == "ltd"
  <2>1. v \in SuffixWords /\ w \in SuffixWords /\ s = <<v, w>>
    BY <1>3 DEF SuffixWords
  <2> HIDE DEF v, w
  <2>2. <<v, w>> \in Seq(SuffixWords) /\ Len(<<v, w>>) = 2 /\ <<v, w>>[1] = v /\ <<v, w>>[2] = w
    BY <2>1
  <2>3. \A i \in 1..2 : i = 1 \/ i = 2
    OBVIOUS
  <2> QED
    BY <1>1, <2>1, <2>2, <2>3
<1> QED
  BY <1>2, <1>3 DEF CompanySuffixes

\* Keys of companies: of every name one, the same when it is computed again, and the same for a
\* name with a suffix more.
LEMMA CompanyKeyIs ==
  ASSUME NEW T, NEW words \in Seq(T), words # <<>>
  PROVE  LET key == CompanyKey(words) IN
         /\ key # <<>> /\ CompanyKey(key) = key
         /\ SuffixLength(key) = 0 /\ "(pvt)" \notin Range(key) =>
              \A s \in CompanySuffixes : CompanyKey(words \o s) = key
<1> DEFINE name == Without(words, {"(pvt)"})
           key == CompanyKey(words)
           U == T \union SuffixWords
<1>1. /\ name \in Seq(T) /\ Len(name) \in Nat
      /\ \A k \in 1..Len(name) : name[k] \notin {"(pvt)"}
      /\ name = <<>> => \A i \in 1..Len(words) : words[i] \in {"(pvt)"}
  BY WithoutIs
<1>2. key = IF name = <<>> THEN words ELSE StripSuffixes(name)
  BY DEF CompanyKey
<1> HIDE DEF name, key
<1>3. CASE name = <<>>
  <2>1. key = words
    BY <1>2, <1>3
  <2>2. Len(words) \in Nat /\ Len(words) # 0
    BY LenProperties, EmptySeq
  <2>3. words[1] = "(pvt)" /\ 1 \in DOMAIN words
    BY <1>1, <1>3, <2>2, LenProperties
  <2>4. "(pvt)" \in Range(key)
    BY <2>1, <2>3 DEF Range
  <2> QED
    BY <2>1, <2>4 DEF key
<1>4. CASE name # <<>>
  <2>1. key = StripSuffixes(name)
    BY <1>2, <1>4
  <2>2. PICK l \in 0..Len(name) : key = SubSeq(name, 1, l) /\ LeftIs(name, l) /\ Stripped(name, l)
    BY <1>1, <2>1, StripIs
  <2>3. key \in Seq(T) /\ Len(key) = l /\ \A i \in 1..l : key[i] = name[i]
    BY <1>1, <2>2, PrefixIs
  <2>4. l > 0 /\ l <= Len(name)
    <3>1. Len(name) > 0
      BY <1>1, <1>4, EmptySeq
    <3> QED
      BY <1>1, <2>2, <3>1 DEF LeftIs
  <2>5. key # <<>>
    BY <2>3, <2>4
  <2>6. Without(key, {"(pvt)"}) = key
    <3>1. \A i \in 1..Len(key) : key[i] \notin {"(pvt)"}
      BY <1>1, <2>3, <2>4
    <3> QED
      BY <2>3, <3>1, WithoutIs
  <2>7. CompanyKey(key) = StripSuffixes(key)
    BY <2>5, <2>6 DEF CompanyKey
  <2>8. SubSeq(key, 1, Len(key)) = key
    BY <2>3, SubSeqFull
  <2>9. Stripped(key, Len(key))
    BY <2>2, <2>3, <2>8 DEF Stripped
  <2>10. StripSuffixes(key) = key
    <3>1. PICK m \in 0..Len(key) : StripSuffixes(key) = SubSeq(key, 1, m) /\ LeftIs(key, m)
      BY <2>3, StripIs
    <3>2. m = Len(key)
      BY <2>9, <3>1 DEF LeftIs
    <3> QED
      BY <2>8, <3>1, <3>2
  <2>11. ASSUME SuffixLength(key) = 0, NEW s \in CompanySuffixes PROVE CompanyKey(words \o s) = key
    <3>1. s \in Seq(SuffixWords) /\ \A i \in 1..Len(s) : s[i] \in SuffixWords /\ s[i] \notin {"(pvt)"}
      BY SuffixesPlain
    <3>2. words \in Seq(U) /\ s \in Seq(U) /\ name \in Seq(U)
      <4>1. T \subseteq U /\ SuffixWords \subseteq U
        OBVIOUS
      <4> HIDE DEF U
      <4> QED
        BY <1>1, <3>1, <4>1, SeqWider
    <3> HIDE DEF U
    <3>3. Without(words \o s, {"(pvt)"}) = name \o s
      BY <3>1, <3>2, WithoutJoined DEF name
    <3>4. name \o s # <<>>
      BY <1>4, <3>2, ConcatEqualIffEmpty, ConcatProperties, EmptySeq
    <3>5. CompanyKey(words \o s) = StripSuffixes(name \o s)
      BY <3>3, <3>4 DEF CompanyKey
    <3>6. StripSuffixes(name \o s) = StripSuffixes(name)
      BY <1>4, <2>1, <2>11, <3>1, <3>2, SuffixesMerge
    <3> QED
      BY <2>1, <3>5, <3>6
  <2> QED
    BY <2>5, <2>7, <2>10, <2>11 DEF key
<1> QED
  BY <1>3, <1>4

\* A leading word or a place at the end goes: what stays is a title of the same words.
LEMMA WithoutEndsIs ==
  ASSUME NEW T, NEW words \in Seq(T), NEW noise
  PROVE  WithoutFirst(words, noise) \in Seq(T) /\ WithoutPlace(words, noise) \in Seq(T)
<1>1. WithoutFirst(words, noise) \in Seq(T)
  <2>1. words # <<>> => Tail(words) \in Seq(T)
    BY HeadTailProperties
  <2> QED
    BY <2>1 DEF WithoutFirst
<1>2. WithoutPlace(words, noise) \in Seq(T)
  <2>1. Len(words) \in Nat
    BY LenProperties
  <2>2. Len(words) > 1 => Len(words) - 2 \in 0..Len(words)
    BY <2>1
  <2>3. Len(words) > 1 => SubSeq(words, 1, Len(words) - 2) \in Seq(T)
    BY <2>2, PrefixIs
  <2> QED
    BY <2>3 DEF WithoutPlace
<1> QED
  BY <1>1, <1>2

\* A normalized title is of the words of the title, with dashes for bars.
LEMMA NormalizeTitleIs ==
  ASSUME NEW T, NEW words \in Seq(T)
  PROVE  NormalizeTitle(words) \in Seq(T \union {"-"})
<1> DEFINE U        == T \union {"-"}
           prefixed == WithoutFirst(Without(words, TitleNoise), TitlePrefixes)
           plain    == WithoutFirst(Without(prefixed, {"emoji"}), {"fwd:"})
           title    == WithoutPlace(WithoutPlace(plain, {"lahore", "karachi"}), {"pakistan"})
           inside   == {i \in DOMAIN title : title[i] \notin Separators}
           dashed   == [i \in DOMAIN title |-> IF title[i] = "|" THEN "-" ELSE title[i]]
<1>1. prefixed \in Seq(T)
  BY WithoutIs, WithoutEndsIs
<1>2. plain \in Seq(T)
  <2> HIDE DEF prefixed
  <2> QED
    BY <1>1, WithoutIs, WithoutEndsIs
<1>3. title \in Seq(T)
  <2> HIDE DEF plain
  <2>1. WithoutPlace(plain, {"lahore", "karachi"}) \in Seq(T)
    BY <1>2, WithoutEndsIs
  <2> QED
    BY <2>1, WithoutEndsIs
<1>4. NormalizeTitle(words) = IF inside = {} THEN <<>> ELSE SubSeq(dashed, Min(inside), Max(inside))
  BY DEF NormalizeTitle
<1> HIDE DEF title
<1>5. /\ Len(title) \in Nat /\ DOMAIN title = 1..Len(title)
      /\ \A i \in DOMAIN title : title[i] \in T
  BY <1>3, LenProperties
<1>6. \A i \in DOMAIN title : dashed[i] \in U
  BY <1>5
<1> HIDE DEF dashed, U
<1>7. CASE inside = {}
  <2>1. <<>> \in Seq(U)
    OBVIOUS
  <2> QED
    BY <1>4, <1>7, <2>1 DEF U
<1>8. CASE inside # {}
  <2>1. inside \in SUBSET Nat /\ inside \in SUBSET (0..Len(title)) /\ inside \in SUBSET (1..Len(title))
    BY <1>5
  <2> HIDE DEF inside
  <2>2. Min(inside) \in inside /\ Max(inside) \in inside
    BY <1>5, <1>8, <2>1, MinIsLeast, MaxIsGreatest
  <2>3. Min(inside) \in Nat /\ Max(inside) \in Nat /\ Min(inside) >= 1 /\ Max(inside) <= Len(title)
    <3>1. \A x \in inside : x \in Nat /\ x >= 1 /\ x <= Len(title)
      BY <1>5, <2>1
    <3> QED
      BY <2>2, <3>1
  <2>4. \A i \in Min(inside)..Max(inside) : dashed[i] \in U
    <3>1. \A i \in Min(inside)..Max(inside) : i \in DOMAIN title
      BY <1>5, <2>3
    <3> QED
      BY <1>6, <3>1
  <2>5. SubSeq(dashed, Min(inside), Max(inside)) \in Seq(U)
    BY <2>3, <2>4, SubSeqProperties
  <2> QED
    BY <1>4, <1>8, <2>5 DEF U
<1> QED
  BY <1>7, <1>8

\* The key of a title is the same when it is computed again, unless a grade is left at its end.
LEMMA TitleKeyIs ==
  ASSUME NEW T, NEW title \in Seq(T)
  PROVE  LET key == TitleKey(title) IN TitleKey(key) = key \/ Last(key) \in Grades
<1> DEFINE core == Without(title, Seniority)
           cut  == IF core # <<>> /\ Last(core) \in Grades THEN Front(core) ELSE core
           key  == Without(cut, Separators)
<1>1. core \in Seq(T) /\ Len(core) \in Nat /\ \A k \in 1..Len(core) : core[k] \notin Seniority
  BY WithoutIs
<1>2. TitleKey(title) = key
  BY DEF TitleKey
<1> HIDE DEF core
<1>3. cut \in Seq(T) /\ \A k \in 1..Len(cut) : cut[k] \notin Seniority
  <2>1. CASE core # <<>> /\ Last(core) \in Grades
    <3>1. Len(core) - 1 \in 0..Len(core)
      BY <1>1, <2>1, EmptySeq
    <3> DEFINE n == Len(core) - 1
    <3>2. cut = SubSeq(core, 1, n)
      BY <2>1 DEF Front
    <3>3. \A i \in 1..n : i \in 1..Len(core)
      BY <1>1
    <3> HIDE DEF cut, n
    <3>4. cut \in Seq(T) /\ Len(cut) = n /\ \A i \in 1..n : cut[i] = core[i]
      BY <1>1, <3>1, <3>2, PrefixIs DEF n
    <3> QED
      BY <1>1, <3>3, <3>4
  <2>2. CASE ~(core # <<>> /\ Last(core) \in Grades)
    BY <1>1, <2>2
  <2> QED
    BY <2>1, <2>2
<1> HIDE DEF cut
<1>4. /\ key \in Seq(T)
      /\ \A k \in 1..Len(key) : key[k] \notin Separators /\ \E i \in 1..Len(cut) : key[k] = cut[i]
  BY <1>3, WithoutIs
<1> HIDE DEF key
<1>5. \A k \in 1..Len(key) : key[k] \notin Seniority
  BY <1>3, <1>4
<1>6. Without(key, Seniority) = key /\ Without(key, Separators) = key
  BY <1>4, <1>5, WithoutIs
<1>7. Last(key) \notin Grades => TitleKey(key) = key
  BY <1>6 DEF TitleKey
<1> QED
  BY <1>2, <1>7

\* Whatever names and titles the versions of a posting have, their keys merge what they should.
THEOREM KeysOfAnyNameMerge == PostingSpec => []KeysMerge
<1>1. PostInv => KeysMerge
  <2> SUFFICES ASSUME PostInv, stage = "normalized", raw.company # <<>> PROVE KeysMerge
    BY DEF KeysMerge
  <2> DEFINE title == NormalizeTitle(raw.title)
             words == raw.company
  <2>1. raw \in Versions /\ job = NormalizedJob(raw)
    BY DEF PostInv
  <2>2. IsPosting(raw)
    BY <2>1, PostingAssumption
  <2>3. words \in Seq(STRING) /\ words # <<>> /\ raw.title \in Seq(STRING)
    BY <2>2 DEF IsPosting
  <2>4. job.key = TitleKey(title)
    <3>1. job.key = Normalized(raw).key
      BY <2>1, NormalizedJobIs
    <3> QED
      BY <3>1 DEF Normalized
  <2>5. title \in Seq(STRING \union {"-"})
    BY <2>3, NormalizeTitleIs
  <2> HIDE DEF title
  <2>6. TitleKey(job.key) = job.key \/ Last(job.key) \in Grades
    BY <2>4, <2>5, TitleKeyIs
  <2> HIDE DEF words
  <2>7. LET key == CompanyKey(words) IN
        /\ key # <<>> /\ CompanyKey(key) = key
        /\ SuffixLength(key) = 0 /\ "(pvt)" \notin Range(key) =>
             \A s \in CompanySuffixes : CompanyKey(words \o s) = key
    BY <2>3, CompanyKeyIs
  <2> QED
    BY <2>6, <2>7 DEF KeysMerge, words
<1> QED
  BY <1>1, PostingInvariant, PTL
===============================================================================
