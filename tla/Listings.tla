------------------------------ MODULE Listings ------------------------------
(***************************************************************************)
(* services/search.py and recommendation.py, and the pages of the site     *)
(* built on them (routers/jobs.py, seo.py): a reader goes through the      *)
(* pages of a search while jobs are published and withdrawn.               *)
(*                                                                         *)
(* A query is a record of filters; one that is not given is None or an     *)
(* empty set.  Scores are hundredths of a point.                           *)
(***************************************************************************)
EXTENDS Normalizer, FiniteSetsExt

CONSTANTS
  Catalogue,     \* the jobs, by number
  Queries,       \* what a reader may search for
  Profiles,      \* who may ask for recommendations
  FeedSize, ShortlistSize, Widen,   \* limit, page_size 60, and 10, below which the net is widened
  MaxSlips       \* bound on the changes behind the reader's back

ASSUME ListingAssumption ==
  /\ DOMAIN Catalogue \subseteq Int /\ IsFiniteSet(DOMAIN Catalogue)
  /\ {FeedSize, ShortlistSize} \subseteq Nat
  /\ \A n \in DOMAIN Catalogue :
       /\ {Catalogue[n].posted, Catalogue[n].relevance} \subseteq Int /\ Catalogue[n].quality \in 0..100
       /\ IsFiniteSet(Catalogue[n].skills)
       /\ {Catalogue[n].deadline, Catalogue[n].salary_min, Catalogue[n].salary_max} \subseteq Int \union {None}
  /\ \A f \in Queries :
       /\ f.size \in Nat \ {0} /\ IsFiniteSet(f.skills)
       /\ f.sort \in {"newest", "deadline", "salary", "quality", "relevance"}

VARIABLES
  listed,        \* active, canonical and not hidden
  reader,        \* "idle", "counting", "reading", "done"
  query, at, total,
  seen,          \* the jobs on the pages read
  standing,      \* history: jobs listed all along
  slips          \* history: changes of the list that may hide a job from this reader

listingVars == <<listed, reader, query, at, total, seen, standing, slips>>

ListingInit ==
  /\ listed \in SUBSET (DOMAIN Catalogue)
  /\ reader = "idle" /\ query = None /\ at = 1 /\ total = 0
  /\ seen = {} /\ standing = {} /\ slips = 0

-----------------------------------------------------------------------------
(* PostgresSearchBackend.                                                  *)

\* _base_conditions, but for those on the status.
Matches(j, f) ==
  /\ f.cities = {} \/ j.city \in f.cities
  /\ f.categories = {} \/ j.category \in f.categories
  /\ f.words \subseteq j.words
  /\ f.remote # None => j.remote = f.remote
  /\ f.salary_min # None => LET top == NoneOr(j.salary_max, j.salary_min) IN top # None /\ top >= f.salary_min
  /\ f.salary_max # None => j.salary_min = None \/ j.salary_min <= f.salary_max
  /\ f.within # None => j.posted >= Today - f.within
  /\ f.skills = {} \/ j.skills \intersect f.skills # {}

Found(f) == {n \in listed : Matches(Catalogue[n], f)}

\* count(Job.id) over the join with the skills counts a job once for each that matches; DISTINCT
\* is of the count.
Total(f) ==
  IF f.skills = {} THEN Cardinality(Found(f))
  ELSE Cardinality({r \in Found(f) \X f.skills : r[2] \in Catalogue[r[1]].skills})

\* Mutant: the last page that is not full is not counted.
TotalPagesFloor(count, f) == count \div f.size

TotalPages(count, f) == (count + f.size - 1) \div f.size

\* _apply_sort: featured jobs first; a job without a deadline or salary last.
SortKey(n, sort) ==
  LET j == Catalogue[n]
      featured == IF j.featured THEN 1 ELSE 0
  IN CASE sort = "newest"    -> <<featured, j.posted, n>>
       [] sort = "deadline"  -> <<featured, IF j.deadline = None THEN 0 - (Today * 10) ELSE 0 - j.deadline, j.posted>>
       [] sort = "salary"    -> <<featured, NoneOr(NoneOr(j.salary_max, j.salary_min), 0 - 1), j.posted>>
       [] sort = "quality"   -> <<featured, j.quality, j.posted>>
       [] sort = "relevance" -> <<featured, j.relevance, j.posted>>

Before(a, b, sort) ==
  LET x == SortKey(a, sort)
      y == SortKey(b, sort)
  IN \E i \in 1..3 : x[i] > y[i] /\ \A k \in 1..(i - 1) : x[k] = y[k]

Tied(a, b, sort) == a # b /\ SortKey(a, sort) = SortKey(b, sort)

\* Rows with equal keys come in any order.
Orders(set, sort) == {s \in SetToSeqs(set) : \A i, j \in DOMAIN s : i < j => ~Before(s[j], s[i], sort)}

PageOf(s, number, f) == UpTo(f.size, SubSeq(s, (number - 1) * f.size + 1, Len(s)))

\* PostgreSQL refuses SELECT DISTINCT, which the join with the skills asks for, in an order by an
\* expression that is not selected.
Served(f) == f.skills = {} \/ f.sort \in {"deadline", "quality"}

-----------------------------------------------------------------------------
(* A search, page by page; search_jobs counts first and then reads.        *)

Search ==
  /\ reader = "idle"
  /\ \E f \in Queries : Served(f) /\ query' = f /\ standing' = Found(f)
  /\ reader' = "counting" /\ at' = 1 /\ seen' = {} /\ slips' = 0
  /\ UNCHANGED <<listed, total>>

Count ==
  /\ reader = "counting"
  /\ reader' = "reading" /\ total' = Total(query)
  /\ UNCHANGED <<listed, query, at, seen, standing, slips>>

\* The reader goes on while there is a next page.
Read ==
  /\ reader = "reading"
  /\ \E s \in Orders(Found(query), query.sort) : seen' = seen \union Range(PageOf(s, at, query))
  /\ IF at < TotalPages(total, query)
     THEN reader' = "counting" /\ at' = at + 1
     ELSE reader' = "done" /\ UNCHANGED at
  /\ UNCHANGED <<listed, query, total, standing, slips>>

\* A job published behind the count moves another one past the last page.
Publish(n) ==
  /\ reader \in {"counting", "reading"} /\ n \notin listed /\ slips < MaxSlips
  /\ listed' = listed \union {n}
  /\ slips' = IF reader = "reading" THEN slips + 1 ELSE slips
  /\ UNCHANGED <<reader, query, at, total, seen, standing>>

\* One withdrawn moves another one to a page already read.
Withdraw(n) ==
  /\ reader \in {"counting", "reading"} /\ n \in listed /\ slips < MaxSlips
  /\ listed' = listed \ {n} /\ standing' = standing \ {n} /\ slips' = slips + 1
  /\ UNCHANGED <<reader, query, at, total, seen>>

ListingNext ==
  \/ Search \/ Count \/ Read
  \/ \E n \in DOMAIN Catalogue : Publish(n) \/ Withdraw(n)

ListingSpec == ListingInit /\ [][ListingNext]_listingVars

-----------------------------------------------------------------------------
(* recommendation.py and recommended_jobs.                                 *)

ExperienceOrder == <<"intern", "fresh_graduate", "entry", "mid", "senior", "lead", "executive">>

\* _experience_affinity, in percent.
Affinity(a, b) ==
  LET rank(level) == CHOOSE i \in DOMAIN ExperienceOrder : ExperienceOrder[i] = level
      distance  == IF rank(a) > rank(b) THEN rank(a) - rank(b) ELSE rank(b) - rank(a)
  IN IF {a, b} \subseteq Range(ExperienceOrder)
     THEN CASE distance = 0 -> 100 [] distance = 1 -> 70 [] distance = 2 -> 35 [] OTHER -> 10
     ELSE 50

SkillPoints(j, p) ==
  LET most == IF Cardinality(j.skills) > 8 THEN 8 ELSE Cardinality(j.skills)
      share == (3000 * Cardinality(p.skills \intersect j.skills)) \div most
  IN IF p.skills = {} \/ j.skills = {} THEN 750 ELSE IF share > 3000 THEN 3000 ELSE share

CategoryPoints(j, p) ==
  CASE p.categories = {}           -> 540
    [] j.category \in p.categories -> 1800
    [] p.categories # {} /\ j.category \notin p.categories /\ j.secondary \intersect p.categories # {} -> 1080
    [] OTHER                       -> 0

LocationPoints(j, p) ==
  LET wanted == p.locations \union ({p.city} \ {None}) IN
  IF wanted = {} THEN 600 ELSE IF j.city \in wanted THEN 1500
  ELSE IF j.province \in wanted THEN 1050 ELSE IF j.remote THEN 1275 ELSE 0

RemotePoints(j, p) ==
  CASE p.remote \in {"remote", "remote_only"} -> IF j.remote THEN 800 ELSE 0
    [] p.remote = "hybrid" -> IF j.mode \in {"hybrid", "remote"} THEN 800 ELSE 320
    [] p.remote = "onsite" -> IF j.mode = "onsite" THEN 800 ELSE 240
    [] OTHER               -> 400

SalaryPoints(j, p) ==
  LET top == NoneOr(j.salary_max, j.salary_min) IN
  IF p.expected = None \/ top = None THEN 280
  ELSE IF top >= p.expected THEN 700 ELSE IF 5 * top >= 4 * p.expected THEN 420 ELSE 0

\* score_job_for_profile: no part has more than its weight, all of them make a hundred.
MatchScore(j, p) ==
  SkillPoints(j, p) + CategoryPoints(j, p) + LocationPoints(j, p) + RemotePoints(j, p) + SalaryPoints(j, p)
  + (IF p.level # None /\ j.experience # "unknown" THEN 12 * Affinity(p.level, j.experience) ELSE 480)
  + (LET age == Today - j.posted IN IF age >= 30 THEN 0 ELSE IF age < 0 THEN 600 ELSE 600 - 20 * age)
  + 4 * j.quality

Anything == [cities |-> {}, categories |-> {}, words |-> {}, remote |-> None, salary_min |-> None,
             salary_max |-> None, within |-> None, skills |-> {}, sort |-> "newest", size |-> ShortlistSize]

\* The query made of a profile; with few results the newest jobs of all follow.
Preferred(p) ==
  [Anything EXCEPT !.cities = IF p.locations # {} THEN p.locations ELSE {p.city} \ {None},
                   !.categories = p.categories, !.remote = IF p.remote = "remote" THEN TRUE ELSE None]
Newest(f) == PageOf(CHOOSE s \in Orders(Found(f), "newest") : TRUE, 1, f)

\* Mutant: the wider search is not rid of what the first one found.
ShortlistTwice(p) ==
  LET preferred == Newest(Preferred(p))
  IN IF Len(preferred) < Widen THEN preferred \o Newest(Anything) ELSE preferred

Shortlist(p) ==
  LET preferred == Newest(Preferred(p))
      widened   == Newest(Anything)
  IN IF Len(preferred) < Widen
     THEN preferred \o Selected(widened, {i \in DOMAIN widened : ~Contains(preferred, widened[i])})
     ELSE preferred

\* The best first, those of one score as they come.
BestFirst(s, p) ==
  LET score(i) == MatchScore(Catalogue[s[i]], p)
      better == {e \in (DOMAIN s) \X (DOMAIN s) :
                   score(e[1]) > score(e[2]) \/ (score(e[1]) = score(e[2]) /\ e[1] < e[2])}
      order == InOrder(DOMAIN s, better)
  IN UpTo(FeedSize, [k \in DOMAIN order |-> s[order[k]]])

Feed(p) == BestFirst(Shortlist(p), p)

-----------------------------------------------------------------------------
(* What else the site shows of the jobs.                                   *)

\* job_facets and _facets: how many of the jobs found have a value.
Facet(f, column) ==
  LET value(n) == Catalogue[n][column]
      bare     == {n \in listed : Matches(Catalogue[n], [f EXCEPT !.skills = {}]) /\ value(n) # None}
  IN [v \in {value(n) : n \in bare} |-> Cardinality({n \in bare : value(n) = v})]

\* sitemap_data: a city or category with three jobs has a page of its own.
Landing(column) == {v \in DOMAIN Facet(Anything, column) : Facet(Anything, column)[v] >= 3}

-----------------------------------------------------------------------------
(* Properties.                                                             *)

\* A reader who follows the pages of a search to the last one has seen every job that matched
\* all along, but for as many as jobs were withdrawn meanwhile, or published between the count
\* and the rows of one page, and for those another job ties with in the order chosen, which only
\* "newest" excludes (search.py: total_pages, offset, _apply_sort, the count over the join).
WalkComplete ==
  reader = "done" =>
    Cardinality({n \in standing \ seen : \A m \in DOMAIN Catalogue : ~Tied(n, m, query.sort)}) <= slips

\* A feed shows listed jobs, each once, and none that scores below a job it leaves out.
FeedFits(feed, p) ==
  /\ Range(feed) \subseteq listed /\ Cardinality(Range(feed)) = Len(feed)
  /\ \A n \in Range(feed) : MatchScore(Catalogue[n], p) \in TenThousandths
  /\ \A n \in Found(Preferred(p)) \ Range(feed), m \in Range(feed) :
       Cardinality(Found(Preferred(p))) <= ShortlistSize =>
         MatchScore(Catalogue[n], p) <= MatchScore(Catalogue[m], p)

\* The lists beside the search agree with it: the count of a facet of an empty search is what a
\* search by that value finds, every landing page has three jobs to show, and the feed of a
\* profile holds no job twice and none below one it could have shown (jobs.py, seo.py).
ListsAgree ==
  /\ \A v \in DOMAIN Facet(Anything, "category") :
       Facet(Anything, "category")[v] = Total([Anything EXCEPT !.categories = {v}])
  /\ \A v \in Landing("city") : Total([Anything EXCEPT !.cities = {v}]) >= 3
  /\ \A p \in Profiles : FeedFits(Feed(p), p)
===============================================================================
