----------------------------- MODULE Assessment -----------------------------
(***************************************************************************)
(* What a normalised posting is worth: pipeline/validator.py, quality.py   *)
(* and the scoring of deduplicator.py.                                     *)
(*                                                                         *)
(* A job is a record of Normalizer with its classification and address;    *)
(* None is an absent value.  Points are hundredths, ratios percent,        *)
(* similarities thousandths.                                               *)
(***************************************************************************)
EXTENDS Normalizer

\* is_safe_url: web addresses with a public host, without credentials, of bounded length.
SafeUrl(url) ==
  /\ url # None /\ url.scheme \in {"http", "https"} /\ url.host = "public" /\ url.length <= 2000

Errors(job) ==
  UNION {IF job.title = <<>> THEN {"title_too_short"} ELSE {},
         IF job.title # <<>> /\ job.title[1] = "123" THEN {"title_not_textual"} ELSE {},
         IF SafeUrl(job.url) THEN {} ELSE {"invalid_apply_url"},
         IF "registration fee" \in job.words THEN {"suspected_scam"} ELSE {}}

\* The salary is in order by now: NormalizeSalary has seen to it.
Warnings(job) ==
  LET when(condition, warning) == IF condition THEN {warning} ELSE {}
  IN UNION
     {when(Len(job.title) > 30, "title_too_long"),
      when(job.length < 40, "thin_description"),
      when(job.posted # None /\ job.posted > Today + 2, "posted_in_future"),
      when(job.posted # None /\ job.posted < Today - 180, "posting_too_old"),
      when(job.deadline # None /\ job.posted # None /\ job.deadline < job.posted, "deadline_before_posting"),
      when(job.deadline # None /\ job.deadline < Today - 1, "deadline_passed"),
      when("mlm" \in job.words, "possible_mlm"),
      when(job.company = None, "missing_company")}

\* Some warnings hold a posting back for review, and so do any three.
NeedsReview(warnings) ==
  warnings \intersect {"possible_mlm", "posted_in_future", "title_too_long"} # {}
  \/ Cardinality(warnings) >= 3

-----------------------------------------------------------------------------
(* quality.py.                                                             *)

UpTo100(percent) == IF percent > 100 THEN 100 ELSE percent
When(condition, points) == IF condition THEN points ELSE 0

DescriptionRatio(job) ==
  LET base == CASE job.length < 80   -> 5
                [] job.length \in 80..249 -> 35
                [] job.length \in 250..699 -> 65
                [] job.length \in 700..5999 -> 100
                [] OTHER             -> 85
  IN UpTo100(base + When(job.requirements # <<>>, 8) + When(job.responsibilities # <<>>, 8)
                  + When(job.skills # <<>>, 6))

FreshnessRatio(posted) ==
  IF posted = None THEN 35
  ELSE LET age == Today - posted
       IN CASE age < 0 -> 50
            [] age \in 0..2 -> 100
            [] age \in 3..7 -> 88
            [] age \in 8..14 -> 72
            [] age \in 15..30 -> 50
            [] age \in 31..60 -> 28
            [] OTHER -> 10

\* score_quality; reliability and the confidence of a duplicate are percent.
Quality(job, reliability, duplicate, verified) ==
  LET salary == job.salary
      points ==
        20 * UpTo100(reliability)
        + When(SafeUrl(job.url), IF job.url.scheme = "https" THEN 1500 ELSE 1125)
        + 12 * (When(job.company # None, 50) + When(job.website, 25) + When(verified, 25))
        + 18 * DescriptionRatio(job)
        + 10 * (When(job.posted # None, 60) + When(job.posted # None /\ job.posted <= Today, 10)
                + When(job.deadline # None /\ job.deadline > Today, 30))
        + When(salary.min # None \/ salary.max # None,
               IF salary.min # None /\ salary.max # None THEN 800 ELSE 520)
        + (7 * job.class.confidence + 5) \div 10
        + 10 * FreshnessRatio(job.posted)
        - 12 * UpTo100(duplicate)
  IN IF points < 0 THEN 0 ELSE points

Tier(points) == IF points >= 7500 THEN "high" ELSE IF points >= 5000 THEN "medium" ELSE "low"

-----------------------------------------------------------------------------
(* deduplicator.py.  How alike two texts are is up to rapidfuzz: Similar   *)
(* gives it, in thousandths, for two that are not equal.                   *)

CONSTANT Similar(_, _)

AutoMerge == 8600    \* AUTO_MERGE_THRESHOLD and REVIEW_THRESHOLD, in ten-thousandths
ReviewFrom == 6800

\* DuplicateCandidate: amounts and dates are numbers where they are known.
IsCandidate(r) ==
  /\ {r.salary.min, r.salary.max} \subseteq (Nat \ {0}) \union {None}
  /\ r.posted \in Int \union {None} /\ r.length \in Nat

\* A similarity is a part of a thousand, and the same from both sides.
IsSimilarity(a, b) == Similar(a, b) \in 0..1000 /\ Similar(a, b) = Similar(b, a)
Comparable(a, b) ==
  /\ IsSimilarity(a.key, b.key) /\ IsSimilarity(a.company, b.company)
  /\ IsSimilarity(a.place.city, b.place.city) /\ IsSimilarity(a.words, b.words)

AlikeOr(unknown, a, b) ==
  IF a = None \/ b = None THEN unknown ELSE IF a = b THEN 1000 ELSE Similar(a, b)

Within(a, b) == \E i \in DOMAIN b : IsPrefix(a, SubSeq(b, i, Len(b)))

\* One company name within the other counts at least 0.95.
CompanySignal(a, b) ==
  LET alike == AlikeOr(500, a, b)
  IN IF a # None /\ b # None /\ (Within(a, b) \/ Within(b, a)) /\ alike < 950 THEN 950 ELSE alike

\* The larger bounds compared, rounded to thousandths.
SalarySignal(a, b) ==
  LET x == NoneOr(a.max, a.min)
      y == NoneOr(b.max, b.min)
      low == IF x < y THEN x ELSE y
      high == IF x < y THEN y ELSE x
  IN IF x = None \/ y = None THEN 500 ELSE (1000 * low) \div high

RecencySignal(a, b) ==
  IF a = None \/ b = None THEN 500
  ELSE LET days == IF a > b THEN a - b ELSE b - a
       IN CASE days <= 2 -> 1000
            [] days \in 3..7 -> 850
            [] days \in 8..21 -> 600
            [] days \in 22..60 -> 300
            [] OTHER -> 100

\* score_pair, in ten-thousandths: what is not known stays in the middle.
ScorePair(a, b) ==
  (34 * (IF a.key = <<>> \/ b.key = <<>> THEN 0 ELSE AlikeOr(0, a.key, b.key))
   + 26 * CompanySignal(a.company, b.company)
   + 14 * AlikeOr(500, a.place.city, b.place.city)
   + 16 * (IF a.length > 120 /\ b.length > 120 THEN AlikeOr(500, a.words, b.words) ELSE 500)
   + 5 * SalarySignal(a.salary, b.salary)
   + 5 * RecencySignal(a.posted, b.posted)) \div 10

\* The same posting of the same source, or the same address but for tracking parameters.
Identical(a, b) == (a.source = b.source /\ a.id = b.id) \/ (a.url # None /\ a.url = b.url)

NoVerdict == [confidence |-> 0, row |-> None]

\* Mutant: the last of the best rows is taken, identical ones do not end the search.
LastBest(candidate, rows) ==
  LET best[i \in 0..Len(rows)] ==
        IF i = 0 THEN NoVerdict
        ELSE IF ScorePair(candidate, rows[i]) >= best[i - 1].confidence
        THEN [confidence |-> ScorePair(candidate, rows[i]), row |-> rows[i]] ELSE best[i - 1]
  IN best[Len(rows)]

\* find_duplicate: row by row, a better one replaces the best so far; an identical one ends the
\* search.
FindDuplicate(candidate, rows) ==
  LET same == {i \in DOMAIN rows : Identical(candidate, rows[i])}
      best[i \in 0..Len(rows)] ==
        IF i = 0 THEN NoVerdict
        ELSE IF ScorePair(candidate, rows[i]) > best[i - 1].confidence
        THEN [confidence |-> ScorePair(candidate, rows[i]), row |-> rows[i]] ELSE best[i - 1]
  IN IF same # {} THEN [confidence |-> 10000, row |-> rows[Min(same)]] ELSE best[Len(rows)]

Merges(verdict) == verdict.confidence >= AutoMerge
Doubtful(verdict) == verdict.confidence \in ReviewFrom..(AutoMerge - 1)
===============================================================================
