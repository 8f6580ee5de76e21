------------------------------ MODULE Fetching ------------------------------
(***************************************************************************)
(* connectors/: one fetch_jobs of a source, whose list changes while it is *)
(* read page by page.                                                      *)
(*                                                                         *)
(* The postings of a source are numbered as they are opened; its list shows *)
(* the newest first, so a list, or a part of one, is a set of numbers.  A  *)
(* posting is a record of the parts parse_job looks at; texts are sets or  *)
(* sequences of the words that some pattern recognises, and absent parts   *)
(* are empty.                                                              *)
(***************************************************************************)
EXTENDS Integers, Sequences, SequencesExt, FiniteSetsExt

CONSTANTS
  Postings,      \* what the source may open, by number
  Shown,         \* how many of them it has opened when the fetch begins
  PerPage, MaxPages, MaxItems,
  MaxClosings    \* bound on how many it closes meanwhile

ASSUME FetchingAssumption ==
  /\ {PerPage, MaxPages, MaxItems} \subseteq Nat \ {0}
  /\ Shown \in 0..Len(Postings) /\ MaxClosings \in Nat

VARIABLES
  connector,     \* the kind of source
  opened,        \* how many postings it has opened so far
  closed,        \* those it has closed again since the fetch began
  page,          \* the page read next
  taken,         \* the postings read so far
  count,         \* how many they are, one counted again if it was read again
  outcome        \* "reading", and how the fetch ended

fetchingVars == <<connector, opened, closed, page, taken, count, outcome>>

Paged == {"repository", "search"}
Single == {"greenhouse", "lever", "rss", "seed"}

FetchingInit ==
  /\ connector \in Paged \union Single
  /\ opened = Shown /\ closed = {}
  /\ page = 1 /\ taken = {} /\ count = 0 /\ outcome = "reading"

-----------------------------------------------------------------------------
(* parse_job of the issues of GitHub, and what search mode asks before it. *)

NonJobHints == {"bug", "typo", "refactor"}
JobLabels == {"job", "hiring", "vacancy"}
RoleNouns == {"engineer", "designer", "accountant"}
Signals == {"apply", "salary", "remote", "we're looking for", "role:"}
NotACompany == {"urgent", "review", "senior"}

\* _looks_like_vacancy: a role, some word of an offer, and no word of a defect in the title.
LooksLikeVacancy(p) ==
  /\ Range(p.title) \intersect NonJobHints = {}
  /\ (Range(p.title) \union p.body) \intersect RoleNouns # {}
  /\ (Range(p.title) \union p.labels \union p.body) \intersect Signals # {}

Field(p, names, default) ==
  LET given == SelectSeq(names, LAMBDA n : n \in DOMAIN p.fields)
  IN IF given = <<>> THEN default ELSE p.fields[Head(given)]

\* _find_apply_url: the field, a link after "apply", a link whose text says so; else the issue.
ApplyUrl(p) ==
  LET links == SelectSeq(p.links, LAMBDA l : l.text \in Signals)
  IN Field(p, <<"apply", "apply link">>, IF links = <<>> THEN p.url ELSE Head(links).url)

\* The two parts of a title around its first separator.
Around(title, sep) ==
  LET i == SelectInSeq(title, LAMBDA w : w = sep)
  IN IF i = 0 THEN <<<<>>, <<>>>> ELSE <<SubSeq(title, 1, i - 1), SubSeq(title, i + 1, Len(title))>>

\* _split_company_title: the field, else "title @ company", else "company | title", where neither
\* part is empty and what stands for the company is no word of status.
SplitCompany(p, title) ==
  LET field  == Field(p, <<"company", "employer">>, "")
      shapes == <<<<Around(title, "@")[2], Around(title, "@")[1]>>, Around(title, "|")>>
      named  == SelectSeq(shapes, LAMBDA s : <<>> \notin Range(s) /\ Range(s[1]) \intersect NotACompany = {})
      rest   == SelectSeq(title, LAMBDA w : w # field)
  IN IF field # "" THEN <<<<field>>, IF rest = <<>> THEN title ELSE rest>>
     ELSE Head(named \o <<<<<<>>, title>>>>)

\* An empty set, or one record.
ParseIssue(p) ==
  LET plain == IF p.title # <<>> /\ Head(p.title) = "hiring:" THEN Tail(p.title) ELSE p.title
      split == SplitCompany(p, plain)
  IN IF \/ p.title = <<>>
        \/ p.labels \intersect JobLabels = {} /\ Range(p.title) \intersect NonJobHints # {}
        \/ ApplyUrl(p) = ""
     THEN {}
     ELSE {[company |-> split[1], title |-> split[2], url |-> ApplyUrl(p), tags |-> p.labels,
            place |-> Field(p, <<"location", "city">>, ""),
            remote |-> Field(p, <<"remote">>, "no") \in {"yes", "remote"}]}

\* What the other connectors keep of an item, if it has the parts they ask for.
Parsed(p, complete) == IF complete THEN {[title |-> p.title, url |-> p.url]} ELSE {}

ParseBoardJob(p) == Parsed(p, p.title # <<>> /\ p.url # "")    \* greenhouse.py
ParsePosting(p) == Parsed(p, p.title # <<>> /\ p.url # "")     \* lever.py
ParseEntry(p) == Parsed(p, p.title # <<>> /\ p.url # "")       \* rss_feed.py
ParseSeed(p) == Parsed(p, p.title # <<>>)                      \* seed_dev.py

Vacancy(n) ==
  LET p == Postings[n]
  IN CASE connector = "repository" -> ~p.pull /\ ParseIssue(p) # {}
       [] connector = "search"     -> ~p.pull /\ LooksLikeVacancy(p) /\ ParseIssue(p) # {}
       [] connector = "greenhouse" -> ParseBoardJob(p) # {}
       [] connector = "lever"      -> ParsePosting(p) # {} /\ p.near
       [] connector = "rss"        -> ParseEntry(p) # {}
       [] connector = "seed"       -> ParseSeed(p) # {}

-----------------------------------------------------------------------------
(* The source.                                                             *)

List == (1..opened) \ closed

Open ==
  /\ outcome = "reading" /\ opened < Len(Postings)
  /\ opened' = opened + 1
  /\ UNCHANGED <<connector, closed, page, taken, count, outcome>>

Close ==
  /\ outcome = "reading" /\ Cardinality(closed) < MaxClosings
  /\ \E n \in List : closed' = closed \union {n}
  /\ UNCHANGED <<connector, opened, page, taken, count, outcome>>

-----------------------------------------------------------------------------
(* fetch_jobs.                                                             *)

\* The place of n in the list of S, and the first k of that list.
Rank(n, S) == Cardinality({m \in S : m >= n})
FirstOf(k, S) == {n \in S : Rank(n, S) <= k}

PageSize == IF PerPage < MaxItems THEN PerPage ELSE MaxItems
PageItems == FirstOf(page * PageSize, List) \ FirstOf((page - 1) * PageSize, List)
Vacancies(items) == {n \in items : Vacancy(n)}

\* Mutant: a page with fewer vacancies than it has room for is taken for the last one.
LastPageParsed(items) == Cardinality(Vacancies(items)) < PageSize

LastPage(items) == Cardinality(items) < PageSize

\* The page adds its vacancies, up to the limit; stop: the fetch is not to go on after it.
Page(stop) ==
  LET found == Vacancies(PageItems)
      read  == count + Cardinality(found)
      last  == LastPage(PageItems)
  IN
  /\ outcome = "reading"
  /\ taken' = taken \union FirstOf(MaxItems - count, found)
  /\ count' = IF read > MaxItems THEN MaxItems ELSE read
  /\ \/ /\ last /\ read <= MaxItems
        /\ outcome' = "complete" /\ UNCHANGED page
     \/ /\ read > MaxItems \/ (~last /\ (page = MaxPages \/ read = MaxItems \/ stop))
        /\ outcome' = "limited" /\ UNCHANGED page
     \/ /\ ~last /\ page < MaxPages /\ read < MaxItems /\ ~stop
        /\ page' = page + 1 /\ UNCHANGED outcome
  /\ UNCHANGED <<connector, opened, closed>>

\* remaining: the header with what is left of the rate limit ...
ReadIssues(remaining) == connector = "repository" /\ Page(remaining < 5)

\* ... which search mode does not look at.
ReadSearch == connector = "search" /\ Page(FALSE)

\* A timeout, a network error or a refusal: what was read is kept, if anything was.
PageFails ==
  /\ connector \in Paged /\ outcome = "reading"
  /\ outcome' = IF taken # {} THEN "partial" ELSE "failed"
  /\ UNCHANGED <<connector, opened, closed, page, taken, count>>

\* A page that is not JSON ends the fetch without the pages before it.
PageUnreadable ==
  /\ connector \in Paged /\ outcome = "reading"
  /\ outcome' = "failed" /\ taken' = {} /\ count' = 0
  /\ UNCHANGED <<connector, opened, closed, page>>

\* A page that is JSON but not a list ends it as if no page were left.
PageShapeless ==
  /\ connector = "repository" /\ outcome = "reading" /\ outcome' = "limited"
  /\ UNCHANGED <<connector, opened, closed, page, taken, count>>

\* The other sources answer once, with items of which the limit keeps the first.
Answer(kind, items, malformed) ==
  /\ connector = kind /\ outcome = "reading"
  /\ taken' = Vacancies(FirstOf(MaxItems, items)) /\ count' = Cardinality(taken')
  /\ outcome' = IF malformed THEN "partial"
                ELSE IF Cardinality(items) > MaxItems THEN "limited" ELSE "complete"
  /\ UNCHANGED <<connector, opened, closed, page>>

ReadBoard == Answer("greenhouse", List, FALSE)

\* Lever counts the postings that are left when others are filtered out.
ReadPostings == Answer("lever", Vacancies(List), FALSE)

\* A malformed feed is used as far as it goes; one without entries fails.
ReadFeed ==
  \/ Answer("rss", List, FALSE)
  \/ List # {} /\ Answer("rss", List, TRUE)

ReadSeed == Answer("seed", List, FALSE)

\* Not configured or disabled, no answer, or not of the shape expected.
AnswerFails ==
  /\ connector \in Single /\ outcome = "reading" /\ outcome' = "failed"
  /\ UNCHANGED <<connector, opened, closed, page, taken, count>>

FetchingNext ==
  \/ Open \/ Close
  \/ \E remaining \in {4, 5} : ReadIssues(remaining)
  \/ ReadSearch \/ PageFails \/ PageUnreadable \/ PageShapeless
  \/ ReadBoard \/ ReadPostings \/ ReadFeed \/ ReadSeed \/ AnswerFails

FetchingSpec == FetchingInit /\ [][FetchingNext]_fetchingVars

-----------------------------------------------------------------------------
(* Properties.                                                             *)

\* Every page a fetch passes is accounted for: of the vacancies that were open all along and are
\* newer than the oldest one read (than none, after the last page), it misses no more than have
\* been closed meanwhile, each of which moves one from a page not yet read to one read before.
\* Vacancies opened meanwhile, pull requests and postings that do not parse cost none
\* (github_issues.py reads pages by number; the other sources answer at once).
NothingMissed ==
  outcome \in {"complete", "limited", "partial"} =>
    LET standing == {n \in 1..Shown : n \notin closed /\ Vacancy(n)}
        missed   == standing \ taken
    IN Cardinality(IF outcome = "complete" THEN missed
                   ELSE {n \in missed : \E m \in taken : m < n}) <= Cardinality(closed)
===============================================================================
