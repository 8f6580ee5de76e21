------------------------------- MODULE Posting -------------------------------
(***************************************************************************)
(* One posting of a source on its way into the table of jobs, and the      *)
(* versions of it that follow: services/ingestion.py with the stages of    *)
(* pipeline/ it calls.  The status of the row is in JobLifecycle, its      *)
(* links to duplicates are in DuplicateLinks; here are its descriptive     *)
(* columns.                                                                *)
(***************************************************************************)
EXTENDS Assessment, Classifier

CONSTANTS
  Versions,      \* what the source may publish
  Stored,        \* the rows of other postings, newest first
  Reliability,   \* reliability_score of the source, in percent
  MaxVersions    \* bound on how often the posting is fetched

ASSUME PostingAssumption ==
  /\ MaxVersions \in Nat /\ Reliability \in Nat /\ Stored \in Seq(Range(Stored))
  /\ None \notin DOMAIN Rules \union {"other"}
  /\ \A v \in Versions : IsPosting(v)
  /\ \A i \in DOMAIN Stored : Stored[i] # None /\ Stored[i].url # None /\ IsCandidate(Stored[i])
  /\ \A i, j \in DOMAIN Stored : Stored[i] = Stored[j] => i = j
  /\ \A v \in Versions, i \in DOMAIN Stored : Comparable(Normalized(v), Stored[i])

VARIABLES
  stage,     \* "waiting", "fetched", "normalized"
  raw,       \* the version fetched last
  job,       \* the record made of it
  row,       \* the row of the posting
  fetched    \* how many versions have been fetched

postingVars == <<stage, raw, job, row, fetched>>

PostingInit == stage = "waiting" /\ raw = None /\ job = None /\ row = None /\ fetched = 0

\* The keywords of the title, the body and the company.
Words(n, r) == [title |-> Range(n.title), body |-> r.description, company |-> Range(r.company)]

\* The posting r with the fields n, classified.
WithClass(n, r) ==
  [n EXCEPT !.class = Classify(Words(n, r), r.hint, n.employment, n.experience)]

NormalizedJob(r) == WithClass(Normalized(r), r)

\* _create_job: a doubtful posting waits for review, one past its deadline is expired.
Status(n) ==
  CASE n.deadline # None /\ n.deadline < Today -> "expired"
    [] (n.deadline = None \/ n.deadline >= Today) /\ NeedsReview(Warnings(n)) -> "pending_review"
    [] OTHER -> "active"

\* _update_job: a posting that is published again comes back.
Reactivated(status, n) ==
  IF status = "expired" /\ (n.deadline = None \/ n.deadline > Today) THEN "active" ELSE status

ListColumns == {"title", "key", "secondary", "education", "skills", "requirements", "fingerprint"}

\* content_fingerprint: a coarse key for the search of candidates.
Fingerprint(n) == <<n.key, n.company, n.place.city>>

\* The columns both _create_job and _update_job write.
Columns(n, quality, status) ==
  [status |-> status, title |-> n.title, key |-> IF n.key = <<>> THEN n.title ELSE n.key,
   city |-> n.place.city, province |-> n.place.province, location |-> n.place.location,
   work_mode |-> n.mode.work_mode, is_remote |-> n.mode.is_remote,
   employment |-> n.employment, experience |-> n.experience,
   category |-> n.class.category, secondary |-> n.class.secondary, confidence |-> n.class.confidence,
   is_internship |-> n.class.is_internship, is_government |-> n.class.is_government,
   fresh |-> n.class.fresh, education |-> n.class.education,
   salary_min |-> n.salary.min, salary_max |-> n.salary.max,
   salary_currency |-> n.salary.currency, salary_period |-> n.salary.period,
   deadline |-> n.deadline, requirements |-> n.requirements, url |-> n.url, quality |-> quality,
   fingerprint |-> Fingerprint(n)]

\* Mutant: what the classifier says of itself is left out.
RefreshedLabelOnly(old, new) ==
  [c \in DOMAIN new |->
     IF c = "confidence" \/ (IF c \in ListColumns THEN new[c] = <<>> ELSE new[c] = None) THEN old[c] ELSE new[c]]

\* _update_job: a column the new version says nothing of stays as it was.
Refreshed(old, new) ==
  [c \in DOMAIN new |-> IF (IF c \in ListColumns THEN new[c] = <<>> ELSE new[c] = None) THEN old[c] ELSE new[c]]

\* _duplicate_candidates: the same fingerprint or address, or the same title at a company whose
\* name has this one's in it.
Candidates(n) ==
  Selected(Stored, {i \in DOMAIN Stored :
    LET r == Stored[i] IN
    \/ r.fingerprint = Fingerprint(n) \/ r.url = n.url
    \/ n.company # None /\ r.company # None /\ n.key # <<>> /\ Within(n.company, r.company) /\ r.key = n.key})

\* Only a new posting is compared with others, and only then a duplicate costs it points.
Verdict(n) == IF row = None THEN FindDuplicate(n, Candidates(n)) ELSE NoVerdict
QualityOf(n) == Quality(n, Reliability, Verdict(n).confidence \div 100, FALSE)

Fetch ==
  /\ stage = "waiting" /\ fetched < MaxVersions
  /\ stage' = "fetched" /\ raw' \in Versions /\ fetched' = fetched + 1
  /\ UNCHANGED <<job, row>>

Normalize ==
  /\ stage = "fetched"
  /\ stage' = "normalized" /\ job' = NormalizedJob(raw)
  /\ UNCHANGED <<raw, row, fetched>>

\* Errors keep a version out; the row of an earlier one stays.
Reject ==
  /\ stage = "normalized" /\ Errors(job) # {}
  /\ stage' = "waiting"
  /\ UNCHANGED <<raw, job, row, fetched>>

Create ==
  /\ stage = "normalized" /\ Errors(job) = {} /\ row = None
  /\ stage' = "waiting"
  /\ row' = Columns(job, QualityOf(job), Status(job))
  /\ UNCHANGED <<raw, job, fetched>>

Update ==
  /\ stage = "normalized" /\ Errors(job) = {} /\ row # None
  /\ stage' = "waiting"
  /\ row' = Refreshed(row, Columns(job, QualityOf(job), Reactivated(row.status, job)))
  /\ UNCHANGED <<raw, job, fetched>>

PostingNext == Fetch \/ Normalize \/ Reject \/ Create \/ Update

PostingSpec == PostingInit /\ [][PostingNext]_postingVars

-----------------------------------------------------------------------------
(* Properties.                                                             *)

\* Every variable stays within its type; a row is of a posting without errors.
PostingTypeOK ==
  /\ stage \in {"waiting", "fetched", "normalized"} /\ fetched \in 0..MaxVersions
  /\ raw \in Versions \union {None}
  /\ row # None => /\ row.quality \in TenThousandths /\ row.confidence \in 0..990
                   /\ row.title # <<>> /\ SafeUrl(row.url)
                   /\ Len(row.secondary) <= 4

\* The fields a search filters on agree, whatever mixture of structured fields, hints and free
\* text they come from: remote jobs have a remote or hybrid mode, a salary is a range with a
\* currency and a period, a known city lies in the province given for it unless the text names
\* another one (normalizer.py, stages.py).
FieldsAgree ==
  stage = "normalized" =>
    LET n == job IN
    /\ n.mode.is_remote <=> n.mode.work_mode = "remote" \/ (n.mode.work_mode = "hybrid" /\ raw.remote)
    /\ n.salary.min # None /\ n.salary.max # None => n.salary.min <= n.salary.max
    /\ n.salary.min # None \/ n.salary.max # None => n.salary.currency # None /\ n.salary.period # None
    /\ n.place.city # None =>
         \/ n.place.province = ProvinceOfCity[n.place.city]
         \/ n.place.province \in {ProvinceOf[p] : p \in Range(raw.place.parts) \intersect DOMAIN ProvinceOf}

\* A flag is found under its category, also for a posting that is many things at once: an
\* internship always, a government job unless it is an internship too, whose category may push
\* this one over the limit of four (classifier.py).  A field of work is only assigned with the
\* confidence that takes.
FlagsFound ==
  stage = "normalized" =>
    LET found == {job.class.category} \union Range(job.class.secondary) IN
    /\ job.class.is_internship => "internships" \in found
    /\ job.class.is_government => "government" \in found \/ job.class.is_internship
    /\ job.class.category \notin CrossCutting \union {"other"} => job.class.confidence >= 300

\* The key of a company does not depend on the suffixes after its name, nor on how often it is
\* computed, and a name of nothing but suffixes keeps one (normalizer.py: merges 'ABC',
\* 'ABC Technologies' and 'ABC (Pvt) Ltd').
KeysMerge ==
  stage = "normalized" /\ raw.company # <<>> =>
    LET key == CompanyKey(raw.company) IN
    /\ key # <<>> /\ CompanyKey(key) = key
    /\ SuffixLength(key) = 0 /\ "(pvt)" \notin Range(key) =>
         \A s \in CompanySuffixes : CompanyKey(raw.company \o s) = key
    /\ TitleKey(job.key) = job.key \/ Last(job.key) \in Grades

\* The verdict on a new posting names a row no other is better than, and is the same for both
\* of a pair; an identical row is never passed over for a similar one (deduplicator.py).
VerdictIsBest ==
  stage = "normalized" /\ row = None =>
    LET v    == Verdict(job)
        rows == Candidates(job) IN
    /\ \A r \in Range(Stored) : r.url = job.url => v.confidence = 10000 /\ Identical(job, v.row)
    /\ \A r \in Range(rows) : ScorePair(job, r) <= v.confidence /\ ScorePair(job, r) = ScorePair(r, job)
    /\ \A i, j \in DOMAIN rows :
         i < j /\ v.row = rows[j] /\ rows[i] # v.row /\ ~Identical(job, v.row) =>
           ScorePair(job, rows[i]) < v.confidence

\* The label of a stored posting and what the classifier said of it are of the same version
\* (ingestion.py, _update_job: "Must be refreshed alongside `category`").
ClassificationTogether ==
  stage = "waiting" /\ row # None /\ Errors(job) = {} =>
    /\ row.category = job.class.category /\ row.confidence = job.class.confidence
    /\ row.is_internship = job.class.is_internship /\ row.is_government = job.class.is_government
===============================================================================
