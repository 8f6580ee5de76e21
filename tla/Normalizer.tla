----------------------------- MODULE Normalizer -----------------------------
(***************************************************************************)
(* pipeline/normalizer.py, text.py and stages.py: what a source sent,      *)
(* converted into the fields of a job.                                     *)
(*                                                                         *)
(* A text is the set, or where the order counts the sequence, of the words *)
(* that some pattern recognises; the tables hold a representative of each  *)
(* row.  Amounts are whole numbers, dates are days.  None is an absent     *)
(* value of the source or of the job.                                      *)
(***************************************************************************)
EXTENDS Integers, Sequences, SequencesExt, Ordering

CONSTANTS
  None,
  Today,         \* the moment of processing, which dates are whole days away from
  MaxAmount      \* the largest plausible salary

Currencies == {"PKR", "USD", "GBP"}
Periods == {"month", "year", "hour", "week", "day"}

ASSUME NormalizerAssumption ==
  /\ Today \in Int /\ MaxAmount \in Nat
  /\ None \notin Int /\ None \notin BOOLEAN /\ None \notin Currencies /\ None \notin Periods

\* What a score is: a quality or a match in hundredths of a point, a confidence.
TenThousandths == 0..10000

NoneOr(first, second) == IF first # None THEN first ELSE second

\* The value of the first pattern, in the order of the table, with a word in the text.
FirstMatch(patterns, text) ==
  LET hits == {i \in DOMAIN patterns : patterns[i][2] \intersect text # {}}
  IN IF hits = {} THEN None ELSE patterns[Min(hits)][1]

-----------------------------------------------------------------------------
(* Titles and companies, as sequences of words.                            *)

TitleNoise == {"(urgent)", "apply now"}
TitlePrefixes == {"hiring:", "vacancy:"}
Separators == {"-", "|"}
Without(words, noise) == Selected(words, {i \in DOMAIN words : words[i] \notin noise})

\* The words but a leading one, or a separator and a place at the end.
WithoutFirst(words, noise) ==
  IF words # <<>> /\ Head(words) \in noise THEN Tail(words) ELSE words
WithoutPlace(words, places) ==
  IF Len(words) > 1 /\ Last(words) \in places /\ words[Len(words) - 1] \in Separators
  THEN SubSeq(words, 1, Len(words) - 2) ELSE words

\* Noise first, a prefix before the emoji are gone; then a city at the end, then the country.
NormalizeTitle(words) ==
  LET prefixed == WithoutFirst(Without(words, TitleNoise), TitlePrefixes)
      plain    == WithoutFirst(Without(prefixed, {"emoji"}), {"fwd:"})
      title    == WithoutPlace(WithoutPlace(plain, {"lahore", "karachi"}), {"pakistan"})
      inside   == {i \in DOMAIN title : title[i] \notin Separators}
      dashed   == [i \in DOMAIN title |-> IF title[i] = "|" THEN "-" ELSE title[i]]
  IN IF inside = {} THEN <<>> ELSE SubSeq(dashed, Min(inside), Max(inside))

Seniority == {"senior", "junior", "lead", "principal", "associate"}
Grades == {"i", "ii", "iii", "1", "2", "3"}

\* title_comparison_key: without seniority, without the grade at the end.
TitleKey(title) ==
  LET core == Without(title, Seniority)
      cut  == IF core # <<>> /\ Last(core) \in Grades THEN Front(core) ELSE core
  IN Without(cut, Separators)

CompanySuffixes ==
  {<<"pvt">>, <<"ltd">>, <<"pvt", "ltd">>, <<"limited">>, <<"technologies">>, <<"systems">>}

\* How many words the longest suffix at the end of the name has.
SuffixLength(name) ==
  Max({0} \union {n \in 1..Len(name) : n <= 2 /\ SubSeq(name, Len(name) - n + 1, Len(name)) \in CompanySuffixes})

\* Suffixes go while something is left of the name, in at most a turn for each of its words:
\* "Systems Limited" is a name.
StripSuffixes(name) ==
  LET left[turn \in 0..Len(name)] ==
        IF turn = 0 THEN Len(name)
        ELSE LET length == SuffixLength(SubSeq(name, 1, left[turn - 1]))
             IN IF length = left[turn - 1] THEN left[turn - 1] ELSE left[turn - 1] - length
  IN SubSeq(name, 1, left[Len(name)])

\* Mutant: one suffix is stripped.
CompanyKeyOnce(words) ==
  LET name == Without(words, {"(pvt)"})
  IN IF name = <<>> THEN words ELSE SubSeq(name, 1, Len(name) - SuffixLength(name))

\* company_matching_key
CompanyKey(words) ==
  LET name == Without(words, {"(pvt)"}) IN IF name = <<>> THEN words ELSE StripSuffixes(name)

-----------------------------------------------------------------------------
(* Places.                                                                 *)

\* CITY_LOOKUP, PROVINCE_ALIASES, COUNTRY_ALIASES
CityOf ==
  [lahore |-> "Lahore", lhr |-> "Lahore", karachi |-> "Karachi", islamabad |-> "Islamabad"]
CityScan == <<"karachi", "lahore", "islamabad">>   \* names of four letters or more, in order
ProvinceOfCity ==
  [Lahore |-> "Punjab", Karachi |-> "Sindh", Islamabad |-> "Islamabad Capital Territory"]
ProvinceOf ==
  [punjab |-> "Punjab", sindh |-> "Sindh", islamabad |-> "Islamabad Capital Territory"]
CountryOf == [pakistan |-> "PK"]

\* The entry of the first name the table has.
Lookup(table, names) ==
  LET known == {i \in DOMAIN names : names[i] \in DOMAIN table}
  IN IF known = {} THEN None ELSE table[names[Min(known)]]

\* A place is the whole text, its parts between separators, and the words within it.
FindCity(place) ==
  NoneOr(Lookup(CityOf, <<place.whole>> \o place.parts),
         Lookup([n \in place.within \intersect DOMAIN CityOf |-> CityOf[n]], CityScan))

FindProvince(place) ==
  LET city == FindCity(place)
  IN NoneOr(Lookup(ProvinceOf, <<place.whole>> \o place.parts),
            IF city # None THEN ProvinceOfCity[city] ELSE None)

WorkMode(city, words) ==
  IF "remote" \in words /\ "hybrid" \notin words THEN "remote"
  ELSE IF "hybrid" \in words THEN "hybrid"
  ELSE IF "on-site" \in words \/ city # None THEN "onsite" ELSE "unknown"

\* _build_display_location: the city is shown with its own province.
DisplayLocation(place, city, province, remote) ==
  CASE city # None     -> <<city, ProvinceOfCity[city]>>
    [] province # None -> <<province>>
    [] remote          -> <<"Remote">>
    [] OTHER           -> <<place.whole>>

\* words: the location itself, and the title, tags and first lines of the description.
NormalizeLocation(place, words) ==
  LET city     == FindCity(place)
      province == FindProvince(place)
      all      == place.within \union words
      mode     == WorkMode(city, all)
  IN [city |-> city, province |-> province, work_mode |-> mode, is_remote |-> mode = "remote",
      country |-> IF city # None \/ province # None THEN "PK"
                  ELSE NoneOr(Lookup(CountryOf, <<place.whole>> \o place.parts), "PK"),
      location |-> DisplayLocation(place, city, province, "remote" \in all)]

-----------------------------------------------------------------------------
(* Kinds of employment, experience.                                        *)

EmploymentPatterns ==
  << <<"internship", {"intern", "trainee"}>>, <<"part_time", {"part-time"}>>,
     <<"contract", {"contract"}>>, <<"temporary", {"temporary"}>>,
     <<"freelance", {"freelance"}>>, <<"volunteer", {"unpaid"}>>,
     <<"full_time", {"full-time", "permanent"}>> >>

EmploymentType(words) == NoneOr(FirstMatch(EmploymentPatterns, words), "unknown")

ExperiencePatterns ==
  << <<"intern", {"intern", "trainee"}>>, <<"fresh_graduate", {"fresh"}>>,
     <<"executive", {"director"}>>, <<"lead", {"lead", "principal", "manager"}>>,
     <<"senior", {"senior"}>>, <<"entry", {"junior", "associate"}>>, <<"mid", {"mid-level"}>> >>

\* extract_years_of_experience: the smaller number of "3-5 years", 40 at most.
LowYears(years) ==
  IF years = None THEN None
  ELSE LET low == IF years[2] # None /\ years[2] < years[1] THEN years[2] ELSE years[1]
       IN IF low > 40 THEN None ELSE low

LevelOfYears(low) ==
  CASE low = 0  -> "fresh_graduate"
    [] low = 1  -> "entry"
    [] low \in 2..4 -> "mid"
    [] low \in 5..8 -> "senior"
    [] OTHER    -> "lead"

\* The explicit field, the title, the years, and last the description.
ExperienceLevel(title, description, years, explicit) ==
  LET stated == NoneOr(FirstMatch(ExperiencePatterns, explicit), FirstMatch(ExperiencePatterns, title))
      low    == LowYears(years)
  IN CASE stated # None -> stated
       [] stated = None /\ low # None -> LevelOfYears(low)
       [] OTHER -> NoneOr(FirstMatch(ExperiencePatterns, description), "unknown")

-----------------------------------------------------------------------------
(* Salaries.                                                               *)

CurrencyPatterns == << <<"PKR", {"pkr", "rs."}>>, <<"USD", {"usd", "$"}>>, <<"GBP", {"gbp"}>> >>
PeriodPatterns ==
  << <<"month", {"monthly"}>>, <<"year", {"per annum"}>>, <<"hour", {"hourly"}>>,
     <<"week", {"weekly"}>>, <<"day", {"daily"}>> >>

\* _coerce_decimal: a number above zero, or nothing.
Coerce(value) == IF value # None /\ value > 0 THEN value ELSE None

\* _parse_amount_range: the first two numbers of a text that may be salaries; a bare year is
\* not one, nor is a number below 100.
AmountRange(numbers) ==
  LET amounts   == {i \in DOMAIN numbers : numbers[i] >= 100 /\ numbers[i] \notin 1900..2099}
      first(some) == IF some = {} THEN None ELSE numbers[Min(some)]
  IN <<first(amounts), first({i \in amounts : \E j \in amounts : j < i})>>

\* Mutant: the bounds are taken as they come.
OrderedAsGiven(lo, hi) == <<lo, hi>>

Ordered(lo, hi) == IF lo # None /\ hi # None /\ lo > hi THEN <<hi, lo>> ELSE <<lo, hi>>

\* A large amount is paid by the year, in rupees a much larger one.
DefaultPeriod(currency, amount) ==
  IF currency = "PKR" THEN (IF amount < 1500000 THEN "month" ELSE "year")
                      ELSE (IF amount > 10000 THEN "year" ELSE "month")

\* An amount out of bounds loses both, but not the currency and the period.
Salary(range, currency, period) ==
  LET result(lo, hi, c, p) == [min |-> lo, max |-> hi, currency |-> c, period |-> p]
  IN IF \E i \in {1, 2} : range[i] # None /\ range[i] > MaxAmount
     THEN result(None, None, currency, period)
     ELSE IF range = <<None, None>> THEN result(None, None, None, None)
     ELSE LET c == NoneOr(currency, "PKR")
          IN result(range[1], range[2], c,
                    NoneOr(period, DefaultPeriod(c, NoneOr(range[2], range[1]))))

\* The structured amounts if there are any, else those of the text.
NormalizeSalary(s) ==
  LET given == <<Coerce(s.min), Coerce(s.max)>>
      found == IF given = <<None, None>> THEN AmountRange(s.numbers) ELSE given
  IN Salary(Ordered(found[1], found[2]),
            NoneOr(FirstMatch(CurrencyPatterns, s.stated), FirstMatch(CurrencyPatterns, s.words)),
            NoneOr(FirstMatch(PeriodPatterns, s.stated), FirstMatch(PeriodPatterns, s.words)))

-----------------------------------------------------------------------------
(* Dates, skills, lists.                                                   *)

\* parse_datetime: a date, "3 days ago", "today", or something that is none.
ParseDate(value) ==
  CASE value = None          -> None
    [] value.form = "date"     -> value.day
    [] value.form = "ago"      -> Today - value.days
    [] value.form = "today"    -> Today
    [] value.form = "nonsense" -> None

\* extract_deadline: a date after "last date", within a year back and two years ahead.
ExtractDeadline(mentioned) ==
  LET day == ParseDate(mentioned)
  IN IF day # None /\ day \in (Today - 365)..(Today + 730) THEN day ELSE None

UpTo(limit, s) == SubSeq(s, 1, IF Len(s) > limit THEN limit ELSE Len(s))

\* SKILL_DICTIONARY: each skill and the words it goes by.
SkillPatterns == << <<"Python", {"python"}>>, <<"QA Testing", {"qa", "selenium"}>>, <<"ERP", {"erp", "sap"}>> >>

\* extract_skills: in the order of the dictionary, 25 at most.
ExtractSkills(words) ==
  LET found == SelectSeq(SkillPatterns, LAMBDA p : p[2] \intersect words # {})
  IN UpTo(25, [i \in DOMAIN found |-> found[i][1]])

\* The name a skill goes by in the dictionary, or its own.
Canonical(skill) == NoneOr(FirstMatch(SkillPatterns, {skill}), skill)

\* The members of s, each where it occurs first.
Distinct(s) == FoldLeft(LAMBDA seen, x : IF Contains(seen, x) THEN seen ELSE Append(seen, x), <<>>, s)

\* normalize_skill_list: 40 at most.
SkillList(values) == UpTo(40, Distinct([i \in DOMAIN values |-> Canonical(values[i])]))

\* Where a section ends: another heading, or a line of text after the first bullet.
SectionEnds(lines, i) ==
  \/ lines[i].kind = "other heading"
  \/ lines[i].kind = "text" /\ \E j \in 1..(i - 1) : lines[j].kind = "bullet" /\ lines[j].length \in 4..400

\* extract_bullets: the bullets of one section, which starts at its heading; a heading of the
\* same section may come again.
Bullets(lines) ==
  LET heads == {i \in DOMAIN lines : lines[i].kind = "heading"}
      first == CHOOSE i \in heads : \A j \in heads : i <= j
      after == SubSeq(lines, first + 1, Len(lines))
      ends  == {i \in DOMAIN after : SectionEnds(after, i)}
      body  == IF ends = {} THEN after
               ELSE SubSeq(after, 1, (CHOOSE i \in ends : \A j \in ends : i <= j) - 1)
  IN IF heads = {} THEN <<>>
     ELSE UpTo(20, SelectSeq(body, LAMBDA l : l.kind = "bullet" /\ l.length \in 4..400))

-----------------------------------------------------------------------------
(* stages.py.                                                              *)

\* A hint of the source makes a job remote, unless its text says hybrid.
StageWorkMode(location, hint) ==
  LET remote == location.is_remote \/ hint
  IN [is_remote |-> remote,
      work_mode |-> IF remote /\ location.work_mode # "hybrid" THEN "remote" ELSE location.work_mode]

\* The salary is looked for in the description only where it speaks of one.
StageSalary(raw) ==
  LET text == IF raw.salary.text # None THEN raw.salary.text
              ELSE IF "salary" \in raw.description THEN [words |-> raw.description, numbers |-> raw.described]
              ELSE [words |-> {}, numbers |-> <<>>]
  IN NormalizeSalary([min |-> raw.salary.min, max |-> raw.salary.max, stated |-> raw.salary.stated,
                      words |-> text.words, numbers |-> text.numbers])

\* What every posting of a source is: amounts are numbers, dates parse to days or not at all, and
\* a place that is wholly the name of a province has no city in its parts.
IsPosting(raw) ==
  /\ raw.title \in Seq(STRING) /\ raw.company \in Seq(STRING) /\ raw.remote \in BOOLEAN /\ raw.length \in Nat
  /\ {raw.salary.min, raw.salary.max} \subseteq Int \union {None} /\ raw.described \in Seq(Int)
  /\ raw.salary.text # None => raw.salary.text.numbers \in Seq(Int)
  /\ ParseDate(raw.posted) \in Int \union {None}
  /\ raw.place.parts \in Seq(STRING)
  /\ raw.place.whole \in DOMAIN ProvinceOf =>
       (Range(raw.place.parts) \union raw.place.within) \intersect DOMAIN CityOf \subseteq {raw.place.whole}

\* normalize_raw_job, but for the classification.
Normalized(raw) ==
  LET title    == NormalizeTitle(raw.title)
      heading  == Range(raw.title) \union raw.tags \union raw.description
      location == NormalizeLocation(raw.place, heading)
      shown    == IF title = <<>> THEN raw.title ELSE title
  IN [title       |-> shown,
      key         |-> TitleKey(title),
      company     |-> IF raw.company = <<>> THEN None ELSE CompanyKey(raw.company),
      place       |-> location,
      mode        |-> StageWorkMode(location, raw.remote),
      employment  |-> EmploymentType(raw.employment \union heading),
      experience  |-> ExperienceLevel(Range(title), raw.description, raw.years, raw.experience),
      salary      |-> StageSalary(raw),
      posted      |-> ParseDate(raw.posted),
      deadline    |-> NoneOr(ParseDate(raw.deadline), ExtractDeadline(raw.mentioned)),
      skills      |-> SkillList(ExtractSkills(Range(title) \union raw.description) \o SetToSeq(raw.tags)),
      requirements |-> Bullets(raw.lines), responsibilities |-> <<>>,
      source |-> raw.source, id |-> raw.id, url |-> raw.url, website |-> raw.website,
      words |-> raw.description \union Range(shown), length |-> raw.length, class |-> None]
===============================================================================
