----------------------------- MODULE Classifier -----------------------------
(***************************************************************************)
(* pipeline/classifier.py: the field of work of a posting by weighted      *)
(* keywords, with its flags, and how far the label is to be trusted.       *)
(*                                                                         *)
(* Scores are tenths, confidences thousandths.  The tables hold some of    *)
(* the categories and keywords of the code, in its order and with its      *)
(* weights.                                                                *)
(***************************************************************************)
EXTENDS Integers, Sequences, SequencesExt, Ordering

CategoryOrder ==
  <<"software_engineering", "ai_ml", "accounting", "hr", "government", "internships">>

\* CATEGORY_RULES
Rules ==
  [software_engineering |-> << <<"software engineer", 6>>, <<"api", 2>> >>,
   ai_ml                |-> << <<"machine learning", 7>>, <<"nlp", 5>> >>,
   accounting           |-> << <<"accountant", 7>>, <<"audit", 5>> >>,
   hr                   |-> << <<"recruiter", 6>> >>,
   government           |-> << <<"ministry of", 6>>, <<"nts", 5>> >>,
   internships          |-> << <<"internship", 8>>, <<"intern", 6>> >>]

\* Fields of work, as opposed to the two that are flags as well.
CrossCutting == {"internships", "government"}
GovernmentHints == {"ministry of", "nts", "federal"}
FreshHints == {"trainee", "fresh"}
EducationPatterns == <<"phd", "masters", "bachelors", "diploma">>

\* The title counts three times, the company 1.2, the body 0.6 and at most as 4.
Evidence(rule, t) ==
  IF rule[1] \in t.title THEN 30 * rule[2]
  ELSE IF rule[1] \in t.company THEN 12 * rule[2]
  ELSE IF rule[1] \in t.body THEN 6 * (IF rule[2] > 4 THEN 4 ELSE rule[2])
  ELSE 0

KeywordScore(c, t) == SumOf([i \in DOMAIN Rules[c] |-> Evidence(Rules[c][i], t)])

\* The hint of the source counts 4, also where no keyword was found.
Scores(t, hint) ==
  [c \in DOMAIN Rules |-> KeywordScore(c, t) + (IF c = hint THEN 40 ELSE 0)]

\* A hint without keywords is the last of its score, as the last one entered.
Position(c, t) ==
  IF KeywordScore(c, t) = 0 THEN Len(CategoryOrder) + 1
  ELSE CHOOSE i \in DOMAIN CategoryOrder : CategoryOrder[i] = c

Ranked(t, hint) ==
  LET s == Scores(t, hint)
      found == {c \in DOMAIN s : s[c] > 0}
      before(a, b) == s[a] > s[b] \/ (s[a] = s[b] /\ Position(a, t) < Position(b, t))
  IN InOrder(found, {p \in found \X found : before(p[1], p[2])})

\* Mutant: full confidence is possible.
ConfidenceUncapped(top, next) ==
  LET margin    == IF next > top THEN 0 ELSE top - next
      magnitude == IF top > 240 THEN 240 ELSE top
      exact     == 350 * 240 * margin + 650 * magnitude * top
  IN IF top = 0 THEN 0 ELSE (2 * exact + 240 * top) \div (480 * top)

\* A part for the margin over the next category, a larger one for the evidence itself.
Confidence(top, next) ==
  LET margin    == IF next > top THEN 0 ELSE top - next
      magnitude == IF top > 240 THEN 240 ELSE top
      exact     == 350 * 240 * margin + 650 * magnitude * top     \* times 240 * top
      rounded   == (2 * exact + 240 * top) \div (480 * top)
  IN IF top = 0 THEN 0 ELSE IF rounded > 990 THEN 990 ELSE rounded

Fewer(n, s) == SubSeq(s, 1, IF Len(s) > n THEN n ELSE Len(s))

IsInternship(t, hint, employment, experience) ==
  employment = "internship" \/ experience = "intern" \/ Scores(t, hint).internships >= 120

\* A hint in the body needs half the score that is enough alone.
IsGovernment(t, hint) ==
  \/ (t.title \union t.company) \intersect GovernmentHints # {}
  \/ Scores(t, hint).government >= 120
  \/ t.body \intersect GovernmentHints # {} /\ Scores(t, hint).government >= 60

\* The best field of work if it has any evidence to speak of, else whatever comes first.
TopCategory(scores, ranked) ==
  LET functional == Selected(ranked, {i \in DOMAIN ranked : ranked[i] \notin CrossCutting})
  IN IF functional # <<>> /\ scores[Head(functional)] >= 40 THEN Head(functional)
     ELSE IF ranked = <<>> THEN "other" ELSE Head(ranked)

\* Flags are added as categories of their own.
Flagged(secondary, category, flags) ==
  LET with(s, c) == IF c \in flags /\ c # category /\ ~Contains(s, c) THEN Append(s, c) ELSE s
  IN with(with(secondary, "internships"), "government")

\* Below a confidence of 0.30 the label is the flag, or "other".
FallBack(flags) ==
  IF "internships" \in flags THEN "internships"
  ELSE IF "government" \in flags THEN "government" ELSE "other"

\* Mutant: three categories are kept.
KeptThree(secondary) == Fewer(3, secondary)
Kept(secondary) == Fewer(4, secondary)

\* The label as the scores have it, up to three others with 40% of its score, and the flags.
Labelled(scores, ranked, best, flags) ==
  LET top      == IF best = "other" THEN 0 ELSE scores[best]
      category == IF best = "other" THEN FallBack(flags) ELSE best
      others   == Selected(ranked, {i \in DOMAIN ranked : ranked[i] # category})
      strong   == {i \in DOMAIN others : scores[others[i]] >= 40 /\ 5 * scores[others[i]] >= 2 * top}
  IN [category   |-> category,
      secondary  |-> Flagged(Fewer(3, Selected(others, strong)), category, flags),
      confidence |-> Confidence(top, IF others = <<>> THEN 0 ELSE scores[Head(others)])]

\* A label that is not trusted is replaced, and kept as the first of the others.
Trusted(label, flags) ==
  LET instead == FallBack(flags)
      hinted  == IF instead = "other" /\ ~Contains(label.secondary, label.category)
                 THEN <<label.category>> \o label.secondary ELSE label.secondary
  IN IF label.confidence < 300 /\ label.category # "other"
     THEN [label EXCEPT !.category = instead,
                        !.secondary = Fewer(3, Selected(hinted, {i \in DOMAIN hinted : hinted[i] # instead}))]
     ELSE label

Flags(t, hint, employment, experience) ==
  (IF IsInternship(t, hint, employment, experience) THEN {"internships"} ELSE {})
  \union (IF IsGovernment(t, hint) THEN {"government"} ELSE {})

\* What the classifier says of words t with these flags.
Classified(label, t, flags, experience) ==
  [category      |-> label.category,
   secondary     |-> Kept(label.secondary),
   confidence    |-> label.confidence,
   is_internship |-> "internships" \in flags,
   is_government |-> "government" \in flags,
   fresh         |-> "internships" \in flags \/ experience \in {"fresh_graduate", "intern", "entry"}
                       \/ (t.title \union t.body \union t.company) \intersect FreshHints # {},
   education     |-> SelectSeq(EducationPatterns, LAMBDA e : e \in t.title \union t.body)]

\* classify_job: t holds the words of the title, the company and the body.
Classify(t, hint, employment, experience) ==
  LET scores == Scores(t, hint)
      ranked == Ranked(t, hint)
      flags  == Flags(t, hint, employment, experience)
  IN Classified(Trusted(Labelled(scores, ranked, TopCategory(scores, ranked), flags), flags),
                t, flags, experience)
===============================================================================
