------------------------------ MODULE MCPosting ------------------------------
EXTENDS Posting, Fetching, Listings, TLC

\* What is fetched, what becomes of one posting and what a reader finds share no state here: a
\* behaviour exercises one of them.
VARIABLE part

pipelineVars == <<part, postingVars, fetchingVars, listingVars>>

Init ==
  /\ part \in {"fetching", "posting", "listing"}
  /\ PostingInit
  /\ IF part = "fetching" THEN FetchingInit ELSE FetchingInit /\ connector = "rss"
  /\ IF part = "listing" THEN ListingInit ELSE ListingInit /\ listed = {}

Next ==
  /\ UNCHANGED part
  /\ \/ part = "fetching" /\ FetchingNext /\ UNCHANGED <<postingVars, listingVars>>
     \/ part = "posting" /\ PostingNext /\ UNCHANGED <<fetchingVars, listingVars>>
     \/ part = "listing" /\ ListingNext /\ UNCHANGED <<postingVars, fetchingVars>>

Spec == Init /\ [][Next]_pipelineVars

\* A posting, and what its versions change.
Nowhere == [whole |-> "", parts |-> <<>>, within |-> {}]
NoSalary == [min |-> None, max |-> None, stated |-> {}, text |-> None]

Plain ==
  [id |-> "7", source |-> "lever", title |-> <<"software engineer">>, company |-> <<"abc", "pvt", "ltd">>,
   place |-> Nowhere, remote |-> FALSE, tags |-> {}, description |-> {"api"}, described |-> <<>>,
   length |-> 300, lines |-> <<>>, employment |-> {}, years |-> None, experience |-> {},
   salary |-> NoSalary, posted |-> [form |-> "ago", days |-> 3], deadline |-> None, mentioned |-> None,
   hint |-> None, url |-> [scheme |-> "https", host |-> "public", length |-> 40, path |-> "a"],
   website |-> FALSE]

Place(whole, parts, within) == [whole |-> whole, parts |-> parts, within |-> within]
Line(kind, length) == [kind |-> kind, length |-> length]

Titles ==
  {<<>>, <<"123">>, <<"hiring:", "emoji", "senior", "software engineer", "ii", "-", "lahore">>,
   <<"intern", "(urgent)", "|", "pakistan">>, <<"recruiter", "accountant", "internship", "nts">>,
   <<"machine learning", "software engineer", "accountant", "audit", "recruiter", "internship", "ministry of">>}
Companies ==
  {<<>>, <<"abc">>, <<"abc", "technologies", "pvt", "ltd">>, <<"systems", "limited">>, <<"(pvt)">>,
   <<"ministry of", "technologies">>}
Places ==
  {Place("lhr", <<>>, {}), Place("", <<"karachi", "islamabad">>, {"karachi", "islamabad"}),
   Place("sindh", <<>>, {"remote"}), Place("hybrid", <<>>, {"hybrid"}),
   Place("", <<"punjab", "pakistan">>, {"on-site"}), Place("", <<>>, {"lahore", "remote", "hybrid"})}
Salaries ==
  {[NoSalary EXCEPT !.min = 90000, !.max = 60000], [NoSalary EXCEPT !.max = 50000, !.stated = {"usd"}],
   [NoSalary EXCEPT !.text = [words |-> {"pkr", "monthly"}, numbers |-> <<2024, 90, 120000, 80000>>]],
   [NoSalary EXCEPT !.text = [words |-> {"$"}, numbers |-> <<>>]],
   [NoSalary EXCEPT !.min = 2000000, !.max = 9000000], [NoSalary EXCEPT !.min = 0 - 5, !.max = 2000000],
   [NoSalary EXCEPT !.text = [words |-> {"gbp"}, numbers |-> <<30000>>]]}
Days ==
  {[form |-> "ago", days |-> 70], [form |-> "today"], [form |-> "nonsense"], [form |-> "date", day |-> 405],
   [form |-> "date", day |-> 420], [form |-> "date", day |-> 150], None}
Urls ==
  {[scheme |-> "ftp", host |-> "public", length |-> 40, path |-> "a"],
   [scheme |-> "https", host |-> "internal", length |-> 40, path |-> "a"],
   [scheme |-> "http", host |-> "public", length |-> 40, path |-> "b"],
   [scheme |-> "https", host |-> "public", length |-> 2100, path |-> "a"]}

MCVersions ==
  {Plain}
  \union {[Plain EXCEPT !.title = t] : t \in Titles}
  \union {[Plain EXCEPT !.title = t, !.description = {"api", "federal", "phd", "registration fee"}] : t \in Titles}
  \union {[Plain EXCEPT !.company = c] : c \in Companies}
  \union {[Plain EXCEPT !.place = p, !.remote = h] : p \in Places, h \in BOOLEAN}
  \union {[Plain EXCEPT !.salary = s] : s \in Salaries}
  \union {[Plain EXCEPT !.posted = d, !.deadline = e] : d \in Days, e \in Days}
  \union {[Plain EXCEPT !.url = u] : u \in Urls}
  \union {[Plain EXCEPT !.hint = h, !.title = <<"officer">>, !.description = {}] : h \in {None, "hr", "government"}}
  \union {[Plain EXCEPT !.title = <<"machine learning", "nlp">>, !.description = {}],
          [Plain EXCEPT !.title = <<"machine learning", "software engineer", "accountant", "recruiter">>,
                        !.employment = {"intern"}]}
  \union {[Plain EXCEPT !.years = y, !.experience = e, !.title = <<"officer">>] :
            y \in {None, <<0, None>>, <<5, 3>>, <<1, None>>, <<50, None>>}, e \in {{}, {"junior"}}}
  \union {[Plain EXCEPT !.lines = l, !.length = n, !.employment = {"contract"}, !.tags = {"sap", "python"},
                        !.description = {"salary", "mlm", "hybrid"}, !.described = <<70000>>, !.website = TRUE,
                        !.mentioned = [form |-> "date", day |-> 410]] :
            l \in {<<>>, <<Line("heading", 3), Line("bullet", 40), Line("bullet", 2), Line("text", 9), Line("bullet", 9)>>,
                   <<Line("heading", 3), Line("text", 3), Line("bullet", 40), Line("other heading", 3), Line("bullet", 9)>>},
            n \in {20, 100, 800, 7000}}

MCSimilar(a, b) == 600

Row(source, id, title, company, city, path, salary, posted) ==
  [source |-> source, id |-> id, key |-> title, company |-> company, place |-> [city |-> city],
   url |-> [scheme |-> "https", host |-> "public", length |-> 40, path |-> path],
   length |-> 300, words |-> {"api", "software engineer"}, salary |-> [min |-> salary, max |-> None],
   posted |-> posted, fingerprint |-> <<title, company, city>>]
MCStored ==
  <<Row("rss", "1", <<"software engineer">>, <<"abc">>, "Lahore", "x", 80000, 397),
    Row("rss", "2", <<"software engineer">>, <<"abc">>, "Karachi", "y", None, 397),
    Row("rss", "3", <<"software engineer">>, <<"abc">>, "Karachi", "z", None, 397),
    Row("lever", "4", <<"accountant">>, <<"other">>, None, "b", 90000, None)>>

Issue(title, pull, labels, body, fields, links) ==
  [title |-> title, pull |-> pull, labels |-> labels, body |-> body, fields |-> fields, links |-> links,
   url |-> "issue", near |-> TRUE]
NoFields == [x \in {} |-> ""]
Offer == Issue(<<"engineer", "@", "abc">>, FALSE, {"job"}, {"apply"}, NoFields, <<>>)
MCPostings ==
  <<Offer,
    Issue(<<"hiring:", "abc", "|", "designer">>, FALSE, {}, {"salary"}, [remote |-> "yes", apply |-> "form"], <<>>),
    [Offer EXCEPT !.pull = TRUE],
    Issue(<<"urgent", "|", "engineer">>, FALSE, {}, {"role:"}, [company |-> "abc"], <<[text |-> "apply", url |-> "form"]>>),
    Issue(<<"bug", "engineer">>, FALSE, {}, {"apply"}, NoFields, <<>>),
    [Offer EXCEPT !.near = FALSE],
    [Offer EXCEPT !.title = <<>>]>>

Job(city, category, salary, posted, quality, skills) ==
  [city |-> city, province |-> "Punjab", category |-> category, secondary |-> {"hr"}, words |-> {"api"},
   remote |-> category = "hr", mode |-> "onsite", salary_min |-> salary, salary_max |-> None,
   posted |-> posted, deadline |-> None, quality |-> quality, relevance |-> quality, featured |-> quality = 40,
   skills |-> skills, experience |-> "mid"]
MCCatalogue ==
  <<Job("Lahore", "hr", 50, 390, 80, {"Python"}), Job("Lahore", "hr", 70, 395, 80, {"Python", "ERP"}),
    Job("Lahore", "other", None, 395, 80, {}), Job("Karachi", "hr", 90, 398, 40, {"ERP", "Python"})>>
MCQueries ==
  {[Anything EXCEPT !.size = 1], [Anything EXCEPT !.size = 2, !.categories = {"hr"}, !.within = 9],
   [Anything EXCEPT !.size = 2, !.skills = {"Python", "ERP"}, !.sort = "deadline"],
   [Anything EXCEPT !.size = 1, !.skills = {"Python", "ERP"}, !.sort = "newest"],
   [Anything EXCEPT !.size = 2, !.sort = "salary", !.salary_min = 60, !.salary_max = 80],
   [Anything EXCEPT !.size = 2, !.sort = "quality", !.cities = {"Lahore"}],
   [Anything EXCEPT !.size = 2, !.sort = "relevance", !.words = {"api"}, !.remote = TRUE]}
MCProfiles ==
  {[skills |-> {}, categories |-> {}, locations |-> {}, city |-> None, remote |-> None, expected |-> None, level |-> None],
   [skills |-> {"Python"}, categories |-> {"hr"}, locations |-> {"Lahore"}, city |-> "Karachi",
    remote |-> "remote", expected |-> 80, level |-> "lead"],
   [skills |-> {"ERP"}, categories |-> {"other"}, locations |-> {}, city |-> "Karachi",
    remote |-> "hybrid", expected |-> 50, level |-> "mid"]}
===============================================================================
