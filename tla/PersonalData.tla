---------------------------- MODULE PersonalData ----------------------------
(***************************************************************************)
(* What users keep of their own: saved jobs, alerts, reports and the       *)
(* profile (apps/api/app/routers/saved.py, alerts.py, jobs.py, profile.py  *)
(* and services/profile.py).                                               *)
(*                                                                         *)
(* A handler that reads before it writes is a call in flight between the   *)
(* two, and other calls, of the same user too, commit meanwhile; its own   *)
(* writes, the counters included, become visible at once, at its commit.   *)
(***************************************************************************)
EXTENDS Integers, FiniteSets, UnitOfWork

CONSTANTS
  Users, Jobs,
  Calls,        \* slots for the calls in flight
  MaxAlerts,    \* MAX_ALERTS_PER_USER
  MaxReports,   \* bound on the reports of a job
  Payloads,     \* bodies of PUT /profile: functions from columns to numbers, 0 for nothing
  CityProvince, \* CITY_LOOKUP: the province of each city, by number
  NoCall

ASSUME PersonalAssumption ==
  /\ IsFiniteSet(Calls) /\ IsFiniteSet(Users) /\ IsFiniteSet(Jobs)
  /\ MaxAlerts \in Nat \ {0} /\ MaxReports \in Nat

ASSUME ProfileAssumption ==
  /\ \A p \in Payloads : p \in [DOMAIN p -> Nat]
  /\ CityProvince \in [DOMAIN CityProvince -> Nat]

VARIABLES
  saved,      \* saved_jobs: the pairs of a user and a job
  counter,    \* save_count and report_count of every job
  reports,    \* job_reports: how many each job has
  alerts,     \* job_alerts: how many each user has
  profile,    \* the row of profiles of one user, a number for every column
  call        \* the calls in flight

personalVars == <<saved, counter, reports, alerts, profile, call>>

\* COMPLETION_WEIGHTS
Weight ==
  [full_name |-> 12, city |-> 10, education_level |-> 8, degree |-> 7,
   years_of_experience |-> 8, experience_level |-> 7, skills |-> 18,
   preferred_categories |-> 10, preferred_locations |-> 8, preferred_job_types |-> 5,
   expected_salary_min |-> 4, remote_preference |-> 3]

ProfileColumns ==
  DOMAIN Weight \union {"expected_salary_max", "province", "profile_completion"}

\* What a column adds to the score: three skills count whole, fewer count half.
Share(row, f) ==
  IF row[f] = 0 THEN 0
  ELSE IF f = "skills" /\ row[f] < 3 THEN Weight[f] \div 2 ELSE Weight[f]

Completion(row) ==
  LET score ==
        Share(row, "full_name") + Share(row, "city") + Share(row, "education_level")
        + Share(row, "degree") + Share(row, "years_of_experience")
        + Share(row, "experience_level") + Share(row, "skills")
        + Share(row, "preferred_categories") + Share(row, "preferred_locations")
        + Share(row, "preferred_job_types") + Share(row, "expected_salary_min")
        + Share(row, "remote_preference")
  IN IF score > 100 THEN 100 ELSE score

\* missing_profile_fields
MissingFields(row) ==
  {f \in DOMAIN Weight : row[f] = 0 \/ (f = "skills" /\ row[f] < 3)}

PersonalInit ==
  /\ saved = {}
  /\ counter = [j \in Jobs |-> [saves |-> 0, reports |-> 0]]
  /\ reports = [j \in Jobs |-> 0]
  /\ alerts = [u \in Users |-> 0]
  /\ profile = [f \in ProfileColumns |-> 0]
  /\ call = [c \in Calls |-> NoCall]

Idle(c) == call[c] = NoCall

\* The call commits; a profile that another call has read is out of date.
Finished(c, touched) ==
  call' = [x \in Calls |->
    IF x = c \/ Idle(x) THEN (IF x = c THEN NoCall ELSE call[x])
    ELSE IF touched /\ call[x].op = "profile" THEN [call[x] EXCEPT !.stale = TRUE] ELSE call[x]]

-----------------------------------------------------------------------------
(* Saved jobs.                                                             *)

\* save_job: the job is not among the saved ones of the user ...
BeginSave(c, u, j) ==
  /\ Idle(c) /\ <<u, j>> \notin saved
  /\ call' = [call EXCEPT ![c] = [op |-> "save", user |-> u, job |-> j]]
  /\ UNCHANGED <<saved, counter, reports, alerts, profile>>

\* Mutant: the losing call of two has counted its row.
SaveTwice(c) ==
  /\ ~Idle(c) /\ call[c].op = "save"
  /\ saved' = saved \union {<<call[c].user, call[c].job>>}
  /\ counter' = [counter EXCEPT ![call[c].job].saves = @ + 1]
  /\ Finished(c, FALSE)
  /\ UNCHANGED <<reports, alerts, profile>>

\* ... and the unique key decides at the commit, which keeps or loses the row and the count.
Save(c) ==
  /\ ~Idle(c) /\ call[c].op = "save"
  /\ LET row == <<call[c].user, call[c].job>>
     IN IF row \in saved
        THEN UNCHANGED <<saved, counter>>
        ELSE /\ saved' = saved \union {row}
             /\ counter' = [counter EXCEPT ![call[c].job].saves = @ + 1]
  /\ Finished(c, FALSE)
  /\ UNCHANGED <<reports, alerts, profile>>

\* unsave_job: one DELETE; nothing deleted is a 404.
Unsave(u, j) ==
  /\ <<u, j>> \in saved
  /\ saved' = saved \ {<<u, j>>}
  /\ counter' = [counter EXCEPT ![j].saves = IF @ > 0 THEN @ - 1 ELSE @]
  /\ UNCHANGED <<reports, alerts, profile, call>>

\* report_job: every report is a row of its own, and is counted.
Report(j) ==
  /\ reports[j] < MaxReports
  /\ reports' = [reports EXCEPT ![j] = @ + 1]
  /\ counter' = [counter EXCEPT ![j].reports = @ + 1]
  /\ UNCHANGED <<saved, alerts, profile, call>>

-----------------------------------------------------------------------------
(* Alerts.                                                                 *)

\* Mutant: the limit is not looked at.
BeginAlertUnlimited(c, u) ==
  /\ Idle(c) /\ alerts[u] < MaxAlerts + Cardinality(Calls)
  /\ call' = [call EXCEPT ![c] = [op |-> "alert", user |-> u]]
  /\ UNCHANGED <<saved, counter, reports, alerts, profile>>

\* create_alert counts the alerts of the user ...
BeginAlert(c, u) ==
  /\ Idle(c) /\ alerts[u] < MaxAlerts
  /\ call' = [call EXCEPT ![c] = [op |-> "alert", user |-> u]]
  /\ UNCHANGED <<saved, counter, reports, alerts, profile>>

\* ... and inserts one more.
CreateAlert(c) ==
  /\ ~Idle(c) /\ call[c].op = "alert"
  /\ alerts' = [alerts EXCEPT ![call[c].user] = @ + 1]
  /\ Finished(c, FALSE)
  /\ UNCHANGED <<saved, counter, reports, profile>>

\* Mutant: nothing is looked up first.
DeleteAlertBlind(u) ==
  /\ alerts' = [alerts EXCEPT ![u] = @ - 1]
  /\ UNCHANGED <<saved, counter, reports, profile, call>>

DeleteAlert(u) ==
  /\ alerts[u] > 0
  /\ alerts' = [alerts EXCEPT ![u] = @ - 1]
  /\ UNCHANGED <<saved, counter, reports, profile, call>>

-----------------------------------------------------------------------------
(* The profile.                                                            *)

BeginProfile(c, p) ==
  /\ Idle(c)
  /\ call' = [call EXCEPT ![c] =
       [op |-> "profile", old |-> profile, payload |-> p, stale |-> FALSE]]
  /\ UNCHANGED <<saved, counter, reports, alerts, profile>>

\* A range given in full is put in order; one end alone is taken as it is.
InOrder(p) ==
  LET ends == {"expected_salary_min", "expected_salary_max"}
  IN IF ends \subseteq DOMAIN p /\ p["expected_salary_max"] # 0
        /\ p["expected_salary_min"] > p["expected_salary_max"]
     THEN [f \in DOMAIN p |->
             CASE f = "expected_salary_min" -> p["expected_salary_max"]
               [] f = "expected_salary_max" -> p["expected_salary_min"]
               [] OTHER -> p[f]]
     ELSE p

\* The province follows the city only while there is none.
WithProvince(row) ==
  IF row["province"] = 0 /\ row["city"] \in DOMAIN CityProvince
  THEN [row EXCEPT !["province"] = CityProvince[row["city"]]] ELSE row

\* Mutant: the score is computed from the row as it was.
UpdatedLate(old, p) ==
  LET set == [f \in ProfileColumns |-> IF f \in DOMAIN p THEN InOrder(p)[f] ELSE old[f]]
  IN [WithProvince(set) EXCEPT !["profile_completion"] = Completion(old)]

Updated(old, p) ==
  LET set == [f \in ProfileColumns |-> IF f \in DOMAIN p THEN InOrder(p)[f] ELSE old[f]]
      row == WithProvince(set)
  IN [row EXCEPT !["profile_completion"] = Completion(row)]

\* Only the columns that changed are in the UPDATE.
ProfileFlushed(old, new) == [f \in ProfileColumns |-> Column(profile[f], old[f], new[f])]

UpdateProfile(c) ==
  /\ ~Idle(c) /\ call[c].op = "profile"
  /\ profile' = ProfileFlushed(call[c].old, Updated(call[c].old, call[c].payload))
  /\ Finished(c, TRUE)
  /\ UNCHANGED <<saved, counter, reports, alerts>>

ProfileNext ==
  \E c \in Calls : UpdateProfile(c) \/ \E p \in Payloads : BeginProfile(c, p)

ListsNext ==
  \/ \E c \in Calls :
       \/ \E u \in Users, j \in Jobs : BeginSave(c, u, j)
       \/ \E u \in Users : BeginAlert(c, u)
       \/ Save(c) \/ CreateAlert(c)
  \/ \E u \in Users, j \in Jobs : Unsave(u, j)
  \/ \E u \in Users : DeleteAlert(u)
  \/ \E j \in Jobs : Report(j)

PersonalNext == ProfileNext \/ ListsNext

PersonalSpec == PersonalInit /\ [][PersonalNext]_personalVars

-----------------------------------------------------------------------------
(* Properties.                                                             *)

ProfileRow == [ProfileColumns -> Nat]

CallRow ==
  [op: {"save"}, user: Users, job: Jobs] \union [op: {"alert"}, user: Users]
  \union [op: {"profile"}, old: ProfileRow, payload: Payloads, stale: BOOLEAN]

ASSUME NoCallAssumption == NoCall \notin CallRow

\* Every variable stays within its type.
PersonalTypeOK ==
  /\ saved \subseteq Users \X Jobs
  /\ counter \in [Jobs -> [saves: Nat, reports: Nat]]
  /\ reports \in [Jobs -> Nat]
  /\ alerts \in [Users -> Nat]
  /\ profile \in ProfileRow
  /\ call \in [Calls -> CallRow \union {NoCall}]

\* The counters of a job are the rows they count, whatever double clicks, retries and
\* removals of one user run into each other (saved.py and jobs.py, relative updates).
CountersExact ==
  \A j \in Jobs : /\ counter[j].saves = Cardinality({u \in Users : <<u, j>> \in saved})
                  /\ counter[j].reports = reports[j]

\* The calls that are about to insert an alert of u.
Inserting(u) == {c \in Calls : ~Idle(c) /\ call[c].op = "alert" /\ call[c].user = u}

\* "You can have at most 20 alerts": the limit is passed by those calls only that counted
\* before one of them inserted, so by fewer than there are calls in flight.
AlertsBounded ==
  \A u \in Users : alerts[u] + Cardinality(Inserting(u)) <= MaxAlerts - 1 + Cardinality(Calls)

\* The stored completion is the one of the row it is stored with, unless another update has
\* overtaken the call; and the steps the reader is told to take next are those that are missing.
CompletionMatches ==
  [][\A c \in Calls :
       ~Idle(c) /\ call[c].op = "profile" /\ ~call[c].stale /\ call'[c] = NoCall =>
         /\ profile'["profile_completion"] = Completion(profile')
         /\ profile'["profile_completion"] = 100 <=> MissingFields(profile') = {}]_personalVars
===============================================================================
