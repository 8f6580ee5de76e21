---------------------------- MODULE JobLifecycle ----------------------------
(***************************************************************************)
(* The life of a row of table jobs, and the four kinds of transaction that *)
(* change it concurrently: ingestion runs, the hourly expiration sweep,    *)
(* the apply-URL verifier and the requests of administrators.              *)
(*                                                                         *)
(* Every transaction runs under PostgreSQL's READ COMMITTED isolation      *)
(* through an SQLAlchemy session: it reads committed rows, decides, and    *)
(* at flush writes the columns whose value it changed, as absolute values, *)
(* whatever was committed in between.  So each transaction is two steps,   *)
(* one that reads and one that writes and commits.  A flushed row stays    *)
(* locked until commit, which is why flush and commit are one step.  What  *)
(* a transaction remembers of a row is the columns it may write or tests.  *)
(*                                                                         *)
(* The columns of Row are those some guard reads.  expired_at,             *)
(* apply_url_ok and admin_note are written and never read by this code,    *)
(* and the descriptive columns are one "edited" choice.                    *)
(***************************************************************************)
EXTENDS Naturals, FiniteSets, UnitOfWork

CONSTANTS
  Jobs,          \* (source_id, source_job_id) pairs a source may publish
  Runs,          \* ingestion tasks that can be in flight together
  Admins,        \* administrator requests that can be in flight together
  Postings,      \* the postings that pass validation
  NoDeadline,    \* a posting or a row without a deadline
  Never,         \* last_checked_at IS NULL
  UnseenAfter,   \* DEFAULT_UNSEEN_DAYS, in clock ticks
  RecheckAfter,  \* older_than_days of jobs_needing_url_check, in clock ticks
  CheckBatch,    \* URL_CHECK_BATCH
  MaxNow         \* bound: the clock stops here

ASSUME LifecycleAssumption ==
  /\ Postings \subseteq [deadline : Nat \union {NoDeadline}, review : BOOLEAN]
  /\ NoDeadline \notin Nat
  /\ Never \notin Nat
  /\ UnseenAfter \in Nat
  /\ RecheckAfter \in Nat
  /\ CheckBatch \in Nat \ {0}
  /\ MaxNow \in Nat

VARIABLES
  row,       \* row[j]: the committed row of job j, status "absent" before it exists
  feed,      \* feed[j]: what the source publishes for j now
  ingest,    \* ingest[r]: what ingestion run r is doing
  sweep,     \* the jobs the running expiration sweep has read as due
  check,     \* the jobs whose apply URLs are being requested
  request,   \* request[a]: the administrator request being served
  now,       \* the clock
  inserted,  \* the JobEvent rows the last commit inserted
  flagged    \* history: jobs created with needs_review and not yet approved or restored

vars == <<row, feed, ingest, sweep, check, request, now, inserted, flagged>>

-----------------------------------------------------------------------------
JobStatus == {"absent", "pending_review", "active", "expired", "closed", "removed"}

Row == [status   : JobStatus,
        hidden   : BOOLEAN,
        deadline : Nat \union {NoDeadline},
        seen     : Nat,
        checked  : Nat \union {Never}]

AbsentRow == [status |-> "absent", hidden |-> FALSE, deadline |-> NoDeadline,
              seen |-> 0, checked |-> Never]

\* Not in the feed, or rejected by validation.  The review of a posting is what
\* validate_job returns as needs_review.
Withdrawn == [withdrawn |-> TRUE]

IdleRun    == [phase |-> "idle"]
FetchedRun == [phase : {"fetched"}, job : Jobs, posting : Postings, at : Nat]
LoadedRun  == [phase : {"loaded"}, job : Jobs, posting : Postings, at : Nat,
               old : [status : JobStatus, hidden : BOOLEAN,
                      deadline : Nat \union {NoDeadline}, seen : Nat]]

AdminOp   == {"hide", "restore", "remove", "approve", "resolve_report"}
NoRequest == [op |-> "none"]
Request   == [op : AdminOp, job : Jobs, old : [status : JobStatus, hidden : BOOLEAN]]

EventType == {"created", "updated", "reactivated", "expired", "closed",
              "apply_url_checked", "hidden", "restored", "removed"}

Event(j, type) == [job |-> j, type |-> type]
EventRow == [job : Jobs, type : EventType]

\* The rows the public endpoints list (of the canonical ones).
Public(j) == row[j].status = "active" /\ ~row[j].hidden

Init ==
  /\ row = [j \in Jobs |-> AbsentRow]
  /\ feed = [j \in Jobs |-> Withdrawn]
  /\ ingest = [r \in Runs |-> IdleRun]
  /\ sweep = {}
  /\ check = {}
  /\ request = [a \in Admins |-> NoRequest]
  /\ now = 0
  /\ inserted = {}
  /\ flagged = {}

Tick ==
  /\ now < MaxNow
  /\ now' = now + 1
  /\ inserted' = {}
  /\ UNCHANGED <<row, feed, ingest, sweep, check, request, flagged>>

\* The source adds, changes or withdraws a posting.
Publish(j) ==
  /\ \E p \in Postings \union {Withdrawn} : p # feed[j] /\ feed' = [feed EXCEPT ![j] = p]
  /\ inserted' = {}
  /\ UNCHANGED <<row, ingest, sweep, check, request, now, flagged>>

-----------------------------------------------------------------------------
(* Ingestion.  A run captures its clock once, before it persists postings. *)

IngestFetch(r, j) ==
  /\ ingest[r] = IdleRun
  /\ feed[j] # Withdrawn
  /\ ingest' = [ingest EXCEPT ![r] =
                  [phase |-> "fetched", job |-> j, posting |-> feed[j], at |-> now]]
  /\ inserted' = {}
  /\ UNCHANGED <<row, feed, sweep, check, request, now, flagged>>

IngestLoad(r) ==
  /\ ingest[r].phase = "fetched"
  /\ LET j == ingest[r].job
     IN ingest' = [ingest EXCEPT ![r] =
          [phase |-> "loaded", job |-> j, posting |-> ingest[r].posting, at |-> ingest[r].at,
           old |-> [status |-> row[j].status, hidden |-> row[j].hidden,
                    deadline |-> row[j].deadline, seen |-> row[j].seen]]]
  /\ inserted' = {}
  /\ UNCHANGED <<row, feed, sweep, check, request, now, flagged>>

CreatedStatus(p, at) ==
  IF p.deadline # NoDeadline /\ p.deadline < at THEN "expired"
  ELSE IF p.review THEN "pending_review" ELSE "active"

\* Mutant: the row is created without last_seen_at.
CreatedUnseen(p, at) ==
  [status |-> CreatedStatus(p, at), hidden |-> FALSE, deadline |-> p.deadline,
   seen |-> Never, checked |-> Never]

CreatedRow(p, at) ==
  [status |-> CreatedStatus(p, at), hidden |-> FALSE, deadline |-> p.deadline,
   seen |-> at, checked |-> Never]

\* The unique key (source_id, source_job_id) fails the slower of two inserts, which is
\* rolled back.
IngestCreate(r) ==
  /\ ingest[r].phase = "loaded"
  /\ ingest[r].old.status = "absent"
  /\ LET j == ingest[r].job
         p == ingest[r].posting
     IN IF row[j].status = "absent"
        THEN /\ row' = [row EXCEPT ![j] = CreatedRow(p, ingest[r].at)]
             /\ inserted' = {Event(j, "created")}
             /\ flagged' = IF p.review THEN flagged \union {j} ELSE flagged
        ELSE inserted' = {} /\ UNCHANGED <<row, flagged>>
  /\ ingest' = [ingest EXCEPT ![r] = IdleRun]
  /\ UNCHANGED <<feed, sweep, check, request, now>>

\* Mutant: every job that is not active counts as expired.
ReactivatesPending(old, p, at) ==
  /\ old.status # "active"
  /\ ~old.hidden
  /\ p.deadline = NoDeadline \/ p.deadline > at

\* Mutant: a closed job does not count as expired.
ReactivatesExpired(old, p, at) ==
  /\ old.status \in {"expired", "removed"}
  /\ ~old.hidden
  /\ p.deadline = NoDeadline \/ p.deadline > at

Reactivates(old, p, at) ==
  /\ old.status \in {"expired", "closed", "removed"}
  /\ ~old.hidden
  /\ p.deadline = NoDeadline \/ p.deadline > at

UpdatedStatus(old, p, at) == IF Reactivates(old, p, at) THEN "active" ELSE old.status

\* A posting without a deadline leaves the stored one as it is.
UpdatedDeadline(old, p) == IF p.deadline = NoDeadline THEN old.deadline ELSE p.deadline

\* Mutant: a reactivation is logged as any other update.
UpdateEventsOnly(j, old, p, at, edited) ==
  IF edited \/ UpdatedDeadline(old, p) # old.deadline
  THEN {Event(j, "updated")}
  ELSE {}

\* edited: some descriptive column of the posting changed.
UpdateEvents(j, old, p, at, edited) ==
  IF Reactivates(old, p, at) THEN {Event(j, "reactivated")}
  ELSE IF edited \/ UpdatedDeadline(old, p) # old.deadline
       THEN {Event(j, "updated")}
       ELSE {}

IngestUpdate(r) ==
  /\ ingest[r].phase = "loaded"
  /\ ingest[r].old.status # "absent"
  /\ LET j   == ingest[r].job
         old == ingest[r].old
         p   == ingest[r].posting
         at  == ingest[r].at
     IN /\ row' = [row EXCEPT
             ![j].status   = Column(@, old.status, UpdatedStatus(old, p, at)),
             ![j].deadline = Column(@, old.deadline, UpdatedDeadline(old, p)),
             ![j].seen     = Column(@, old.seen, at)]
        /\ \E edited \in BOOLEAN : inserted' = UpdateEvents(j, old, p, at, edited)
  /\ ingest' = [ingest EXCEPT ![r] = IdleRun]
  /\ UNCHANGED <<feed, sweep, check, request, now, flagged>>

\* The worker dies or hits its time limit: nothing of the transaction is kept.
IngestAbort(r) ==
  /\ ingest[r] # IdleRun
  /\ ingest' = [ingest EXCEPT ![r] = IdleRun]
  /\ inserted' = {}
  /\ UNCHANGED <<row, feed, sweep, check, request, now, flagged>>

-----------------------------------------------------------------------------
(* Expiration: beat starts one sweep an hour, whose batches (1000 and 500) *)
(* exceed the jobs of an instance.  An empty sweep writes nothing.         *)

\* Mutant: the comparison with the clock is the wrong way round.
AheadDeadline == {j \in Jobs : /\ row[j].status = "active"
                               /\ row[j].deadline # NoDeadline
                               /\ row[j].deadline > now}

PastDeadline == {j \in Jobs : /\ row[j].status = "active"
                              /\ row[j].deadline # NoDeadline
                              /\ row[j].deadline < now}

\* Mutant: the query forgets the status.
StaleAny == {j \in Jobs : row[j].status # "absent" /\ row[j].seen + UnseenAfter < now}

StaleActive == {j \in Jobs : row[j].status = "active" /\ row[j].seen + UnseenAfter < now}

SweepLoad ==
  /\ sweep = {}
  /\ PastDeadline \union StaleActive # {}
  /\ sweep' = PastDeadline \union StaleActive
  /\ inserted' = {}
  /\ UNCHANGED <<row, feed, ingest, check, request, now, flagged>>

\* _transition: the status was read as active, so the flush always writes it.
SweepSave ==
  /\ sweep # {}
  /\ row' = [j \in Jobs |-> IF j \in sweep THEN [row[j] EXCEPT !.status = "expired"]
                                          ELSE row[j]]
  /\ inserted' = {Event(j, "expired") : j \in sweep}
  /\ sweep' = {}
  /\ UNCHANGED <<feed, ingest, check, request, now, flagged>>

SweepAbort ==
  /\ sweep # {}
  /\ sweep' = {}
  /\ inserted' = {}
  /\ UNCHANGED <<row, feed, ingest, check, request, now, flagged>>

\* Active jobs never checked, or not checked for a while.
CheckDue == {j \in Jobs : /\ row[j].status = "active"
                          /\ \/ row[j].checked = Never
                             \/ row[j].checked + RecheckAfter < now}

CheckedBefore(i, j) ==
  \/ row[i].checked = Never /\ row[j].checked # Never
  \/ /\ row[i].checked # Never /\ row[j].checked # Never
     /\ row[i].checked < row[j].checked

\* The oldest checks first, CheckBatch of them.
CheckLoad ==
  /\ check = {}
  /\ \E batch \in SUBSET CheckDue :
       /\ batch # {}
       /\ Cardinality(batch) = CheckBatch \/ (batch = CheckDue /\ Cardinality(batch) < CheckBatch)
       /\ \A i \in CheckDue \ batch, j \in batch : ~CheckedBefore(i, j)
       /\ check' = batch
  /\ inserted' = {}
  /\ UNCHANGED <<row, feed, ingest, sweep, request, now, flagged>>

\* What the HEAD request of a URL gave: 404 or 410, another answer, or no answer.
Verdict == {"gone", "answered", "unreachable"}

CheckEvents(j, verdict) ==
  CASE verdict = "gone"     -> {Event(j, "closed")}
    [] verdict = "answered" -> {Event(j, "apply_url_checked")}
    [] OTHER                -> {}

\* The answers are applied up to minutes after the rows were read.
CheckSave ==
  /\ check # {}
  /\ \E verdict \in [check -> Verdict] :
       /\ row' = [j \in Jobs |->
                    IF j \in check
                    THEN [row[j] EXCEPT !.checked = now,
                                        !.status = IF verdict[j] = "gone" THEN "closed" ELSE @]
                    ELSE row[j]]
       /\ inserted' = UNION {CheckEvents(j, verdict[j]) : j \in check}
  /\ check' = {}
  /\ UNCHANGED <<feed, ingest, sweep, request, now, flagged>>

CheckAbort ==
  /\ check # {}
  /\ check' = {}
  /\ inserted' = {}
  /\ UNCHANGED <<row, feed, ingest, sweep, request, now, flagged>>

-----------------------------------------------------------------------------
(* Administrators.  A request reads the job, changes it and commits.       *)

AdminLoad(a, op, j) ==
  /\ request[a] = NoRequest
  /\ row[j].status # "absent"
  /\ op = "approve" => row[j].status = "pending_review"
  /\ request' = [request EXCEPT ![a] = [op |-> op, job |-> j,
                  old |-> [status |-> row[j].status, hidden |-> row[j].hidden]]]
  /\ inserted' = {}
  /\ UNCHANGED <<row, feed, ingest, sweep, check, now, flagged>>

\* The end of every admin handler: flush the job as the handler left it, with its event.
AdminCommit(a, status, hidden, type) ==
  /\ row' = [row EXCEPT
       ![request[a].job].status = Column(@, request[a].old.status, status),
       ![request[a].job].hidden = Column(@, request[a].old.hidden, hidden)]
  /\ inserted' = {Event(request[a].job, type)}
  /\ request' = [request EXCEPT ![a] = NoRequest]
  /\ UNCHANGED <<feed, ingest, sweep, check, now>>

HideJob(a) ==
  /\ request[a].op = "hide"
  /\ AdminCommit(a, request[a].old.status, TRUE, "hidden")
  /\ UNCHANGED flagged

\* Mutant: restoring only shows the row.
RestoredAsIs(status) == status

RestoredStatus(status) == IF status = "removed" THEN "active" ELSE status

RestoreJob(a) ==
  /\ request[a].op = "restore"
  /\ AdminCommit(a, RestoredStatus(request[a].old.status), FALSE, "restored")
  /\ flagged' = flagged \ {request[a].job}

\* Mutant: the removal does not hide the row.
RemoveShown(a) ==
  /\ request[a].op = "remove"
  /\ AdminCommit(a, "removed", request[a].old.hidden, "removed")
  /\ UNCHANGED flagged

RemoveJob(a) ==
  /\ request[a].op = "remove"
  /\ AdminCommit(a, "removed", TRUE, "removed")
  /\ UNCHANGED flagged

ApproveJob(a) ==
  /\ request[a].op = "approve"
  /\ AdminCommit(a, "active", request[a].old.hidden, "restored")
  /\ flagged' = flagged \ {request[a].job}

\* Mutant: so does not the removal that resolves a report.
ResolveShown(a) ==
  /\ request[a].op = "resolve_report"
  /\ AdminCommit(a, "removed", request[a].old.hidden, "removed")
  /\ UNCHANGED flagged

\* action = "remove_job"; the other resolutions leave the job alone.
ResolveReport(a) ==
  /\ request[a].op = "resolve_report"
  /\ AdminCommit(a, "removed", TRUE, "removed")
  /\ UNCHANGED flagged

-----------------------------------------------------------------------------
IngestStep(r) ==
  IngestLoad(r) \/ IngestCreate(r) \/ IngestUpdate(r) \/ IngestAbort(r)

AdminStep(a) ==
  HideJob(a) \/ RestoreJob(a) \/ RemoveJob(a) \/ ApproveJob(a) \/ ResolveReport(a)

Next ==
  \/ Tick
  \/ \E j \in Jobs : Publish(j)
  \/ \E r \in Runs, j \in Jobs : IngestFetch(r, j)
  \/ \E r \in Runs : IngestStep(r)
  \/ SweepLoad \/ SweepSave \/ SweepAbort
  \/ CheckLoad \/ CheckSave \/ CheckAbort
  \/ \E a \in Admins, op \in AdminOp, j \in Jobs : AdminLoad(a, op, j)
  \/ \E a \in Admins : AdminStep(a)

(* Beat starts ingestion runs and sweeps for ever, so their reads are      *)
(* weakly fair.  A task may be killed and is started again: that it is not *)
(* killed every time is the strong fairness of the commits.                *)
Fairness ==
  /\ \A r \in Runs, j \in Jobs : WF_vars(IngestFetch(r, j))
  /\ \A r \in Runs : /\ SF_vars(IngestLoad(r))
                     /\ SF_vars(IngestCreate(r))
                     /\ SF_vars(IngestUpdate(r))
  /\ WF_vars(SweepLoad)
  /\ SF_vars(SweepSave)

Spec == Init /\ [][Next]_vars
FairSpec == Spec /\ Fairness

-----------------------------------------------------------------------------
(* Properties.                                                             *)

\* Every variable stays within its type.
TypeOK ==
  /\ row \in [Jobs -> Row]
  /\ feed \in [Jobs -> Postings \union {Withdrawn}]
  /\ ingest \in [Runs -> {IdleRun} \union FetchedRun \union LoadedRun]
  /\ sweep \subseteq Jobs
  /\ check \subseteq Jobs
  /\ request \in [Admins -> {NoRequest} \union Request]
  /\ now \in Nat
  /\ inserted \subseteq EventRow
  /\ flagged \subseteq Jobs

\* The request of a of this kind on j commits in this step.
Commits(a, op, j) ==
  request[a] # NoRequest /\ request[a].op = op /\ request[a].job = j /\ request'[a] = NoRequest

\* A job held for review (validator.py: warnings mark the job for review) leaves that state
\* only when an administrator approves, removes or restores it: no ingestion run, sweep or
\* URL check that read the row earlier publishes it.
HeldUntilReviewed ==
  [][\A j \in Jobs :
       row[j].status = "pending_review" /\ row'[j].status # "pending_review" =>
         \E a \in Admins, op \in {"approve", "remove", "resolve_report"} : Commits(a, op, j)]_vars

\* A job an administrator has hidden or removed comes back into the public listings only by
\* the commit of a restore, however ingestion, sweeps and URL checks interleave with the
\* removal (routers/admin.py: ingestion cannot silently resurrect it).
NoSilentReturn ==
  [][\A j \in Jobs :
       (row[j].hidden \/ row[j].status = "removed") /\ Public(j)' =>
         \E a \in Admins : Commits(a, "restore", j)]_vars

\* Why HeldUntilReviewed holds: what a transaction remembers of a row is never older than
\* the row's creation or its review, as no transaction but IngestCreate makes a row pending.
HeldInv ==
  /\ \A r \in Runs : ingest[r].phase = "loaded" =>
       LET status == row[ingest[r].job].status
           old    == ingest[r].old.status
       IN /\ status = "absent" => old = "absent"
          /\ status = "pending_review" => old \in {"absent", "pending_review"}
  /\ \A j \in sweep \union check : row[j].status \notin {"absent", "pending_review"}
  /\ \A a \in Admins : request[a] # NoRequest =>
       LET status == row[request[a].job].status
       IN /\ status # "absent"
          /\ status = "pending_review" => request[a].old.status = "pending_review"

\* A removed row is always hidden as well: reactivation by ingestion tests only the latter.
RemovedIsHidden == \A j \in Jobs : row[j].status = "removed" => row[j].hidden

\* Why it does: a request that is alone in flight about its job remembers the columns that
\* only administrators set.
RemovalInv ==
  /\ RemovedIsHidden
  /\ \A j \in Jobs : row[j].status = "absent" => ~row[j].hidden
  /\ \A a \in Admins : request[a] # NoRequest =>
       LET j == request[a].job
       IN /\ request[a].old.hidden = row[j].hidden
          /\ row[j].status = "removed" => request[a].old.status = "removed"

\* What the event history says when a job enters a status.
LoggedAs(status) ==
  CASE status = "active"         -> {"created", "reactivated", "restored"}
    [] status = "pending_review" -> {"created"}
    [] status = "expired"        -> {"created", "expired"}
    [] status = "closed"         -> {"closed"}
    [] OTHER                     -> {"removed"}

\* Every change of status is committed with a JobEvent that says so about that job, even
\* when the transaction decided on columns another one has changed since (expiration.py:
\* every transition writes a JobEvent, so the history is auditable).
TransitionsAreLogged ==
  [][\A j \in Jobs :
       row'[j].status # row[j].status =>
         \E e \in inserted' : e.job = j /\ e.type \in LoggedAs(row'[j].status)]_vars

\* A job the source keeps publishing with a deadline that has not passed does not stay
\* expired or closed, unless an administrator hides it (ARCHITECTURE.md: a job the source
\* republishes is reactivated automatically).
Republished(j) ==
  /\ row[j].status \in {"expired", "closed"} /\ ~row[j].hidden
  /\ feed[j] # Withdrawn
  /\ feed[j].deadline # NoDeadline => feed[j].deadline > now
RepublishedReturns == \A j \in Jobs : Republished(j) ~> ~Republished(j)

\* An active job whose deadline has passed does not stay active (README: jobs expire on
\* deadline).
Overdue(j) == row[j].status = "active" /\ row[j].deadline # NoDeadline /\ row[j].deadline < now
OverdueEnds == \A j \in Jobs : Overdue(j) ~> ~Overdue(j)

\* A posting that validation flagged for review is not public before an administrator has
\* approved or restored it (LEGAL.md: flags the job for human review rather than
\* auto-publishing).
ReviewGate == \A j \in flagged : ~Public(j)
=============================================================================
