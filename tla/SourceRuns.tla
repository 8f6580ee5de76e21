----------------------------- MODULE SourceRuns -----------------------------
(***************************************************************************)
(* Ingestion tasks: beat enqueues one for every source whose interval has  *)
(* elapsed, administrators enqueue others, Celery delivers them to         *)
(* workers, and each runs a source in one transaction: it loads the        *)
(* source, fetches, persists posting by posting, and commits the job rows  *)
(* with the SourceRun row and the health of the source.  A persist error   *)
(* rolls the whole session back and the batch goes on.  Failed fetches are *)
(* retried by a new message.                                               *)
(*                                                                         *)
(* What a job row goes through after its creation is module JobLifecycle.  *)
(* last_success_at, last_failure_at, last_error, error_count and the       *)
(* counts of a SourceRun are written and only displayed.                   *)
(***************************************************************************)
EXTENDS Naturals, FiniteSets, UnitOfWork

CONSTANTS
  Sources,
  Postings,       \* source_job_ids a source may publish
  Workers,        \* tasks that can be in flight together
  MaxRetries,     \* MAX_RETRIES of ingest_source
  Interval,       \* fetch_interval_minutes, in clock ticks
  DegradedAfter,  \* consecutive failures after which a source is degraded: 2
  FailingAfter,   \* consecutive failures after which it is failing: 5
  MaxNow,         \* bound: the clock stops here
  MaxQueued,      \* bound: copies of a message in the queue
  MaxRuns         \* bound: runs started

ASSUME SourceAssumption ==
  /\ MaxRetries \in Nat
  /\ Interval \in Nat \ {0}
  /\ DegradedAfter \in Nat \ {0} /\ FailingAfter \in Nat /\ DegradedAfter < FailingAfter
  /\ MaxNow \in Nat /\ MaxQueued \in Nat /\ MaxRuns \in Nat

VARIABLES
  now,      \* the clock, from 1: 0 is last_run_at IS NULL
  source,   \* source[s]: the committed row of job_sources
  rows,     \* committed (source, source_job_id) pairs of table jobs
  runs,     \* runs[s]: committed rows of source_runs
  queue,    \* queue[m]: copies of message m in the broker
  task,     \* task[w]: what worker w is doing
  started   \* history: runs started

vars == <<now, source, rows, runs, queue, task, started>>

-----------------------------------------------------------------------------
SourceStatus == {"healthy", "degraded", "failing", "disabled", "needs_credentials", "unknown"}

\* The columns a run writes and reads again: those its session remembers.
Health == [status : SourceStatus, last : Nat, failures : Nat, total : Nat, collected : Nat]
Source == [enabled : BOOLEAN, health : Health]

Message == [source : Sources, trigger : {"scheduler", "admin"}, attempt : 1..(MaxRetries + 1)]

Idle       == [phase |-> "idle"]
Fetching   == [phase : {"fetching"}, msg : Message, old : Health]
\* tracked: the run's row is still in the session.  added: rows flushed and not committed.
\* done: postings persisted without an error; created: those stats.created counts.
Persisting == [phase : {"persisting"}, msg : Message, old : Health, tracked : BOOLEAN,
               todo : SUBSET Postings, added : SUBSET Postings, done : SUBSET Postings,
               created : Nat, partial : BOOLEAN]

\* What a flush leaves of the health of a source: the columns the run changed.
Flush(current, old, new) ==
  [status    |-> Column(current.status, old.status, new.status),
   last      |-> Column(current.last, old.last, new.last),
   failures  |-> Column(current.failures, old.failures, new.failures),
   total     |-> Column(current.total, old.total, new.total),
   collected |-> Column(current.collected, old.collected, new.collected)]

Init ==
  /\ now = 1
  /\ source = [s \in Sources |->
       [enabled |-> TRUE,
        health |-> [status |-> "unknown", last |-> 0, failures |-> 0, total |-> 0,
                    collected |-> 0]]]
  /\ rows = {}
  /\ runs = [s \in Sources |-> 0]
  /\ queue = [m \in Message |-> 0]
  /\ task = [w \in Workers |-> Idle]
  /\ started = 0

Tick ==
  /\ now < MaxNow
  /\ now' = now + 1
  /\ UNCHANGED <<source, rows, runs, queue, task, started>>

-----------------------------------------------------------------------------
(* Beat and the administrators.                                            *)

Enqueue(m) == queue[m] < MaxQueued /\ queue' = [queue EXCEPT ![m] = @ + 1]

DueForRun(s) ==
  /\ source[s].enabled
  /\ source[s].health.last # 0 => now - source[s].health.last >= Interval

\* One of the three beat entries of schedule_due_sources: nothing remembers that another
\* entry has enqueued the source already.
Schedule(s) ==
  /\ DueForRun(s)
  /\ Enqueue([source |-> s, trigger |-> "scheduler", attempt |-> 1])
  /\ UNCHANGED <<now, source, rows, runs, task, started>>

RunSource(s) ==
  /\ Enqueue([source |-> s, trigger |-> "admin", attempt |-> 1])
  /\ UNCHANGED <<now, source, rows, runs, task, started>>

\* admin_update_source; the registry sync disables seed sources the same way.
SetEnabled(s, enabled) ==
  /\ source' = [source EXCEPT
       ![s].enabled = enabled,
       ![s].health.status = IF enabled THEN "unknown" ELSE "disabled",
       ![s].health.failures = IF enabled THEN 0 ELSE @]
  /\ UNCHANGED <<now, rows, runs, queue, task, started>>

-----------------------------------------------------------------------------
(* A task: ingest_source and run_source.                                   *)

\* Mutant: a message that is not in the queue is taken off it.
DeliverAny(m) == queue' = [queue EXCEPT ![m] = @ - 1]

Deliver(m) == queue[m] > 0 /\ queue' = [queue EXCEPT ![m] = @ - 1]

\* The source was disabled after the message was sent.
TaskSkip(w, m) ==
  /\ task[w] = Idle
  /\ m.trigger = "scheduler" /\ ~source[m.source].enabled
  /\ Deliver(m)
  /\ UNCHANGED <<now, source, rows, runs, task, started>>

TaskStart(w, m) ==
  /\ task[w] = Idle
  /\ started < MaxRuns
  /\ m.trigger = "scheduler" => source[m.source].enabled
  /\ Deliver(m)
  /\ task' = [task EXCEPT ![w] =
       [phase |-> "fetching", msg |-> m, old |-> source[m.source].health]]
  /\ started' = started + 1
  /\ UNCHANGED <<now, source, rows, runs>>

\* check_configuration finds a problem: the run fails, the failure is not counted.
Unconfigured(w) ==
  /\ task[w].phase = "fetching"
  /\ LET s == task[w].msg.source
         old == task[w].old
     IN source' = [source EXCEPT ![s].health = Flush(@, old,
          [old EXCEPT !.status = "needs_credentials", !.last = now, !.total = @ + 1])]
  /\ runs' = [runs EXCEPT ![task[w].msg.source] = @ + 1]
  /\ task' = [task EXCEPT ![w] = Idle]
  /\ UNCHANGED <<now, rows, queue, started>>

\* Mutant: a source is failing only beyond the threshold.
FailedStatusLate(status, failures) ==
  CASE failures > FailingAfter  -> "failing"
    [] failures >= DegradedAfter /\ failures <= FailingAfter -> "degraded"
    [] OTHER                     -> status

FailedStatus(status, failures) ==
  CASE failures >= FailingAfter  -> "failing"
    [] failures >= DegradedAfter /\ failures < FailingAfter -> "degraded"
    [] OTHER                     -> status

\* The connector reports a failure, crashes, or does not exist: _finish_failed.  Errors of
\* configuration or of the connector's name are not retried; a refusal (401, 403) is one.
FetchFailed(w, retryable) ==
  /\ task[w].phase = "fetching"
  /\ LET m == task[w].msg
         old == task[w].old
         failures == old.failures + 1
     IN /\ source' = [source EXCEPT ![m.source].health = Flush(@, old,
             [old EXCEPT !.status = FailedStatus(old.status, failures), !.last = now,
                         !.total = @ + 1, !.failures = failures])]
        /\ runs' = [runs EXCEPT ![m.source] = @ + 1]
        /\ IF retryable /\ m.attempt <= MaxRetries
           THEN Enqueue([m EXCEPT !.attempt = @ + 1])
           ELSE UNCHANGED queue
  /\ task' = [task EXCEPT ![w] = Idle]
  /\ UNCHANGED <<now, rows, started>>

\* todo: the postings fetched, less those normalisation or validation rejects.
FetchDone(w) ==
  /\ task[w].phase = "fetching"
  /\ \E todo \in SUBSET Postings, partial \in BOOLEAN :
       task' = [task EXCEPT ![w] =
         [phase |-> "persisting", msg |-> task[w].msg, old |-> task[w].old, tracked |-> TRUE,
          todo |-> todo, added |-> {}, done |-> {}, created |-> 0, partial |-> partial]]
  /\ UNCHANGED <<now, source, rows, runs, queue, started>>

\* Another run has inserted this posting and not committed: the unique key makes an insert wait.
Locked(w, p) ==
  \E v \in Workers \ {w} : /\ task[v].phase = "persisting" /\ p \in task[v].added
                           /\ task[v].msg.source = task[w].msg.source

Persist(w, p) ==
  /\ task[w].phase = "persisting" /\ p \in task[w].todo
  /\ LET exists == <<task[w].msg.source, p>> \in rows \/ p \in task[w].added
     IN /\ exists \/ ~Locked(w, p)
        /\ task' = [task EXCEPT
             ![w].todo    = @ \ {p},
             ![w].done    = @ \union {p},
             ![w].added   = IF exists THEN @ ELSE @ \union {p},
             ![w].created = IF exists THEN @ ELSE @ + 1]
  /\ UNCHANGED <<now, source, rows, runs, queue, started>>

\* A unique key, a deadlock of two runs, a value the database refuses, the soft time limit:
\* session.rollback() drops all the run has flushed, its SourceRun included, and the session
\* reads the source again.
PersistFails(w, p) ==
  /\ task[w].phase = "persisting" /\ p \in task[w].todo
  /\ task' = [task EXCEPT ![w].todo = @ \ {p}, ![w].added = {}, ![w].tracked = FALSE,
                          ![w].old = source[task[w].msg.source].health]
  /\ UNCHANGED <<now, source, rows, runs, queue, started>>

\* Mutant: total_jobs_collected is set to the jobs of this run.
FinishUncounted(w) ==
  /\ task[w].phase = "persisting" /\ task[w].todo = {}
  /\ LET t == task[w]
         s == t.msg.source
     IN /\ source' = [source EXCEPT ![s].health = Flush(@, t.old,
             [t.old EXCEPT !.status = IF t.partial THEN "degraded" ELSE "healthy",
                           !.last = now, !.total = @ + 1, !.failures = 0,
                           !.collected = t.created])]
        /\ rows' = rows \union ({s} \X t.added)
        /\ runs' = IF t.tracked THEN [runs EXCEPT ![s] = @ + 1] ELSE runs
  /\ task' = [task EXCEPT ![w] = Idle]
  /\ UNCHANGED <<now, queue, started>>

Finish(w) ==
  /\ task[w].phase = "persisting" /\ task[w].todo = {}
  /\ LET t == task[w]
         s == t.msg.source
     IN /\ source' = [source EXCEPT ![s].health = Flush(@, t.old,
             [t.old EXCEPT !.status = IF t.partial THEN "degraded" ELSE "healthy",
                           !.last = now, !.total = @ + 1, !.failures = 0,
                           !.collected = @ + t.created])]
        /\ rows' = rows \union ({s} \X t.added)
        /\ runs' = IF t.tracked THEN [runs EXCEPT ![s] = @ + 1] ELSE runs
  /\ task' = [task EXCEPT ![w] = Idle]
  /\ UNCHANGED <<now, queue, started>>

\* The worker dies: its message is delivered again (task_acks_late), or counts as handled
\* when only the child process died.
Crash(w) ==
  /\ task[w] # Idle
  /\ Enqueue(task[w].msg) \/ UNCHANGED queue
  /\ task' = [task EXCEPT ![w] = Idle]
  /\ UNCHANGED <<now, source, rows, runs, started>>

-----------------------------------------------------------------------------
TaskStep(w) ==
  \/ \E m \in Message : TaskSkip(w, m) \/ TaskStart(w, m)
  \/ Unconfigured(w)
  \/ \E retryable \in BOOLEAN : FetchFailed(w, retryable)
  \/ FetchDone(w)
  \/ \E p \in Postings : Persist(w, p) \/ PersistFails(w, p)
  \/ Finish(w)
  \/ Crash(w)

Next ==
  \/ Tick
  \/ \E s \in Sources : Schedule(s) \/ RunSource(s) \/ \E e \in BOOLEAN : SetEnabled(s, e)
  \/ \E w \in Workers : TaskStep(w)

Spec == Init /\ [][Next]_vars

-----------------------------------------------------------------------------
(* Properties.                                                             *)

\* Every variable stays within its type; no message is a retry beyond MaxRetries.
TypeOK ==
  /\ now \in Nat
  /\ source \in [Sources -> Source]
  /\ rows \subseteq Sources \X Postings
  /\ runs \in [Sources -> Nat]
  /\ queue \in [Message -> Nat]
  /\ task \in [Workers -> {Idle} \union Fetching \union Persisting]
  /\ started \in Nat

\* A source whose streak of failures reached FailingAfter is not shown as healthy or degraded
\* (ARCHITECTURE.md: 5 consecutive source failures, source status failing), also when an
\* administrator enables it again while a run is in flight.
FailingIsShown ==
  \A s \in Sources :
    source[s].health.failures >= FailingAfter =>
      source[s].health.status \notin {"healthy", "degraded"}

\* The counters a source shows never fall behind the tables, whatever is rolled back
\* (total_runs and total_jobs_collected against source_runs and jobs).
CountersCover ==
  \A s \in Sources :
    /\ source[s].health.total >= runs[s]
    /\ source[s].health.collected >= Cardinality({r \in rows : r[1] = s})

\* Every posting a run persists without an error is a row when the run commits
\* (ARCHITECTURE.md: a persist error on one job is rolled back individually, the rest of the
\* batch still commits).
BatchIsolated ==
  [][\A w \in Workers :
       task[w].phase = "persisting" /\ Finish(w) =>
         \A p \in task[w].done : <<task[w].msg.source, p>> \in rows']_vars

=============================================================================
