---------------------------- MODULE AlertDispatch ---------------------------
(***************************************************************************)
(* Alert digests.  A dispatch task lists the active alerts of its          *)
(* frequency, and for each of them, in a transaction of its own, matches   *)
(* the new jobs, sends the mail and only then commits the Notification,    *)
(* the AlertMatch rows and the cursor.  A retry task sends again what the  *)
(* provider refused.  Ingestion inserts jobs meanwhile, whose created_at   *)
(* is the time their transaction began, and users change their alerts.     *)
(*                                                                         *)
(* The jobs of an instance are those the criteria of every alert match, the *)
(* alerts those of one frequency.  match_count, last_matched_at,           *)
(* last_notified_at, AlertMatch.notified and the text of the mail are      *)
(* written and never read by this code.                                    *)
(***************************************************************************)
EXTENDS Naturals, FiniteSets

CONSTANTS
  Alerts, Jobs,
  Workers,      \* dispatch tasks that can be in flight together
  Txns,         \* ingestion transactions that can be open together
  Notes,        \* bound: rows of table notifications
  BatchLimit,   \* MAX_JOBS_PER_ALERT_RUN
  MaxAttempts,  \* attempts after which retry_failed_notifications gives up
  Lookback,     \* lookback_hours, in ticks: how far an alert without a cursor looks back
  MaxNow,       \* bound: transactions opened
  MaxFaults     \* bound: copies of a job sent to an alert's owner and not recorded as sent

ASSUME DispatchAssumption ==
  /\ BatchLimit \in Nat \ {0}
  /\ MaxAttempts \in Nat \ {0}
  /\ Lookback \in Nat
  /\ MaxNow \in Nat
  /\ MaxFaults \in Nat
  /\ IsFiniteSet(Workers) /\ IsFiniteSet(Notes)

VARIABLES
  now,         \* the clock
  txn,         \* txn[t]: when the open ingestion transaction t began, 0 if none is open
  job,         \* job[j]: created_at (0 before it is inserted), and whether it is listed:
               \*   active, not hidden and canonical
  alert,       \* alert[a]: state, last_job_cursor (0 is NULL) and whether the owner is barred
  match,       \* table alert_matches: pairs <<a, j>>
  note,        \* table notifications
  dispatch,    \* dispatch[w]: what dispatch task w is doing
  retry,       \* retry[n]: what the running retry task makes of notification n
  inbox,       \* inbox[<<a, j>>]: mails received for alert a that list job j
  unrecorded   \* history: those of them that no committed transaction recorded as sent

vars == <<now, txn, job, alert, match, note, dispatch, retry, inbox, unrecorded>>

-----------------------------------------------------------------------------
Pairs == Alerts \X Jobs

NoNote == [status |-> "none"]
Note   == [status : {"sent", "failed", "read"}, sentAt : BOOLEAN, attempts : Nat,
           alert : Alerts, jobs : SUBSET Jobs]

Idle      == [phase |-> "idle"]
Listed    == [phase : {"listed"}, todo : SUBSET Alerts]
Matched   == [phase : {"matched"}, todo : SUBSET Alerts, alert : Alerts, jobs : SUBSET Jobs]
Attempted == [phase : {"attempted"}, todo : SUBSET Alerts, alert : Alerts, jobs : SUBSET Jobs,
              sent : BOOLEAN]

\* What became of a mail: the provider took it; it refused it; it took it, but the answer was
\* lost (a timeout), which the adapter reports as a failure.
Outcome == [arrives : {TRUE}, sent : BOOLEAN] \union [arrives : {FALSE}, sent : {FALSE}]

Plus(f, S) == [p \in Pairs |-> IF p \in S THEN f[p] + 1 ELSE f[p]]

\* One mail about the jobs js of alert a, with outcome o.
Mail(a, js, o) ==
  LET listed == {a} \X js
  IN /\ o.arrives /\ ~o.sent => \A p \in listed : unrecorded[p] < MaxFaults
     /\ inbox' = IF o.arrives THEN Plus(inbox, listed) ELSE inbox
     /\ unrecorded' = IF o.arrives /\ ~o.sent THEN Plus(unrecorded, listed) ELSE unrecorded

\* The transaction that sent these mails is rolled back: nothing records them.
Forget(listed) ==
  /\ \A p \in listed : unrecorded[p] < MaxFaults
  /\ unrecorded' = Plus(unrecorded, listed)

Init ==
  /\ now = 0
  /\ txn = [t \in Txns |-> 0]
  /\ job = [j \in Jobs |-> [created |-> 0, listed |-> FALSE]]
  /\ alert = [a \in Alerts |-> [state |-> "active", cursor |-> 0, barred |-> FALSE]]
  /\ match = {}
  /\ note = [n \in Notes |-> NoNote]
  /\ dispatch = [w \in Workers |-> Idle]
  /\ retry = [n \in Notes |-> "idle"]
  /\ inbox = [p \in Pairs |-> 0]
  /\ unrecorded = [p \in Pairs |-> 0]

-----------------------------------------------------------------------------
(* The tables dispatch reads: ingestion inserts jobs, which expire or are  *)
(* hidden and come back; users change, unsubscribe and delete alerts.      *)

TxnBegin(t) ==
  /\ txn[t] = 0 /\ now < MaxNow
  /\ now' = now + 1
  /\ txn' = [txn EXCEPT ![t] = now']
  /\ UNCHANGED <<job, alert, match, note, dispatch, retry, inbox, unrecorded>>

\* An empty batch is a transaction that was rolled back.
TxnEnd(t) ==
  /\ txn[t] # 0
  /\ \E batch \in SUBSET {j \in Jobs : job[j].created = 0} :
       job' = [j \in Jobs |-> IF j \in batch THEN [created |-> txn[t], listed |-> TRUE]
                                             ELSE job[j]]
  /\ txn' = [txn EXCEPT ![t] = 0]
  /\ UNCHANGED <<now, alert, match, note, dispatch, retry, inbox, unrecorded>>

Relist(j) ==
  /\ job[j].created # 0
  /\ job' = [job EXCEPT ![j].listed = ~@]
  /\ UNCHANGED <<now, txn, alert, match, note, dispatch, retry, inbox, unrecorded>>

\* update_alert with is_active, and unsubscribe_alert, which only ever clears it.
SetActive(a, state) ==
  /\ alert[a].state \notin {"deleted", state}
  /\ alert' = [alert EXCEPT ![a].state = state]
  /\ UNCHANGED <<now, txn, job, match, note, dispatch, retry, inbox, unrecorded>>

\* The foreign key of alert_matches cascades.
DeleteAlert(a) ==
  /\ alert[a].state # "deleted"
  /\ alert' = [alert EXCEPT ![a].state = "deleted"]
  /\ match' = {m \in match : m[1] # a}
  /\ UNCHANGED <<now, txn, job, note, dispatch, retry, inbox, unrecorded>>

\* An administrator suspends or reinstates the owner.
BarOwner(a) ==
  /\ alert' = [alert EXCEPT ![a].barred = ~@]
  /\ UNCHANGED <<now, txn, job, match, note, dispatch, retry, inbox, unrecorded>>

MarkRead(n) ==
  /\ note[n].status \in {"sent", "failed"}
  /\ note' = [note EXCEPT ![n].status = "read"]
  /\ UNCHANGED <<now, txn, job, alert, match, dispatch, retry, inbox, unrecorded>>

-----------------------------------------------------------------------------
(* dispatch_alerts.                                                        *)

DispatchStart(w) ==
  /\ dispatch[w] = Idle
  /\ dispatch' = [dispatch EXCEPT ![w] =
       [phase |-> "listed", todo |-> {a \in Alerts : alert[a].state = "active"}]]
  /\ UNCHANGED <<now, txn, job, alert, match, note, retry, inbox, unrecorded>>

\* The jobs match_alert may select for alert a.
Fresh(a) ==
  {j \in Jobs : /\ job[j].created # 0 /\ job[j].listed
                /\ IF alert[a].cursor = 0 THEN job[j].created + Lookback > now
                                          ELSE job[j].created > alert[a].cursor
                /\ <<a, j>> \notin match}

\* The best BatchLimit jobs by quality, which no other part of the system depends on.
Digest(a) ==
  {js \in SUBSET Fresh(a) :
     Cardinality(js) = BatchLimit \/ (js = Fresh(a) /\ Cardinality(js) < BatchLimit)}

\* The next alert of the task has nothing to send, or must not be sent anything.
DispatchSkip(w) ==
  /\ dispatch[w].phase = "listed"
  /\ \E a \in dispatch[w].todo :
       /\ alert[a].state # "active" \/ Fresh(a) = {} \/ alert[a].barred
       /\ dispatch' = [dispatch EXCEPT ![w].todo = @ \ {a}]
  /\ UNCHANGED <<now, txn, job, alert, match, note, retry, inbox, unrecorded>>

DispatchMatch(w) ==
  /\ dispatch[w].phase = "listed"
  /\ \E a \in dispatch[w].todo :
       /\ alert[a].state = "active" /\ ~alert[a].barred
       /\ \E js \in Digest(a) \ {{}} :
            dispatch' = [dispatch EXCEPT ![w] =
              [phase |-> "matched", todo |-> dispatch[w].todo \ {a}, alert |-> a, jobs |-> js]]
  /\ UNCHANGED <<now, txn, job, alert, match, note, retry, inbox, unrecorded>>

DispatchSend(w) ==
  /\ dispatch[w].phase = "matched"
  /\ LET d == dispatch[w]
     IN \E o \in Outcome :
          /\ Mail(d.alert, d.jobs, o)
          /\ dispatch' = [dispatch EXCEPT ![w] =
               [phase |-> "attempted", todo |-> d.todo, alert |-> d.alert, jobs |-> d.jobs,
                sent |-> o.sent]]
  /\ UNCHANGED <<now, txn, job, alert, match, note, retry>>

\* The inserts of record_matches meet the unique key (alert_id, job_id) and the alert's row.
Conflicts(d) == alert[d.alert].state = "deleted" \/ match \intersect ({d.alert} \X d.jobs) # {}

\* The newest created_at of the jobs.
Newest(js) == CHOOSE c \in {job[j].created : j \in js} : \A j \in js : job[j].created <= c

\* Mutant: a digest that was not sent leaves its jobs to the next run.
CommitSentOnly(w) ==
  /\ dispatch[w].phase = "attempted"
  /\ LET d == dispatch[w]
     IN /\ ~Conflicts(d)
        /\ \E n \in Notes :
             /\ note[n] = NoNote
             /\ note' = [note EXCEPT ![n] =
                  [status |-> IF d.sent THEN "sent" ELSE "failed", sentAt |-> d.sent,
                   attempts |-> 1, alert |-> d.alert, jobs |-> d.jobs]]
        /\ match' = IF d.sent THEN match \union ({d.alert} \X d.jobs) ELSE match
        /\ alert' = IF d.sent THEN [alert EXCEPT ![d.alert].cursor = Newest(d.jobs)] ELSE alert
        /\ dispatch' = [dispatch EXCEPT ![w] = [phase |-> "listed", todo |-> d.todo]]
  /\ UNCHANGED <<now, txn, job, retry, inbox, unrecorded>>

\* The Notification, the matches and the cursor are committed, sent or not.
DispatchCommit(w) ==
  /\ dispatch[w].phase = "attempted"
  /\ LET d == dispatch[w]
     IN /\ ~Conflicts(d)
        /\ \E n \in Notes :
             /\ note[n] = NoNote
             /\ note' = [note EXCEPT ![n] =
                  [status |-> IF d.sent THEN "sent" ELSE "failed", sentAt |-> d.sent,
                   attempts |-> 1, alert |-> d.alert, jobs |-> d.jobs]]
        /\ match' = match \union ({d.alert} \X d.jobs)
        /\ alert' = [alert EXCEPT ![d.alert].cursor = Newest(d.jobs)]
        /\ dispatch' = [dispatch EXCEPT ![w] = [phase |-> "listed", todo |-> d.todo]]
  /\ UNCHANGED <<now, txn, job, retry, inbox, unrecorded>>

\* The commit fails: the digest is rolled back and the task goes on with the next alert.
DispatchConflict(w) ==
  /\ dispatch[w].phase = "attempted"
  /\ LET d == dispatch[w]
     IN /\ Conflicts(d)
        /\ IF d.sent THEN Forget({d.alert} \X d.jobs) ELSE UNCHANGED unrecorded
        /\ dispatch' = [dispatch EXCEPT ![w] = [phase |-> "listed", todo |-> d.todo]]
  /\ UNCHANGED <<now, txn, job, alert, match, note, retry, inbox>>

DispatchEnd(w) ==
  /\ dispatch[w].phase = "listed" /\ dispatch[w].todo = {}
  /\ dispatch' = [dispatch EXCEPT ![w] = Idle]
  /\ UNCHANGED <<now, txn, job, alert, match, note, retry, inbox, unrecorded>>

\* The worker dies: the open transaction is rolled back, and the message is delivered again
\* (task_acks_late), which starts the task from the beginning.
DispatchCrash(w) ==
  /\ dispatch[w] # Idle
  /\ IF dispatch[w].phase = "attempted" /\ dispatch[w].sent
     THEN Forget({dispatch[w].alert} \X dispatch[w].jobs)
     ELSE UNCHANGED unrecorded
  /\ dispatch' = [dispatch EXCEPT ![w] = Idle]
  /\ UNCHANGED <<now, txn, job, alert, match, note, retry, inbox>>

-----------------------------------------------------------------------------
(* retry_failed_notifications: one transaction for all it selects.  No     *)
(* schedule starts it, so one runs at a time.                              *)

\* Mutant: the limit is one attempt too high.
RetriableLate(n) == note[n].status = "failed" /\ note[n].attempts <= MaxAttempts

\* Mutant: whatever has not been read is tried again.
RetriableUnread(n) == note[n].status \in {"sent", "failed"} /\ note[n].attempts < MaxAttempts

Retriable(n) == note[n].status = "failed" /\ note[n].attempts < MaxAttempts

\* Up to limit of them, and of the last two days: any of them.
RetryStart ==
  /\ \A n \in Notes : retry[n] = "idle"
  /\ \E S \in SUBSET {n \in Notes : Retriable(n)} :
       S # {} /\ retry' = [n \in Notes |-> IF n \in S THEN "due" ELSE "idle"]
  /\ UNCHANGED <<now, txn, job, alert, match, note, dispatch, inbox, unrecorded>>

\* The alert of the notification is not looked at.
RetrySend(n) ==
  /\ retry[n] = "due"
  /\ \E o \in Outcome :
       /\ Mail(note[n].alert, note[n].jobs, o)
       /\ retry' = [retry EXCEPT ![n] = IF o.sent THEN "sent" ELSE "failed"]
  /\ UNCHANGED <<now, txn, job, alert, match, note, dispatch>>

\* Mutant: a failed notification is put back to pending.
RetriedPending(n) ==
  CASE retry[n] = "sent"   -> [note[n] EXCEPT !.status = "sent", !.sentAt = TRUE,
                                              !.attempts = @ + 1]
    [] retry[n] = "failed" -> [note[n] EXCEPT !.status = "pending", !.attempts = @ + 1]
    [] OTHER               -> note[n]

\* A status that is failed again is not in the UPDATE.
Retried(n) ==
  CASE retry[n] = "sent"   -> [note[n] EXCEPT !.status = "sent", !.sentAt = TRUE,
                                              !.attempts = @ + 1]
    [] retry[n] = "failed" -> [note[n] EXCEPT !.attempts = @ + 1]
    [] OTHER               -> note[n]

RetryCommit ==
  /\ \A n \in Notes : retry[n] # "due"
  /\ \E n \in Notes : retry[n] # "idle"
  /\ note' = [n \in Notes |-> Retried(n)]
  /\ retry' = [n \in Notes |-> "idle"]
  /\ UNCHANGED <<now, txn, job, alert, match, dispatch, inbox, unrecorded>>

RetryCrash ==
  /\ \E n \in Notes : retry[n] # "idle"
  /\ Forget(UNION {{note[n].alert} \X note[n].jobs : n \in {m \in Notes : retry[m] = "sent"}})
  /\ retry' = [n \in Notes |-> "idle"]
  /\ UNCHANGED <<now, txn, job, alert, match, note, dispatch, inbox>>

-----------------------------------------------------------------------------
IngestStep(t) == TxnBegin(t) \/ TxnEnd(t)

AlertStep(a) ==
  SetActive(a, "active") \/ SetActive(a, "paused") \/ DeleteAlert(a) \/ BarOwner(a)

DispatchStep(w) ==
  \/ DispatchStart(w) \/ DispatchSkip(w) \/ DispatchMatch(w) \/ DispatchSend(w)
  \/ DispatchCommit(w) \/ DispatchConflict(w) \/ DispatchEnd(w) \/ DispatchCrash(w)

RetryStep == RetryStart \/ RetryCommit \/ RetryCrash \/ \E n \in Notes : RetrySend(n)

Next ==
  \/ \E t \in Txns : IngestStep(t)
  \/ \E j \in Jobs : Relist(j)
  \/ \E a \in Alerts : AlertStep(a)
  \/ \E n \in Notes : MarkRead(n)
  \/ \E w \in Workers : DispatchStep(w)
  \/ RetryStep

Spec == Init /\ [][Next]_vars

-----------------------------------------------------------------------------
(* Properties.                                                             *)

\* Every variable stays within its type.
TypeOK ==
  /\ now \in Nat
  /\ txn \in [Txns -> Nat]
  /\ job \in [Jobs -> [created : Nat, listed : BOOLEAN]]
  /\ alert \in [Alerts -> [state : {"active", "paused", "deleted"}, cursor : Nat,
                           barred : BOOLEAN]]
  /\ match \subseteq Pairs
  /\ note \in [Notes -> {NoNote} \union Note]
  /\ dispatch \in [Workers -> {Idle} \union Listed \union Matched \union Attempted]
  /\ retry \in [Notes -> {"idle", "due", "sent", "failed"}]
  /\ inbox \in [Pairs -> Nat]
  /\ unrecorded \in [Pairs -> Nat]

About(n, p) == note[n] # NoNote /\ note[n].alert = p[1] /\ p[2] \in note[n].jobs

\* Two committed digests of one alert never list the same job, though overlapping dispatch
\* tasks select and mail the same jobs, and the matches of an alert are exactly the jobs of
\* its committed digests (models/alert.py: which jobs were already delivered for which alert).
OneDigestPerJob ==
  \A p \in Pairs :
    /\ \A m, n \in Notes : About(m, p) /\ About(n, p) => m = n
    /\ alert[p[1]].state # "deleted" => (p \in match <=> \E n \in Notes : About(n, p))

\* Notifications, dispatch tasks and the retry task that have sent p and are not rolled back.
SentNotes(p)   == {n \in Notes : About(n, p) /\ note[n].sentAt}
SentWorkers(p) == {w \in Workers : /\ dispatch[w].phase = "attempted" /\ dispatch[w].sent
                                   /\ dispatch[w].alert = p[1] /\ p[2] \in dispatch[w].jobs}
SentRetries(p) == {n \in Notes : About(n, p) /\ retry[n] = "sent"}

\* A job reaches the owner of an alert a second time only through a copy that no commit
\* recorded: a crash or a conflict after the mail, an answer lost, or a transaction that is
\* still open.  Retries of a recorded digest and later runs never add one.
CopiesAccounted ==
  \A p \in Pairs :
    /\ Cardinality(SentNotes(p)) <= 1
    /\ inbox[p] = Cardinality(SentNotes(p)) + Cardinality(SentWorkers(p))
                    + Cardinality(SentRetries(p)) + unrecorded[p]

\* A notification is tried at most MaxAttempts times by committed transactions, and the
\* retry task never takes up one that was sent (tasks.py: a second chance for failures).
RetriesEnd ==
  \A n \in Notes :
    /\ note[n] # NoNote => note[n].attempts <= MaxAttempts
    /\ retry[n] # "idle" => ~note[n].sentAt /\ note[n].attempts < MaxAttempts

=============================================================================
