------------------------ MODULE JobLifecycle_proofs -------------------------
(* What holds of JobLifecycle for every set of jobs, runs, administrators  *)
(* and postings.                                                           *)
EXTENDS JobLifecycle, TLAPS

USE DEF JobStatus, EventType, EventRow, Event

\* Setting the check time and the status keeps a row a row.
LEMMA CheckedRowTyped ==
  ASSUME NEW x \in Row, NEW status \in JobStatus, NEW at \in Nat
  PROVE  [x EXCEPT !.checked = at, !.status = status] \in Row
<1>1. x = [status |-> x.status, hidden |-> x.hidden, deadline |-> x.deadline,
           seen |-> x.seen, checked |-> x.checked]
  BY DEF Row
<1> QED
  BY <1>1 DEF Row

\* Every reachable state is well typed: no column ever holds a value its type excludes.
THEOREM TypeCorrect == Spec => []TypeOK
<1>1. Init => TypeOK
  BY LifecycleAssumption DEF Init, TypeOK, Row, AbsentRow
<1>2. TypeOK /\ [Next]_vars => TypeOK'
  <2> SUFFICES ASSUME TypeOK, [Next]_vars PROVE TypeOK'
    OBVIOUS
  <2> USE LifecycleAssumption DEF TypeOK
  <2>1. CASE Tick
    BY <2>1 DEF Tick
  <2>2. ASSUME NEW j \in Jobs, Publish(j) PROVE TypeOK'
    BY <2>2 DEF Publish
  <2>3. ASSUME NEW r \in Runs, NEW j \in Jobs, IngestFetch(r, j) PROVE TypeOK'
    BY <2>3 DEF IngestFetch, FetchedRun, IdleRun
  <2>4. ASSUME NEW r \in Runs, IngestLoad(r) PROVE TypeOK'
    <3>1. ingest[r] \in FetchedRun
      BY <2>4 DEF IngestLoad, FetchedRun, LoadedRun, IdleRun
    <3>2. row[ingest[r].job] \in Row
      BY <3>1 DEF FetchedRun
    <3>3. ingest'[r] \in LoadedRun
      BY <2>4, <3>1, <3>2 DEF IngestLoad, FetchedRun, LoadedRun, Row
    <3> QED
      BY <2>4, <3>3 DEF IngestLoad
  <2>5. ASSUME NEW r \in Runs, IngestCreate(r) PROVE TypeOK'
    <3>1. ingest[r] \in LoadedRun
      BY <2>5 DEF IngestCreate, FetchedRun, LoadedRun, IdleRun
    <3> DEFINE j == ingest[r].job
               p == ingest[r].posting
    <3>2. j \in Jobs /\ p \in Postings /\ ingest[r].at \in Nat
      BY <3>1 DEF LoadedRun
    <3>3. CreatedRow(p, ingest[r].at) \in Row
      BY <3>2 DEF CreatedRow, CreatedStatus, Row
    <3>4. /\ row' \in [Jobs -> Row]
          /\ inserted' \subseteq EventRow
          /\ flagged' \subseteq Jobs
      BY <2>5, <3>2, <3>3 DEF IngestCreate
    <3> QED
      BY <2>5, <3>4 DEF IngestCreate
  <2>6. ASSUME NEW r \in Runs, IngestUpdate(r) PROVE TypeOK'
    <3>1. ingest[r] \in LoadedRun
      BY <2>6 DEF IngestUpdate, FetchedRun, LoadedRun, IdleRun
    <3> DEFINE j   == ingest[r].job
               old == ingest[r].old
               p   == ingest[r].posting
               at  == ingest[r].at
               status   == Column(row[j].status, old.status, UpdatedStatus(old, p, at))
               deadline == Column(row[j].deadline, old.deadline, UpdatedDeadline(old, p))
               seen     == Column(row[j].seen, old.seen, at)
    <3>2. j \in Jobs /\ p \in Postings /\ at \in Nat /\ row[j] \in Row
      BY <3>1 DEF LoadedRun
    <3>3. status \in JobStatus
      BY <3>1, <3>2, SMTT(30) DEF LoadedRun, Row, Column, UpdatedStatus
    <3>4. deadline \in Nat \union {NoDeadline}
      BY <3>1, <3>2 DEF LoadedRun, Row, Column, UpdatedDeadline
    <3>5. seen \in Nat
      BY <3>1, <3>2 DEF LoadedRun, Row, Column
    <3>6. row' = [row EXCEPT ![j].status = status, ![j].deadline = deadline, ![j].seen = seen]
      BY <2>6, <3>2, SMTT(30) DEF IngestUpdate, Row
    <3> HIDE DEF status, deadline, seen
    <3>7. row' \in [Jobs -> Row]
      BY <3>2, <3>3, <3>4, <3>5, <3>6 DEF Row
    <3>8. inserted' \subseteq EventRow
      BY <2>6, <3>2 DEF IngestUpdate, UpdateEvents
    <3> QED
      BY <2>6, <3>7, <3>8 DEF IngestUpdate
  <2>7. ASSUME NEW r \in Runs, IngestAbort(r) PROVE TypeOK'
    BY <2>7 DEF IngestAbort, IdleRun
  <2>8. CASE SweepLoad
    BY <2>8 DEF SweepLoad, PastDeadline, StaleActive
  <2>9. CASE SweepSave
    <3>1. ASSUME NEW j \in Jobs PROVE [row[j] EXCEPT !.status = "expired"] \in Row
      BY DEF Row
    <3>2. row' \in [Jobs -> Row]
      BY <2>9, <3>1 DEF SweepSave
    <3>3. inserted' \subseteq EventRow
      BY <2>9 DEF SweepSave
    <3> QED
      BY <2>9, <3>2, <3>3 DEF SweepSave
  <2>10. CASE SweepAbort
    BY <2>10 DEF SweepAbort
  <2>11. CASE CheckLoad
    BY <2>11 DEF CheckLoad, CheckDue
  <2>12. CASE CheckSave
    <3>1. PICK verdict \in [check -> Verdict] :
            /\ row' = [j \in Jobs |->
                        IF j \in check
                        THEN [row[j] EXCEPT !.checked = now,
                                            !.status = IF verdict[j] = "gone" THEN "closed" ELSE @]
                        ELSE row[j]]
            /\ inserted' = UNION {CheckEvents(j, verdict[j]) : j \in check}
      BY <2>12 DEF CheckSave
    <3>2. row' \in [Jobs -> Row]
      <4>1. ASSUME NEW j \in Jobs, NEW status \in JobStatus
            PROVE [row[j] EXCEPT !.checked = now, !.status = status] \in Row
        BY CheckedRowTyped
      <4>2. ASSUME NEW j \in Jobs
            PROVE (IF verdict[j] = "gone" THEN "closed" ELSE row[j].status) \in JobStatus
        BY DEF Row
      <4> HIDE DEF JobStatus
      <4>3. ASSUME NEW j \in Jobs
            PROVE [row[j] EXCEPT !.checked = now,
                       !.status = IF verdict[j] = "gone" THEN "closed" ELSE @] \in Row
        BY <4>1, <4>2
      <4> QED
        BY <3>1, <4>3
    <3>3. \A j \in check : CheckEvents(j, verdict[j]) \subseteq EventRow
      BY DEF CheckEvents
    <3>4. inserted' \subseteq EventRow
      <4>1. inserted' = UNION {CheckEvents(j, verdict[j]) : j \in check}
        BY <3>1
      <4> HIDE DEF EventRow
      <4> QED
        BY <3>3, <4>1, Zenon
    <3> QED
      BY <2>12, <3>2, <3>4 DEF CheckSave
  <2>13. CASE CheckAbort
    BY <2>13 DEF CheckAbort
  <2>14. ASSUME NEW a \in Admins, NEW op \in AdminOp, NEW j \in Jobs, AdminLoad(a, op, j)
         PROVE TypeOK'
    <3>1. row[j] \in Row
      OBVIOUS
    <3>2. request'[a] \in Request
      BY <2>14, <3>1 DEF AdminLoad, Request, Row
    <3> QED
      BY <2>14, <3>2 DEF AdminLoad
  <2>15. ASSUME NEW a \in Admins, AdminStep(a) PROVE TypeOK'
    <3>1. request[a] \in Request
      <4>1. request[a].op # "none"
        BY <2>15 DEF AdminStep, HideJob, RestoreJob, RemoveJob, ApproveJob, ResolveReport
      <4> QED
        BY <4>1 DEF NoRequest
    <3>2. PICK status \in JobStatus, hidden \in BOOLEAN, type \in EventType :
            AdminCommit(a, status, hidden, type)
      <4>1. CASE HideJob(a)
        BY <3>1, <4>1 DEF HideJob, Request
      <4>2. CASE RestoreJob(a)
        BY <3>1, <4>2 DEF RestoreJob, RestoredStatus, Request
      <4>3. CASE RemoveJob(a)
        BY <4>3 DEF RemoveJob
      <4>4. CASE ApproveJob(a)
        BY <3>1, <4>4 DEF ApproveJob, Request
      <4>5. CASE ResolveReport(a)
        BY <4>5 DEF ResolveReport
      <4> QED
        BY <2>15, <4>1, <4>2, <4>3, <4>4, <4>5 DEF AdminStep
    <3>3. row' \in [Jobs -> Row]
      BY <3>1, <3>2 DEF AdminCommit, Column, Request, Row
    <3>4. inserted' \subseteq EventRow
      BY <3>1, <3>2 DEF AdminCommit, Request
    <3>5. flagged' \subseteq Jobs
      BY <2>15 DEF AdminStep, HideJob, RestoreJob, RemoveJob, ApproveJob, ResolveReport
    <3> QED
      BY <3>2, <3>3, <3>4, <3>5 DEF AdminCommit
  <2>16. CASE UNCHANGED vars
    BY <2>16 DEF vars
  <2> QED
    BY <2>1, <2>2, <2>3, <2>4, <2>5, <2>6, <2>7, <2>8, <2>9, <2>10, <2>11, <2>12, <2>13,
       <2>14, <2>15, <2>16 DEF Next, IngestStep
<1> QED
  BY <1>1, <1>2, PTL DEF Spec
-----------------------------------------------------------------------------
(* How one step can change the status of a row.                            *)

\* No step makes an existing row absent, and none but its creation makes a row pending:
\* a flush writes a status only where it differs from the one that was read.
LEMMA StatusStep ==
  ASSUME TypeOK, HeldInv, [Next]_vars, NEW j \in Jobs
  PROVE  /\ row'[j].status = "absent" => row[j].status = "absent"
         /\ row'[j].status = "pending_review" => row[j].status \in {"absent", "pending_review"}
         /\ row[j].status = "pending_review" /\ row'[j].status # "pending_review" =>
              \E a \in Admins, op \in {"approve", "remove", "resolve_report"} : Commits(a, op, j)
<1> DEFINE Goal ==
      /\ row'[j].status = "absent" => row[j].status = "absent"
      /\ row'[j].status = "pending_review" => row[j].status \in {"absent", "pending_review"}
      /\ row[j].status = "pending_review" /\ row'[j].status # "pending_review" =>
           \E a \in Admins, op \in {"approve", "remove", "resolve_report"} : Commits(a, op, j)
<1>0. /\ row \in [Jobs -> Row]
      /\ ingest \in [Runs -> {IdleRun} \union FetchedRun \union LoadedRun]
      /\ request \in [Admins -> {NoRequest} \union Request]
      /\ sweep \subseteq Jobs /\ check \subseteq Jobs
  BY DEF TypeOK
<1> USE <1>0
<1>1. CASE row'[j].status = row[j].status
  BY <1>1
<1>2. ASSUME NEW r \in Runs, IngestCreate(r) PROVE Goal
  <2>1. ingest[r] \in LoadedRun
    BY <1>2 DEF IngestCreate, FetchedRun, LoadedRun, IdleRun
  <2>2. \/ row'[j].status = row[j].status
        \/ row[j].status = "absent" /\ row'[j].status = CreatedStatus(ingest[r].posting, ingest[r].at)
    <3>1. \/ row' = row
          \/ /\ row[ingest[r].job].status = "absent"
             /\ row' = [row EXCEPT ![ingest[r].job] =
                              CreatedRow(ingest[r].posting, ingest[r].at)]
      BY <1>2 DEF IngestCreate
    <3> QED
      BY <3>1 DEF CreatedRow
  <2> QED
    BY <2>2 DEF CreatedStatus
<1>3. ASSUME NEW r \in Runs, IngestUpdate(r) PROVE Goal
  <2>1. ingest[r] \in LoadedRun
    BY <1>3 DEF IngestUpdate, FetchedRun, LoadedRun, IdleRun
  <2> DEFINE old == ingest[r].old
             new == UpdatedStatus(old, ingest[r].posting, ingest[r].at)
  <2>2. \/ row'[j].status = row[j].status
        \/ j = ingest[r].job /\ row'[j].status = Column(row[j].status, old.status, new)
    BY <1>3, SMTT(30) DEF IngestUpdate, Row
  <2>3. \/ new = old.status
        \/ new = "active" /\ old.status \in {"expired", "closed", "removed"}
    BY DEF UpdatedStatus, Reactivates
  <2>4. ingest[r].phase = "loaded"
    BY <2>1 DEF LoadedRun
  <2> QED
    BY <2>2, <2>3, <2>4 DEF Column, HeldInv
<1>4. CASE SweepSave
  BY <1>4 DEF SweepSave, HeldInv, Row
<1>5. CASE CheckSave
  <2>1. \/ row'[j].status = row[j].status
        \/ j \in check /\ row'[j].status = "closed"
    <3>1. PICK verdict \in [check -> Verdict] :
            row' = [i \in Jobs |->
                     IF i \in check
                     THEN [row[i] EXCEPT !.checked = now,
                                         !.status = IF verdict[i] = "gone" THEN "closed" ELSE @]
                     ELSE row[i]]
      BY <1>5 DEF CheckSave
    <3> QED
      BY <3>1 DEF Row
  <2> QED
    BY <2>1 DEF HeldInv
<1>6. ASSUME NEW a \in Admins, AdminStep(a) PROVE Goal
  <2> USE DEF AdminCommit, Column
  <2>1. request[a] \in Request /\ request[a] # NoRequest
    <3>1. request[a].op # "none"
      BY <1>6 DEF AdminStep, HideJob, RestoreJob, RemoveJob, ApproveJob, ResolveReport
    <3> QED
      BY <3>1 DEF NoRequest
  <2>2. CASE HideJob(a)
    BY <2>1, <2>2 DEF HideJob, Request, Row
  <2>3. CASE RestoreJob(a)
    BY <2>1, <2>3 DEF RestoreJob, RestoredStatus, Request, Row, HeldInv
  <2>4. CASE RemoveJob(a)
    BY <2>1, <2>4 DEF RemoveJob, Request, Row, Commits
  <2>5. CASE ApproveJob(a)
    BY <2>1, <2>5 DEF ApproveJob, Request, Row, Commits
  <2>6. CASE ResolveReport(a)
    BY <2>1, <2>6 DEF ResolveReport, Request, Row, Commits
  <2> QED
    BY <1>6, <2>2, <2>3, <2>4, <2>5, <2>6 DEF AdminStep
<1>7. CASE UNCHANGED row
  BY <1>7
<1>8. \/ \E r \in Runs : IngestCreate(r) \/ IngestUpdate(r)
      \/ SweepSave \/ CheckSave
      \/ \E a \in Admins : AdminStep(a)
      \/ UNCHANGED row
  BY DEF Next, vars, Tick, Publish, IngestFetch, IngestStep, IngestLoad, IngestAbort, SweepLoad,
         SweepAbort, CheckLoad, CheckAbort, AdminLoad
<1> QED
  BY <1>2, <1>3, <1>4, <1>5, <1>6, <1>7, <1>8
-----------------------------------------------------------------------------
(* A job held for review.                                                  *)

\* HeldInv is inductive.
LEMMA HeldInvStep == TypeOK /\ HeldInv /\ [Next]_vars => HeldInv'
<1> SUFFICES ASSUME TypeOK, HeldInv, [Next]_vars PROVE HeldInv'
  OBVIOUS
<1>1. \A j \in Jobs :
        /\ row'[j].status = "absent" => row[j].status = "absent"
        /\ row'[j].status = "pending_review" => row[j].status \in {"absent", "pending_review"}
  BY StatusStep
<1>2. /\ ingest \in [Runs -> {IdleRun} \union FetchedRun \union LoadedRun]
      /\ request \in [Admins -> {NoRequest} \union Request]
      /\ sweep \subseteq Jobs /\ check \subseteq Jobs
  BY DEF TypeOK
\* What a run remembers: it is read from the row, or the run is as it was.
<1>3. ASSUME NEW r \in Runs, ingest'[r].phase = "loaded"
      PROVE  LET status == row'[ingest'[r].job].status
                 old    == ingest'[r].old.status
             IN /\ status = "absent" => old = "absent"
                /\ status = "pending_review" => old \in {"absent", "pending_review"}
  <2>1. \/ ingest'[r] = ingest[r]
        \/ IngestLoad(r)
    <3>1. \/ ingest' = ingest
          \/ \E q \in Runs, j \in Jobs : IngestFetch(q, j)
          \/ \E q \in Runs : IngestLoad(q)
          \/ \E q \in Runs : ingest' = [ingest EXCEPT ![q] = IdleRun]
      BY DEF Next, vars, Tick, Publish, IngestStep, IngestCreate, IngestUpdate, IngestAbort,
         SweepLoad, SweepSave, SweepAbort, CheckLoad, CheckSave, CheckAbort, AdminLoad, AdminStep,
         AdminCommit, HideJob, RestoreJob, RemoveJob, ApproveJob, ResolveReport
    <3>2. ASSUME NEW q \in Runs, NEW j \in Jobs, IngestFetch(q, j) PROVE ingest'[r] = ingest[r]
      BY <1>2, <1>3, <3>2 DEF IngestFetch
    <3>3. ASSUME NEW q \in Runs, IngestLoad(q) PROVE q = r \/ ingest'[r] = ingest[r]
      BY <1>2, <3>3 DEF IngestLoad
    <3>4. ASSUME NEW q \in Runs, ingest' = [ingest EXCEPT ![q] = IdleRun]
          PROVE  ingest'[r] = ingest[r]
      BY <1>2, <1>3, <3>4 DEF IdleRun
    <3> QED
      BY <3>1, <3>2, <3>3, <3>4
  <2>2. CASE ingest'[r] = ingest[r]
    <3>1. ingest[r].job \in Jobs
      BY <1>2, <1>3, <2>2 DEF IdleRun, FetchedRun, LoadedRun
    <3> QED
      BY <1>1, <1>3, <2>2, <3>1 DEF HeldInv
  <2>3. CASE IngestLoad(r)
    <3>1. /\ row' = row
          /\ ingest'[r].job = ingest[r].job
          /\ ingest'[r].old.status = row[ingest[r].job].status
      BY <1>2, <2>3 DEF IngestLoad
    <3> QED
      BY <3>1
  <2> QED
    BY <2>1, <2>2, <2>3
<1>4. ASSUME NEW j \in sweep' \union check' PROVE row'[j].status \notin {"absent", "pending_review"}
  <2>1. \/ j \in sweep \union check
        \/ row'[j].status = "active"
    BY <1>2, <1>4 DEF Next, vars, Tick, Publish, IngestFetch, IngestStep, IngestLoad, IngestCreate,
       IngestUpdate, IngestAbort, SweepLoad, PastDeadline, StaleActive, SweepSave, SweepAbort,
       CheckLoad, CheckDue, CheckSave, CheckAbort, AdminLoad, AdminStep, AdminCommit, HideJob,
       RestoreJob, RemoveJob, ApproveJob, ResolveReport
  <2> QED
    BY <1>1, <1>2, <2>1 DEF HeldInv
<1>5. ASSUME NEW a \in Admins, request'[a] # NoRequest
      PROVE  LET status == row'[request'[a].job].status
             IN /\ status # "absent"
                /\ status = "pending_review" => request'[a].old.status = "pending_review"
  <2>1. \/ request'[a] = request[a]
        \/ \E op \in AdminOp, j \in Jobs : AdminLoad(a, op, j)
    BY <1>2, <1>5 DEF Next, vars, Tick, Publish, IngestFetch, IngestStep, IngestLoad, IngestCreate,
       IngestUpdate, IngestAbort, SweepLoad, SweepSave, SweepAbort, CheckLoad, CheckSave,
       CheckAbort, AdminLoad, AdminStep, AdminCommit, HideJob, RestoreJob, RemoveJob, ApproveJob,
       ResolveReport
  <2>2. CASE request'[a] = request[a]
    <3>1. request[a].job \in Jobs
      BY <1>2, <1>5, <2>2 DEF Request
    <3> QED
      BY <1>1, <1>5, <2>2, <3>1 DEF HeldInv
  <2>3. ASSUME NEW op \in AdminOp, NEW j \in Jobs, AdminLoad(a, op, j)
        PROVE  LET status == row'[request'[a].job].status
               IN /\ status # "absent"
                  /\ status = "pending_review" => request'[a].old.status = "pending_review"
    <3>1. /\ row' = row /\ row[j].status # "absent"
          /\ request'[a].job = j /\ request'[a].old.status = row[j].status
      BY <1>2, <2>3 DEF AdminLoad
    <3> QED
      BY <3>1
  <2> QED
    BY <2>1, <2>2, <2>3
<1> QED
  BY <1>3, <1>4, <1>5 DEF HeldInv
\* Whatever the interleaving of runs, sweeps, URL checks and requests, a job held for review
\* is published, or moved at all, only by an administrator's decision.
THEOREM ReviewIsKept == Spec => HeldUntilReviewed
<1>1. Init => HeldInv
  BY DEF Init, HeldInv, IdleRun, NoRequest
<1>2. TypeOK /\ HeldInv /\ [Next]_vars =>
        [\A j \in Jobs :
           row[j].status = "pending_review" /\ row'[j].status # "pending_review" =>
             \E a \in Admins, op \in {"approve", "remove", "resolve_report"} :
               Commits(a, op, j)]_vars
  BY StatusStep
<1> QED
  BY <1>1, <1>2, TypeCorrect, HeldInvStep, PTL DEF Spec, HeldUntilReviewed
-----------------------------------------------------------------------------
(* A removed job, when no two requests are in flight about one job.  With  *)
(* two the result is false: a restore and a removal that read the same     *)
(* hidden row leave it removed and visible to reactivation.                *)

OneRequestPerJob ==
  \A a, b \in Admins :
    request[a] # NoRequest /\ request[b] # NoRequest /\ request[a].job = request[b].job => a = b

\* Steps other than an administrator's commit hide and remove nothing, and show nothing.
LEMMA SystemStep ==
  ASSUME TypeOK, [Next]_vars, NEW j \in Jobs
  PROVE  \/ \E a \in Admins : AdminStep(a)
         \/ /\ row'[j].status = "removed" => row[j].status = "removed"
            /\ \/ row'[j].hidden = row[j].hidden
               \/ row[j].status = "absent" /\ ~row'[j].hidden
<1> DEFINE Goal ==
      /\ row'[j].status = "removed" => row[j].status = "removed"
      /\ \/ row'[j].hidden = row[j].hidden
         \/ row[j].status = "absent" /\ ~row'[j].hidden
<1>0. /\ row \in [Jobs -> Row]
      /\ ingest \in [Runs -> {IdleRun} \union FetchedRun \union LoadedRun]
  BY DEF TypeOK
<1> USE <1>0
<1>1. ASSUME NEW r \in Runs, IngestCreate(r) PROVE Goal
  <2>1. \/ row' = row
        \/ /\ row[ingest[r].job].status = "absent"
           /\ row' = [row EXCEPT ![ingest[r].job] =
                            CreatedRow(ingest[r].posting, ingest[r].at)]
    BY <1>1 DEF IngestCreate
  <2> QED
    BY <2>1 DEF CreatedRow, CreatedStatus
<1>2. ASSUME NEW r \in Runs, IngestUpdate(r) PROVE Goal
  <2> DEFINE old == ingest[r].old
             new == UpdatedStatus(old, ingest[r].posting, ingest[r].at)
  <2>1. /\ row'[j].hidden = row[j].hidden
        /\ \/ row'[j].status = row[j].status
           \/ row'[j].status = Column(row[j].status, old.status, new)
    BY <1>2, SMTT(30) DEF IngestUpdate, Row
  <2>2. new = old.status \/ new = "active"
    BY DEF UpdatedStatus
  <2> QED
    BY <2>1, <2>2 DEF Column
<1>3. CASE SweepSave
  BY <1>3 DEF SweepSave, Row
<1>4. CASE CheckSave
  <2>1. PICK verdict \in [check -> Verdict] :
          row' = [i \in Jobs |->
                   IF i \in check
                   THEN [row[i] EXCEPT !.checked = now,
                                       !.status = IF verdict[i] = "gone" THEN "closed" ELSE @]
                   ELSE row[i]]
    BY <1>4 DEF CheckSave
  <2> QED
    BY <2>1 DEF Row
<1>5. CASE UNCHANGED row
  BY <1>5
<1>6. \/ \E r \in Runs : IngestCreate(r) \/ IngestUpdate(r)
      \/ SweepSave \/ CheckSave
      \/ \E a \in Admins : AdminStep(a)
      \/ UNCHANGED row
  BY DEF Next, vars, Tick, Publish, IngestFetch, IngestStep, IngestLoad, IngestAbort, SweepLoad,
         SweepAbort, CheckLoad, CheckAbort, AdminLoad
<1> QED
  BY <1>1, <1>2, <1>3, <1>4, <1>5, <1>6

\* What an administrator's commit leaves of a row that is as the request remembers it.
LEMMA CommitStep ==
  ASSUME TypeOK, RemovalInv, NEW a \in Admins, AdminStep(a), NEW j \in Jobs
  PROVE  /\ row'[j].status = "removed" => row'[j].hidden
         /\ row[j].hidden /\ ~row'[j].hidden => Commits(a, "restore", j)
         /\ request[a].job # j => row'[j] = row[j]
<1>1. /\ row \in [Jobs -> Row] /\ request \in [Admins -> {NoRequest} \union Request]
      /\ request[a].op # "none"
  BY DEF TypeOK, AdminStep, HideJob, RestoreJob, RemoveJob, ApproveJob, ResolveReport
<1>2. request[a] \in Request /\ request[a] # NoRequest
  BY <1>1 DEF NoRequest
<1>3. /\ row[j].status = "removed" => row[j].hidden
      /\ request[a].job = j =>
           /\ request[a].old.hidden = row[j].hidden
           /\ row[j].status = "removed" => request[a].old.status = "removed"
  BY <1>2 DEF RemovalInv, RemovedIsHidden
<1>4. ASSUME NEW status, NEW hidden, NEW type, AdminCommit(a, status, hidden, type)
      PROVE  /\ request'[a] = NoRequest
             /\ request[a].job # j => row'[j] = row[j]
             /\ request[a].job = j =>
                  /\ row'[j].status = Column(row[j].status, request[a].old.status, status)
                  /\ row'[j].hidden = Column(row[j].hidden, request[a].old.hidden, hidden)
  BY <1>1, <1>4 DEF AdminCommit, Row
<1>5. row[j].hidden \in BOOLEAN /\ request[a].old.hidden \in BOOLEAN
  BY <1>1, <1>2 DEF Row, Request
<1>6. CASE HideJob(a)
  BY <1>3, <1>4, <1>5, <1>6 DEF HideJob, Column
<1>7. CASE RestoreJob(a)
  <2>1. request[a].job = j => Commits(a, "restore", j)
    BY <1>2, <1>4, <1>7 DEF RestoreJob, Commits
  <2>2. RestoredStatus(request[a].old.status) # "removed"
    BY DEF RestoredStatus
  <2>3. request[a].job = j => row'[j].status # "removed"
    BY <1>3, <1>4, <1>7, <2>2 DEF RestoreJob, Column
  <2> QED
    BY <1>3, <1>4, <1>7, <2>1, <2>3, Zenon DEF RestoreJob
<1>8. CASE RemoveJob(a)
  <2>1. request[a].job = j => row'[j].hidden
    BY <1>3, <1>4, <1>5, <1>8 DEF RemoveJob, Column
  <2>2. request[a].job # j => row'[j] = row[j]
    BY <1>4, <1>8 DEF RemoveJob
  <2> QED
    BY <1>3, <2>1, <2>2
<1>9. CASE ApproveJob(a)
  BY <1>3, <1>4, <1>5, <1>9 DEF ApproveJob, Column
<1>10. CASE ResolveReport(a)
  <2>1. request[a].job = j => row'[j].hidden
    BY <1>3, <1>4, <1>5, <1>10 DEF ResolveReport, Column
  <2>2. request[a].job # j => row'[j] = row[j]
    BY <1>4, <1>10 DEF ResolveReport
  <2> QED
    BY <1>3, <2>1, <2>2
<1> QED
  BY <1>6, <1>7, <1>8, <1>9, <1>10 DEF AdminStep

\* RemovalInv is inductive while no two requests are in flight about one job.
LEMMA RemovalInvStep ==
  TypeOK /\ HeldInv /\ RemovalInv /\ OneRequestPerJob /\ [Next]_vars => RemovalInv'
<1> SUFFICES ASSUME TypeOK, HeldInv, RemovalInv, OneRequestPerJob, [Next]_vars PROVE RemovalInv'
  OBVIOUS
<1>0. row \in [Jobs -> Row] /\ request \in [Admins -> {NoRequest} \union Request]
  BY DEF TypeOK
<1>1. CASE \E a \in Admins : AdminStep(a)
  <2>1. PICK a \in Admins : AdminStep(a)
    BY <1>1
  <2>2. request'[a] = NoRequest /\ \A b \in Admins \ {a} : request'[b] = request[b]
    BY <1>0, <2>1 DEF AdminStep, HideJob, RestoreJob, RemoveJob, ApproveJob, ResolveReport,
                      AdminCommit
  <2>3. RemovedIsHidden'
    BY <2>1, CommitStep DEF RemovedIsHidden
  <2>4. request[a].job \in Jobs /\ row[request[a].job].status # "absent"
    <3>1. request[a].op # "none"
      BY <2>1 DEF AdminStep, HideJob, RestoreJob, RemoveJob, ApproveJob, ResolveReport
    <3> QED
      BY <1>0, <3>1 DEF HeldInv, NoRequest, Request
  <2>5. ASSUME NEW j \in Jobs, row'[j].status = "absent" PROVE ~row'[j].hidden
    <3>1. row[j].status = "absent"
      BY <2>5, StatusStep
    <3>2. row'[j] = row[j]
      BY <2>1, <2>4, <3>1, CommitStep
    <3> QED
      BY <3>1, <3>2 DEF RemovalInv
  <2>6. ASSUME NEW b \in Admins, request'[b] # NoRequest
        PROVE  LET j == request'[b].job
               IN /\ request'[b].old.hidden = row'[j].hidden
                  /\ row'[j].status = "removed" => request'[b].old.status = "removed"
    <3>1. b # a /\ request'[b] = request[b] /\ request[b].job \in Jobs
      BY <1>0, <2>2, <2>6 DEF Request
    <3>2. request[a] # NoRequest /\ request[a].job # request[b].job
      <4>1. request[a].op # "none"
        BY <2>1 DEF AdminStep, HideJob, RestoreJob, RemoveJob, ApproveJob, ResolveReport
      <4>2. request[a] # NoRequest
        BY <4>1 DEF NoRequest
      <4> QED
        BY <2>6, <3>1, <4>2 DEF OneRequestPerJob
    <3>3. row'[request[b].job] = row[request[b].job]
      BY <2>1, <3>1, <3>2, CommitStep
    <3> QED
      BY <2>6, <3>1, <3>3 DEF RemovalInv
  <2> QED
    BY <2>3, <2>5, <2>6 DEF RemovalInv
<1>2. CASE ~ \E a \in Admins : AdminStep(a)
  <2>1. \A j \in Jobs :
          /\ row'[j].status = "removed" => row[j].status = "removed"
          /\ row[j].status # "absent" => row'[j].hidden = row[j].hidden
    BY <1>2, SystemStep
  <2>2. RemovedIsHidden'
    BY <2>1 DEF RemovalInv, RemovedIsHidden
  <2>3. ASSUME NEW a \in Admins, request'[a] # NoRequest
        PROVE  LET j == request'[a].job
               IN /\ request'[a].old.hidden = row'[j].hidden
                  /\ row'[j].status = "removed" => request'[a].old.status = "removed"
    <3>1. \/ request'[a] = request[a]
          \/ \E op \in AdminOp, j \in Jobs : AdminLoad(a, op, j)
      BY <1>0, <1>2 DEF Next, vars, Tick, Publish, IngestFetch, IngestStep, IngestLoad,
         IngestCreate, IngestUpdate, IngestAbort, SweepLoad, SweepSave, SweepAbort, CheckLoad,
         CheckSave, CheckAbort, AdminLoad
    <3>2. CASE request'[a] = request[a]
      <4>1. request[a].job \in Jobs
        BY <1>0, <2>3, <3>2 DEF Request
      <4>2. row[request[a].job].status # "absent"
        BY <2>3, <3>2 DEF HeldInv
      <4> QED
        BY <2>1, <2>3, <3>2, <4>1, <4>2 DEF RemovalInv
    <3>3. ASSUME NEW op \in AdminOp, NEW j \in Jobs, AdminLoad(a, op, j)
          PROVE  LET i == request'[a].job
                 IN /\ request'[a].old.hidden = row'[i].hidden
                    /\ row'[i].status = "removed" => request'[a].old.status = "removed"
      <4>1. /\ row' = row /\ request'[a].job = j
            /\ request'[a].old.status = row[j].status
            /\ request'[a].old.hidden = row[j].hidden
        BY <1>0, <3>3 DEF AdminLoad
      <4> QED
        BY <4>1
    <3> QED
      BY <3>1, <3>2, <3>3
  <2>4. ASSUME NEW j \in Jobs, row'[j].status = "absent" PROVE ~row'[j].hidden
    <3>1. row[j].status = "absent"
      BY <2>4, StatusStep
    <3>2. row'[j].hidden = row[j].hidden \/ ~row'[j].hidden
      BY <1>2, SystemStep
    <3> QED
      BY <3>1, <3>2 DEF RemovalInv
  <2> QED
    BY <2>2, <2>3, <2>4 DEF RemovalInv
<1> QED
  BY <1>1, <1>2

\* A removed row is hidden too, whatever runs, sweeps and URL checks are in flight.
THEOREM RemovedStaysHidden == Spec /\ []OneRequestPerJob => []RemovedIsHidden
<1>1. Init => HeldInv /\ RemovalInv
  BY DEF Init, HeldInv, RemovalInv, RemovedIsHidden, AbsentRow, IdleRun, NoRequest
<1>2. RemovalInv => RemovedIsHidden
  BY DEF RemovalInv
<1> QED
  BY <1>1, <1>2, TypeCorrect, HeldInvStep, RemovalInvStep, PTL DEF Spec

\* Ingestion, expiration and URL checks never bring back a job that an administrator hid or
\* removed, however they interleave with it.
THEOREM RemovalIsFinal == Spec /\ []OneRequestPerJob => NoSilentReturn
<1>1. Init => HeldInv /\ RemovalInv
  BY DEF Init, HeldInv, RemovalInv, RemovedIsHidden, AbsentRow, IdleRun, NoRequest
<1>2. TypeOK /\ HeldInv /\ RemovalInv /\ [Next]_vars =>
        [\A j \in Jobs :
           (row[j].hidden \/ row[j].status = "removed") /\ Public(j)' =>
             \E a \in Admins : Commits(a, "restore", j)]_vars
  <2>1. ASSUME TypeOK, HeldInv, RemovalInv, [Next]_vars, NEW j \in Jobs,
               row[j].hidden \/ row[j].status = "removed", Public(j)'
        PROVE  \E a \in Admins : Commits(a, "restore", j)
    <3>1. row[j].hidden /\ ~row'[j].hidden /\ row[j].status # "absent"
      BY <2>1 DEF RemovalInv, RemovedIsHidden, Public
    <3>2. PICK a \in Admins : AdminStep(a)
      BY <2>1, <3>1, SystemStep
    <3> QED
      BY <2>1, <3>1, <3>2, CommitStep
  <2> QED
    BY <2>1
<1> QED
  BY <1>1, <1>2, TypeCorrect, HeldInvStep, RemovalInvStep, PTL DEF Spec, NoSilentReturn
-----------------------------------------------------------------------------
(* The event history.                                                      *)

\* A flush writes the status it decided on or leaves the committed one as it is.
LEMMA FlushedStatus ==
  ASSUME NEW current, NEW old, NEW new, Column(current, old, new) # current
  PROVE  Column(current, old, new) = new /\ old # new
BY DEF Column

\* A step that changes the status of a row inserts the event that says so about that job.
LEMMA LoggedStep ==
  ASSUME TypeOK, [Next]_vars, NEW j \in Jobs, row'[j].status # row[j].status
  PROVE  \E e \in inserted' : e.job = j /\ e.type \in LoggedAs(row'[j].status)
<1> DEFINE Logged == \E e \in inserted' : e.job = j /\ e.type \in LoggedAs(row'[j].status)
<1>0. /\ row \in [Jobs -> Row]
      /\ ingest \in [Runs -> {IdleRun} \union FetchedRun \union LoadedRun]
      /\ request \in [Admins -> {NoRequest} \union Request]
      /\ sweep \subseteq Jobs /\ check \subseteq Jobs
  BY DEF TypeOK
<1>1. ASSUME NEW type, Event(j, type) \in inserted', type \in LoggedAs(row'[j].status)
      PROVE  Logged
  BY <1>1
<1>2. ASSUME NEW r \in Runs, IngestCreate(r) PROVE Logged
  <2>1. /\ row[ingest[r].job].status = "absent"
        /\ row' = [row EXCEPT ![ingest[r].job] = CreatedRow(ingest[r].posting, ingest[r].at)]
        /\ inserted' = {Event(ingest[r].job, "created")}
    BY <1>2 DEF IngestCreate
  <2>2. /\ ingest[r].job = j
        /\ row'[j].status = CreatedStatus(ingest[r].posting, ingest[r].at)
    BY <1>0, <2>1 DEF CreatedRow
  <2>3. "created" \in LoggedAs(row'[j].status)
    BY <2>2 DEF CreatedStatus, LoggedAs
  <2> QED
    BY <1>1, <2>1, <2>2, <2>3
<1>3. ASSUME NEW r \in Runs, IngestUpdate(r) PROVE Logged
  <2> DEFINE old == ingest[r].old
             p   == ingest[r].posting
             at  == ingest[r].at
             new == UpdatedStatus(old, p, at)
  <2>1. j = ingest[r].job /\ row'[j].status = Column(row[j].status, old.status, new)
    BY <1>0, <1>3, SMTT(30) DEF IngestUpdate, Row
  <2>2. row'[j].status = new /\ old.status # new
    BY <2>1, FlushedStatus
  <2>3. Reactivates(old, p, at) /\ row'[j].status = "active"
    BY <2>2 DEF UpdatedStatus
  <2>4. PICK edited \in BOOLEAN : inserted' = UpdateEvents(j, old, p, at, edited)
    BY <1>3, <2>1 DEF IngestUpdate
  <2>5. Event(j, "reactivated") \in inserted'
    BY <2>3, <2>4 DEF UpdateEvents
  <2> QED
    BY <1>1, <2>3, <2>5 DEF LoggedAs
<1>4. CASE SweepSave
  <2>1. j \in sweep /\ row'[j].status = "expired"
    BY <1>0, <1>4 DEF SweepSave, Row
  <2>2. Event(j, "expired") \in inserted'
    BY <1>4, <2>1 DEF SweepSave
  <2> QED
    BY <1>1, <2>1, <2>2 DEF LoggedAs
<1>5. CASE CheckSave
  <2>1. PICK verdict \in [check -> Verdict] :
          /\ row' = [i \in Jobs |->
                      IF i \in check
                      THEN [row[i] EXCEPT !.checked = now,
                                          !.status = IF verdict[i] = "gone" THEN "closed" ELSE @]
                      ELSE row[i]]
          /\ inserted' = UNION {CheckEvents(i, verdict[i]) : i \in check}
    BY <1>5 DEF CheckSave
  <2>2. j \in check /\ verdict[j] = "gone" /\ row'[j].status = "closed"
    BY <1>0, <2>1 DEF Row
  <2>3. Event(j, "closed") \in CheckEvents(j, verdict[j])
    BY <2>2 DEF CheckEvents
  <2>4. Event(j, "closed") \in inserted'
    BY <2>1, <2>2, <2>3
  <2> QED
    BY <1>1, <2>2, <2>4 DEF LoggedAs
<1>6. ASSUME NEW a \in Admins, AdminStep(a) PROVE Logged
  <2>1. request[a] \in Request
    <3>1. request[a].op # "none"
      BY <1>6 DEF AdminStep, HideJob, RestoreJob, RemoveJob, ApproveJob, ResolveReport
    <3> QED
      BY <1>0, <3>1 DEF NoRequest
  <2>2. ASSUME NEW status, NEW hidden, NEW type, AdminCommit(a, status, hidden, type)
        PROVE  /\ request[a].old.status # status /\ row'[j].status = status
               /\ Event(j, type) \in inserted'
    <3>1. /\ j = request[a].job
          /\ row'[j].status = Column(row[j].status, request[a].old.status, status)
          /\ inserted' = {Event(request[a].job, type)}
      BY <1>0, <2>1, <2>2, SMTT(30) DEF AdminCommit, Row
    <3> QED
      BY <3>1, FlushedStatus
  <2>3. CASE HideJob(a)
    BY <2>2, <2>3 DEF HideJob
  <2>4. CASE RestoreJob(a)
    <3>1. /\ row'[j].status = "active"
          /\ Event(j, "restored") \in inserted'
      BY <2>2, <2>4 DEF RestoreJob, RestoredStatus
    <3> QED
      BY <1>1, <3>1 DEF LoggedAs
  <2>5. CASE RemoveJob(a)
    <3>1. /\ row'[j].status = "removed"
          /\ Event(j, "removed") \in inserted'
      BY <2>2, <2>5 DEF RemoveJob
    <3> QED
      BY <1>1, <3>1 DEF LoggedAs
  <2>6. CASE ApproveJob(a)
    <3>1. /\ row'[j].status = "active"
          /\ Event(j, "restored") \in inserted'
      BY <2>2, <2>6 DEF ApproveJob
    <3> QED
      BY <1>1, <3>1 DEF LoggedAs
  <2>7. CASE ResolveReport(a)
    <3>1. /\ row'[j].status = "removed"
          /\ Event(j, "removed") \in inserted'
      BY <2>2, <2>7 DEF ResolveReport
    <3> QED
      BY <1>1, <3>1 DEF LoggedAs
  <2> QED
    BY <1>6, <2>3, <2>4, <2>5, <2>6, <2>7 DEF AdminStep
<1>7. \/ \E r \in Runs : IngestCreate(r) \/ IngestUpdate(r)
      \/ SweepSave \/ CheckSave
      \/ \E a \in Admins : AdminStep(a)
      \/ UNCHANGED row
  BY DEF Next, vars, Tick, Publish, IngestFetch, IngestStep, IngestLoad, IngestAbort, SweepLoad,
         SweepAbort, CheckLoad, CheckAbort, AdminLoad
<1> QED
  BY <1>2, <1>3, <1>4, <1>5, <1>6, <1>7

\* Whatever a transaction remembers of a row, and whatever was committed since, the history
\* records every change of status under the type that announces it.
THEOREM StatusIsLogged == Spec => TransitionsAreLogged
<1>1. TypeOK /\ [Next]_vars =>
        [\A j \in Jobs :
           row'[j].status # row[j].status =>
             \E e \in inserted' : e.job = j /\ e.type \in LoggedAs(row'[j].status)]_vars
  BY LoggedStep
<1> QED
  BY <1>1, TypeCorrect, PTL DEF Spec, TransitionsAreLogged
-----------------------------------------------------------------------------
(* The review gate.  The run that refutes it flags a posting whose deadline *)
(* has passed.  That is the only way around the review.                     *)

\* The step does not create a flagged posting as expired.
FlagsInTime == \A j \in flagged' \ flagged : row'[j].status # "expired"

\* A flagged row still waits for its review, or is hidden; and so knows every request that has
\* read it hidden.
GateInv ==
  /\ \A j \in flagged :
       row[j].status # "absent" /\ (row[j].status = "pending_review" \/ row[j].hidden)
  /\ \A a \in Admins :
       request[a] # NoRequest /\ request[a].job \in flagged /\ request[a].old.hidden =>
         row[request[a].job].hidden

\* An administrator's commit that leaves a job flagged has not touched the row, or hides it.
LEMMA AdminKeepsGate ==
  ASSUME TypeOK, GateInv, NEW a \in Admins, AdminStep(a), NEW j \in flagged'
  PROVE  /\ j \in flagged
         /\ row'[j] = row[j] \/ row'[j].hidden
<1>1. /\ row \in [Jobs -> Row] /\ request \in [Admins -> {NoRequest} \union Request]
      /\ request[a].op # "none" /\ flagged \subseteq Jobs
  BY DEF TypeOK, AdminStep, HideJob, RestoreJob, RemoveJob, ApproveJob, ResolveReport
<1>2. request[a] \in Request /\ request[a] # NoRequest
  BY <1>1 DEF NoRequest
<1>3. j \in flagged /\ j \in Jobs
  BY <1>1 DEF AdminStep, HideJob, RestoreJob, RemoveJob, ApproveJob, ResolveReport
<1>4. ASSUME NEW status, NEW hidden, NEW type, AdminCommit(a, status, hidden, type)
      PROVE  /\ request[a].job # j => row'[j] = row[j]
             /\ request[a].job = j =>
                  row'[j].hidden = Column(row[j].hidden, request[a].old.hidden, hidden)
  BY <1>1, <1>3, <1>4 DEF AdminCommit, Row
<1>5. ASSUME request[a].job = j
      PROVE  Column(row[j].hidden, request[a].old.hidden, TRUE)
  BY <1>1, <1>2, <1>3, <1>5 DEF Column, GateInv, Row, Request
<1>6. CASE request[a].job # j
  BY <1>4, <1>6 DEF AdminStep, HideJob, RestoreJob, RemoveJob, ApproveJob, ResolveReport
<1>7. CASE request[a].job = j
  <2>1. ~RestoreJob(a) /\ ~ApproveJob(a)
    BY <1>7 DEF RestoreJob, ApproveJob
  <2>2. \E status, type : AdminCommit(a, status, TRUE, type)
    BY <2>1 DEF AdminStep, HideJob, RemoveJob, ResolveReport
  <2>3. row'[j].hidden = Column(row[j].hidden, request[a].old.hidden, TRUE)
    BY <1>4, <1>7, <2>2
  <2> QED
    BY <1>3, <1>5, <1>7, <2>3
<1> QED
  BY <1>3, <1>6, <1>7

\* GateInv is inductive as long as no flagged posting is created overdue.
LEMMA GateInvStep == TypeOK /\ HeldInv /\ GateInv /\ [Next]_vars /\ FlagsInTime => GateInv'
<1> SUFFICES ASSUME TypeOK, HeldInv, GateInv, [Next]_vars, FlagsInTime PROVE GateInv'
  OBVIOUS
<1>0. /\ row \in [Jobs -> Row] /\ request \in [Admins -> {NoRequest} \union Request]
      /\ flagged \subseteq Jobs
  BY DEF TypeOK
<1>1. CASE \E a \in Admins : AdminStep(a)
  <2>1. PICK a \in Admins : AdminStep(a)
    BY <1>1
  <2>2. \A j \in flagged' : j \in flagged /\ (row'[j] = row[j] \/ row'[j].hidden)
    BY <2>1, AdminKeepsGate
  <2>3. \A b \in Admins : request'[b] # NoRequest => request'[b] = request[b]
    BY <1>0, <2>1 DEF AdminStep, HideJob, RestoreJob, RemoveJob, ApproveJob, ResolveReport,
                      AdminCommit
  <2>4. \A j \in flagged : j \in Jobs /\ row'[j].status # "absent"
    BY <1>0, StatusStep DEF GateInv
  <2> QED
    BY <2>2, <2>3, <2>4 DEF GateInv
<1>2. CASE ~ \E a \in Admins : AdminStep(a)
  <2>1. \A a \in Admins : request'[a] = request[a] \/ request[a] = NoRequest
    BY <1>0, <1>2 DEF Next, vars, Tick, Publish, IngestFetch, IngestStep, IngestLoad,
       IngestCreate, IngestUpdate, IngestAbort, SweepLoad, SweepSave, SweepAbort, CheckLoad,
       CheckSave, CheckAbort, AdminLoad
  <2>2. ASSUME NEW j \in flagged
        PROVE  /\ j \in Jobs /\ row'[j].status # "absent"
               /\ row'[j].hidden = row[j].hidden
               /\ row[j].status = "pending_review" => row'[j].status = "pending_review"
    <3>1. j \in Jobs /\ row[j].status # "absent"
      BY <1>0 DEF GateInv
    <3>2. ~ \E a \in Admins, op \in {"approve", "remove", "resolve_report"} : Commits(a, op, j)
      BY <2>1 DEF Commits
    <3> QED
      BY <1>2, <3>1, <3>2, StatusStep, SystemStep
  <2>3. ASSUME NEW j \in flagged' \ flagged
        PROVE  j \in Jobs /\ row[j].status = "absent" /\ row'[j].status = "pending_review"
    <3>1. PICK r \in Runs : IngestCreate(r)
      BY <1>2, <2>3 DEF Next, vars, Tick, Publish, IngestFetch, IngestStep, IngestLoad,
         IngestUpdate, IngestAbort, SweepLoad, SweepSave, SweepAbort, CheckLoad,
         CheckSave, CheckAbort, AdminLoad
    <3>2. ingest[r] \in LoadedRun
      BY <3>1 DEF TypeOK, IngestCreate, FetchedRun, LoadedRun, IdleRun
    <3>3. /\ j = ingest[r].job /\ row[j].status = "absent" /\ ingest[r].posting.review
          /\ row' = [row EXCEPT ![j] = CreatedRow(ingest[r].posting, ingest[r].at)]
      BY <2>3, <3>1 DEF IngestCreate
    <3>4. j \in Jobs /\ row'[j].status = CreatedStatus(ingest[r].posting, ingest[r].at)
      BY <1>0, <3>2, <3>3 DEF LoadedRun, CreatedRow
    <3>5. row'[j].status # "expired"
      BY <2>3 DEF FlagsInTime
    <3> QED
      BY <3>3, <3>4, <3>5 DEF CreatedStatus
  <2>4. ASSUME NEW a \in Admins, request'[a] # NoRequest, request'[a].job \in flagged',
               request'[a].old.hidden
        PROVE  row'[request'[a].job].hidden
    <3>1. CASE request'[a] = request[a]
      <4>1. row[request[a].job].status # "absent"
        BY <2>4, <3>1 DEF HeldInv
      <4>2. request[a].job \in flagged
        BY <2>3, <2>4, <3>1, <4>1
      <4> QED
        BY <2>2, <2>4, <3>1, <4>2 DEF GateInv
    <3>2. CASE request'[a] # request[a]
      <4>1. \E op \in AdminOp, j \in Jobs : AdminLoad(a, op, j)
        BY <1>0, <1>2, <3>2 DEF Next, vars, Tick, Publish, IngestFetch, IngestStep, IngestLoad,
           IngestCreate, IngestUpdate, IngestAbort, SweepLoad, SweepSave, SweepAbort, CheckLoad,
           CheckSave, CheckAbort, AdminLoad
      <4>2. PICK op \in AdminOp, j \in Jobs : AdminLoad(a, op, j)
        BY <4>1
      <4>3. row' = row /\ request'[a].job = j /\ request'[a].old.hidden = row[j].hidden
        BY <1>0, <4>2 DEF AdminLoad
      <4> QED
        BY <2>4, <4>3
    <3> QED
      BY <3>1, <3>2
  <2> QED
    BY <2>2, <2>3, <2>4 DEF GateInv
<1> QED
  BY <1>1, <1>2

\* A posting that validation flagged is public only after an administrator's decision in every
\* behaviour that creates no flagged posting overdue: the counterexample of the run is the only
\* kind there is, however many runs, sweeps, checks and administrators act at once.
THEOREM ReviewGateInTime == Spec /\ [][FlagsInTime]_vars => []ReviewGate
<1>1. Init => HeldInv /\ GateInv
  BY DEF Init, HeldInv, GateInv, IdleRun, NoRequest
<1>2. TypeOK /\ HeldInv /\ GateInv /\ [Next]_vars /\ [FlagsInTime]_vars => GateInv'
  BY GateInvStep DEF vars, FlagsInTime
<1>3. GateInv => ReviewGate
  BY DEF GateInv, ReviewGate, Public
<1> QED
  BY <1>1, <1>2, <1>3, TypeCorrect, HeldInvStep, PTL DEF Spec
===============================================================================
