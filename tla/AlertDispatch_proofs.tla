------------------------ MODULE AlertDispatch_proofs ------------------------
(***************************************************************************)
(* Proofs about AlertDispatch, for every set of alerts and jobs, any       *)
(* finite number of dispatch tasks and notifications, and every limit.     *)
(***************************************************************************)
EXTENDS AlertDispatch, FiniteSetTheorems, WellFoundedInduction, TLAPS

USE DispatchAssumption

-----------------------------------------------------------------------------
(* The inductive invariant.                                                *)

\* No transaction, job or cursor is of a later time than now.
ClockInv ==
  /\ \A t \in Txns : txn[t] <= now
  /\ \A j \in Jobs : job[j].created <= now

\* A digest under way lists some job.
DigestInv ==
  \A w \in Workers : dispatch[w].phase \in {"matched", "attempted"} => dispatch[w].jobs # {}

\* A notification carries the time it was sent exactly when it was, and only one that was not
\* sent, and that has an attempt left, is in the retry task.
NoteInv ==
  \A n \in Notes :
    /\ note[n] # NoNote => /\ note[n].attempts <= MaxAttempts
                           /\ note[n].status = "sent" => note[n].sentAt
                           /\ note[n].status = "failed" => ~note[n].sentAt
    /\ retry[n] # "idle" => /\ note[n] # NoNote
                            /\ ~note[n].sentAt
                            /\ note[n].attempts < MaxAttempts

-----------------------------------------------------------------------------
(* Operators.                                                              *)

\* A finite set of numbers that is not empty has a largest member.
LEMMA Largest ==
  ASSUME NEW S \in SUBSET Nat, IsFiniteSet(S), S # {}
  PROVE  \E m \in S : \A x \in S : x <= m
<1> DEFINE Above(c) == {x \in S : x >= c}
           T == {Above(c) : c \in S}
<1>1. T \subseteq FiniteSubsetsOf(S)
  BY FS_Subset DEF FiniteSubsetsOf
<1>2. T # {}
  OBVIOUS
<1>3. IsWellFoundedOn(StrictSubsetOrdering(S), FiniteSubsetsOf(S))
  BY FS_StrictSubsetOrderingWellFounded
<1>4. PICK U \in T : \A V \in T : <<V, U>> \notin StrictSubsetOrdering(S)
  <2> HIDE DEF T
  <2> QED BY <1>1, <1>2, <1>3, WFMin
<1>5. PICK m \in S : U = Above(m)
  BY <1>4
<1>6. ASSUME NEW x \in S, x > m PROVE FALSE
  <2>1. Above(x) \subseteq Above(m) /\ m \in Above(m) /\ m \notin Above(x)
    <3>1. x \in Nat /\ m \in Nat /\ x > m /\ \A y \in S : y \in Nat
      BY <1>6
    <3>2. m \in Above(m) /\ m \notin Above(x)
      BY <3>1
    <3>3. ASSUME NEW y \in Above(x) PROVE y \in Above(m)
      <4>1. y \in S /\ y >= x
        BY <3>3
      <4>2. y >= m
        BY <4>1, <3>1
      <4> QED
        BY <4>1, <4>2
    <3> QED
      BY <3>2, <3>3
  <2>2. <<Above(x), U>> \in StrictSubsetOrdering(S)
    BY <2>1, <1>5 DEF StrictSubsetOrdering
  <2> QED
    BY <2>2, <1>4, <1>6
<1> QED
  BY <1>6, <1>5

\* The newest created_at of a digest is one of its jobs'.
LEMMA NewestOfJobs ==
  ASSUME TypeOK, ClockInv, NEW js \in SUBSET Jobs, js # {}
  PROVE  /\ Newest(js) \in {job[j].created : j \in js}
         /\ Newest(js) \in Nat
         /\ Newest(js) <= now
<1> DEFINE S == {job[j].created : j \in js}
<1>1. S \in SUBSET Nat /\ S # {} /\ \A c \in S : c <= now
  BY DEF TypeOK, ClockInv
<1>2. IsFiniteSet(S)
  <2> HIDE DEF S
  <2> QED BY <1>1, FS_BoundedSetOfNaturals DEF TypeOK
<1>3. \E c \in S : \A x \in S : x <= c
  <2> HIDE DEF S
  <2> QED BY <1>1, <1>2, Largest
<1>4. \E c \in S : \A j \in js : job[j].created <= c
  BY <1>3
<1>5. Newest(js) \in S
  BY <1>4 DEF Newest
<1> QED
  BY <1>5, <1>1

\* A set with at most one member, and how many it has.
LEMMA AtMostOne ==
  ASSUME NEW S, IsFiniteSet(S), \A x, y \in S : x = y
  PROVE  Cardinality(S) = IF S = {} THEN 0 ELSE 1
<1>1. CASE S = {}
  BY <1>1, FS_EmptySet
<1>2. CASE S # {}
  <2>1. PICK x \in S : S = {x}
    BY <1>2
  <2> QED
    BY <2>1, FS_Singleton, <1>2
<1> QED
  BY <1>1, <1>2

\* The mails counted once more for the pairs of S are numbers still.
LEMMA PlusType ==
  ASSUME NEW f \in [Pairs -> Nat], NEW S
  PROVE  /\ Plus(f, S) \in [Pairs -> Nat]
         /\ \A p \in Pairs : Plus(f, S)[p] = IF p \in S THEN f[p] + 1 ELSE f[p]
  BY DEF Plus
-----------------------------------------------------------------------------
(* Types.                                                                  *)

\* What a dispatch task in each of its phases remembers.
LEMMA TaskTypes ==
  ASSUME TypeOK, NEW w \in Workers
  PROVE  /\ dispatch[w].phase = "listed" => dispatch[w] \in Listed
         /\ dispatch[w].phase = "matched" => dispatch[w] \in Matched
         /\ dispatch[w].phase = "attempted" => dispatch[w] \in Attempted
         /\ dispatch[w].phase \in {"idle", "listed", "matched", "attempted"}
         /\ dispatch[w].phase = "idle" <=> dispatch[w] = Idle
  BY DEF TypeOK, Idle, Listed, Matched, Attempted

\* What the columns of a notification are.
LEMMA NoteTypes ==
  ASSUME TypeOK, NEW n \in Notes
  PROVE  /\ note[n] # NoNote <=> note[n] \in Note
         /\ note[n] # NoNote => /\ note[n].status \in {"sent", "failed", "read"}
                                /\ note[n].sentAt \in BOOLEAN
                                /\ note[n].attempts \in Nat
                                /\ note[n].alert \in Alerts
                                /\ note[n].jobs \in SUBSET Jobs
         /\ note[n].status \in {"sent", "failed"} => note[n] # NoNote
  BY DEF TypeOK, NoNote, Note

\* What a mail adds to the counts of the pairs it lists.
LEMMA MailCounts ==
  ASSUME TypeOK, NEW a \in Alerts, NEW js \in SUBSET Jobs, NEW o \in Outcome, Mail(a, js, o)
  PROVE  /\ inbox' \in [Pairs -> Nat]
         /\ unrecorded' \in [Pairs -> Nat]
         /\ \A p \in Pairs :
              LET listed == p \in {a} \X js
              IN /\ inbox'[p] = IF o.arrives /\ listed THEN inbox[p] + 1 ELSE inbox[p]
                 /\ unrecorded'[p] = IF o.arrives /\ ~o.sent /\ listed THEN unrecorded[p] + 1
                                                                      ELSE unrecorded[p]
  BY PlusType DEF TypeOK, Mail

\* What a rollback adds to the mails nothing records.
LEMMA ForgetCounts ==
  ASSUME TypeOK, NEW S, Forget(S)
  PROVE  /\ unrecorded' \in [Pairs -> Nat]
         /\ \A p \in Pairs : unrecorded'[p] = IF p \in S THEN unrecorded[p] + 1 ELSE unrecorded[p]
  BY PlusType DEF TypeOK, Forget

\* Writing one column of a notification.
LEMMA NoteColumnSet ==
  ASSUME NEW r \in Note
  PROVE  /\ \A x \in {"sent", "read"} :
              LET q == [r EXCEPT !.status = x]
              IN /\ q \in Note /\ q.status = x /\ q.sentAt = r.sentAt
                 /\ q.attempts = r.attempts /\ q.alert = r.alert /\ q.jobs = r.jobs
         /\ LET q == [r EXCEPT !.sentAt = TRUE]
            IN /\ q \in Note /\ q.status = r.status /\ q.sentAt = TRUE
               /\ q.attempts = r.attempts /\ q.alert = r.alert /\ q.jobs = r.jobs
         /\ \A k \in Nat :
              LET q == [r EXCEPT !.attempts = k]
              IN /\ q \in Note /\ q.status = r.status /\ q.sentAt = r.sentAt
                 /\ q.attempts = k /\ q.alert = r.alert /\ q.jobs = r.jobs
<1>1. /\ r = [status |-> r.status, sentAt |-> r.sentAt, attempts |-> r.attempts,
              alert |-> r.alert, jobs |-> r.jobs]
      /\ r.status \in {"sent", "failed", "read"} /\ r.sentAt \in BOOLEAN
      /\ r.attempts \in Nat /\ r.alert \in Alerts /\ r.jobs \in SUBSET Jobs
  BY DEF Note
<1>2. ASSUME NEW x \in {"sent", "read"}
      PROVE  LET q == [r EXCEPT !.status = x]
             IN /\ q \in Note /\ q.status = x /\ q.sentAt = r.sentAt
                /\ q.attempts = r.attempts /\ q.alert = r.alert /\ q.jobs = r.jobs
  BY <1>1 DEF Note
<1>3. LET q == [r EXCEPT !.sentAt = TRUE]
      IN /\ q \in Note /\ q.status = r.status /\ q.sentAt = TRUE
         /\ q.attempts = r.attempts /\ q.alert = r.alert /\ q.jobs = r.jobs
  BY <1>1 DEF Note
<1>4. ASSUME NEW k \in Nat
      PROVE  LET q == [r EXCEPT !.attempts = k]
             IN /\ q \in Note /\ q.status = r.status /\ q.sentAt = r.sentAt
                /\ q.attempts = k /\ q.alert = r.alert /\ q.jobs = r.jobs
  BY <1>1 DEF Note
<1> QED
  BY <1>2, <1>3, <1>4

\* A retried notification is one still: a try more, and sent if the provider took it.
LEMMA RetriedNote ==
  ASSUME TypeOK, NEW n \in Notes, retry[n] # "idle" => note[n] # NoNote
  PROVE  /\ Retried(n) \in {NoNote} \union Note
         /\ Retried(n) = NoNote <=> note[n] = NoNote
         /\ note[n] # NoNote =>
              /\ Retried(n).alert = note[n].alert /\ Retried(n).jobs = note[n].jobs
              /\ Retried(n).sentAt <=> (retry[n] = "sent" \/ note[n].sentAt)
              /\ Retried(n).status = IF retry[n] = "sent" THEN "sent" ELSE note[n].status
              /\ Retried(n).attempts = IF retry[n] \in {"sent", "failed"} THEN note[n].attempts + 1
                                                                          ELSE note[n].attempts
<1>1. CASE retry[n] \in {"sent", "failed"}
  <2>1. note[n] \in Note /\ note[n].attempts + 1 \in Nat
    BY <1>1, NoteTypes
  <2>2. CASE retry[n] = "sent"
    <3> DEFINE w1 == [note[n] EXCEPT !.status = "sent"]
               w2 == [w1 EXCEPT !.sentAt = TRUE]
               w3 == [w2 EXCEPT !.attempts = note[n].attempts + 1]
    <3>1. /\ w1 \in Note /\ w1.status = "sent" /\ w1.attempts = note[n].attempts
          /\ w1.alert = note[n].alert /\ w1.jobs = note[n].jobs
      BY <2>1, NoteColumnSet
    <3>2. /\ w2 \in Note /\ w2.status = "sent" /\ w2.sentAt = TRUE
          /\ w2.alert = note[n].alert /\ w2.jobs = note[n].jobs
      <4> HIDE DEF w1
      <4> QED BY <3>1, NoteColumnSet
    <3>3. /\ w3 \in Note /\ w3.status = "sent" /\ w3.sentAt = TRUE
          /\ w3.attempts = note[n].attempts + 1
          /\ w3.alert = note[n].alert /\ w3.jobs = note[n].jobs
      <4> HIDE DEF w2
      <4> QED BY <3>2, <2>1, NoteColumnSet
    <3>4. Retried(n) = w3
      BY <2>1, <2>2 DEF Retried
    <3>5. NoNote \notin Note
      BY DEF NoNote, Note
    <3> HIDE DEF w3
    <3> QED
      BY <3>3, <3>4, <3>5, <2>1, <2>2
  <2>3. CASE retry[n] = "failed"
    <3> DEFINE k == note[n].attempts + 1
               w == [note[n] EXCEPT !.attempts = k]
    <3>1. Retried(n) = w
      BY <2>1, <2>3 DEF Retried
    <3>2. NoNote \notin Note
      BY DEF NoNote, Note
    <3>3. /\ w \in Note /\ w.status = note[n].status /\ w.sentAt = note[n].sentAt
          /\ w.attempts = k
          /\ w.alert = note[n].alert /\ w.jobs = note[n].jobs
      <4>1. k \in Nat
        BY <2>1
      <4>2. note[n] = [status |-> note[n].status, sentAt |-> note[n].sentAt,
                       attempts |-> note[n].attempts, alert |-> note[n].alert,
                       jobs |-> note[n].jobs]
        BY <2>1 DEF Note
      <4> HIDE DEF k
      <4> QED
        BY <2>1, <4>1, <4>2 DEF Note
    <3> HIDE DEF w
    <3> QED
      BY <3>1, <3>2, <3>3, <2>1, <2>3
  <2> QED
    BY <1>1, <2>2, <2>3
<1>2. CASE retry[n] \notin {"sent", "failed"}
  <2>1. Retried(n) = note[n]
    BY <1>2 DEF Retried
  <2> QED
    BY <2>1, <1>2, NoteTypes DEF TypeOK
<1> QED
  BY <1>1, <1>2
\* The digest a commit writes as a notification.
LEMMA CommittedNote ==
  ASSUME TypeOK, NEW w \in Workers, dispatch[w].phase = "attempted"
  PROVE  LET d == dispatch[w]
             r == [status |-> IF d.sent THEN "sent" ELSE "failed", sentAt |-> d.sent,
                   attempts |-> 1, alert |-> d.alert, jobs |-> d.jobs]
         IN r \in Note /\ r # NoNote
<1>1. dispatch[w] \in Attempted
  BY TaskTypes
<1> QED
  BY <1>1 DEF Attempted, Note, NoNote

\* A state keeps its type in every step.
LEMMA TypeStep ==
  ASSUME TypeOK, ClockInv, DigestInv, NoteInv, [Next]_vars
  PROVE  TypeOK'
<1>1. ASSUME NEW t \in Txns, IngestStep(t) PROVE TypeOK'
  <2>1. CASE TxnBegin(t)
    BY <2>1 DEF TxnBegin, TypeOK
  <2>2. CASE TxnEnd(t)
    BY <2>2 DEF TxnEnd, TypeOK
  <2> QED
    BY <1>1, <2>1, <2>2 DEF IngestStep
<1>2. ASSUME NEW j \in Jobs, Relist(j) PROVE TypeOK'
  BY <1>2 DEF Relist, TypeOK
<1>3. ASSUME NEW a \in Alerts, AlertStep(a) PROVE TypeOK'
  <2>1. ASSUME NEW s \in {"active", "paused"}, SetActive(a, s) PROVE TypeOK'
    BY <2>1 DEF SetActive, TypeOK
  <2>2. CASE DeleteAlert(a)
    BY <2>2 DEF DeleteAlert, TypeOK
  <2>3. CASE BarOwner(a)
    BY <2>3 DEF BarOwner, TypeOK
  <2> QED
    BY <1>3, <2>1, <2>2, <2>3 DEF AlertStep
<1>4. ASSUME NEW n \in Notes, MarkRead(n) PROVE TypeOK'
  <2>1. note[n] \in Note
    BY <1>4, NoteTypes DEF MarkRead
  <2>2. [note[n] EXCEPT !.status = "read"] \in Note
    BY <2>1, NoteColumnSet
  <2>3. note' \in [Notes -> {NoNote} \union Note]
    BY <1>4, <2>2 DEF MarkRead, TypeOK
  <2> QED
    BY <1>4, <2>3 DEF MarkRead, TypeOK
<1>5. ASSUME NEW w \in Workers, DispatchStep(w) PROVE TypeOK'
  <2> DEFINE Tasks == {Idle} \union Listed \union Matched \union Attempted
  <2>1. CASE DispatchStart(w)
    BY <2>1 DEF DispatchStart, TypeOK, Listed
  <2>2. CASE DispatchSkip(w)
    <3>1. PICK a \in dispatch[w].todo :
            dispatch' = [dispatch EXCEPT ![w].todo = @ \ {a}]
      BY <2>2 DEF DispatchSkip
    <3>2. dispatch[w] \in Listed
      BY <2>2, TaskTypes DEF DispatchSkip
    <3>3. [dispatch[w] EXCEPT !.todo = @ \ {a}] \in Listed
      BY <3>2 DEF Listed
    <3>4. dispatch' \in [Workers -> Tasks]
      BY <3>1, <3>3 DEF TypeOK
    <3> QED
      BY <2>2, <3>4 DEF DispatchSkip, TypeOK
  <2>3. CASE DispatchMatch(w)
    <3>1. PICK a \in dispatch[w].todo : \E js \in Digest(a) \ {{}} :
            dispatch' = [dispatch EXCEPT ![w] =
              [phase |-> "matched", todo |-> dispatch[w].todo \ {a}, alert |-> a, jobs |-> js]]
      BY <2>3 DEF DispatchMatch
    <3> PICK js \in Digest(a) \ {{}} :
          dispatch' = [dispatch EXCEPT ![w] =
            [phase |-> "matched", todo |-> dispatch[w].todo \ {a}, alert |-> a, jobs |-> js]]
      BY <3>1
    <3>2. dispatch[w] \in Listed
      BY <2>3, TaskTypes DEF DispatchMatch
    <3>3. js \in SUBSET Jobs /\ a \in Alerts
      BY <3>2 DEF Digest, Fresh, Listed
    <3>4. [phase |-> "matched", todo |-> dispatch[w].todo \ {a}, alert |-> a, jobs |-> js] \in Matched
      BY <3>2, <3>3 DEF Listed, Matched
    <3>5. dispatch' \in [Workers -> Tasks]
      BY <3>1, <3>4 DEF TypeOK
    <3> QED
      BY <2>3, <3>5 DEF DispatchMatch, TypeOK
  <2>4. CASE DispatchSend(w)
    <3>1. dispatch[w] \in Matched
      BY <2>4, TaskTypes DEF DispatchSend
    <3>2. PICK o \in Outcome :
            /\ Mail(dispatch[w].alert, dispatch[w].jobs, o)
            /\ dispatch' = [dispatch EXCEPT ![w] =
                 [phase |-> "attempted", todo |-> dispatch[w].todo, alert |-> dispatch[w].alert,
                  jobs |-> dispatch[w].jobs, sent |-> o.sent]]
      BY <2>4 DEF DispatchSend
    <3>3. [phase |-> "attempted", todo |-> dispatch[w].todo, alert |-> dispatch[w].alert,
           jobs |-> dispatch[w].jobs, sent |-> o.sent] \in Attempted
      BY <3>1 DEF Matched, Attempted, Outcome
    <3>4. dispatch' \in [Workers -> Tasks]
      BY <3>2, <3>3 DEF TypeOK
    <3>5. inbox' \in [Pairs -> Nat] /\ unrecorded' \in [Pairs -> Nat]
      BY <3>1, <3>2, MailCounts DEF Matched
    <3> QED
      BY <2>4, <3>4, <3>5 DEF DispatchSend, TypeOK
  <2>5. CASE DispatchCommit(w)
    <3> DEFINE d == dispatch[w]
               r == [status |-> IF d.sent THEN "sent" ELSE "failed", sentAt |-> d.sent,
                     attempts |-> 1, alert |-> d.alert, jobs |-> d.jobs]
    <3>1. d \in Attempted
      BY <2>5, TaskTypes DEF DispatchCommit
    <3>2. r \in Note
      BY <2>5, CommittedNote DEF DispatchCommit
    <3>3. Newest(d.jobs) \in Nat
      BY <2>5, <3>1, NewestOfJobs DEF DispatchCommit, Attempted, DigestInv
    <3>4. PICK n \in Notes : note' = [note EXCEPT ![n] = r]
      BY <2>5 DEF DispatchCommit
    <3>5. note' \in [Notes -> {NoNote} \union Note]
      BY <3>2, <3>4 DEF TypeOK
    <3>6. [phase |-> "listed", todo |-> d.todo] \in Listed
      BY <3>1 DEF Attempted, Listed
    <3>7. dispatch' \in [Workers -> Tasks]
      BY <2>5, <3>6 DEF DispatchCommit, TypeOK
    <3>8. match' \subseteq Pairs
      BY <2>5, <3>1 DEF DispatchCommit, TypeOK, Attempted, Pairs
    <3>9. alert' \in [Alerts -> [state : {"active", "paused", "deleted"}, cursor : Nat,
                                 barred : BOOLEAN]]
      <4>1. alert' = [alert EXCEPT ![d.alert].cursor = Newest(d.jobs)]
        BY <2>5 DEF DispatchCommit
      <4>2. PICK c \in Nat : c = Newest(d.jobs)
        BY <3>3
      <4>3. alert' = [alert EXCEPT ![d.alert].cursor = c]
        BY <4>1, <4>2
      <4> HIDE DEF d
      <4> QED
        BY <4>3 DEF TypeOK
    <3> HIDE DEF Tasks, r
    <3> QED
      BY <2>5, <3>5, <3>7, <3>8, <3>9 DEF DispatchCommit, TypeOK, Tasks
  <2>6. CASE DispatchConflict(w) \/ DispatchCrash(w)
    <3>1. unrecorded' \in [Pairs -> Nat]
      BY <2>6, ForgetCounts DEF DispatchConflict, DispatchCrash, TypeOK
    <3>2. dispatch' \in [Workers -> Tasks]
      <4>1. CASE DispatchConflict(w)
        <5>1. dispatch[w] \in Attempted
          BY <4>1, TaskTypes DEF DispatchConflict
        <5>2. [phase |-> "listed", todo |-> dispatch[w].todo] \in Listed
          BY <5>1 DEF Attempted, Listed
        <5> QED
          BY <4>1, <5>2 DEF DispatchConflict, TypeOK
      <4>2. CASE DispatchCrash(w)
        BY <4>2 DEF DispatchCrash, TypeOK
      <4> QED
        BY <2>6, <4>1, <4>2
    <3> QED
      BY <2>6, <3>1, <3>2 DEF DispatchConflict, DispatchCrash, TypeOK
  <2>7. CASE DispatchEnd(w)
    BY <2>7 DEF DispatchEnd, TypeOK
  <2> QED
    BY <1>5, <2>1, <2>2, <2>3, <2>4, <2>5, <2>6, <2>7 DEF DispatchStep
<1>6. CASE RetryStart
  BY <1>6 DEF RetryStart, TypeOK
<1>7. CASE RetryCommit
  <2>1. \A n \in Notes : Retried(n) \in {NoNote} \union Note
    BY RetriedNote DEF NoteInv
  <2>2. note' \in [Notes -> {NoNote} \union Note]
    BY <1>7, <2>1 DEF RetryCommit
  <2> QED
    BY <1>7, <2>2 DEF RetryCommit, TypeOK
<1>8. CASE RetryCrash
  <2>1. unrecorded' \in [Pairs -> Nat]
    BY <1>8, ForgetCounts DEF RetryCrash
  <2> QED
    BY <1>8, <2>1 DEF RetryCrash, TypeOK
<1>9. ASSUME NEW n \in Notes, RetrySend(n) PROVE TypeOK'
  <2>1. PICK o \in Outcome :
          /\ Mail(note[n].alert, note[n].jobs, o)
          /\ retry' = [retry EXCEPT ![n] = IF o.sent THEN "sent" ELSE "failed"]
    BY <1>9 DEF RetrySend
  <2>2. note[n].alert \in Alerts /\ note[n].jobs \in SUBSET Jobs
    BY <1>9, NoteTypes DEF RetrySend, NoteInv
  <2>3. inbox' \in [Pairs -> Nat] /\ unrecorded' \in [Pairs -> Nat]
    BY <2>1, <2>2, MailCounts
  <2>4. retry' \in [Notes -> {"idle", "due", "sent", "failed"}]
    BY <2>1 DEF TypeOK
  <2> QED
    BY <1>9, <2>3, <2>4 DEF RetrySend, TypeOK
<1>10. CASE UNCHANGED vars
  BY <1>10 DEF vars, TypeOK
<1> QED
  BY <1>1, <1>2, <1>3, <1>4, <1>5, <1>6, <1>7, <1>8, <1>9, <1>10 DEF Next, RetryStep
-----------------------------------------------------------------------------
(* The parts of the invariant, step by step.                               *)

\* Time only advances, and what a step dates, it dates now or earlier.
LEMMA ClockStep ==
  ASSUME TypeOK, ClockInv, [Next]_vars
  PROVE  ClockInv'
<1>1. ASSUME NEW t \in Txns, IngestStep(t) PROVE ClockInv'
  <2>1. CASE TxnBegin(t)
    BY <2>1 DEF TxnBegin, TypeOK, ClockInv
  <2>2. CASE TxnEnd(t)
    BY <2>2 DEF TxnEnd, TypeOK, ClockInv
  <2> QED
    BY <1>1, <2>1, <2>2 DEF IngestStep
<1>2. ASSUME NEW j \in Jobs, Relist(j) PROVE ClockInv'
  BY <1>2 DEF Relist, TypeOK, ClockInv
<1>3. CASE now' = now /\ txn' = txn /\ job' = job
  BY <1>3 DEF ClockInv
<1> QED
  BY <1>1, <1>2, <1>3 DEF Next, vars, AlertStep, SetActive, DeleteAlert, BarOwner, MarkRead,
     DispatchStep, DispatchStart, DispatchSkip, DispatchMatch, DispatchSend, DispatchCommit,
     DispatchConflict, DispatchEnd, DispatchCrash, RetryStep, RetryStart, RetrySend, RetryCommit,
     RetryCrash

\* match_alert returns early when it finds nothing: no digest is empty.
LEMMA DigestStep ==
  ASSUME TypeOK, DigestInv, [Next]_vars
  PROVE  DigestInv'
<1>1. ASSUME NEW w \in Workers, DispatchStep(w) PROVE DigestInv'
  <2>1. CASE DispatchStart(w)
    BY <2>1 DEF DispatchStart, TypeOK, DigestInv
  <2>2. CASE DispatchSkip(w)
    <3>1. dispatch[w] \in Listed
      BY <2>2, TaskTypes DEF DispatchSkip
    <3>2. dispatch'[w].phase = "listed" /\ \A v \in Workers \ {w} : dispatch'[v] = dispatch[v]
      BY <2>2, <3>1 DEF DispatchSkip, TypeOK, Listed
    <3> QED
      BY <3>2 DEF DigestInv
  <2>3. CASE DispatchMatch(w)
    BY <2>3 DEF DispatchMatch, TypeOK, DigestInv
  <2>4. CASE DispatchSend(w)
    BY <2>4 DEF DispatchSend, TypeOK, DigestInv
  <2>5. CASE DispatchCommit(w) \/ DispatchConflict(w)
    <3>1. dispatch'[w].phase = "listed" /\ \A v \in Workers \ {w} : dispatch'[v] = dispatch[v]
      BY <2>5 DEF DispatchCommit, DispatchConflict, TypeOK
    <3> QED
      BY <3>1 DEF DigestInv
  <2>6. CASE DispatchEnd(w) \/ DispatchCrash(w)
    <3>1. dispatch'[w].phase = "idle" /\ \A v \in Workers \ {w} : dispatch'[v] = dispatch[v]
      BY <2>6 DEF DispatchEnd, DispatchCrash, Idle, TypeOK
    <3> QED
      BY <3>1 DEF DigestInv
  <2> QED
    BY <1>1, <2>1, <2>2, <2>3, <2>4, <2>5, <2>6 DEF DispatchStep
<1>2. CASE dispatch' = dispatch
  BY <1>2 DEF DigestInv
<1> QED
  BY <1>1, <1>2 DEF Next, vars, IngestStep, TxnBegin, TxnEnd, Relist, AlertStep, SetActive,
     DeleteAlert, BarOwner, MarkRead, RetryStep, RetryStart, RetrySend, RetryCommit, RetryCrash

\* What a commit that is not refused writes.
LEMMA CommitWrites ==
  ASSUME TypeOK, NEW w \in Workers, DispatchCommit(w)
  PROVE  /\ dispatch[w] \in Attempted
         /\ ~Conflicts(dispatch[w])
         /\ \E n \in Notes :
              /\ note[n] = NoNote /\ note'[n] \in Note /\ note'[n] # NoNote
              /\ note'[n].status = IF dispatch[w].sent THEN "sent" ELSE "failed"
              /\ note'[n].sentAt = dispatch[w].sent
              /\ note'[n].attempts = 1
              /\ note'[n].alert = dispatch[w].alert /\ note'[n].jobs = dispatch[w].jobs
              /\ \A m \in Notes \ {n} : note'[m] = note[m]
<1>1. dispatch[w] \in Attempted
  BY TaskTypes DEF DispatchCommit
<1> DEFINE d == dispatch[w]
           r == [status |-> IF d.sent THEN "sent" ELSE "failed", sentAt |-> d.sent,
                 attempts |-> 1, alert |-> d.alert, jobs |-> d.jobs]
<1>2. r \in Note /\ r # NoNote
  BY CommittedNote DEF DispatchCommit
<1>3. PICK n \in Notes : note[n] = NoNote /\ note' = [note EXCEPT ![n] = r]
  BY DEF DispatchCommit
<1>4. note'[n] = r /\ \A m \in Notes \ {n} : note'[m] = note[m]
  BY <1>3 DEF TypeOK
<1> QED
  BY <1>1, <1>2, <1>3, <1>4 DEF DispatchCommit

\* The bookkeeping of a notification agrees with what became of its mails.
LEMMA NoteStep ==
  ASSUME TypeOK, NoteInv, [Next]_vars
  PROVE  NoteInv'
<1>1. ASSUME NEW n \in Notes, MarkRead(n) PROVE NoteInv'
  <2>1. note[n] \in Note
    BY <1>1, NoteTypes DEF MarkRead
  <2>2. note'[n] = [note[n] EXCEPT !.status = "read"] /\ \A m \in Notes \ {n} : note'[m] = note[m]
    BY <1>1 DEF MarkRead, TypeOK
  <2>3. /\ note'[n] \in Note /\ note'[n].status = "read" /\ note'[n].sentAt = note[n].sentAt
        /\ note'[n].attempts = note[n].attempts
    <3> DEFINE q == [note[n] EXCEPT !.status = "read"]
    <3>1. /\ q \in Note /\ q.status = "read" /\ q.sentAt = note[n].sentAt
          /\ q.attempts = note[n].attempts
      BY <2>1, NoteColumnSet
    <3> HIDE DEF q
    <3> QED
      BY <2>2, <3>1 DEF q
  <2>4. note'[n] # NoNote /\ note[n] # NoNote /\ retry' = retry
    BY <1>1, <2>1, <2>3 DEF Note, NoNote, MarkRead
  <2> QED
    BY <2>2, <2>3, <2>4 DEF NoteInv
<1>2. ASSUME NEW w \in Workers, DispatchCommit(w) PROVE NoteInv'
  <2>1. PICK n \in Notes :
          /\ note[n] = NoNote /\ note'[n] # NoNote
          /\ note'[n].status = IF dispatch[w].sent THEN "sent" ELSE "failed"
          /\ note'[n].sentAt = dispatch[w].sent
          /\ note'[n].attempts = 1
          /\ \A m \in Notes \ {n} : note'[m] = note[m]
    BY <1>2, CommitWrites
  <2>2. retry' = retry
    BY <1>2 DEF DispatchCommit
  <2>3. dispatch[w].sent \in BOOLEAN
    BY <1>2, CommitWrites DEF Attempted
  <2> QED
    BY <2>1, <2>2, <2>3 DEF NoteInv
<1>3. CASE RetryStart
  BY <1>3, NoteTypes DEF RetryStart, Retriable, NoteInv, TypeOK
<1>4. CASE RetryCommit
  <2>1. ASSUME NEW n \in Notes, note[n] # NoNote
        PROVE  /\ Retried(n).attempts <= MaxAttempts
               /\ Retried(n).status = "sent" => Retried(n).sentAt
               /\ Retried(n).status = "failed" => ~Retried(n).sentAt
    BY <2>1, RetriedNote, NoteTypes DEF NoteInv
  <2>2. ASSUME NEW n \in Notes PROVE note'[n] = Retried(n) /\ retry'[n] = "idle"
    BY <1>4 DEF RetryCommit
  <2>3. \A n \in Notes : Retried(n) = NoNote <=> note[n] = NoNote
    BY RetriedNote DEF NoteInv
  <2> QED
    BY <2>1, <2>2, <2>3 DEF NoteInv
<1>5. CASE RetryCrash
  BY <1>5 DEF RetryCrash, NoteInv
<1>6. ASSUME NEW n \in Notes, RetrySend(n) PROVE NoteInv'
  BY <1>6 DEF RetrySend, NoteInv, TypeOK
<1>7. CASE note' = note /\ retry' = retry
  BY <1>7 DEF NoteInv
<1> QED
  BY <1>1, <1>2, <1>3, <1>4, <1>5, <1>6, <1>7 DEF Next, vars, IngestStep, TxnBegin, TxnEnd, Relist,
     AlertStep, SetActive, DeleteAlert, BarOwner, DispatchStep, DispatchStart, DispatchSkip,
     DispatchMatch, DispatchSend, DispatchConflict, DispatchEnd, DispatchCrash, RetryStep
\* The steps that write notifications without adding one keep what each is about.
LEMMA AboutKept ==
  ASSUME TypeOK, NoteInv, (\E n \in Notes : MarkRead(n)) \/ RetryCommit
  PROVE  \A m \in Notes, p \in Pairs : About(m, p)' <=> About(m, p)
<1>1. CASE RetryCommit
  <2>1. \A m \in Notes : note'[m] = Retried(m)
    BY <1>1 DEF RetryCommit
  <2>2. \A m \in Notes :
          /\ Retried(m) = NoNote <=> note[m] = NoNote
          /\ note[m] # NoNote => /\ Retried(m).alert = note[m].alert
                                 /\ Retried(m).jobs = note[m].jobs
    BY RetriedNote DEF NoteInv
  <2> QED
    BY <2>1, <2>2 DEF About
<1>2. ASSUME NEW n \in Notes, MarkRead(n)
      PROVE  \A m \in Notes, p \in Pairs : About(m, p)' <=> About(m, p)
  <2>1. note[n] \in Note
    BY <1>2, NoteTypes DEF MarkRead
  <2>2. note'[n] = [note[n] EXCEPT !.status = "read"] /\ \A m \in Notes \ {n} : note'[m] = note[m]
    BY <1>2 DEF MarkRead, TypeOK
  <2> DEFINE q == [note[n] EXCEPT !.status = "read"]
  <2>3. /\ q \in Note /\ q.alert = note[n].alert /\ q.jobs = note[n].jobs
    BY <2>1, NoteColumnSet
  <2>4. NoNote \notin Note
    BY DEF NoNote, Note
  <2> HIDE DEF q
  <2> QED
    BY <2>1, <2>2, <2>3, <2>4 DEF q, About
<1> QED
  BY <1>1, <1>2

\* A commit adds one notification, about the pairs of its digest.
LEMMA AboutCommitted ==
  ASSUME TypeOK, NEW w \in Workers, DispatchCommit(w), NEW n \in Notes,
         note[n] = NoNote, note'[n] # NoNote,
         note'[n].alert = dispatch[w].alert, note'[n].jobs = dispatch[w].jobs,
         \A m \in Notes \ {n} : note'[m] = note[m]
  PROVE  /\ \A m \in Notes, p \in Pairs :
              About(m, p)' <=> About(m, p) \/ (m = n /\ p \in {dispatch[w].alert} \X dispatch[w].jobs)
         /\ \A p \in Pairs : ~About(n, p)
<1>1. \A p \in Pairs : ~About(n, p)
  BY DEF About
<1>2. ASSUME NEW p \in Pairs
      PROVE  About(n, p)' <=> p \in {dispatch[w].alert} \X dispatch[w].jobs
  BY DEF About, Pairs
<1>3. ASSUME NEW p \in Pairs, NEW m \in Notes \ {n} PROVE About(m, p)' <=> About(m, p)
  BY DEF About
<1> QED
  BY <1>1, <1>2, <1>3

\* Overlapping dispatch tasks commit no job of an alert twice: the unique key of alert_matches
\* refuses the second, and for an alert that is deleted the row the commit updates is gone.
LEMMA OneDigestStep ==
  ASSUME TypeOK, NoteInv, OneDigestPerJob, [Next]_vars
  PROVE  OneDigestPerJob'
<1>1. ASSUME NEW w \in Workers, DispatchCommit(w) PROVE OneDigestPerJob'
  <2>1. PICK n \in Notes :
          /\ note[n] = NoNote /\ note'[n] # NoNote
          /\ note'[n].alert = dispatch[w].alert /\ note'[n].jobs = dispatch[w].jobs
          /\ \A m \in Notes \ {n} : note'[m] = note[m]
    BY <1>1, CommitWrites
  <2> DEFINE D == {dispatch[w].alert} \X dispatch[w].jobs
  <2>2. /\ \A m \in Notes, p \in Pairs : About(m, p)' <=> About(m, p) \/ (m = n /\ p \in D)
        /\ \A p \in Pairs : ~About(n, p)
    BY <1>1, <2>1, AboutCommitted
  <2>3. D \subseteq Pairs /\ \A p \in D : p[1] = dispatch[w].alert
    BY <1>1, CommitWrites DEF Attempted, Pairs
  <2>4. alert[dispatch[w].alert].state # "deleted" /\ match \intersect D = {}
    BY <1>1, CommitWrites DEF Conflicts
  <2>5. match' = match \union D
    BY <1>1 DEF DispatchCommit
  <2>6. \A a \in Alerts : alert'[a].state = alert[a].state
    BY <1>1 DEF DispatchCommit, TypeOK
  <2>7. \A p \in Pairs : p[1] \in Alerts
    BY DEF Pairs
  <2> HIDE DEF D
  <2>8. ASSUME NEW p \in D, NEW m \in Notes PROVE ~About(m, p)
    BY <2>3, <2>4, <2>8 DEF OneDigestPerJob
  <2>9. ASSUME NEW p \in Pairs, NEW m \in Notes, NEW k \in Notes, About(m, p)', About(k, p)'
        PROVE  m = k
    BY <2>2, <2>8, <2>9 DEF OneDigestPerJob
  <2>10. ASSUME NEW p \in Pairs, alert'[p[1]].state # "deleted"
         PROVE  p \in match' <=> \E m \in Notes : About(m, p)'
    BY <2>2, <2>5, <2>6, <2>7, <2>10 DEF OneDigestPerJob
  <2> QED
    BY <2>9, <2>10 DEF OneDigestPerJob
<1>2. ASSUME (\E n \in Notes : MarkRead(n)) \/ RetryCommit PROVE OneDigestPerJob'
  <2>1. \A m \in Notes, p \in Pairs : About(m, p)' <=> About(m, p)
    BY <1>2, AboutKept
  <2>2. alert' = alert /\ match' = match
    BY <1>2 DEF MarkRead, RetryCommit
  <2> QED
    BY <2>1, <2>2 DEF OneDigestPerJob
<1>3. ASSUME NEW a \in Alerts, AlertStep(a) PROVE OneDigestPerJob'
  <2>1. note' = note
    BY <1>3 DEF AlertStep, SetActive, DeleteAlert, BarOwner
  <2>2. \A m \in Notes, p \in Pairs : About(m, p)' <=> About(m, p)
    BY <2>1 DEF About
  <2>3. \A b \in Alerts : alert'[b].state # "deleted" => alert[b].state # "deleted"
    <3>1. ASSUME NEW s \in {"active", "paused"}, SetActive(a, s)
          PROVE  \A b \in Alerts : alert'[b].state # "deleted" => alert[b].state # "deleted"
      BY <3>1 DEF SetActive, TypeOK
    <3>2. CASE DeleteAlert(a)
      BY <3>2 DEF DeleteAlert, TypeOK
    <3>3. CASE BarOwner(a)
      BY <3>3 DEF BarOwner, TypeOK
    <3> QED
      BY <1>3, <3>1, <3>2, <3>3 DEF AlertStep
  <2>4. \A p \in Pairs : alert'[p[1]].state # "deleted" => (p \in match' <=> p \in match)
    <3>1. CASE DeleteAlert(a)
      <4>1. alert'[a].state = "deleted" /\ match' = {m \in match : m[1] # a}
        BY <3>1 DEF DeleteAlert, TypeOK
      <4> QED
        BY <4>1
    <3>2. CASE ~DeleteAlert(a)
      BY <1>3, <3>2 DEF AlertStep, SetActive, BarOwner
    <3> QED
      BY <3>1, <3>2
  <2>5. \A p \in Pairs : p[1] \in Alerts
    BY DEF Pairs
  <2> QED
    BY <2>2, <2>3, <2>4, <2>5 DEF OneDigestPerJob
<1>4. CASE note' = note /\ alert' = alert /\ match' = match
  BY <1>4 DEF OneDigestPerJob, About
<1> QED
  BY <1>1, <1>2, <1>3, <1>4 DEF Next, vars, IngestStep, TxnBegin, TxnEnd, Relist,
     DispatchStep, DispatchStart, DispatchSkip, DispatchMatch, DispatchSend, DispatchConflict,
     DispatchEnd, DispatchCrash, RetryStep, RetryStart, RetrySend, RetryCrash
-----------------------------------------------------------------------------
(* The copies of a job that reached the owner of an alert.                 *)

\* Every mail received was sent by a notification, a task or the retry that is recorded or still
\* open, or it is counted as unrecorded.
Accounted(p) ==
  inbox[p] = Cardinality(SentNotes(p)) + Cardinality(SentWorkers(p))
               + Cardinality(SentRetries(p)) + unrecorded[p]

\* The senders of a pair are finitely many, before and after a step.
LEMMA SentFinite ==
  ASSUME NEW p \in Pairs
  PROVE  /\ IsFiniteSet(SentNotes(p)) /\ Cardinality(SentNotes(p)) \in Nat
         /\ IsFiniteSet(SentWorkers(p)) /\ Cardinality(SentWorkers(p)) \in Nat
         /\ IsFiniteSet(SentRetries(p)) /\ Cardinality(SentRetries(p)) \in Nat
         /\ IsFiniteSet(SentNotes(p)') /\ IsFiniteSet(SentWorkers(p)')
         /\ IsFiniteSet(SentRetries(p)')
<1>1. /\ SentNotes(p) \in SUBSET Notes /\ SentNotes(p)' \in SUBSET Notes
      /\ SentRetries(p) \in SUBSET Notes /\ SentRetries(p)' \in SUBSET Notes
      /\ SentWorkers(p) \in SUBSET Workers /\ SentWorkers(p)' \in SUBSET Workers
  BY DEF SentNotes, SentWorkers, SentRetries
<1>2. \A S \in SUBSET Notes : IsFiniteSet(S) /\ Cardinality(S) \in Nat
  BY FS_Subset, FS_CardinalityType
<1>3. \A S \in SUBSET Workers : IsFiniteSet(S) /\ Cardinality(S) \in Nat
  BY FS_Subset, FS_CardinalityType
<1> QED
  BY <1>1, <1>2, <1>3

\* No pair is sent by two notifications, nor by two retries of one.
LEMMA SentOnce ==
  ASSUME OneDigestPerJob, NEW p \in Pairs
  PROVE  /\ Cardinality(SentNotes(p)) <= 1
         /\ Cardinality(SentRetries(p)) = IF SentRetries(p) = {} THEN 0 ELSE 1
<1>1. /\ \A m, n \in SentNotes(p) : m = n
      /\ \A m, n \in SentRetries(p) : m = n
  BY DEF OneDigestPerJob, SentNotes, SentRetries
<1>2. Cardinality(SentNotes(p)) = IF SentNotes(p) = {} THEN 0 ELSE 1
  BY <1>1, SentFinite, AtMostOne
<1>3. Cardinality(SentRetries(p)) = IF SentRetries(p) = {} THEN 0 ELSE 1
  BY <1>1, SentFinite, AtMostOne
<1> QED
  BY <1>2, <1>3

\* A task mails a digest.
LEMMA SendAccounted ==
  ASSUME TypeOK, NEW w \in Workers, DispatchSend(w), NEW p \in Pairs, Accounted(p)
  PROVE  Accounted(p)'
<1> DEFINE d == dispatch[w]
<1>1. d \in Matched
  BY TaskTypes DEF DispatchSend
<1>2. PICK o \in Outcome :
        /\ Mail(d.alert, d.jobs, o)
        /\ dispatch' = [dispatch EXCEPT ![w] =
             [phase |-> "attempted", todo |-> d.todo, alert |-> d.alert, jobs |-> d.jobs,
              sent |-> o.sent]]
  BY DEF DispatchSend
<1> DEFINE listed == p \in {d.alert} \X d.jobs
<1>3. /\ inbox'[p] = IF o.arrives /\ listed THEN inbox[p] + 1 ELSE inbox[p]
      /\ unrecorded'[p] = IF o.arrives /\ ~o.sent /\ listed THEN unrecorded[p] + 1
                                                            ELSE unrecorded[p]
  BY <1>1, <1>2, MailCounts DEF Matched
<1>4. o.sent => o.arrives
  BY DEF Outcome
<1>5. SentNotes(p)' = SentNotes(p) /\ SentRetries(p)' = SentRetries(p)
  BY DEF DispatchSend, SentNotes, SentRetries, About
<1>6. w \notin SentWorkers(p)
  BY DEF DispatchSend, SentWorkers
<1>7. listed <=> d.alert = p[1] /\ p[2] \in d.jobs
  BY DEF Pairs
<1>8. /\ dispatch'[w].phase = "attempted" /\ dispatch'[w].sent = o.sent
      /\ dispatch'[w].alert = d.alert /\ dispatch'[w].jobs = d.jobs
      /\ \A v \in Workers \ {w} : dispatch'[v] = dispatch[v]
  BY <1>2 DEF TypeOK
<1> HIDE DEF d, listed
<1>9. SentWorkers(p)' = IF o.sent /\ listed THEN SentWorkers(p) \union {w} ELSE SentWorkers(p)
  BY <1>6, <1>7, <1>8 DEF SentWorkers
<1>10. Cardinality(SentWorkers(p)') = IF o.sent /\ listed THEN Cardinality(SentWorkers(p)) + 1
                                                          ELSE Cardinality(SentWorkers(p))
  BY <1>6, <1>9, SentFinite, FS_AddElement
<1> QED
  BY <1>3, <1>4, <1>5, <1>10, SentFinite DEF Accounted, TypeOK

\* What a task that leaves the attempted phase had sent.
LEMMA SenderLeaves ==
  ASSUME TypeOK, NEW w \in Workers, dispatch[w].phase = "attempted", NEW p \in Pairs,
         dispatch'[w].phase # "attempted", \A v \in Workers \ {w} : dispatch'[v] = dispatch[v]
  PROVE  Cardinality(SentWorkers(p)') =
           IF dispatch[w].sent /\ p \in {dispatch[w].alert} \X dispatch[w].jobs
           THEN Cardinality(SentWorkers(p)) - 1 ELSE Cardinality(SentWorkers(p))
<1>1. w \in SentWorkers(p) <=> dispatch[w].sent /\ p \in {dispatch[w].alert} \X dispatch[w].jobs
  BY DEF SentWorkers, Pairs
<1>2. SentWorkers(p)' = SentWorkers(p) \ {w}
  BY DEF SentWorkers
<1> QED
  BY <1>1, <1>2, SentFinite, FS_RemoveElement

\* A commit records what its task sent; a rollback leaves it unrecorded.
LEMMA AttemptAccounted ==
  ASSUME TypeOK, NoteInv, NEW w \in Workers, dispatch[w].phase = "attempted",
         DispatchCommit(w) \/ DispatchConflict(w) \/ DispatchCrash(w),
         NEW p \in Pairs, Accounted(p)
  PROVE  Accounted(p)'
<1> DEFINE d == dispatch[w]
           listed == d.sent /\ p \in {d.alert} \X d.jobs
<1>1. dispatch'[w].phase # "attempted" /\ \A v \in Workers \ {w} : dispatch'[v] = dispatch[v]
  BY DEF TypeOK, DispatchCommit, DispatchConflict, DispatchCrash, Idle
<1>2. Cardinality(SentWorkers(p)') = IF listed THEN Cardinality(SentWorkers(p)) - 1
                                               ELSE Cardinality(SentWorkers(p))
  BY <1>1, SenderLeaves
<1>3. inbox' = inbox /\ retry' = retry
  BY DEF DispatchCommit, DispatchConflict, DispatchCrash
<1>4. CASE DispatchCommit(w)
  <2>1. PICK n \in Notes :
          /\ note[n] = NoNote /\ note'[n] # NoNote
          /\ note'[n].sentAt = d.sent
          /\ note'[n].alert = d.alert /\ note'[n].jobs = d.jobs
          /\ \A m \in Notes \ {n} : note'[m] = note[m]
    BY <1>4, CommitWrites
  <2>2. /\ \A m \in Notes : About(m, p)' <=> About(m, p) \/ (m = n /\ p \in {d.alert} \X d.jobs)
        /\ ~About(n, p)
    BY <1>4, <2>1, AboutCommitted
  <2>3. retry[n] = "idle"
    BY <2>1 DEF NoteInv
  <2>4. SentRetries(p)' = SentRetries(p)
    BY <1>3, <2>2, <2>3 DEF SentRetries
  <2>5. SentNotes(p)' = IF listed THEN SentNotes(p) \union {n} ELSE SentNotes(p)
    BY <2>1, <2>2 DEF SentNotes
  <2>6. n \notin SentNotes(p)
    BY <2>2 DEF SentNotes
  <2> HIDE DEF d, listed
  <2>7. Cardinality(SentNotes(p)') = IF listed THEN Cardinality(SentNotes(p)) + 1
                                               ELSE Cardinality(SentNotes(p))
    BY <2>5, <2>6, SentFinite, FS_AddElement
  <2>8. unrecorded' = unrecorded
    BY <1>4 DEF DispatchCommit
  <2> QED
    BY <1>2, <1>3, <2>4, <2>7, <2>8, SentFinite DEF Accounted, TypeOK
<1>5. CASE DispatchConflict(w) \/ DispatchCrash(w)
  <2>1. SentNotes(p)' = SentNotes(p) /\ SentRetries(p)' = SentRetries(p)
    BY <1>5 DEF DispatchConflict, DispatchCrash, SentNotes, SentRetries, About
  <2>2. unrecorded'[p] = IF listed THEN unrecorded[p] + 1 ELSE unrecorded[p]
    BY <1>5, ForgetCounts DEF DispatchConflict, DispatchCrash
  <2> HIDE DEF d, listed
  <2> QED
    BY <1>2, <1>3, <2>1, <2>2, SentFinite DEF Accounted, TypeOK
<1> QED
  BY <1>4, <1>5
\* The retry task mails a notification again.
LEMMA RetrySendAccounted ==
  ASSUME TypeOK, NoteInv, NEW n \in Notes, RetrySend(n), NEW p \in Pairs, Accounted(p)
  PROVE  Accounted(p)'
<1>1. PICK o \in Outcome :
        /\ Mail(note[n].alert, note[n].jobs, o)
        /\ retry' = [retry EXCEPT ![n] = IF o.sent THEN "sent" ELSE "failed"]
  BY DEF RetrySend
<1>2. note[n] # NoNote /\ note[n].alert \in Alerts /\ note[n].jobs \in SUBSET Jobs
  BY NoteTypes DEF RetrySend, NoteInv
<1> DEFINE listed == p \in {note[n].alert} \X note[n].jobs
<1>3. /\ inbox'[p] = IF o.arrives /\ listed THEN inbox[p] + 1 ELSE inbox[p]
      /\ unrecorded'[p] = IF o.arrives /\ ~o.sent /\ listed THEN unrecorded[p] + 1
                                                            ELSE unrecorded[p]
  BY <1>1, <1>2, MailCounts
<1>4. o.sent => o.arrives
  BY DEF Outcome
<1>5. SentNotes(p)' = SentNotes(p) /\ SentWorkers(p)' = SentWorkers(p)
  BY DEF RetrySend, SentNotes, SentWorkers, About
<1>6. listed <=> About(n, p)
  BY <1>2 DEF About, Pairs
<1>7. /\ retry[n] = "due" /\ note' = note
      /\ retry'[n] = IF o.sent THEN "sent" ELSE "failed"
      /\ \A m \in Notes \ {n} : retry'[m] = retry[m]
  BY <1>1 DEF RetrySend, TypeOK
<1> HIDE DEF listed
<1>8. SentRetries(p)' = IF o.sent /\ listed THEN SentRetries(p) \union {n} ELSE SentRetries(p)
  BY <1>6, <1>7 DEF SentRetries, About
<1>9. n \notin SentRetries(p)
  BY <1>7 DEF SentRetries
<1>10. Cardinality(SentRetries(p)') = IF o.sent /\ listed THEN Cardinality(SentRetries(p)) + 1
                                                          ELSE Cardinality(SentRetries(p))
  BY <1>8, <1>9, SentFinite, FS_AddElement
<1> QED
  BY <1>3, <1>4, <1>5, <1>10, SentFinite DEF Accounted, TypeOK

\* The commit of the retry task records what it sent: none of them was recorded before.
LEMMA RetryCommitAccounted ==
  ASSUME TypeOK, NoteInv, RetryCommit, NEW p \in Pairs, Accounted(p)
  PROVE  Accounted(p)'
<1>1. ASSUME NEW n \in Notes
      PROVE  /\ note[n] # NoNote => (note'[n].sentAt <=> retry[n] = "sent" \/ note[n].sentAt)
             /\ About(n, p)' <=> About(n, p)
             /\ retry'[n] = "idle"
  BY RetriedNote, AboutKept DEF RetryCommit, NoteInv
<1>2. SentNotes(p)' = SentNotes(p) \union SentRetries(p)
  BY <1>1 DEF SentNotes, SentRetries, About
<1>3. SentNotes(p) \intersect SentRetries(p) = {}
  BY DEF SentNotes, SentRetries, NoteInv
<1>4. Cardinality(SentNotes(p)') = Cardinality(SentNotes(p)) + Cardinality(SentRetries(p))
  <2> DEFINE A == SentNotes(p)
             B == SentRetries(p)
  <2>1. IsFiniteSet(A) /\ Cardinality(A) \in Nat /\ IsFiniteSet(B) /\ Cardinality(B) \in Nat
    BY SentFinite
  <2>2. A \intersect B = {} /\ Cardinality({}) = 0
    BY <1>3, FS_EmptySet
  <2> HIDE DEF A, B
  <2>3. Cardinality(A \union B) = Cardinality(A) + Cardinality(B) - Cardinality(A \intersect B)
    BY <2>1, FS_Union
  <2>4. Cardinality(A \union B) = Cardinality(A) + Cardinality(B)
    BY <2>1, <2>2, <2>3
  <2> QED
    BY <1>2, <2>4 DEF A, B
<1>5. SentRetries(p)' = {} /\ Cardinality(SentRetries(p)') = 0
  BY <1>1, FS_EmptySet DEF SentRetries
<1>6. SentWorkers(p)' = SentWorkers(p) /\ inbox' = inbox /\ unrecorded' = unrecorded
  BY DEF RetryCommit, SentWorkers
<1> QED
  BY <1>4, <1>5, <1>6, SentFinite DEF Accounted, TypeOK

\* The retry task dies: nothing records what it sent.
LEMMA RetryCrashAccounted ==
  ASSUME TypeOK, NoteInv, OneDigestPerJob, RetryCrash, NEW p \in Pairs, Accounted(p)
  PROVE  Accounted(p)'
<1> DEFINE S == UNION {{note[n].alert} \X note[n].jobs : n \in {m \in Notes : retry[m] = "sent"}}
<1>1. p \in S <=> SentRetries(p) # {}
  BY DEF SentRetries, About, NoteInv, Pairs
<1>2. unrecorded'[p] = IF p \in S THEN unrecorded[p] + 1 ELSE unrecorded[p]
  BY ForgetCounts DEF RetryCrash
<1>3. SentRetries(p)' = {} /\ Cardinality(SentRetries(p)') = 0
  BY FS_EmptySet DEF RetryCrash, SentRetries
<1>4. SentWorkers(p)' = SentWorkers(p) /\ SentNotes(p)' = SentNotes(p) /\ inbox' = inbox
  BY DEF RetryCrash, SentWorkers, SentNotes, About
<1>5. Cardinality(SentRetries(p)) = IF SentRetries(p) = {} THEN 0 ELSE 1
  BY SentOnce
<1> HIDE DEF S
<1> QED
  BY <1>1, <1>2, <1>3, <1>4, <1>5, SentFinite DEF Accounted, TypeOK

\* The other steps of a dispatch task send nothing and forget nothing.
LEMMA OtherTaskStep ==
  ASSUME TypeOK, NEW w \in Workers, NEW p \in Pairs,
         DispatchStart(w) \/ DispatchSkip(w) \/ DispatchMatch(w) \/ DispatchEnd(w)
           \/ (DispatchCrash(w) /\ dispatch[w].phase # "attempted"),
         Accounted(p)
  PROVE  Accounted(p)'
<1>1. dispatch[w].phase # "attempted" /\ \A v \in Workers \ {w} : dispatch'[v] = dispatch[v]
  BY DEF TypeOK, Idle, DispatchStart, DispatchSkip, DispatchMatch, DispatchEnd, DispatchCrash
<1>2. dispatch'[w].phase # "attempted"
  <2>1. CASE DispatchSkip(w)
    <3>1. dispatch[w] \in Listed
      BY <2>1, TaskTypes DEF DispatchSkip
    <3> QED
      BY <2>1, <3>1 DEF DispatchSkip, TypeOK, Listed
  <2>2. CASE ~DispatchSkip(w)
    BY <2>2 DEF TypeOK, Idle, DispatchStart, DispatchMatch, DispatchEnd, DispatchCrash
  <2> QED
    BY <2>1, <2>2
<1>3. SentWorkers(p)' = SentWorkers(p)
  BY <1>1, <1>2 DEF SentWorkers
<1>4. note' = note /\ retry' = retry /\ inbox' = inbox /\ unrecorded' = unrecorded
  BY <1>1 DEF DispatchStart, DispatchSkip, DispatchMatch, DispatchEnd, DispatchCrash
<1>5. SentNotes(p)' = SentNotes(p) /\ SentRetries(p)' = SentRetries(p)
  BY <1>4 DEF SentNotes, SentRetries, About
<1> QED
  BY <1>3, <1>4, <1>5 DEF Accounted

\* Every step keeps the account of every pair.
LEMMA AccountedStep ==
  ASSUME TypeOK, NoteInv, OneDigestPerJob, [Next]_vars, NEW p \in Pairs, Accounted(p)
  PROVE  Accounted(p)'
<1>1. ASSUME NEW w \in Workers, DispatchStep(w) PROVE Accounted(p)'
  <2>1. CASE DispatchSend(w)
    BY <2>1, SendAccounted
  <2>2. CASE dispatch[w].phase = "attempted"
             /\ (DispatchCommit(w) \/ DispatchConflict(w) \/ DispatchCrash(w))
    BY <2>2, AttemptAccounted
  <2>3. CASE DispatchStart(w) \/ DispatchSkip(w) \/ DispatchMatch(w) \/ DispatchEnd(w)
               \/ (DispatchCrash(w) /\ dispatch[w].phase # "attempted")
    BY <2>3, OtherTaskStep
  <2>4. DispatchCommit(w) \/ DispatchConflict(w) => dispatch[w].phase = "attempted"
    BY DEF DispatchCommit, DispatchConflict
  <2> QED
    BY <1>1, <2>1, <2>2, <2>3, <2>4 DEF DispatchStep
<1>2. ASSUME NEW n \in Notes, RetrySend(n) PROVE Accounted(p)'
  BY <1>2, RetrySendAccounted
<1>3. CASE RetryCommit
  BY <1>3, RetryCommitAccounted
<1>4. CASE RetryCrash
  BY <1>4, RetryCrashAccounted
<1>5. CASE RetryStart
  <2>1. SentRetries(p)' = SentRetries(p)
    BY <1>5 DEF RetryStart, SentRetries
  <2>2. SentWorkers(p)' = SentWorkers(p) /\ SentNotes(p)' = SentNotes(p)
    BY <1>5 DEF RetryStart, SentWorkers, SentNotes, About
  <2> QED
    BY <1>5, <2>1, <2>2 DEF RetryStart, Accounted
<1>6. ASSUME NEW n \in Notes, MarkRead(n) PROVE Accounted(p)'
  <2>1. \A m \in Notes : About(m, p)' <=> About(m, p)
    BY <1>6, AboutKept
  <2>2. note[n] \in Note
    BY <1>6, NoteTypes DEF MarkRead
  <2>3. note'[n] = [note[n] EXCEPT !.status = "read"] /\ \A m \in Notes \ {n} : note'[m] = note[m]
    BY <1>6 DEF MarkRead, TypeOK
  <2>4. note'[n].sentAt = note[n].sentAt
    BY <2>2, <2>3 DEF Note
  <2>5. SentNotes(p)' = SentNotes(p)
    BY <2>1, <2>3, <2>4 DEF SentNotes
  <2>6. SentRetries(p)' = SentRetries(p) /\ SentWorkers(p)' = SentWorkers(p)
    BY <1>6, <2>1 DEF MarkRead, SentRetries, SentWorkers
  <2> QED
    BY <1>6, <2>5, <2>6 DEF MarkRead, Accounted
<1>7. CASE UNCHANGED <<note, dispatch, retry, inbox, unrecorded>>
  BY <1>7 DEF Accounted, SentNotes, SentWorkers, SentRetries, About
<1> QED
  BY <1>1, <1>2, <1>3, <1>4, <1>5, <1>6, <1>7 DEF Next, vars, IngestStep, TxnBegin, TxnEnd,
     Relist, AlertStep, SetActive, DeleteAlert, BarOwner, RetryStep

-----------------------------------------------------------------------------
(* Theorems.                                                               *)

\* What is inductive.
DispatchInv ==
  /\ ClockInv
  /\ DigestInv
  /\ NoteInv
  /\ OneDigestPerJob
  /\ \A p \in Pairs : Accounted(p)

\* The invariant holds initially.
LEMMA DispatchInit == Init => TypeOK /\ DispatchInv
<1> SUFFICES ASSUME Init PROVE TypeOK /\ DispatchInv
  OBVIOUS
<1>1. TypeOK
  BY DEF Init, TypeOK
<1>2. ClockInv /\ DigestInv /\ NoteInv
  BY DEF Init, ClockInv, DigestInv, NoteInv, NoNote, Idle
<1>3. OneDigestPerJob
  BY DEF Init, OneDigestPerJob, About
<1>4. ASSUME NEW p \in Pairs PROVE Accounted(p)
  <2>1. SentNotes(p) = {} /\ SentWorkers(p) = {} /\ SentRetries(p) = {}
    BY DEF Init, SentNotes, SentWorkers, SentRetries, About, Idle
  <2> QED
    BY <2>1, FS_EmptySet DEF Init, Accounted
<1> QED
  BY <1>1, <1>2, <1>3, <1>4 DEF DispatchInv

\* And at all times.
THEOREM DispatchInvariant == Spec => [](TypeOK /\ DispatchInv)
<1>1. TypeOK /\ DispatchInv /\ [Next]_vars => (TypeOK /\ DispatchInv)'
  <2> SUFFICES ASSUME TypeOK, DispatchInv, [Next]_vars PROVE (TypeOK /\ DispatchInv)'
    OBVIOUS
  <2>1. TypeOK' /\ ClockInv' /\ DigestInv' /\ NoteInv' /\ OneDigestPerJob'
    BY TypeStep, ClockStep, DigestStep, NoteStep, OneDigestStep DEF DispatchInv
  <2>2. ASSUME NEW p \in Pairs PROVE Accounted(p)'
    BY AccountedStep DEF DispatchInv
  <2>3. (\A p \in Pairs : Accounted(p))'
    BY <2>2 DEF Pairs
  <2> QED
    BY <2>1, <2>3 DEF DispatchInv
<1> QED
  BY <1>1, DispatchInit, PTL DEF Spec

\* Every variable of the dispatch keeps its type.
THEOREM DispatchTyped == Spec => []TypeOK
  BY DispatchInvariant, PTL

\* No job of an alert is in two committed digests, and alert_matches holds what they list.
THEOREM DigestsAreDisjoint == Spec => []OneDigestPerJob
<1>1. DispatchInv => OneDigestPerJob
  BY DEF DispatchInv
<1> QED
  BY <1>1, DispatchInvariant, PTL

\* Every copy of a job that reached the owner of an alert is recorded once, is of a transaction
\* still open, or was lost to a crash, a conflict or an answer that did not come.
THEOREM CopiesAreAccounted == Spec => []CopiesAccounted
<1>1. DispatchInv => CopiesAccounted
  BY SentOnce DEF DispatchInv, CopiesAccounted, Accounted
<1> QED
  BY <1>1, DispatchInvariant, PTL

\* No notification is tried more than MaxAttempts times, and no retry is of one that was sent.
THEOREM RetriesAreBounded == Spec => []RetriesEnd
<1>1. DispatchInv => RetriesEnd
  BY DEF DispatchInv, NoteInv, RetriesEnd
<1> QED
  BY <1>1, DispatchInvariant, PTL
===============================================================================
