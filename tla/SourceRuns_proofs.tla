------------------------- MODULE SourceRuns_proofs --------------------------
(***************************************************************************)
(* Proofs about SourceRuns, for every set of sources, postings and workers *)
(* and every threshold.                                                    *)
(***************************************************************************)
EXTENDS SourceRuns, FiniteSetTheorems, TLAPS

USE SourceAssumption

-----------------------------------------------------------------------------
(* Types.                                                                  *)

\* The columns of a source's health.
LEMMA HealthColumns ==
  ASSUME NEW h \in Health
  PROVE  /\ h.status \in SourceStatus
         /\ h.last \in Nat /\ h.failures \in Nat /\ h.total \in Nat /\ h.collected \in Nat
  BY DEF Health

\* A flush of two rows that are healths is one.
LEMMA FlushType ==
  ASSUME NEW current \in Health, NEW old \in Health, NEW new,
         new.status \in SourceStatus, new.last \in Nat, new.failures \in Nat,
         new.total \in Nat, new.collected \in Nat
  PROVE  Flush(current, old, new) \in Health
  BY HealthColumns DEF Flush, Column, Health

\* What the three ends of a run write.
LEMMA Written ==
  ASSUME NEW old \in Health, NEW st \in SourceStatus, NEW la \in Nat, NEW fa \in Nat, NEW co \in Nat
  PROVE  /\ LET new == [old EXCEPT !.status = st, !.last = la, !.total = @ + 1]
            IN /\ new.status = st /\ new.last = la /\ new.total = old.total + 1
               /\ new.failures = old.failures /\ new.collected = old.collected
         /\ LET new == [old EXCEPT !.status = st, !.last = la, !.total = @ + 1, !.failures = fa]
            IN /\ new.status = st /\ new.last = la /\ new.total = old.total + 1
               /\ new.failures = fa /\ new.collected = old.collected
         /\ LET new == [old EXCEPT !.status = st, !.last = la, !.total = @ + 1, !.failures = fa,
                                   !.collected = @ + co]
            IN /\ new.status = st /\ new.last = la /\ new.total = old.total + 1
               /\ new.failures = fa /\ new.collected = old.collected + co
<1>1. /\ old = [status |-> old.status, last |-> old.last, failures |-> old.failures,
                total |-> old.total, collected |-> old.collected]
      /\ old.total \in Nat /\ old.collected \in Nat
  BY DEF Health
<1> QED
  BY <1>1
\* What a task in each of its phases remembers.
LEMMA TaskTypes ==
  ASSUME TypeOK, NEW w \in Workers
  PROVE  /\ task[w].phase = "fetching" => task[w] \in Fetching
         /\ task[w].phase = "persisting" => task[w] \in Persisting
         /\ task[w].phase \in {"idle", "fetching", "persisting"}
         /\ task[w].phase = "idle" <=> task[w] = Idle
         /\ task[w] # Idle => /\ task[w].msg \in Message /\ task[w].msg.source \in Sources
                              /\ task[w].old \in Health
  BY DEF TypeOK, Idle, Fetching, Persisting, Message

\* The health a run of worker w writes back, of a status st, fa failures and co collected jobs.
WritesBack(w, st, fa, co) ==
  LET s == task[w].msg.source
      h == source[s].health
      old == task[w].old
  IN /\ source' \in [Sources -> Source]
     /\ source'[s].health.status = Column(h.status, old.status, st)
     /\ source'[s].health.failures = Column(h.failures, old.failures, fa)
     /\ source'[s].health.total = Column(h.total, old.total, old.total + 1)
     /\ source'[s].health.collected = Column(h.collected, old.collected, co)
     /\ \A x \in Sources \ {s} : source'[x] = source[x]

\* What an update of the health of a source leaves.
LEMMA HealthWritten ==
  ASSUME TypeOK, NEW w \in Workers, task[w] # Idle, NEW new,
         new.status \in SourceStatus, new.last \in Nat, new.failures \in Nat,
         new.total = task[w].old.total + 1, new.collected \in Nat,
         source' = [source EXCEPT ![task[w].msg.source].health = Flush(@, task[w].old, new)]
  PROVE  WritesBack(w, new.status, new.failures, new.collected)
<1> DEFINE s == task[w].msg.source
           h == source[s].health
           f == Flush(h, task[w].old, new)
<1>1. s \in Sources /\ task[w].old \in Health /\ h \in Health /\ source[s] \in Source
  BY TaskTypes DEF TypeOK, Source
<1>2. new.total \in Nat
  BY <1>1, HealthColumns
<1>3. f \in Health
  BY <1>1, <1>2, FlushType
<1>4. source' = [source EXCEPT ![s].health = f]
  OBVIOUS
<1>5. source'[s].health = f /\ \A x \in Sources \ {s} : source'[x] = source[x]
  <2> HIDE DEF f
  <2> QED BY <1>1, <1>4 DEF TypeOK, Source
<1>6. source' \in [Sources -> Source]
  <2> HIDE DEF f
  <2> QED BY <1>1, <1>3, <1>4 DEF TypeOK, Source
<1>7. /\ f.status = Column(h.status, task[w].old.status, new.status)
      /\ f.failures = Column(h.failures, task[w].old.failures, new.failures)
      /\ f.total = Column(h.total, task[w].old.total, new.total)
      /\ f.collected = Column(h.collected, task[w].old.collected, new.collected)
  BY DEF Flush
<1> HIDE DEF f
<1> QED
  BY <1>5, <1>6, <1>7 DEF WritesBack

\* The failed status of a source is a status.
LEMMA FailedStatusType ==
  ASSUME NEW st \in SourceStatus, NEW n \in Nat
  PROVE  FailedStatus(st, n) \in SourceStatus
  BY DEF FailedStatus, SourceStatus

\* What each end of a run writes.
LEMMA EndsWrite ==
  ASSUME TypeOK, NEW w \in Workers
  PROVE  LET old == task[w].old
         IN /\ Unconfigured(w) => WritesBack(w, "needs_credentials", old.failures, old.collected)
            /\ \A r \in BOOLEAN : FetchFailed(w, r) =>
                 WritesBack(w, FailedStatus(old.status, old.failures + 1), old.failures + 1,
                            old.collected)
            /\ Finish(w) =>
                 WritesBack(w, IF task[w].partial THEN "degraded" ELSE "healthy", 0,
                            old.collected + task[w].created)
<1> DEFINE old == task[w].old
<1>1. ASSUME Unconfigured(w) PROVE WritesBack(w, "needs_credentials", old.failures, old.collected)
  <2> DEFINE new == [old EXCEPT !.status = "needs_credentials", !.last = now, !.total = @ + 1]
  <2>1. task[w] # Idle /\ old \in Health /\ now \in Nat
    BY <1>1, TaskTypes DEF Unconfigured, Idle, TypeOK
  <2>2. "needs_credentials" \in SourceStatus
    BY DEF SourceStatus
  <2>3. /\ new.status = "needs_credentials" /\ new.last = now /\ new.total = old.total + 1
        /\ new.failures = old.failures /\ new.collected = old.collected
    BY <2>1, <2>2, Written
  <2>4. source' = [source EXCEPT ![task[w].msg.source].health = Flush(@, task[w].old, new)]
    BY <1>1 DEF Unconfigured
  <2> HIDE DEF new
  <2>5. WritesBack(w, new.status, new.failures, new.collected)
    BY <2>1, <2>2, <2>3, <2>4, HealthColumns, HealthWritten
  <2> QED
    BY <2>3, <2>5
<1>2. ASSUME NEW r \in BOOLEAN, FetchFailed(w, r)
      PROVE  WritesBack(w, FailedStatus(old.status, old.failures + 1), old.failures + 1,
                        old.collected)
  <2> DEFINE st == FailedStatus(old.status, old.failures + 1)
             fa == old.failures + 1
             new == [old EXCEPT !.status = st, !.last = now, !.total = @ + 1, !.failures = fa]
  <2>1. task[w] # Idle /\ old \in Health /\ now \in Nat
    BY <1>2, TaskTypes DEF FetchFailed, Idle, TypeOK
  <2>2. st \in SourceStatus /\ fa \in Nat
    BY <2>1, HealthColumns, FailedStatusType
  <2>3. source' = [source EXCEPT ![task[w].msg.source].health = Flush(@, task[w].old, new)]
    BY <1>2 DEF FetchFailed
  <2> HIDE DEF st, fa
  <2>4. /\ new.status = st /\ new.last = now /\ new.total = old.total + 1
        /\ new.failures = fa /\ new.collected = old.collected
    BY <2>1, <2>2, Written
  <2> HIDE DEF new
  <2>5. WritesBack(w, new.status, new.failures, new.collected)
    BY <2>1, <2>2, <2>3, <2>4, HealthColumns, HealthWritten
  <2> QED
    BY <2>4, <2>5 DEF st, fa
<1>3. ASSUME Finish(w)
      PROVE  WritesBack(w, IF task[w].partial THEN "degraded" ELSE "healthy", 0,
                        old.collected + task[w].created)
  <2> DEFINE st == IF task[w].partial THEN "degraded" ELSE "healthy"
             co == task[w].created
             new == [old EXCEPT !.status = st, !.last = now, !.total = @ + 1, !.failures = 0,
                                !.collected = @ + co]
  <2>1. task[w] # Idle /\ old \in Health /\ now \in Nat
    BY <1>3, TaskTypes DEF Finish, Idle, TypeOK
  <2>2. st \in SourceStatus /\ co \in Nat
    BY <1>3, TaskTypes DEF Finish, SourceStatus, Persisting
  <2>3. source' = [source EXCEPT ![task[w].msg.source].health = Flush(@, task[w].old, new)]
    BY <1>3 DEF Finish
  <2> HIDE DEF st, co
  <2>4. /\ new.status = st /\ new.last = now /\ new.total = old.total + 1
        /\ new.failures = 0 /\ new.collected = old.collected + co
    BY <2>1, <2>2, Written
  <2> HIDE DEF new
  <2>5. old.collected + co \in Nat
    BY <2>1, <2>2, HealthColumns
  <2>6. WritesBack(w, new.status, new.failures, new.collected)
    <3>1. /\ new.status \in SourceStatus /\ new.last \in Nat /\ new.failures \in Nat
          /\ new.collected \in Nat /\ new.total = task[w].old.total + 1
      BY <2>1, <2>2, <2>4, <2>5
    <3> HIDE DEF old
    <3> QED
      BY <2>1, <2>3, <3>1, HealthWritten
  <2> QED
    BY <2>4, <2>6 DEF st, co
<1> QED
  BY <1>1, <1>2, <1>3
\* The message of a task, delivered once more.
LEMMA EnqueueType ==
  ASSUME TypeOK, NEW m \in Message, Enqueue(m)
  PROVE  queue' \in [Message -> Nat]
  BY DEF TypeOK, Enqueue

\* A message is taken off the queue only where there is a copy of it.
LEMMA DeliverType ==
  ASSUME TypeOK, NEW m \in Message, Deliver(m)
  PROVE  queue' \in [Message -> Nat]
  BY DEF TypeOK, Deliver

\* A run is counted in source_runs.
LEMMA RunsType ==
  ASSUME TypeOK, NEW s \in Sources
  PROVE  [runs EXCEPT ![s] = @ + 1] \in [Sources -> Nat]
  BY DEF TypeOK

\* The columns of a task that is persisting.
LEMMA PersistingColumns ==
  ASSUME NEW t \in Persisting
  PROVE  /\ t = [phase |-> "persisting", msg |-> t.msg, old |-> t.old, tracked |-> t.tracked,
                 todo |-> t.todo, added |-> t.added, done |-> t.done, created |-> t.created,
                 partial |-> t.partial]
         /\ t.msg \in Message /\ t.old \in Health /\ t.tracked \in BOOLEAN /\ t.partial \in BOOLEAN
         /\ t.todo \in SUBSET Postings /\ t.added \in SUBSET Postings /\ t.done \in SUBSET Postings
         /\ t.created \in Nat
  BY DEF Persisting

\* A persisted posting is a row flushed, and counted, if it was not one already.
LEMMA PersistWrites ==
  ASSUME TypeOK, NEW w \in Workers, NEW p \in Postings, Persist(w, p)
  PROVE  /\ task' \in [Workers -> {Idle} \union Fetching \union Persisting]
         /\ \A v \in Workers \ {w} : task'[v] = task[v]
         /\ task'[w] \in Persisting
         /\ task'[w].msg = task[w].msg /\ task'[w].old = task[w].old
         /\ \/ task'[w].added = task[w].added /\ task'[w].created = task[w].created
            \/ /\ task'[w].added = task[w].added \union {p}
               /\ task'[w].created = task[w].created + 1
         /\ task'[w].tracked = task[w].tracked /\ task'[w].done = task[w].done \union {p}
         /\ <<task[w].msg.source, p>> \in rows \/ p \in task'[w].added
<1> DEFINE t == task[w]
<1>1. t \in Persisting
  BY TaskTypes DEF Persist, PersistFails
<1>2. /\ t = [phase |-> "persisting", msg |-> t.msg, old |-> t.old, tracked |-> t.tracked,
              todo |-> t.todo, added |-> t.added, done |-> t.done, created |-> t.created,
              partial |-> t.partial]
      /\ t.msg \in Message /\ t.old \in Health /\ t.tracked \in BOOLEAN /\ t.partial \in BOOLEAN
      /\ t.todo \in SUBSET Postings /\ t.added \in SUBSET Postings /\ t.done \in SUBSET Postings
      /\ t.created \in Nat
  BY <1>1, PersistingColumns
<1> DEFINE exists == <<t.msg.source, p>> \in rows \/ p \in t.added
           a == IF exists THEN t.added ELSE t.added \union {p}
           c == IF exists THEN t.created ELSE t.created + 1
           u == [phase |-> "persisting", msg |-> t.msg, old |-> t.old, tracked |-> t.tracked,
                 todo |-> t.todo \ {p}, added |-> a, done |-> t.done \union {p}, created |-> c,
                 partial |-> t.partial]
<1>3. a \in SUBSET Postings /\ c \in Nat
  BY <1>2
<1>4. u \in Persisting
  BY <1>2, <1>3 DEF Persisting
<1>5. task'[w] = u /\ \A v \in Workers \ {w} : task'[v] = task[v]
  BY <1>2, ZenonT(60) DEF Persist, TypeOK
<1>6. task' \in [Workers -> {Idle} \union Fetching \union Persisting]
  BY <1>4, <1>5 DEF Persist, TypeOK
<1> QED
  BY <1>4, <1>5, <1>6

\* A rollback in the middle of a run: the rows it flushed are gone, its count of them is not.
LEMMA PersistFailsWrites ==
  ASSUME TypeOK, NEW w \in Workers, NEW p \in Postings, PersistFails(w, p)
  PROVE  /\ task' \in [Workers -> {Idle} \union Fetching \union Persisting]
         /\ \A v \in Workers \ {w} : task'[v] = task[v]
         /\ task'[w] \in Persisting
         /\ task'[w].msg = task[w].msg
         /\ task'[w].old = source[task[w].msg.source].health
         /\ task'[w].added = {} /\ task'[w].created = task[w].created
         /\ task'[w].tracked = FALSE
<1> DEFINE t == task[w]
           h == source[t.msg.source].health
<1>1. t \in Persisting /\ h \in Health
  BY TaskTypes DEF PersistFails, TypeOK, Source, Idle
<1>2. /\ t = [phase |-> "persisting", msg |-> t.msg, old |-> t.old, tracked |-> t.tracked,
              todo |-> t.todo, added |-> t.added, done |-> t.done, created |-> t.created,
              partial |-> t.partial]
      /\ t.msg \in Message /\ t.old \in Health /\ t.tracked \in BOOLEAN /\ t.partial \in BOOLEAN
      /\ t.todo \in SUBSET Postings /\ t.added \in SUBSET Postings /\ t.done \in SUBSET Postings
      /\ t.created \in Nat
  BY <1>1, PersistingColumns
<1> DEFINE u == [phase |-> "persisting", msg |-> t.msg, old |-> h, tracked |-> FALSE,
                 todo |-> t.todo \ {p}, added |-> {}, done |-> t.done, created |-> t.created,
                 partial |-> t.partial]
<1>3. u \in Persisting
  BY <1>1, <1>2 DEF Persisting
<1>4. task'[w] = u /\ \A v \in Workers \ {w} : task'[v] = task[v]
  BY <1>2 DEF PersistFails, TypeOK
<1>5. task' \in [Workers -> {Idle} \union Fetching \union Persisting]
  BY <1>3, <1>4 DEF PersistFails, TypeOK
<1> QED
  BY <1>3, <1>4, <1>5
\* What enabling or disabling a source writes.
LEMMA EnabledWrites ==
  ASSUME TypeOK, NEW s \in Sources, NEW e \in BOOLEAN, SetEnabled(s, e)
  PROVE  LET h == source[s].health
             k == source'[s].health
         IN /\ source' \in [Sources -> Source]
            /\ k.status = (IF e THEN "unknown" ELSE "disabled")
            /\ k.failures = (IF e THEN 0 ELSE h.failures)
            /\ k.total = h.total /\ k.collected = h.collected
            /\ \A x \in Sources \ {s} : source'[x] = source[x]
<1> DEFINE h == source[s].health
           st == IF e THEN "unknown" ELSE "disabled"
           fa == IF e THEN 0 ELSE h.failures
           g == [status |-> st, last |-> h.last, failures |-> fa, total |-> h.total,
                 collected |-> h.collected]
           r == [enabled |-> e, health |-> g]
<1>1. /\ source[s] = [enabled |-> source[s].enabled, health |-> h]
      /\ h = [status |-> h.status, last |-> h.last, failures |-> h.failures, total |-> h.total,
              collected |-> h.collected]
      /\ h \in Health
  BY DEF TypeOK, Source, Health
<1>2. st \in SourceStatus /\ fa \in Nat
  BY <1>1, HealthColumns DEF SourceStatus
<1>3. r \in Source
  BY <1>1, <1>2, HealthColumns DEF Source, Health
<1>4. source'[s] = r /\ \A x \in Sources \ {s} : source'[x] = source[x]
  BY <1>1 DEF SetEnabled, TypeOK
<1>5. source' \in [Sources -> Source]
  BY <1>3, <1>4 DEF SetEnabled, TypeOK
<1> QED
  BY <1>4, <1>5

\* A state keeps its type in every step.
LEMMA TypeStep ==
  ASSUME TypeOK, [Next]_vars
  PROVE  TypeOK'
<1> DEFINE Tasks == {Idle} \union Fetching \union Persisting
<1>1. CASE Tick
  BY <1>1 DEF Tick, TypeOK
<1>2. ASSUME NEW s \in Sources, Schedule(s) \/ RunSource(s) PROVE TypeOK'
  <2>1. /\ [source |-> s, trigger |-> "scheduler", attempt |-> 1] \in Message
        /\ [source |-> s, trigger |-> "admin", attempt |-> 1] \in Message
    BY DEF Message
  <2>2. queue' \in [Message -> Nat]
    BY <1>2, <2>1, EnqueueType DEF Schedule, RunSource
  <2> QED
    BY <1>2, <2>2 DEF Schedule, RunSource, TypeOK
<1>3. ASSUME NEW s \in Sources, NEW e \in BOOLEAN, SetEnabled(s, e) PROVE TypeOK'
  <2>1. source' \in [Sources -> Source]
    BY <1>3, EnabledWrites
  <2> QED
    BY <1>3, <2>1 DEF SetEnabled, TypeOK
<1>4. ASSUME NEW w \in Workers, TaskStep(w) PROVE TypeOK'
  <2>1. ASSUME NEW m \in Message, TaskSkip(w, m) PROVE TypeOK'
    <3>1. queue' \in [Message -> Nat]
      BY <2>1, DeliverType DEF TaskSkip
    <3> QED
      BY <2>1, <3>1 DEF TaskSkip, TypeOK
  <2>2. ASSUME NEW m \in Message, TaskStart(w, m) PROVE TypeOK'
    <3>1. queue' \in [Message -> Nat]
      BY <2>2, DeliverType DEF TaskStart
    <3>2. source[m.source].health \in Health
      BY DEF Message, TypeOK, Source
    <3>3. [phase |-> "fetching", msg |-> m, old |-> source[m.source].health] \in Fetching
      BY <3>2 DEF Fetching
    <3>4. task' \in [Workers -> Tasks]
      BY <2>2, <3>3 DEF TaskStart, TypeOK
    <3> QED
      BY <2>2, <3>1, <3>4 DEF TaskStart, TypeOK
  <2>3. ASSUME Unconfigured(w) \/ Finish(w) PROVE TypeOK'
    <3>1. task[w] # Idle /\ task[w].msg.source \in Sources
      BY <2>3, TaskTypes DEF Unconfigured, Finish, Idle
    <3>2. source' \in [Sources -> Source]
      BY <2>3, EndsWrite DEF WritesBack
    <3>3. runs' \in [Sources -> Nat]
      BY <2>3, <3>1, RunsType DEF Unconfigured, Finish, TypeOK
    <3>4. task' \in [Workers -> Tasks]
      BY <2>3 DEF Unconfigured, Finish, TypeOK
    <3>5. rows' \subseteq Sources \X Postings
      <4>1. CASE Finish(w)
        <5>1. task[w].added \in SUBSET Postings
          BY <4>1, TaskTypes, PersistingColumns DEF Finish
        <5> QED
          BY <4>1, <5>1, <3>1 DEF Finish, TypeOK
      <4>2. CASE Unconfigured(w)
        BY <4>2 DEF Unconfigured, TypeOK
      <4> QED
        BY <2>3, <4>1, <4>2
    <3> QED
      BY <2>3, <3>2, <3>3, <3>4, <3>5 DEF Unconfigured, Finish, TypeOK
  <2>4. ASSUME NEW r \in BOOLEAN, FetchFailed(w, r) PROVE TypeOK'
    <3>1. task[w] # Idle /\ task[w].msg.source \in Sources /\ task[w].msg \in Message
      BY <2>4, TaskTypes DEF FetchFailed, Idle
    <3>2. source' \in [Sources -> Source]
      BY <2>4, EndsWrite DEF WritesBack
    <3>3. runs' \in [Sources -> Nat]
      BY <2>4, <3>1, RunsType DEF FetchFailed
    <3>4. task' \in [Workers -> Tasks]
      BY <2>4 DEF FetchFailed, TypeOK
    <3>5. queue' \in [Message -> Nat]
      <4>1. CASE r /\ task[w].msg.attempt <= MaxRetries
        <5> DEFINE m == task[w].msg
        <5>1. /\ m = [source |-> m.source, trigger |-> m.trigger, attempt |-> m.attempt]
              /\ m.attempt \in 1..(MaxRetries + 1) /\ m.trigger \in {"scheduler", "admin"}
          BY <3>1 DEF Message
        <5>2. [m EXCEPT !.attempt = @ + 1] =
                [source |-> m.source, trigger |-> m.trigger, attempt |-> m.attempt + 1]
          BY <5>1
        <5>3. m.attempt + 1 \in 1..(MaxRetries + 1)
          BY <4>1, <5>1
        <5>4. [m EXCEPT !.attempt = @ + 1] \in Message
          BY <3>1, <5>1, <5>2, <5>3 DEF Message
        <5> QED
          BY <2>4, <4>1, <5>4, EnqueueType DEF FetchFailed
      <4>2. CASE ~(r /\ task[w].msg.attempt <= MaxRetries)
        BY <2>4, <4>2 DEF FetchFailed, TypeOK
      <4> QED
        BY <4>1, <4>2
    <3> QED
      BY <2>4, <3>2, <3>3, <3>4, <3>5 DEF FetchFailed, TypeOK
  <2>5. CASE FetchDone(w)
    <3>1. task[w].msg \in Message /\ task[w].old \in Health
      BY <2>5, TaskTypes DEF FetchDone, Idle
    <3>2. PICK todo \in SUBSET Postings, partial \in BOOLEAN :
            task' = [task EXCEPT ![w] =
              [phase |-> "persisting", msg |-> task[w].msg, old |-> task[w].old, tracked |-> TRUE,
               todo |-> todo, added |-> {}, done |-> {}, created |-> 0, partial |-> partial]]
      BY <2>5 DEF FetchDone
    <3>3. [phase |-> "persisting", msg |-> task[w].msg, old |-> task[w].old, tracked |-> TRUE,
           todo |-> todo, added |-> {}, done |-> {}, created |-> 0, partial |-> partial]
             \in Persisting
      BY <3>1 DEF Persisting
    <3>4. task' \in [Workers -> Tasks]
      BY <3>2, <3>3 DEF TypeOK
    <3> QED
      BY <2>5, <3>4 DEF FetchDone, TypeOK
  <2>6. ASSUME NEW p \in Postings, Persist(w, p) PROVE TypeOK'
    BY <2>6, PersistWrites DEF Persist, TypeOK
  <2>7. ASSUME NEW p \in Postings, PersistFails(w, p) PROVE TypeOK'
    BY <2>7, PersistFailsWrites DEF PersistFails, TypeOK
  <2>8. CASE Crash(w)
    <3>1. task[w].msg \in Message
      BY <2>8, TaskTypes DEF Crash
    <3>2. queue' \in [Message -> Nat]
      BY <2>8, <3>1, EnqueueType DEF Crash, TypeOK
    <3> QED
      BY <2>8, <3>2 DEF Crash, TypeOK
  <2> QED
    BY <1>4, <2>1, <2>2, <2>3, <2>4, <2>5, <2>6, <2>7, <2>8 DEF TaskStep
<1>5. CASE UNCHANGED vars
  BY <1>5 DEF vars, TypeOK
<1> QED
  BY <1>1, <1>2, <1>3, <1>4, <1>5 DEF Next
-----------------------------------------------------------------------------
(* Runs of a source one after another.  Nothing in the code keeps two runs *)
(* of one source apart, and with two the columns of health are those of    *)
(* different runs: the rest holds of the executions in which none overlap. *)

\* No two tasks in flight are of the same source.
NoOverlap ==
  \A v, w \in Workers :
    task[v] # Idle /\ task[w] # Idle /\ task[v].msg.source = task[w].msg.source => v = w

\* A health that has reached the threshold is not good.
NotGood(h) == h.failures >= FailingAfter => h.status \notin {"healthy", "degraded"}

\* What a session remembers of the health of a source is what the row holds, but for an
\* administrator.
Remembers(old, h) ==
  /\ NotGood(old)
  /\ h.failures \in {0, old.failures}
  /\ h.status \in {old.status, "unknown", "disabled"}
  /\ h.total = old.total /\ h.collected = old.collected

\* So it is for every run.
RunInv ==
  \A w \in Workers : task[w] # Idle =>
    Remembers(task[w].old, source[task[w].msg.source].health)

\* The rows a run has flushed and not committed are no more than it counts.
AddedInv ==
  \A w \in Workers : task[w].phase = "persisting" =>
    IsFiniteSet(task[w].added) /\ Cardinality(task[w].added) <= task[w].created

\* The rows of a source.
RowsOf(s) == {r \in rows : r[1] = s}

\* The invariant.
HealthInv ==
  /\ FailingIsShown
  /\ CountersCover
  /\ RunInv
  /\ AddedInv
  /\ IsFiniteSet(rows)

\* The end of a run leaves the others of other sources as they were.
LEMMA EndKeepsRuns ==
  ASSUME TypeOK, RunInv, AddedInv, NoOverlap, NEW w \in Workers, task[w] # Idle,
         task'[w] = Idle, \A v \in Workers \ {w} : task'[v] = task[v],
         \A x \in Sources \ {task[w].msg.source} : source'[x] = source[x]
  PROVE  RunInv' /\ AddedInv'
<1>1. AddedInv'
  BY DEF AddedInv, Idle
<1>2. ASSUME NEW v \in Workers, task'[v] # Idle
      PROVE  /\ v # w /\ task'[v] = task[v] /\ task[v].msg.source \in Sources
             /\ source'[task[v].msg.source] = source[task[v].msg.source]
  BY <1>2, TaskTypes DEF NoOverlap
<1>3. RunInv'
  BY <1>2 DEF RunInv
<1> QED
  BY <1>1, <1>3

\* A run that starts, goes on or reads its source again remembers what the row holds.
LEMMA GoingOnKeepsRuns ==
  ASSUME RunInv, FailingIsShown, source' = source,
         \A v \in Workers : task'[v] # Idle =>
           \/ /\ task'[v].msg.source \in Sources
              /\ task'[v].old = source[task'[v].msg.source].health
           \/ task[v] # Idle /\ task'[v].msg = task[v].msg /\ task'[v].old = task[v].old
  PROVE  RunInv'
<1> SUFFICES ASSUME NEW v \in Workers, task'[v] # Idle
             PROVE  Remembers(task'[v].old, source[task'[v].msg.source].health)
  BY DEF RunInv
<1>1. CASE /\ task'[v].msg.source \in Sources
           /\ task'[v].old = source[task'[v].msg.source].health
  BY <1>1 DEF FailingIsShown, Remembers, NotGood
<1>2. CASE task[v] # Idle /\ task'[v].msg = task[v].msg /\ task'[v].old = task[v].old
  BY <1>2 DEF RunInv
<1> QED
  BY <1>1, <1>2

\* The counter of failures and the status a run writes agree, whatever an administrator wrote.
LEMMA EndIsShown ==
  ASSUME TypeOK, RunInv, NEW w \in Workers, task[w] # Idle,
         NEW st, NEW fa \in Nat, NEW co, WritesBack(w, st, fa, co),
         LET old == task[w].old
         IN \/ fa = 0
            \/ st = "needs_credentials" /\ fa = old.failures
            \/ st = FailedStatus(old.status, fa) /\ fa = old.failures + 1
  PROVE  NotGood(source'[task[w].msg.source].health)
<1> DEFINE h == source[task[w].msg.source].health
           old == task[w].old
           k == source'[task[w].msg.source].health
<1>1. /\ k.status = IF st # old.status THEN st ELSE h.status
      /\ k.failures = IF fa # old.failures THEN fa ELSE h.failures
  BY DEF WritesBack, Column
<1>2. /\ NotGood(old) /\ h.failures \in {0, old.failures}
      /\ h.status \in {old.status, "unknown", "disabled"}
      /\ old.failures \in Nat
  BY TaskTypes, HealthColumns DEF RunInv, Remembers
<1>3. old = task[w].old /\ k = source'[task[w].msg.source].health
  OBVIOUS
<1> HIDE DEF h, k, old
<1>4. ASSUME fa = 0 PROVE NotGood(k)
  BY <1>1, <1>2, <1>4 DEF NotGood
<1>5. ASSUME st = "needs_credentials", fa = old.failures PROVE NotGood(k)
  BY <1>1, <1>2, <1>5 DEF NotGood
<1>6. ASSUME st = FailedStatus(old.status, fa), fa = old.failures + 1 PROVE NotGood(k)
  <2>1. k.failures = fa /\ (fa >= FailingAfter => st = "failing")
    BY <1>1, <1>2, <1>6 DEF FailedStatus
  <2>2. fa >= FailingAfter => k.status \in {"failing", "unknown", "disabled"}
    BY <1>1, <1>2, <2>1
  <2> QED
    BY <2>1, <2>2 DEF NotGood
<1> QED
  BY <1>4, <1>5, <1>6, <1>3
\* An end of a run that counts itself, and at least the jobs it adds, keeps the invariant.
LEMMA EndStep ==
  ASSUME TypeOK, HealthInv, NoOverlap, NEW w \in Workers, task[w] # Idle,
         NEW s, s = task[w].msg.source,
         NEW st, NEW fa \in Nat, NEW co \in Nat, WritesBack(w, st, fa, co),
         LET old == task[w].old
         IN \/ fa = 0
            \/ st = "needs_credentials" /\ fa = old.failures
            \/ st = FailedStatus(old.status, fa) /\ fa = old.failures + 1,
         task'[w] = Idle, \A v \in Workers \ {w} : task'[v] = task[v],
         IsFiniteSet(rows'),
         runs'[s] \in {runs[s], runs[s] + 1},
         Cardinality(RowsOf(s)') <= co,
         \A x \in Sources \ {s} : runs'[x] = runs[x] /\ RowsOf(x)' = RowsOf(x)
  PROVE  HealthInv'
<1> DEFINE h == source[s].health
           old == task[w].old
<1>1. s \in Sources /\ old \in Health /\ h \in Health
  BY TaskTypes DEF TypeOK, Source
<1>2. NotGood(source'[s].health)
  BY EndIsShown DEF HealthInv
<1>3. h.total = old.total /\ h.collected = old.collected
  BY DEF HealthInv, RunInv, Remembers
<1>4. source'[s].health.total = old.total + 1 /\ source'[s].health.collected = co
  <2>1. old.total \in Nat
    BY <1>1, HealthColumns
  <2> QED
    BY <1>3, <2>1 DEF WritesBack, Column
<1>5. source'[s].health.total >= runs'[s]
  <2>1. h.total >= runs[s] /\ h.total \in Nat /\ runs[s] \in Nat
    BY <1>1, HealthColumns DEF HealthInv, CountersCover, TypeOK
  <2> QED
    BY <1>3, <1>4, <2>1
<1>6. source'[s].health.collected >= Cardinality(RowsOf(s)')
  <2>1. Cardinality(RowsOf(s)') \in Nat
    <3>1. RowsOf(s)' \subseteq rows'
      BY DEF RowsOf
    <3> QED
      BY <3>1, FS_Subset, FS_CardinalityType
  <2> QED
    BY <1>4, <2>1
<1>7. RunInv' /\ AddedInv'
  BY EndKeepsRuns DEF HealthInv, WritesBack
<1>8. FailingIsShown'
  <2>1. \A x \in Sources \ {s} : source'[x] = source[x]
    BY DEF WritesBack
  <2> QED
    BY <1>2, <2>1 DEF FailingIsShown, NotGood, HealthInv
<1>9. CountersCover'
  <2>1. ASSUME NEW x \in Sources \ {s}
        PROVE  /\ source'[x].health.total >= runs'[x]
               /\ source'[x].health.collected >= Cardinality(RowsOf(x)')
    <3>1. source'[x] = source[x] /\ runs'[x] = runs[x] /\ RowsOf(x)' = RowsOf(x)
      BY DEF WritesBack
    <3>2. source[x].health.total >= runs[x] /\ source[x].health.collected >= Cardinality(RowsOf(x))
      BY DEF HealthInv, CountersCover, RowsOf
    <3> QED
      BY <3>1, <3>2
  <2>2. \A x \in Sources : /\ source'[x].health.total >= runs'[x]
                           /\ source'[x].health.collected >= Cardinality(RowsOf(x)')
    BY <1>5, <1>6, <2>1
  <2> QED
    BY <2>2 DEF CountersCover, RowsOf
<1> QED
  BY <1>7, <1>8, <1>9 DEF HealthInv

\* The rows of a source are finitely many.
LEMMA RowsFinite ==
  ASSUME IsFiniteSet(rows), NEW s
  PROVE  IsFiniteSet(RowsOf(s)) /\ Cardinality(RowsOf(s)) \in Nat
<1>1. RowsOf(s) \subseteq rows
  BY DEF RowsOf
<1> QED
  BY <1>1, FS_Subset, FS_CardinalityType

\* What the commit of a run adds to the rows of its source.
LEMMA FinishRows ==
  ASSUME TypeOK, HealthInv, NEW w \in Workers, Finish(w), NEW s, s = task[w].msg.source
  PROVE  /\ IsFiniteSet(rows')
         /\ Cardinality(RowsOf(s)') <= Cardinality(RowsOf(s)) + task[w].created
         /\ \A x \in Sources \ {s} : RowsOf(x)' = RowsOf(x)
<1> DEFINE A == task[w].added
           N == {s} \X A
<1>1. /\ IsFiniteSet(A) /\ Cardinality(A) <= task[w].created /\ Cardinality(A) \in Nat
      /\ task[w].created \in Nat
  BY TaskTypes, PersistingColumns, FS_CardinalityType DEF Finish, HealthInv, AddedInv
<1>2. IsFiniteSet({s}) /\ Cardinality({s}) = 1
  BY FS_Singleton
<1>3. IsFiniteSet(N) /\ Cardinality(N) = Cardinality(A)
  <2> HIDE DEF A
  <2>1. IsFiniteSet(N) /\ Cardinality(N) = Cardinality({s}) * Cardinality(A)
    BY <1>1, <1>2, FS_Product
  <2> QED
    BY <1>1, <1>2, <2>1
<1>4. rows' = rows \union N
  BY DEF Finish
<1>5. \A r \in N : r[1] = s
  OBVIOUS
<1>6. RowsOf(s)' = RowsOf(s) \union N /\ \A x \in Sources \ {s} : RowsOf(x)' = RowsOf(x)
  <2> HIDE DEF N
  <2> QED BY <1>4, <1>5 DEF RowsOf
<1> HIDE DEF N
<1>7. IsFiniteSet(rows')
  BY <1>3, <1>4, FS_Union DEF HealthInv
<1>8. IsFiniteSet(RowsOf(s)) /\ Cardinality(RowsOf(s)) \in Nat
  BY RowsFinite DEF HealthInv
<1>9. Cardinality(RowsOf(s) \union N) <= Cardinality(RowsOf(s)) + Cardinality(N)
  <2> DEFINE R == RowsOf(s)
  <2>1. IsFiniteSet(R) /\ Cardinality(R) \in Nat /\ Cardinality(N) \in Nat
    BY <1>1, <1>3, <1>8
  <2> HIDE DEF R
  <2>2. Cardinality(R \union N) = Cardinality(R) + Cardinality(N) - Cardinality(R \intersect N)
    BY <1>3, <2>1, FS_Union
  <2>3. Cardinality(R \intersect N) \in Nat
    BY <2>1, FS_Intersection, FS_CardinalityType
  <2>4. Cardinality(R \union N) <= Cardinality(R) + Cardinality(N)
    BY <2>1, <2>2, <2>3
  <2> QED
    BY <2>4 DEF R
<1>10. Cardinality(RowsOf(s)') <= Cardinality(RowsOf(s)) + task[w].created
  <2> DEFINE c == Cardinality(RowsOf(s))
             n == Cardinality(N)
             k == task[w].created
             t == Cardinality(RowsOf(s) \union N)
  <2>1. c \in Nat /\ n \in Nat /\ k \in Nat /\ n <= k /\ t <= c + n
    BY <1>1, <1>3, <1>8, <1>9
  <2>2. t \in Nat
    BY <1>3, <1>8, FS_Union, FS_CardinalityType
  <2>3. Cardinality(RowsOf(s)') = t
    BY <1>6
  <2> HIDE DEF c, n, k, t
  <2>4. t <= c + k
    BY <2>1, <2>2
  <2> QED
    BY <2>3, <2>4 DEF c, k
<1> QED
  BY <1>6, <1>7, <1>10
\* Every step from a state in which no runs overlap keeps the invariant.
LEMMA HealthStep ==
  ASSUME TypeOK, HealthInv, NoOverlap, [Next]_vars
  PROVE  HealthInv'
<1>1. CASE source' = source /\ rows' = rows /\ runs' = runs /\ task' = task
  BY <1>1 DEF HealthInv, FailingIsShown, CountersCover, RunInv, AddedInv
<1>2. ASSUME NEW s \in Sources, NEW e \in BOOLEAN, SetEnabled(s, e) PROVE HealthInv'
  <2>1. /\ source'[s].health.status \in {"unknown", "disabled"}
        /\ source'[s].health.failures \in {0, source[s].health.failures}
        /\ source'[s].health.total = source[s].health.total
        /\ source'[s].health.collected = source[s].health.collected
        /\ \A x \in Sources \ {s} : source'[x] = source[x]
    BY <1>2, EnabledWrites
  <2>2. rows' = rows /\ runs' = runs /\ task' = task
    BY <1>2 DEF SetEnabled
  <2>3. FailingIsShown'
    BY <2>1 DEF HealthInv, FailingIsShown
  <2>4. CountersCover'
    BY <2>1, <2>2 DEF HealthInv, CountersCover
  <2>5. RunInv'
    <3>1. \A w \in Workers : task[w] # Idle => task[w].msg.source \in Sources
      BY TaskTypes
    <3>2. ASSUME NEW w \in Workers, task[w] # Idle
          PROVE  Remembers(task[w].old, source'[task[w].msg.source].health)
      <4>1. Remembers(task[w].old, source[task[w].msg.source].health)
        BY <3>2 DEF HealthInv, RunInv
      <4>2. CASE task[w].msg.source = s
        BY <2>1, <4>1, <4>2 DEF Remembers
      <4>3. CASE task[w].msg.source # s
        BY <2>1, <3>1, <3>2, <4>1, <4>3
      <4> QED
        BY <4>2, <4>3
    <3> QED
      BY <2>2, <3>2 DEF RunInv
  <2>6. AddedInv' /\ IsFiniteSet(rows')
    BY <2>2 DEF HealthInv, AddedInv
  <2> QED
    BY <2>3, <2>4, <2>5, <2>6 DEF HealthInv
<1>3. ASSUME NEW w \in Workers, NEW m \in Message, TaskStart(w, m) PROVE HealthInv'
  <2>1. /\ task'[w] = [phase |-> "fetching", msg |-> m, old |-> source[m.source].health]
        /\ \A v \in Workers \ {w} : task'[v] = task[v]
        /\ source' = source /\ rows' = rows /\ runs' = runs
    BY <1>3 DEF TaskStart, TypeOK
  <2>2. m.source \in Sources
    BY DEF Message
  <2>3. RunInv'
    BY <2>1, <2>2, GoingOnKeepsRuns DEF HealthInv
  <2>4. AddedInv'
    BY <2>1 DEF HealthInv, AddedInv
  <2>5. FailingIsShown' /\ CountersCover' /\ IsFiniteSet(rows')
    BY <2>1 DEF HealthInv, FailingIsShown, CountersCover
  <2> QED
    BY <2>3, <2>4, <2>5 DEF HealthInv
<1>4. ASSUME NEW w \in Workers, FetchDone(w) PROVE HealthInv'
  <2>1. PICK todo \in SUBSET Postings, partial \in BOOLEAN :
          task' = [task EXCEPT ![w] =
            [phase |-> "persisting", msg |-> task[w].msg, old |-> task[w].old, tracked |-> TRUE,
             todo |-> todo, added |-> {}, done |-> {}, created |-> 0, partial |-> partial]]
    BY <1>4 DEF FetchDone
  <2>2. /\ task'[w].msg = task[w].msg /\ task'[w].old = task[w].old
        /\ task'[w].added = {} /\ task'[w].created = 0
        /\ \A v \in Workers \ {w} : task'[v] = task[v]
    BY <2>1 DEF TypeOK
  <2>3. task[w] # Idle /\ source' = source /\ rows' = rows /\ runs' = runs
    BY <1>4 DEF FetchDone, Idle
  <2>4. RunInv'
    BY <2>2, <2>3, GoingOnKeepsRuns DEF HealthInv
  <2>5. AddedInv'
    <3>1. IsFiniteSet(task'[w].added) /\ Cardinality(task'[w].added) <= task'[w].created
      BY <2>2, FS_EmptySet
    <3> QED
      BY <2>2, <3>1 DEF HealthInv, AddedInv
  <2>6. FailingIsShown' /\ CountersCover' /\ IsFiniteSet(rows')
    BY <2>3 DEF HealthInv, FailingIsShown, CountersCover
  <2> QED
    BY <2>4, <2>5, <2>6 DEF HealthInv
<1>5. ASSUME NEW w \in Workers, NEW p \in Postings, Persist(w, p) \/ PersistFails(w, p)
      PROVE  HealthInv'
  <2>1. /\ task[w].phase = "persisting" /\ task[w] # Idle /\ task[w] \in Persisting
        /\ task[w].msg.source \in Sources
        /\ source' = source /\ rows' = rows /\ runs' = runs
    BY <1>5, TaskTypes DEF Persist, PersistFails, Idle
  <2>2. task'[w].msg = task[w].msg /\ \A v \in Workers \ {w} : task'[v] = task[v]
    BY <1>5, PersistWrites, PersistFailsWrites
  <2>3. /\ IsFiniteSet(task[w].added) /\ Cardinality(task[w].added) <= task[w].created
        /\ Cardinality(task[w].added) \in Nat /\ task[w].created \in Nat
    BY <2>1, PersistingColumns, FS_CardinalityType DEF HealthInv, AddedInv
  <2>4. IsFiniteSet(task'[w].added) /\ Cardinality(task'[w].added) <= task'[w].created
    <3>1. CASE Persist(w, p)
      <4>1. CASE task'[w].added = task[w].added /\ task'[w].created = task[w].created
        BY <4>1, <2>3
      <4>2. CASE /\ task'[w].added = task[w].added \union {p}
                 /\ task'[w].created = task[w].created + 1
        <5> DEFINE A == task[w].added
        <5>1. /\ IsFiniteSet(A \union {p})
              /\ Cardinality(A \union {p}) = IF p \in A THEN Cardinality(A) ELSE Cardinality(A) + 1
          <6>1. IsFiniteSet(A)
            BY <2>3
          <6> HIDE DEF A
          <6> QED BY <6>1, FS_AddElement
        <5> QED
          BY <2>3, <4>2, <5>1
      <4> QED
        BY <3>1, <4>1, <4>2, PersistWrites
    <3>2. CASE PersistFails(w, p)
      <4>1. task'[w].added = {} /\ task'[w].created = task[w].created
        BY <3>2, PersistFailsWrites
      <4> QED
        BY <2>3, <4>1, FS_EmptySet
    <3> QED
      BY <1>5, <3>1, <3>2
  <2>5. AddedInv'
    BY <2>2, <2>4 DEF HealthInv, AddedInv
  <2>6. RunInv'
    <3>1. task'[w].old \in {task[w].old, source[task[w].msg.source].health}
      BY <1>5, PersistWrites, PersistFailsWrites
    <3> QED
      BY <2>1, <2>2, <3>1, GoingOnKeepsRuns DEF HealthInv
  <2>7. FailingIsShown' /\ CountersCover' /\ IsFiniteSet(rows')
    BY <2>1 DEF HealthInv, FailingIsShown, CountersCover
  <2> QED
    BY <2>5, <2>6, <2>7 DEF HealthInv
<1>6. ASSUME NEW w \in Workers, NEW r \in BOOLEAN, Unconfigured(w) \/ FetchFailed(w, r)
      PROVE  HealthInv'
  <2> DEFINE s == task[w].msg.source
             old == task[w].old
  <2>1. /\ task[w] # Idle /\ s \in Sources /\ old.failures \in Nat /\ old.collected \in Nat
        /\ rows' = rows
    BY <1>6, TaskTypes, HealthColumns DEF Unconfigured, FetchFailed, Idle
  <2>2. task'[w] = Idle /\ \A v \in Workers \ {w} : task'[v] = task[v]
    BY <1>6 DEF Unconfigured, FetchFailed, TypeOK
  <2>3. runs'[s] \in {runs[s], runs[s] + 1} /\ \A x \in Sources \ {s} : runs'[x] = runs[x]
    BY <1>6, <2>1 DEF Unconfigured, FetchFailed, TypeOK
  <2>4. PICK x \in Sources : x = s
    BY <2>1
  <2>5. /\ Cardinality(RowsOf(x)') <= old.collected
        /\ \A y \in Sources \ {x} : RowsOf(y)' = RowsOf(y)
        /\ IsFiniteSet(rows')
    BY <2>1, <2>4 DEF HealthInv, RunInv, Remembers, CountersCover, RowsOf
  <2>6. CASE Unconfigured(w)
    <3>1. WritesBack(w, "needs_credentials", old.failures, old.collected)
      BY <2>6, EndsWrite
    <3> QED
      BY <2>1, <2>2, <2>3, <2>4, <2>5, <3>1, EndStep
  <2>7. CASE FetchFailed(w, r)
    <3>1. WritesBack(w, FailedStatus(old.status, old.failures + 1), old.failures + 1,
                     old.collected)
      BY <2>7, EndsWrite
    <3>2. old.failures + 1 \in Nat
      BY <2>1
    <3> QED
      BY <2>1, <2>2, <2>3, <2>4, <2>5, <3>1, <3>2, EndStep
  <2> QED
    BY <1>6, <2>6, <2>7
<1>7. ASSUME NEW w \in Workers, Finish(w) PROVE HealthInv'
  <2> DEFINE s == task[w].msg.source
             old == task[w].old
             co == old.collected + task[w].created
  <2>1. /\ task[w] # Idle /\ s \in Sources /\ old.collected \in Nat /\ task[w].created \in Nat
    BY <1>7, TaskTypes, HealthColumns, PersistingColumns DEF Finish, Idle
  <2>2. task'[w] = Idle /\ \A v \in Workers \ {w} : task'[v] = task[v]
    BY <1>7 DEF Finish, TypeOK
  <2>3. runs'[s] \in {runs[s], runs[s] + 1} /\ \A x \in Sources \ {s} : runs'[x] = runs[x]
    BY <1>7, <2>1 DEF Finish, TypeOK
  <2>4. PICK x \in Sources : x = s
    BY <2>1
  <2>5. /\ IsFiniteSet(rows')
        /\ Cardinality(RowsOf(x)') <= Cardinality(RowsOf(x)) + task[w].created
        /\ \A y \in Sources \ {x} : RowsOf(y)' = RowsOf(y)
    BY <1>7, <2>4, FinishRows
  <2>6. Cardinality(RowsOf(x)) <= old.collected /\ Cardinality(RowsOf(x)) \in Nat
    BY <2>1, <2>4, RowsFinite DEF HealthInv, RunInv, Remembers, CountersCover, RowsOf
  <2>7. Cardinality(RowsOf(x)') \in Nat
    <3>1. RowsOf(x)' \subseteq rows'
      BY DEF RowsOf
    <3> QED
      BY <2>5, <3>1, FS_Subset, FS_CardinalityType
  <2>8. Cardinality(RowsOf(x)') <= co /\ co \in Nat
    BY <2>1, <2>5, <2>6, <2>7
  <2>9. WritesBack(w, IF task[w].partial THEN "degraded" ELSE "healthy", 0, co)
    BY <1>7, EndsWrite
  <2> HIDE DEF co
  <2> QED
    BY <2>1, <2>2, <2>3, <2>4, <2>5, <2>8, <2>9, EndStep
<1>8. ASSUME NEW w \in Workers, Crash(w) PROVE HealthInv'
  <2>1. task'[w] = Idle /\ \A v \in Workers \ {w} : task'[v] = task[v]
    BY <1>8 DEF Crash, TypeOK
  <2>2. task[w] # Idle /\ source' = source /\ rows' = rows /\ runs' = runs
    BY <1>8 DEF Crash
  <2>3. RunInv' /\ AddedInv'
    BY <2>1, <2>2, EndKeepsRuns DEF HealthInv
  <2> QED
    BY <2>2, <2>3 DEF HealthInv, FailingIsShown, CountersCover
<1> QED
  BY <1>1, <1>2, <1>3, <1>4, <1>5, <1>6, <1>7, <1>8
  DEF Next, vars, Tick, Schedule, RunSource, TaskStep, TaskSkip

-----------------------------------------------------------------------------
(* Theorems.                                                               *)

\* Every variable keeps its type, whatever overlaps; no message is a retry beyond MaxRetries.
THEOREM SourceRunsTyped == Spec => []TypeOK
<1>1. Init => TypeOK
  BY DEF Init, TypeOK, Source, Health, SourceStatus
<1>2. TypeOK /\ [Next]_vars => TypeOK'
  BY TypeStep
<1> QED
  BY <1>1, <1>2, PTL DEF Spec

\* What is inductive where no two runs of a source overlap.
THEOREM HealthInvariant == Spec /\ []NoOverlap => []HealthInv
<1>1. Init => HealthInv
  <2> SUFFICES ASSUME Init PROVE HealthInv
    OBVIOUS
  <2>1. FailingIsShown /\ RunInv /\ AddedInv
    BY DEF Init, FailingIsShown, RunInv, AddedInv, Idle
  <2>2. CountersCover /\ IsFiniteSet(rows)
    <3>1. \A s \in Sources : {r \in rows : r[1] = s} = {}
      BY DEF Init
    <3> QED
      BY <3>1, FS_EmptySet DEF Init, CountersCover
  <2> QED
    BY <2>1, <2>2 DEF HealthInv
<1>2. TypeOK /\ HealthInv /\ NoOverlap /\ [Next]_vars => HealthInv'
  BY HealthStep
<1> QED
  BY <1>1, <1>2, SourceRunsTyped, PTL DEF Spec

\* A source with a streak of FailingAfter failures is not shown as good, unless two of its runs
\* overlapped: crashes, rollbacks and administrators do not break it.
THEOREM StreakIsShown == Spec /\ []NoOverlap => []FailingIsShown
<1>1. HealthInv => FailingIsShown
  BY DEF HealthInv
<1> QED
  BY <1>1, HealthInvariant, PTL

\* The counters of a source never fall behind its runs and its jobs, unless two of its runs
\* overlapped.
THEOREM CountersNeverBehind == Spec /\ []NoOverlap => []CountersCover
<1>1. HealthInv => CountersCover
  BY DEF HealthInv
<1> QED
  BY <1>1, HealthInvariant, PTL
-----------------------------------------------------------------------------
(* The batch of a run.  The run that refutes BatchIsolated rolls back once, *)
(* and the SourceRun of the run goes with what it had flushed: a run whose  *)
(* row is still in the session has not, and commits all it persisted.       *)

\* What a run that has not rolled back persisted is a row, or is flushed and not committed.
BatchInv ==
  \A w \in Workers : task[w].phase = "persisting" /\ task[w].tracked =>
    \A p \in task[w].done : <<task[w].msg.source, p>> \in rows \/ p \in task[w].added

\* A run that has a row in source_runs at its end commits every posting it persisted.
RecordedBatchIsWhole ==
  [][\A w \in Workers :
       task[w].phase = "persisting" /\ Finish(w) /\ task[w].tracked =>
         \A p \in task[w].done : <<task[w].msg.source, p>> \in rows']_vars

\* No posting of the batch fails to persist in this step.
NoRollback == \A w \in Workers, p \in Postings : ~PersistFails(w, p)

\* All runs have the row they began with.
AllTracked == \A w \in Workers : task[w].phase = "persisting" => task[w].tracked

\* How a step changes a task that is persisting after it.
LEMMA PersistingStep ==
  ASSUME TypeOK, [Next]_vars, NEW w \in Workers, task'[w].phase = "persisting"
  PROVE  \/ task'[w] = task[w]
         \/ task'[w].tracked /\ task'[w].done = {}
         \/ \E p \in Postings :
              /\ task[w].phase = "persisting" /\ Persist(w, p)
              /\ task'[w].msg = task[w].msg /\ task[w].added \subseteq task'[w].added
              /\ task'[w].tracked = task[w].tracked /\ task'[w].done = task[w].done \union {p}
              /\ <<task[w].msg.source, p>> \in rows \/ p \in task'[w].added
         \/ ~task'[w].tracked /\ \E p \in Postings : PersistFails(w, p)
<1>1. CASE task'[w] = task[w]
  BY <1>1
<1>2. ASSUME task'[w] # task[w] PROVE TaskStep(w)
  <2>1. PICK v \in Workers : TaskStep(v)
    BY <1>2 DEF Next, vars, Tick, Schedule, RunSource, SetEnabled
  <2>2. v # w => task'[w] = task[w]
    BY <2>1 DEF TypeOK, TaskStep, TaskSkip, TaskStart, Unconfigured, FetchFailed, FetchDone,
                Persist, PersistFails, Finish, Crash
  <2> QED
    BY <1>2, <2>1, <2>2
<1>3. CASE FetchDone(w)
  BY <1>3 DEF FetchDone, TypeOK
<1>4. ASSUME NEW p \in Postings, Persist(w, p)
      PROVE  /\ task[w].phase = "persisting"
             /\ task'[w].msg = task[w].msg /\ task[w].added \subseteq task'[w].added
             /\ task'[w].tracked = task[w].tracked /\ task'[w].done = task[w].done \union {p}
             /\ <<task[w].msg.source, p>> \in rows \/ p \in task'[w].added
  <2>1. task[w].phase = "persisting"
    BY <1>4 DEF Persist
  <2> QED
    BY <1>4, <2>1, PersistWrites
<1>5. ASSUME NEW p \in Postings, PersistFails(w, p) PROVE ~task'[w].tracked
  BY <1>5, PersistFailsWrites
<1>6. ASSUME \/ \E m \in Message : TaskSkip(w, m) \/ TaskStart(w, m)
             \/ Unconfigured(w) \/ \E r \in BOOLEAN : FetchFailed(w, r)
             \/ Finish(w) \/ Crash(w)
      PROVE  task'[w] = task[w] \/ task'[w].phase # "persisting"
  BY <1>6 DEF TypeOK, TaskSkip, TaskStart, Unconfigured, FetchFailed, Finish, Crash, Idle
<1> QED
  BY <1>1, <1>2, <1>3, <1>4, <1>5, <1>6 DEF TaskStep

\* A row that is committed stays.
LEMMA RowsStay ==
  ASSUME [Next]_vars
  PROVE  rows \subseteq rows'
<1>1. rows' = rows \/ \E w \in Workers : Finish(w)
  <2>1. \/ UNCHANGED vars \/ Tick
        \/ \E s \in Sources : Schedule(s) \/ RunSource(s) \/ \E e \in BOOLEAN : SetEnabled(s, e)
        \/ \E w \in Workers : TaskStep(w)
    BY DEF Next
  <2>2. ASSUME NEW w \in Workers, TaskStep(w), ~Finish(w) PROVE rows' = rows
    BY <2>2 DEF TaskStep, TaskSkip, TaskStart, Unconfigured, FetchFailed, FetchDone, Persist,
                PersistFails, Crash
  <2> QED
    BY <2>1, <2>2 DEF vars, Tick, Schedule, RunSource, SetEnabled
<1> QED
  BY <1>1 DEF Finish

\* BatchInv is inductive; while nothing is rolled back, so is AllTracked.
LEMMA BatchStep ==
  ASSUME TypeOK, BatchInv, [Next]_vars
  PROVE  /\ BatchInv'
         /\ AllTracked /\ NoRollback => AllTracked'
<1>1. ASSUME NEW w \in Workers, task'[w].phase = "persisting", task'[w].tracked,
             NEW q \in task'[w].done
      PROVE  <<task'[w].msg.source, q>> \in rows' \/ q \in task'[w].added
  <2>1. rows \subseteq rows'
    BY RowsStay
  <2>2. CASE task'[w] = task[w]
    BY <1>1, <2>1, <2>2 DEF BatchInv
  <2>3. ASSUME NEW p \in Postings, task[w].phase = "persisting",
               task'[w].msg = task[w].msg, task[w].added \subseteq task'[w].added,
               task'[w].tracked = task[w].tracked, task'[w].done = task[w].done \union {p},
               <<task[w].msg.source, p>> \in rows \/ p \in task'[w].added
        PROVE  <<task'[w].msg.source, q>> \in rows' \/ q \in task'[w].added
    BY <1>1, <2>1, <2>3 DEF BatchInv
  <2> QED
    BY <1>1, <2>2, <2>3, PersistingStep
<1>2. BatchInv'
  BY <1>1 DEF BatchInv
<1>3. ASSUME AllTracked, NoRollback PROVE AllTracked'
  BY <1>3, PersistingStep DEF AllTracked, NoRollback
<1> QED
  BY <1>2, <1>3

\* Whatever fails in other runs, a run that still has its SourceRun commits all it persisted.
THEOREM RecordedBatch == Spec => RecordedBatchIsWhole
<1>1. Init => BatchInv
  BY DEF Init, BatchInv, Idle
<1>2. TypeOK /\ BatchInv /\ [Next]_vars => BatchInv'
  BY BatchStep
<1>3. TypeOK /\ BatchInv =>
        [\A w \in Workers :
           task[w].phase = "persisting" /\ Finish(w) /\ task[w].tracked =>
             \A p \in task[w].done : <<task[w].msg.source, p>> \in rows']_vars
  BY DEF BatchInv, Finish
<1> QED
  BY <1>1, <1>2, <1>3, SourceRunsTyped, PTL DEF Spec, RecordedBatchIsWhole

\* The batch of every run is whole as long as no posting fails to persist: the rollback of the
\* run's counterexample is the only way a persisted posting is lost at a commit.
THEOREM BatchWithoutRollback == Spec /\ [][NoRollback]_vars => BatchIsolated
<1>1. Init => BatchInv /\ AllTracked
  BY DEF Init, BatchInv, AllTracked, Idle
<1>2. TypeOK /\ BatchInv /\ AllTracked /\ [Next]_vars /\ [NoRollback]_vars =>
        BatchInv' /\ AllTracked'
  <2>1. UNCHANGED vars /\ BatchInv /\ AllTracked => BatchInv' /\ AllTracked'
    BY DEF vars, BatchInv, AllTracked
  <2> QED
    BY <2>1, BatchStep
<1>3. TypeOK /\ BatchInv /\ AllTracked =>
        [\A w \in Workers :
           task[w].phase = "persisting" /\ Finish(w) =>
             \A p \in task[w].done : <<task[w].msg.source, p>> \in rows']_vars
  BY DEF BatchInv, AllTracked, Finish
<1> QED
  BY <1>1, <1>2, <1>3, SourceRunsTyped, PTL DEF Spec, BatchIsolated
===============================================================================
